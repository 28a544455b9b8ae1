-------------------------- MODULE AnalyticsProofs --------------------------
(***************************************************************************)
(* Proofs about the analytics service: the rows its consumer adds events to *)
(* (AnalyticsDaily) and the advice it computes from rows (AnalyticsAdvice). *)
(***************************************************************************)
EXTENDS AnalyticsDaily, AnalyticsAdvice, RowTheorems, SequenceTheorems

-----------------------------------------------------------------------------
(* The advice of the analytics service.                                     *)

LEMMA GreatestOfThree ==
    ASSUME NEW x \in Int, NEW y \in Int, NEW z \in Int
    PROVE  Max({x, y, z}) \in Int /\ Max({x, y, z}) >= x
  <1>1. \E m \in {x, y, z} : \A w \in {x, y, z} : m >= w
    <2>1. CASE x >= y /\ x >= z
      BY <2>1
    <2>2. CASE y >= x /\ y >= z
      BY <2>2
    <2>3. CASE z >= x /\ z >= y
      BY <2>3
    <2> QED
      BY <2>1, <2>2, <2>3
  <1>2. Max({x, y, z}) \in {x, y, z} /\ \A w \in {x, y, z} : Max({x, y, z}) >= w
    BY <1>1 DEF Max
  <1> QED
    BY <1>2

LEMMA LeastOfTwo ==
    ASSUME NEW x \in Int, NEW y \in Int
    PROVE  /\ Min({x, y}) \in {x, y} /\ Min({x, y}) \in Int
           /\ Min({x, y}) <= x /\ Min({x, y}) <= y
  <1>1. \E m \in {x, y} : \A w \in {x, y} : m <= w
    <2>1. CASE x <= y
      BY <2>1
    <2>2. CASE y <= x
      BY <2>2
    <2> QED
      BY <2>1, <2>2
  <1>2. Min({x, y}) \in {x, y} /\ \A w \in {x, y} : Min({x, y}) <= w
    BY <1>1 DEF Min
  <1> QED
    BY <1>2

\* An order of the recommended size covers the demand until it arrives.
LEMMA ReorderIsEnough ==
    ASSUME NEW c \in [available : Int, min : Int, outbound : Nat]
    PROVE  c.available - CeilDiv(c.outbound * 7, 30) + RecommendedOrder(c) >= ReorderPoint(c)
  <1> DEFINE a == c.available
             lead == CeilDiv(c.outbound * 7, 30)
             safety == SafetyStock(c)
             point == ReorderPoint(c)
  <1>1. a \in Int /\ c.min \in Int /\ c.outbound \in Nat
    OBVIOUS
  <1>2. lead \in Nat /\ safety \in Nat
    BY <1>1 DEF CeilDiv, SafetyStock
  <1>4. targetStock(c) - c.available = (point * 2 + safety) - a
    BY DEF targetStock
  <1> HIDE DEF lead, safety
  <1>3. point \in Int /\ point >= lead + safety
    BY <1>1, <1>2 DEF ReorderPoint, lead, safety
  <1> HIDE DEF point
  <1>5. targetStock(c) - c.available \in Int
    BY <1>1, <1>2, <1>3, <1>4
  <1>6. RecommendedOrder(c) \in Int /\ RecommendedOrder(c) >= targetStock(c) - c.available
    <2> DEFINE x == targetStock(c) - c.available
               y == c.min
    <2>1. x \in Int /\ y \in Int /\ RecommendedOrder(c) = Max({x, y, 1})
      BY <1>1, <1>5 DEF RecommendedOrder
    <2> HIDE DEF x, y
    <2>2. Max({x, y, 1}) \in Int /\ Max({x, y, 1}) >= x
      BY <2>1, GreatestOfThree
    <2>3. RecommendedOrder(c) \in Int /\ RecommendedOrder(c) >= x
      BY <2>1, <2>2
    <2> QED
      BY <2>3 DEF x
  <1>7. a - lead + RecommendedOrder(c) >= point
    BY <1>1, <1>2, <1>3, <1>4, <1>6
  <1> QED
    BY <1>7 DEF lead, point

\* What a recommendation moves leaves its donor twice its threshold and brings
\* its acceptor no further than that.
LEMMA TransfersStayApart ==
    ASSUME NEW W, NEW stock \in [W -> [quantity : Int, min : Int]],
           NEW m, NEW price,
           NEW p \in GetRebalancingRecommendations(stock, m, price)
    PROVE  LET after == Transferred(stock, p)
           IN  /\ p.donor \notin Acceptors(after)
               /\ \A q \in GetRebalancingRecommendations(after, m, price) : q.donor # p.acceptor
  <1> DEFINE spare(s, w) == Greatest0(s[w].quantity - s[w].min * 2)
             lack(s, w)  == Greatest0(s[w].min * 2 - s[w].quantity)
  <1>1. \A s, r : r \in GetRebalancingRecommendations(s, m, price) =>
            \E d \in DOMAIN s, a \in Acceptors(s) :
               r = Pair(s, d, a, price) /\ r.donor # r.acceptor /\ r.qty > 0
    BY DEF GetRebalancingRecommendations, Ranked, Donors
  <1>2. PICK d \in DOMAIN stock, a \in Acceptors(stock) :
            p = Pair(stock, d, a, price) /\ p.donor # p.acceptor /\ p.qty > 0
    BY <1>1
  <1>3. /\ d \in W /\ a \in W /\ d # a /\ p.donor = d /\ p.acceptor = a
        /\ p.qty = Min({spare(stock, d), lack(stock, a)}) /\ p.qty > 0
    BY <1>2 DEF Pair, TransferQty, Acceptors
  <1>4. /\ stock[d].quantity \in Int /\ stock[d].min \in Int
        /\ stock[a].quantity \in Int /\ stock[a].min \in Int /\ stock[a].min > 0
    BY <1>2, <1>3 DEF Acceptors
  <1>5. p.qty \in Int /\ p.qty <= spare(stock, d) /\ p.qty <= lack(stock, a)
    <2>1. spare(stock, d) \in Int /\ lack(stock, a) \in Int
      BY <1>4 DEF Greatest0
    <2> HIDE DEF spare, lack
    <2> QED
      BY <1>3, <2>1, LeastOfTwo
  <1>6. /\ stock[d].quantity - p.qty >= stock[d].min * 2
        /\ stock[a].quantity + p.qty <= stock[a].min * 2
    BY <1>3, <1>4, <1>5 DEF Greatest0
  <1> DEFINE after == Transferred(stock, p)
  <1>7. /\ after \in [W -> [quantity : Int, min : Int]]
        /\ after[d].quantity = stock[d].quantity - p.qty /\ after[d].min = stock[d].min
        /\ after[a].quantity = stock[a].quantity + p.qty /\ after[a].min = stock[a].min
    <2>1. after = [stock EXCEPT ![d].quantity = @ - p.qty, ![a].quantity = @ + p.qty]
      BY <1>3 DEF Transferred
    <2> DEFINE left == [stock[d] EXCEPT !.quantity = @ - p.qty]
               got  == [stock[a] EXCEPT !.quantity = @ + p.qty]
    <2>2. /\ left \in [quantity : Int, min : Int] /\ got \in [quantity : Int, min : Int]
          /\ left.quantity = stock[d].quantity - p.qty /\ left.min = stock[d].min
          /\ got.quantity = stock[a].quantity + p.qty /\ got.min = stock[a].min
      BY <1>3, <1>4, <1>5
    <2>3. after = [stock EXCEPT ![d] = left, ![a] = got]
      BY <1>3, <2>1
    <2> HIDE DEF left, got, after
    <2>4. after \in [W -> [quantity : Int, min : Int]] /\ after[d] = left /\ after[a] = got
      BY <1>3, <2>2, <2>3
    <2> QED
      BY <2>2, <2>4
  <1> HIDE DEF after
  <1>8. d \notin Acceptors(after)
    <2> SUFFICES ASSUME d \in Acceptors(after) PROVE FALSE
      OBVIOUS
    <2>1. after[d].min > 0 /\ after[d].quantity < after[d].min
      BY DEF Acceptors
    <2> QED
      BY <1>4, <1>5, <1>6, <1>7, <2>1
  <1>9. ASSUME NEW q \in GetRebalancingRecommendations(after, m, price), q.donor = a PROVE FALSE
    <2>1. PICK e \in DOMAIN after, b \in Acceptors(after) :
              q = Pair(after, e, b, price) /\ q.qty > 0
      BY <1>1
    <2>2. e = a /\ b \in W /\ q.qty = Min({spare(after, a), lack(after, b)})
      BY <1>7, <1>9, <2>1 DEF Pair, TransferQty, Acceptors
    <2>3. after[b].quantity \in Int /\ after[b].min \in Int
      BY <1>7, <2>2
    <2>4. spare(after, a) = 0 /\ lack(after, b) \in Int
      BY <1>4, <1>5, <1>6, <1>7, <2>3 DEF Greatest0
    <2> HIDE DEF spare, lack
    <2>5. spare(after, a) \in Int
      BY <2>4
    <2>6. q.qty \in Int /\ q.qty <= spare(after, a)
      BY <2>2, <2>4, <2>5, LeastOfTwo
    <2> QED
      BY <2>1, <2>4, <2>6
  <1> QED
    BY <1>3, <1>8, <1>9 DEF after

\* The questions that can be asked.
AdviceInv ==
    /\ AdviceTypeOK
    /\ question.kind = "reorder" => question.row \in [available : Int, min : Int, outbound : Nat]
    /\ question.kind = "rebalancing" =>
           question.stock \in [Warehouse -> [quantity : Int, min : Int]]
    /\ question.kind = "anomalies" => \E n \in Nat : question.revenues \in [1..n -> Nat]
    /\ question.kind = "forecast" =>
           question.steady \in Nat \ {0} /\ question.days \in 7..MaxHistory /\ question.ahead \in 1..MaxHorizon

\* Every window of days is a list of what they earned.
LEMMA WindowsAreLists == \A w \in Windows : \E n \in Nat : w \in [1..n -> Nat]
  <1> TAKE w \in Windows
  <1>1. (\E n \in 2..MaxDays : w \in [1..n -> Revenues])
        \/ (\E n \in (MaxDays + 1)..MaxLong : w \in [1..n -> Extremes])
    <2> DEFINE P == {[1..n -> Revenues] : n \in 2..MaxDays}
               Q == {[1..n -> Extremes] : n \in (MaxDays + 1)..MaxLong}
    <2>1. \A t \in P : \E n \in 2..MaxDays : t = [1..n -> Revenues]
      OBVIOUS
    <2>2. \A t \in Q : \E n \in (MaxDays + 1)..MaxLong : t = [1..n -> Extremes]
      OBVIOUS
    <2>5. Windows = (UNION P) \cup (UNION Q)
      BY DEF Windows
    <2> HIDE DEF P, Q
    <2>3. w \in (UNION P) \cup (UNION Q)
      BY <2>5
    <2>4. (\E t \in P : w \in t) \/ (\E t \in Q : w \in t)
      BY <2>3
    <2> QED
      BY <2>1, <2>2, <2>4
  <1>2. \E n : n \in Nat /\ w \in [1..n -> Revenues]
    BY <1>1, AdviceAssumption DEF Extremes
  <1> QED
    BY <1>2, AdviceAssumption

LEMMA AdviceInvariant == AdviceSpec => []AdviceInv
  <1>1. AdviceInit => AdviceInv
    BY DEF AdviceInit, AdviceInv, AdviceTypeOK, NoQuestion
  <1>2. ASSUME AdviceInv, AdviceNext PROVE AdviceInv'
    <2>1. CASE AskAnomalies
      <3>1. PICK w \in Windows : question' = [kind |-> "anomalies", revenues |-> w]
        BY <2>1 DEF AskAnomalies
      <3>2. \E n \in Nat : w \in [1..n -> Nat]
        BY WindowsAreLists
      <3> QED
        BY <3>1, <3>2 DEF AdviceInv, AdviceTypeOK
    <2>4. CASE AskForecast
      <3>1. PICK v \in Demands, n \in 7..MaxHistory, i \in 1..MaxHorizon :
                question' = [kind |-> "forecast", steady |-> v, days |-> n, ahead |-> i]
        BY <2>4 DEF AskForecast
      <3>2. v \in Nat \ {0}
        BY AdviceAssumption
      <3> QED
        BY <3>1, <3>2 DEF AdviceInv, AdviceTypeOK
    <2>2. CASE AskReorder
      <3>1. PICK q \in Quantities, m \in Minimums, out \in 0..MaxOutbound :
                question' = [kind |-> "reorder",
                             row |-> [available |-> q, min |-> m, outbound |-> out]]
        BY <2>2 DEF AskReorder
      <3>2. q \in Int /\ m \in Int /\ out \in Nat
        BY AdviceAssumption
      <3> QED
        BY <3>1, <3>2 DEF AdviceInv, AdviceTypeOK
    <2>3. CASE AskRebalancing
      <3>1. PICK stock \in [Warehouse -> [quantity : Quantities, min : Minimums]],
                 m \in Multipliers, price \in Prices :
                question' = [kind |-> "rebalancing", stock |-> stock, multiplier |-> m,
                             price |-> price]
        BY <2>3 DEF AskRebalancing
      <3>2. stock \in [Warehouse -> [quantity : Int, min : Int]]
        BY AdviceAssumption
      <3> QED
        BY <3>1, <3>2 DEF AdviceInv, AdviceTypeOK
    <2> QED
      BY <1>2, <2>1, <2>2, <2>3, <2>4 DEF AdviceNext
  <1>3. ASSUME AdviceInv, UNCHANGED question PROVE AdviceInv'
    BY <1>3 DEF AdviceInv, AdviceTypeOK
  <1> QED
    BY <1>1, <1>2, <1>3, PTL DEF AdviceSpec

\* For any quantities, thresholds, demands, prices and multipliers: an order of
\* the size GetOptimizations recommends brings the stock back to the reorder
\* point, and nothing GetRebalancingRecommendations moves is recommended back.
THEOREM AdviceIsSound == AdviceSpec => [](AdviceTypeOK /\ ReorderLasts /\ NothingSentBack)
  <1>1. AdviceInv => ReorderLasts
    <2> SUFFICES ASSUME AdviceInv, question.kind = "reorder" PROVE ReorderLasts
      BY DEF ReorderLasts
    <2>1. question.row \in [available : Int, min : Int, outbound : Nat]
      BY DEF AdviceInv
    <2>2. question.row.available - CeilDiv(question.row.outbound * 7, 30)
              + RecommendedOrder(question.row) >= ReorderPoint(question.row)
      BY <2>1, ReorderIsEnough
    <2>3. RunsOutIn(question.row, 7) => Urgency(question.row) = "critical"
      BY DEF Urgency
    <2> QED
      BY <2>2, <2>3 DEF ReorderLasts, GetOptimizations
  <1>2. AdviceInv => NothingSentBack
    <2> SUFFICES ASSUME AdviceInv, question.kind = "rebalancing",
                        NEW p \in GetRebalancingRecommendations(question.stock,
                                      question.multiplier, question.price)
                 PROVE  LET after == Transferred(question.stock, p)
                        IN  /\ p.donor \notin Acceptors(after)
                            /\ \A q \in GetRebalancingRecommendations(after,
                                            question.multiplier, question.price) :
                                   q.donor # p.acceptor
      BY DEF NothingSentBack
    <2>1. question.stock \in [Warehouse -> [quantity : Int, min : Int]]
      BY DEF AdviceInv
    <2> QED
      BY <2>1, TransfersStayApart
  <1>3. AdviceInv => AdviceTypeOK
    BY DEF AdviceInv
  <1> QED
    BY <1>1, <1>2, <1>3, AdviceInvariant, PTL

-----------------------------------------------------------------------------
(* The rows of the analytics service.                                       *)

\* The replicas about to publish analytics.aggregate_updated for a subject.
Publishing(j) == {k \in Replica : handler[k][j].at = "publish"}

\* An event is counted before it is passed on, once for each time.
ToldHolds(j) == aggregates[j] + Cardinality(Publishing(j)) <= counted[j]

\* The inductive invariant of the analytics service's consumer.
DailyInv ==
    /\ DailyTypeOK
    /\ \A k \in Replica, j \in Consumed : handler[k][j].at = "upsert" => j \in Counting
    /\ \A j \in Counting : ToldHolds(j)
    /\ FiguresMatch

LEMMA RoundedIsNat == ASSUME NEW x \in Nat, NEW y \in Nat, y > 0 PROVE Rounded(x, y) \in Nat
  <1>1. \A a \in Nat, b \in Nat : b > 0 => a \div b \in Nat
    OBVIOUS
  <1>2. 2 * x + y \in Nat /\ 2 * y \in Nat /\ 2 * y > 0
    OBVIOUS
  <1> QED
    BY <1>1, <1>2 DEF Rounded

\* A handler that goes on to publish is one more, one that stops to one less.
LEMMA PublishingFinite ==
    /\ IsFiniteSet(Publishing(OrderCreated)) /\ \A j : IsFiniteSet(Publishing(j))
    /\ \A j : Cardinality(Publishing(j)) \in Nat
  <1>1. \A j : Publishing(j) \in SUBSET Replica
    BY DEF Publishing
  <1> QED
    BY <1>1, DailyAssumption, FS_Subset, FS_CardinalityType

\* A step that changes one replica's handlers of one subject, or none.
LEMMA ToldKept ==
    ASSUME DailyInv, NEW j \in Counting, counted'[j] >= counted[j], counted'[j] \in Nat,
           aggregates'[j] = aggregates[j],
           Publishing(j)' \subseteq Publishing(j)
    PROVE  ToldHolds(j)'
  <1>1. /\ IsFiniteSet(Publishing(j)) /\ Cardinality(Publishing(j)) \in Nat
        /\ Publishing(j)' \in SUBSET Publishing(j)
    BY PublishingFinite
  <1>2. /\ Cardinality(Publishing(j)') \in Nat
        /\ Cardinality(Publishing(j)') <= Cardinality(Publishing(j))
    BY <1>1, FS_Subset, FS_CardinalityType
  <1>3. aggregates[j] \in Nat /\ counted[j] \in Nat /\ ToldHolds(j)
    BY DEF DailyInv, DailyTypeOK, Counting, Consumed
  <1>4. aggregates[j] + Cardinality(Publishing(j)') <= counted'[j]
    BY <1>1, <1>2, <1>3 DEF ToldHolds
  <1> QED
    BY <1>4 DEF ToldHolds

\* What the handler of one event may be at.
Handling == [at : {"idle", "upsert", "publish"}, amount : Nat]

LEMMA HandlerTypes == DailyTypeOK => handler \in [Replica -> [Consumed -> Handling]]
  BY DEF DailyTypeOK, Handling

\* A step of one handler that leaves the rows alone and does not begin to publish.
LEMMA HandlerInv ==
    ASSUME DailyInv, NEW k \in Replica, NEW j \in Consumed,
           NEW w \in Handling,
           handler' = [handler EXCEPT ![k][j] = w],
           w.at = "upsert" => j \in Counting,
           w.at = "publish" => j \notin Counting,
           UNCHANGED <<today, sales, shipping, counted, earned, aggregates, scan>>,
           created' \in [Consumed -> [Day -> 0..MaxCreated]]
    PROVE  DailyInv'
  <1>0. DailyTypeOK
    BY DEF DailyInv
  <1>1. /\ handler' \in [Replica -> [Consumed -> Handling]]
        /\ handler'[k][j] = w
        /\ \A l \in Replica, i \in Consumed : l # k \/ i # j => handler'[l][i] = handler[l][i]
    <2>1. handler \in [Replica -> [Consumed -> Handling]]
      BY <1>0, HandlerTypes
    <2> QED
      BY <2>1
  <1>2. DailyTypeOK'
    BY <1>1 DEF DailyInv, DailyTypeOK, Handling
  <1>3. \A l \in Replica, i \in Consumed : handler'[l][i].at = "upsert" => i \in Counting
    BY <1>1 DEF DailyInv
  <1>4. ASSUME NEW i \in Counting PROVE ToldHolds(i)'
    <2>1. i \in Consumed /\ counted'[i] \in Nat /\ counted'[i] >= counted[i]
      BY DEF DailyInv, DailyTypeOK, Consumed
    <2>2. Publishing(i)' \subseteq Publishing(i)
      BY <1>1, <2>1 DEF Publishing
    <2> QED
      BY <2>1, <2>2, ToldKept
  <1>5. FiguresMatch'
    BY DEF DailyInv, FiguresMatch
  <1> QED
    BY <1>2, <1>3, <1>4, <1>5 DEF DailyInv

\* A step that leaves the handlers, the rows and their histories alone.
LEMMA RowsStill ==
    ASSUME DailyInv,
           UNCHANGED <<sales, shipping, handler, counted, earned, aggregates>>,
           today' \in Day, scan'.at \in {"none", "sales", "done"},
           created' \in [Consumed -> [Day -> 0..MaxCreated]]
    PROVE  DailyInv'
  <1>1. DailyTypeOK'
    BY DEF DailyInv, DailyTypeOK
  <1>2. \A i \in Counting : ToldHolds(i)'
    BY DEF DailyInv, ToldHolds, Publishing
  <1>3. FiguresMatch'
    BY DEF DailyInv, FiguresMatch
  <1>4. \A k \in Replica, j \in Consumed : handler'[k][j].at = "upsert" => j \in Counting
    BY DEF DailyInv
  <1> QED
    BY <1>1, <1>2, <1>3, <1>4 DEF DailyInv

LEMMA HappensIs ==
    ASSUME DailyInv, NEW j \in Consumed, Happens(j)
    PROVE  /\ created' \in [Consumed -> [Day -> 0..MaxCreated]]
           /\ UNCHANGED <<today, sales, shipping, counted, earned, aggregates, scan>>
  BY DailyAssumption DEF DailyInv, DailyTypeOK, Happens

LEMMA EventsInv ==
    ASSUME DailyInv, NEW j \in Consumed,
           \/ Missed(j)
           \/ \E k \in Replica :
                 \/ \E amount \in IF j = OrderCreated THEN Amounts ELSE {0} : Take(k, j, amount)
                 \/ UpsertFails(k, j)
    PROVE  DailyInv'
  <1>0. today \in Day /\ scan.at \in {"none", "sales", "done"}
        /\ created \in [Consumed -> [Day -> 0..MaxCreated]]
    BY DEF DailyInv, DailyTypeOK
  <1>1. CASE Missed(j)
    BY <1>0, <1>1, HappensIs, RowsStill DEF Missed
  <1>2. ASSUME NEW k \in Replica, NEW amount \in IF j = OrderCreated THEN Amounts ELSE {0},
               Take(k, j, amount)
        PROVE  DailyInv'
    <2> DEFINE w == [at |-> IF j \in Counting THEN "upsert" ELSE "publish", amount |-> amount]
    <2>1. amount \in Nat
      BY DailyAssumption
    <2>2. w \in Handling
          /\ (w.at = "upsert" => j \in Counting) /\ (w.at = "publish" => j \notin Counting)
      BY <2>1 DEF Handling
    <2>3. handler' = [handler EXCEPT ![k][j] = w] /\ Happens(j)
      BY <1>2 DEF Take
    <2> HIDE DEF w
    <2> QED
      BY <2>2, <2>3, HappensIs, HandlerInv
  <1>3. ASSUME NEW k \in Replica, UpsertFails(k, j) PROVE DailyInv'
    <2>1. Waiting \in Handling /\ Waiting.at = "idle"
      BY DEF Waiting, Handling
    <2>2. /\ handler' = [handler EXCEPT ![k][j] = Waiting]
          /\ UNCHANGED <<today, sales, shipping, created, counted, earned, aggregates, scan>>
      BY <1>3 DEF UpsertFails, AfterUpsert
    <2> QED
      BY <1>0, <2>1, <2>2, HandlerInv
  <1> QED
    BY <1>1, <1>2, <1>3

\* The rows an upsert can leave behind.
LEMMA SalesRowIs ==
    ASSUME NEW row_ \in [orders : Nat, revenue : Nat, avg : Nat], NEW amount \in Nat
    PROVE  LET new == incrSalesDaily(row_, amount)
           IN  /\ new \in [orders : Nat, revenue : Nat, avg : Nat]
               /\ new.orders > 1 => new.avg = Rounded(new.revenue, new.orders)
  <1>1. CASE row_.orders = 0
    BY <1>1 DEF incrSalesDaily
  <1>2. CASE row_.orders # 0
    <2>1. /\ row_.orders + 1 \in Nat /\ row_.orders + 1 > 0 /\ row_.revenue + amount \in Nat
      OBVIOUS
    <2>2. Rounded(row_.revenue + amount, row_.orders + 1) \in Nat
      BY <2>1, RoundedIsNat
    <2> QED
      BY <1>2, <2>1, <2>2 DEF incrSalesDaily
  <1> QED
    BY <1>1, <1>2

LEMMA ShippingRowIs ==
    ASSUME NEW r \in [shipments : Nat, delivered : Nat, failed : Nat, rate : 0..(RateCap - 1)],
           NEW j \in Counting, j # OrderCreated, incrLogisticsDaily(r, j).rate < RateCap
    PROVE  LET new == incrLogisticsDaily(r, j)
           IN  /\ new \in [shipments : Nat, delivered : Nat, failed : Nat,
                           rate : 0..(RateCap - 1)]
               /\ new.shipments + new.delivered + new.failed > 1 /\ new.shipments > 0
                  => new.rate = Rounded(10000 * new.delivered, new.shipments)
  <1> DEFINE new == incrLogisticsDaily(r, j)
  <1>1. Delta(j) \in {<<1, 0, 0>>, <<0, 1, 0>>, <<0, 0, 1>>}
    BY DEF Counting, Delta, OrderCreated
  <1>2. PICK x \in Nat, y \in Nat, z \in Nat : Delta(j) = <<x, y, z>> /\ x + y + z = 1
    BY <1>1
  <1>3. /\ r.shipments \in Nat /\ r.delivered \in Nat /\ r.failed \in Nat
        /\ RateCap \in Nat
    BY DailyAssumption
  <1> DEFINE s == r.shipments + x
             d == r.delivered + y
             f == r.failed + z
  <1>4. new = [shipments |-> s, delivered |-> d, failed |-> f,
               rate |-> IF r = NoShipping \/ s = 0 THEN 0 ELSE Rounded(10000 * d, s)]
    BY <1>2 DEF incrLogisticsDaily
  <1>5. s \in Nat /\ d \in Nat /\ f \in Nat
    BY <1>2, <1>3
  <1>6. new.rate \in Nat
    <2>1. CASE r = NoShipping \/ s = 0
      BY <1>4, <2>1
    <2>2. CASE ~(r = NoShipping \/ s = 0)
      <3>1. 10000 * d \in Nat /\ s > 0
        BY <1>5, <2>2
      <3> HIDE DEF s, d
      <3>2. Rounded(10000 * d, s) \in Nat
        BY <1>5, <3>1, RoundedIsNat
      <3> QED
        BY <1>4, <2>2, <3>2
    <2> QED
      BY <2>1, <2>2
  <1>7. r = NoShipping => s + d + f = 1
    BY <1>2, <1>3 DEF NoShipping
  <1>8. new.rate \in 0..(RateCap - 1)
    BY <1>3, <1>6
  <1> HIDE DEF s, d, f
  <1>9. new \in [shipments : Nat, delivered : Nat, failed : Nat, rate : 0..(RateCap - 1)]
    BY <1>4, <1>5, <1>8
  <1>10. s + d + f > 1 /\ s > 0 => new.rate = Rounded(10000 * d, s)
    BY <1>4, <1>5, <1>7
  <1> QED
    BY <1>4, <1>9, <1>10

LEMMA UpsertInv ==
    ASSUME DailyInv, NEW k \in Replica, NEW j \in Consumed, NEW heard \in BOOLEAN,
           Upsert(k, j, heard)
    PROVE  DailyInv'
  <1> DEFINE w == IF heard THEN [Waiting EXCEPT !.at = "publish"] ELSE Waiting
  <1>0. DailyTypeOK /\ j \in Counting
    <2>1. handler[k][j].at = "upsert"
      BY DEF Upsert
    <2> QED
      BY <2>1 DEF DailyInv
  <1>1. w \in Handling /\ w.at \in {"idle", "publish"}
    BY DEF Waiting, Handling
  <1>2. /\ handler' = [handler EXCEPT ![k][j] = w] /\ handler[k][j].at = "upsert"
        /\ counted' = [counted EXCEPT ![j] = @ + 1]
        /\ UNCHANGED <<today, created, aggregates, scan>>
    BY DEF Upsert, AfterUpsert
  <1> HIDE DEF w
  <1>3. /\ handler' \in [Replica -> [Consumed -> Handling]] /\ handler'[k][j] = w
        /\ \A l \in Replica, i \in Consumed : l # k \/ i # j => handler'[l][i] = handler[l][i]
    <2>1. handler \in [Replica -> [Consumed -> Handling]]
      BY <1>0, HandlerTypes
    <2> QED
      BY <2>1, <1>1, <1>2
  <1>4. /\ counted \in [Consumed -> Nat] /\ counted' \in [Consumed -> Nat]
        /\ counted'[j] = counted[j] + 1
        /\ \A i \in Consumed \ {j} : counted'[i] = counted[i]
    BY <1>0, <1>2 DEF DailyTypeOK
  <1>5. /\ today \in Day /\ handler[k][j] \in Handling /\ handler[k][j].amount \in Nat
        /\ sales \in [Day -> [orders : Nat, revenue : Nat, avg : Nat]]
        /\ shipping \in [Day -> [shipments : Nat, delivered : Nat, failed : Nat,
                                 rate : 0..(RateCap - 1)]]
        /\ earned \in Nat
    BY <1>0 DEF DailyTypeOK, Handling
  <1>6. /\ sales' \in [Day -> [orders : Nat, revenue : Nat, avg : Nat]] /\ earned' \in Nat
        /\ shipping' \in [Day -> [shipments : Nat, delivered : Nat, failed : Nat,
                                  rate : 0..(RateCap - 1)]]
        /\ FiguresMatch'
    <2>1. CASE j = OrderCreated
      <3> DEFINE new == incrSalesDaily(sales[today], handler[k][j].amount)
      <3>1. /\ sales' = [sales EXCEPT ![today] = new] /\ shipping' = shipping
            /\ earned' = earned + handler[k][j].amount
        BY <2>1 DEF Upsert
      <3>2. /\ new \in [orders : Nat, revenue : Nat, avg : Nat]
            /\ new.orders > 1 => new.avg = Rounded(new.revenue, new.orders)
        BY <1>5, SalesRowIs
      <3> HIDE DEF new
      <3>3. /\ sales' \in [Day -> [orders : Nat, revenue : Nat, avg : Nat]]
            /\ sales'[today] = new /\ \A d \in Day \ {today} : sales'[d] = sales[d]
        BY <1>5, <3>1, <3>2
      <3>4. FiguresMatch'
        BY <3>1, <3>2, <3>3 DEF DailyInv, FiguresMatch
      <3> QED
        BY <1>5, <3>1, <3>3, <3>4
    <2>2. CASE j # OrderCreated
      <3> DEFINE new == incrLogisticsDaily(shipping[today], j)
      <3>1. /\ shipping' = [shipping EXCEPT ![today] = new] /\ new.rate < RateCap
            /\ sales' = sales /\ earned' = earned
        BY <2>2 DEF Upsert
      <3>2. /\ new \in [shipments : Nat, delivered : Nat, failed : Nat, rate : 0..(RateCap - 1)]
            /\ new.shipments + new.delivered + new.failed > 1 /\ new.shipments > 0
               => new.rate = Rounded(10000 * new.delivered, new.shipments)
        BY <1>0, <1>5, <2>2, <3>1, ShippingRowIs
      <3> HIDE DEF new
      <3>3. /\ shipping' \in [Day -> [shipments : Nat, delivered : Nat, failed : Nat,
                                      rate : 0..(RateCap - 1)]]
            /\ shipping'[today] = new /\ \A d \in Day \ {today} : shipping'[d] = shipping[d]
        BY <1>5, <3>1, <3>2
      <3>4. FiguresMatch'
        BY <3>1, <3>2, <3>3 DEF DailyInv, FiguresMatch
      <3> QED
        BY <1>5, <3>1, <3>3, <3>4
    <2> QED
      BY <2>1, <2>2
  <1>7. DailyTypeOK'
    BY <1>0, <1>2, <1>3, <1>4, <1>6 DEF DailyTypeOK, Handling
  <1>8. \A l \in Replica, i \in Consumed : handler'[l][i].at = "upsert" => i \in Counting
    BY <1>0, <1>1, <1>3 DEF DailyInv
  <1>9. ASSUME NEW i \in Counting PROVE ToldHolds(i)'
    <2>0. i \in Consumed
      BY DEF Consumed
    <2>1. CASE i # j
      <3>1. Publishing(i)' \subseteq Publishing(i)
        BY <1>3, <2>0, <2>1 DEF Publishing
      <3>2. counted'[i] \in Nat /\ counted'[i] >= counted[i] /\ aggregates'[i] = aggregates[i]
        BY <1>2, <1>4, <2>0, <2>1
      <3> QED
        BY <3>1, <3>2, ToldKept
    <2>2. CASE i = j
      <3>1. Publishing(j)' \subseteq Publishing(j) \cup {k}
        BY <1>3 DEF Publishing
      <3>2. /\ IsFiniteSet(Publishing(j)) /\ Cardinality(Publishing(j)) \in Nat
        BY PublishingFinite
      <3>3. /\ IsFiniteSet(Publishing(j) \cup {k})
            /\ Cardinality(Publishing(j) \cup {k}) <= Cardinality(Publishing(j)) + 1
        <4> DEFINE P == Publishing(j)
        <4>1. IsFiniteSet(P) /\ Cardinality(P) \in Nat
          BY <3>2
        <4> HIDE DEF P
        <4>2. /\ IsFiniteSet(P \cup {k})
              /\ Cardinality(P \cup {k}) = Cardinality(P) \/ Cardinality(P \cup {k}) = Cardinality(P) + 1
          BY <4>1, FS_AddElement
        <4>3. IsFiniteSet(P \cup {k}) /\ Cardinality(P \cup {k}) <= Cardinality(P) + 1
          BY <4>1, <4>2
        <4> QED
          BY <4>3 DEF P
      <3>4. /\ Publishing(j)' \in SUBSET (Publishing(j) \cup {k})
        BY <3>1
      <3>5. /\ Cardinality(Publishing(j)') \in Nat
            /\ Cardinality(Publishing(j)') <= Cardinality(Publishing(j) \cup {k})
        BY <3>3, <3>4, FS_Subset, FS_CardinalityType
      <3>6. aggregates[j] \in Nat /\ counted[j] \in Nat /\ ToldHolds(j)
        BY <1>0 DEF DailyInv, DailyTypeOK
      <3>7. Cardinality(Publishing(j) \cup {k}) \in Nat
        BY <3>3, FS_CardinalityType
      <3>8. aggregates[j] + Cardinality(Publishing(j)') <= counted'[j]
        BY <1>4, <3>2, <3>3, <3>5, <3>6, <3>7 DEF ToldHolds
      <3> QED
        BY <1>2, <2>2, <3>8 DEF ToldHolds
    <2> QED
      BY <2>1, <2>2
  <1> QED
    BY <1>6, <1>7, <1>8, <1>9 DEF DailyInv

LEMMA publishAggregateInv ==
    ASSUME DailyInv, NEW k \in Replica, NEW j \in Consumed, NEW heard \in BOOLEAN,
           publishAggregate(k, j, heard)
    PROVE  DailyInv'
  <1>0. DailyTypeOK
    BY DEF DailyInv
  <1>1. Waiting \in Handling /\ Waiting.at = "idle"
    BY DEF Waiting, Handling
  <1>2. /\ handler' = [handler EXCEPT ![k][j] = Waiting] /\ handler[k][j].at = "publish"
        /\ aggregates' = [aggregates EXCEPT ![j] = IF heard THEN @ + 1 ELSE @]
        /\ UNCHANGED <<today, sales, shipping, created, counted, earned, scan>>
    BY DEF publishAggregate
  <1>3. /\ handler' \in [Replica -> [Consumed -> Handling]]
        /\ handler'[k][j] = Waiting
        /\ \A l \in Replica, i \in Consumed : l # k \/ i # j => handler'[l][i] = handler[l][i]
    <2>1. handler \in [Replica -> [Consumed -> Handling]]
      BY <1>0, HandlerTypes
    <2> QED
      BY <2>1, <1>1, <1>2
  <1>4. /\ aggregates \in [Consumed -> Nat] /\ aggregates' \in [Consumed -> Nat]
        /\ aggregates'[j] \in {aggregates[j], aggregates[j] + 1}
        /\ \A i \in Consumed \ {j} : aggregates'[i] = aggregates[i]
    BY <1>0, <1>2 DEF DailyTypeOK
  <1>5. DailyTypeOK'
    BY <1>0, <1>2, <1>3, <1>4 DEF DailyTypeOK, Handling
  <1>6. \A l \in Replica, i \in Consumed : handler'[l][i].at = "upsert" => i \in Counting
    BY <1>1, <1>3 DEF DailyInv
  <1>7. ASSUME NEW i \in Counting PROVE ToldHolds(i)'
    <2>0. i \in Consumed /\ counted[i] \in Nat /\ aggregates[i] \in Nat /\ ToldHolds(i)
      BY DEF Consumed, DailyInv, DailyTypeOK
    <2>1. CASE i # j
      <3>1. Publishing(i)' \subseteq Publishing(i)
        BY <1>3, <2>0, <2>1 DEF Publishing
      <3>2. counted'[i] \in Nat /\ counted'[i] >= counted[i] /\ aggregates'[i] = aggregates[i]
        BY <1>2, <1>4, <2>0, <2>1
      <3> QED
        BY <3>1, <3>2, ToldKept
    <2>2. CASE i = j
      <3>1. k \in Publishing(j) /\ Publishing(j)' = Publishing(j) \ {k}
        BY <1>1, <1>2, <1>3 DEF Publishing
      <3>2. IsFiniteSet(Publishing(j)) /\ Cardinality(Publishing(j)) \in Nat
        BY PublishingFinite
      <3>3. Cardinality(Publishing(j)') = Cardinality(Publishing(j)) - 1
        BY <3>1, <3>2, FS_RemoveElement
      <3>4. aggregates'[j] + Cardinality(Publishing(j)') <= counted[j]
        BY <1>4, <2>0, <2>2, <3>2, <3>3 DEF ToldHolds
      <3> QED
        BY <1>2, <2>2, <3>4 DEF ToldHolds
    <2> QED
      BY <2>1, <2>2
  <1>8. FiguresMatch'
    BY <1>2 DEF DailyInv, FiguresMatch
  <1> QED
    BY <1>5, <1>6, <1>7, <1>8 DEF DailyInv

LEMMA RestartAnalyticsInv ==
    ASSUME DailyInv, NEW k \in Replica, RestartAnalytics(k) PROVE DailyInv'
  <1>1. /\ handler' = [handler EXCEPT ![k] = [j \in Consumed |-> Waiting]]
        /\ UNCHANGED <<today, sales, shipping, created, counted, earned, aggregates, scan>>
    BY DEF RestartAnalytics
  <1>2. Waiting \in Handling /\ Waiting.at = "idle"
    BY DEF Waiting, Handling
  <1>3. /\ handler' \in [Replica -> [Consumed -> Handling]]
        /\ \A l \in Replica, i \in Consumed :
               handler'[l][i] = handler[l][i] \/ handler'[l][i] = Waiting
    BY <1>1, <1>2 DEF DailyInv, DailyTypeOK, Handling
  <1>4. DailyTypeOK'
    BY <1>1, <1>3 DEF DailyInv, DailyTypeOK, Handling
  <1>5. \A l \in Replica, i \in Consumed : handler'[l][i].at = "upsert" => i \in Counting
    BY <1>2, <1>3 DEF DailyInv
  <1>6. ASSUME NEW i \in Counting PROVE ToldHolds(i)'
    <2>1. i \in Consumed /\ counted'[i] \in Nat /\ counted'[i] >= counted[i]
      BY <1>1 DEF DailyInv, DailyTypeOK, Consumed
    <2>2. Publishing(i)' \subseteq Publishing(i)
      BY <1>2, <1>3, <2>1 DEF Publishing
    <2> QED
      BY <1>1, <2>1, <2>2, ToldKept
  <1>7. FiguresMatch'
    BY <1>1 DEF DailyInv, FiguresMatch
  <1> QED
    BY <1>4, <1>5, <1>6, <1>7 DEF DailyInv

LEMMA DailyInitInv == DailyInit => DailyInv
  <1> SUFFICES ASSUME DailyInit PROVE DailyInv
    OBVIOUS
  <1>1. /\ sales = [d \in Day |-> NoSales] /\ shipping = [d \in Day |-> NoShipping]
        /\ handler = [k \in Replica |-> [j \in Consumed |-> Waiting]]
        /\ counted = [j \in Consumed |-> 0] /\ aggregates = [j \in Consumed |-> 0]
    BY DEF DailyInit
  <1>2. /\ NoSales \in [orders : Nat, revenue : Nat, avg : Nat] /\ NoSales.orders = 0
        /\ NoShipping \in [shipments : Nat, delivered : Nat, failed : Nat,
                           rate : 0..(RateCap - 1)]
        /\ NoShipping.shipments = 0
    BY DailyAssumption DEF NoSales, NoShipping
  <1>3. Waiting \in Handling /\ Waiting.at = "idle"
    BY DEF Waiting, Handling
  <1>4. today = 1 /\ 1 \in Day /\ earned = 0 /\ scan.at = "none"
        /\ created \in [Consumed -> [Day -> 0..MaxCreated]]
    BY DailyAssumption DEF DailyInit, Day
  <1>5. DailyTypeOK
    BY <1>1, <1>2, <1>3, <1>4 DEF DailyTypeOK, Handling
  <1>6. \A j \in Counting : ToldHolds(j)
    <2> TAKE j \in Counting
    <2>1. Publishing(j) = {}
      BY <1>1, <1>3 DEF Publishing, Consumed
    <2>2. Cardinality(Publishing(j)) = 0
      BY <2>1, FS_EmptySet
    <2>3. aggregates[j] = 0 /\ counted[j] = 0
      BY <1>1 DEF Consumed
    <2> QED
      BY <2>2, <2>3 DEF ToldHolds
  <1>7. FiguresMatch
    BY <1>1, <1>2 DEF FiguresMatch
  <1>8. \A k \in Replica, j \in Consumed : handler[k][j].at # "upsert"
    BY <1>1, <1>3
  <1> QED
    BY <1>5, <1>6, <1>7, <1>8 DEF DailyInv

LEMMA DailyInvariant == DailySpec => []DailyInv
  <1>0. ASSUME DailyInv
        PROVE  today \in Day /\ scan.at \in {"none", "sales", "done"}
               /\ created \in [Consumed -> [Day -> 0..MaxCreated]]
    BY <1>0 DEF DailyInv, DailyTypeOK
  <1>1. ASSUME DailyInv, UNCHANGED dailyVars PROVE DailyInv'
    BY <1>0, <1>1, RowsStill DEF dailyVars
  <1>2. ASSUME DailyInv, DailyNext PROVE DailyInv'
    <2>1. CASE Midnight
      <3>1. today' \in Day
        BY <1>0, <1>2, <2>1, DailyAssumption DEF Midnight, Day
      <3> QED
        BY <1>0, <1>2, <2>1, <3>1, RowsStill DEF Midnight
    <2>2. ASSUME NEW from \in Day, NEW to \in Day, ScanSales(from, to) PROVE DailyInv'
      <3>1. scan'.at = "sales"
            /\ UNCHANGED <<today, sales, shipping, handler, created, counted, earned, aggregates>>
        BY <2>2 DEF ScanSales
      <3> QED
        BY <1>0, <1>2, <3>1, RowsStill
    <2>3. CASE ScanLogistics
      <3>1. scan'.at = "done"
            /\ UNCHANGED <<today, sales, shipping, handler, created, counted, earned, aggregates>>
        BY <2>3 DEF ScanLogistics
      <3> QED
        BY <1>0, <1>2, <3>1, RowsStill
    <2> QED
      BY <1>2, <2>1, <2>2, <2>3, EventsInv, UpsertInv, publishAggregateInv, RestartAnalyticsInv
         DEF DailyNext
  <1> QED
    BY <1>1, <1>2, DailyInitInv, PTL DEF DailySpec

\* For any replicas and amounts: the rows keep their types, an
\* analytics.aggregate_updated follows the upsert it tells of, and the average
\* and the rate of a day are those of its counters from its second event on.
THEOREM DailyFiguresMatch == DailySpec => [](DailyTypeOK /\ ToldAfterwards /\ FiguresMatch)
  <1>1. DailyInv => DailyTypeOK /\ FiguresMatch
    BY DEF DailyInv
  <1>2. DailyInv => ToldAfterwards
    <2> SUFFICES ASSUME DailyInv, NEW j \in Counting PROVE aggregates[j] <= counted[j]
      BY DEF ToldAfterwards
    <2>1. aggregates[j] \in Nat /\ counted[j] \in Nat /\ ToldHolds(j)
      BY DEF DailyInv, DailyTypeOK, Consumed
    <2>2. Cardinality(Publishing(j)) \in Nat
      BY PublishingFinite
    <2> QED
      BY <2>1, <2>2 DEF ToldHolds
  <1> QED
    BY <1>1, <1>2, DailyInvariant, PTL

-----------------------------------------------------------------------------
(* What the rows of all days add up to.                                     *)

LEMMA SumOfIs == ASSUME NEW s PROVE SumOf(s) = SumOver(s, DOMAIN s)
  BY DEF SumOf, FoldFunction, FoldFunctionOnSet, MapThenFoldSet, SumOver, Adds, Pick

\* The days of a window can be listed by date.
LEMMA DatesListed ==
    ASSUME NEW E, IsFiniteSet(E), E \subseteq Int
    PROVE  Lists(ByDate(E), 1..Cardinality(E), E)
  <1> DEFINE q == ByDate(E)
             n == Cardinality(E)
             own == [x \in E |-> x]
  <1>1. own \in [E -> Int] /\ \A s, t \in E : own[s] = own[t] => s = t
    OBVIOUS
  <1>2. /\ q \in SetToSeqs(E)
        /\ \A i, j \in DOMAIN q : i < j => own[q[i]] < own[q[j]]
    <2>1. \A r \in SetToSeqs(E) : \A i \in DOMAIN r : own[r[i]] = r[i]
      BY DEF SetToSeqs
    <2>2. \E r \in SetToSeqs(E) : \A i, j \in DOMAIN r : i < j => own[r[i]] < own[r[j]]
      <3> HIDE DEF own
      <3> QED
        BY <1>1, SortedListExists
    <2> HIDE DEF own
    <2>3. \E r \in SetToSeqs(E) : \A i, j \in DOMAIN r : i < j => r[i] < r[j]
      BY <2>1, <2>2
    <2>4. q \in SetToSeqs(E) /\ \A i, j \in DOMAIN q : i < j => q[i] < q[j]
      BY <2>3 DEF ByDate
    <2> QED
      BY <2>1, <2>4
  <1> HIDE DEF q, n, own
  <1>3. q \in [1..n -> E] /\ \A i, j \in 1..n : q[i] = q[j] => i = j
    BY <1>2 DEF SetToSeqs, n
  <1>4. q \in Injection(1..n, E) /\ n \in Nat /\ 1 \in Int
    BY <1>3, Fun_IsInj, FS_CardinalityType DEF n
  <1>5. IsFiniteSet(1..n) /\ Cardinality(1..n) = n
    BY <1>4, FS_Interval
  <1>6. q \in Surjection(1..n, E)
    BY <1>4, <1>5, FS_Injection DEF n
  <1>7. \A x \in E : \E i \in 1..n : q[i] = x
    BY <1>6 DEF Surjection
  <1> QED
    BY <1>3, <1>7 DEF Lists, q, n

\* The rows of a window list each of its days once, so adding along them is
\* adding over the days.
LEMMA RowsAddUp ==
    ASSUME NEW E, IsFiniteSet(E), NEW q, Lists(q, 1..Cardinality(E), E),
           NEW c, \A x \in E : c[x] \in Int, NEW e,
           DOMAIN e = DOMAIN q, \A i \in DOMAIN q : e[i] = c[q[i]]
    PROVE  SumOf(e) = SumOver(c, E)
  <1> DEFINE n == Cardinality(E)
             I == 1..n
  <1>1. n \in Nat /\ 1 \in Int
    BY FS_CardinalityType
  <1>2. DOMAIN q = I
    BY DEF Lists
  <1> HIDE DEF n
  <1>3. IsFiniteSet(I)
    BY <1>1, FS_Interval
  <1>4. Lists(q, I, E) /\ DOMAIN e = I /\ \A i \in I : e[i] = c[q[i]]
    BY <1>2 DEF n
  <1> HIDE DEF I
  <1>5. SumOver(e, I) = SumOver(c, E)
    BY <1>3, <1>4, SumAlong
  <1> QED
    BY <1>4, <1>5, SumOfIs

Orders    == [x \in Day |-> sales[x].orders]
Revenue   == [x \in Day |-> sales[x].revenue]
Shipments == [x \in Day |-> shipping[x].shipments]
Delivered == [x \in Day |-> shipping[x].delivered]
Failed    == [x \in Day |-> shipping[x].failed]

\* The days up to one of them.
LEMMA DaysUpTo ==
    ASSUME NEW d \in Day
    PROVE  /\ IsFiniteSet(1..d) /\ 1..d \subseteq Day /\ 1..d \subseteq Int /\ d \in Nat
           /\ IsFiniteSet(Day) /\ Day = 1..MaxDay /\ MaxDay \in Day
  <1>1. 1 \in Int /\ MaxDay \in Int /\ d \in Int /\ 1 <= d /\ d <= MaxDay
    BY DailyAssumption DEF Day
  <1>2. IsFiniteSet(1..d) /\ IsFiniteSet(1..MaxDay)
    BY <1>1, FS_Interval
  <1> QED
    BY <1>1, <1>2 DEF Day

LEMMA RowTypes ==
    ASSUME DailyTypeOK
    PROVE  /\ \A x \in Day : /\ sales[x].orders \in Nat /\ sales[x].revenue \in Nat
                             /\ Orders[x] = sales[x].orders /\ Revenue[x] = sales[x].revenue
           /\ \A x \in Day : /\ shipping[x].shipments \in Nat /\ shipping[x].delivered \in Nat
                             /\ shipping[x].failed \in Nat
                             /\ Shipments[x] = shipping[x].shipments
                             /\ Delivered[x] = shipping[x].delivered
                             /\ Failed[x] = shipping[x].failed
           /\ \A x \in Day : created[OrderCreated][x] \in Nat
  <1>1. OrderCreated \in Consumed
    BY DEF Consumed, Counting
  <1>2. \A x \in Day : created[OrderCreated][x] \in Nat
    BY <1>1, DailyAssumption DEF DailyTypeOK
  <1> QED
    BY <1>2 DEF DailyTypeOK, Orders, Revenue, Shipments, Delivered, Failed

\* The summary of the days up to d.
LEMMA SalesUpTo ==
    ASSUME DailyTypeOK, NEW d \in Day
    PROVE  Sales(d) = [orderCount   |-> SumOver(Orders, 1..d),
                       totalRevenue |-> SumOver(Revenue, 1..d)]
  <1> DEFINE E == {x \in 1..d : sales[x] # NoSales}
             q == ByDate(E)
             rows == GetSalesDaily(1, d)
             os == [i \in DOMAIN rows |-> rows[i].orders]
             rs == [i \in DOMAIN rows |-> rows[i].revenue]
  <1>1. IsFiniteSet(1..d) /\ 1..d \subseteq Day /\ E \in SUBSET (1..d) /\ 1..d \subseteq Int
    BY DaysUpTo
  <1>2. IsFiniteSet(E) /\ E \subseteq Int
    BY <1>1, FS_Subset
  <1>3. \A x \in 1..d : Orders[x] \in Int /\ Revenue[x] \in Int
    BY <1>1, RowTypes
  <1>4. \A x \in (1..d) \ E : Orders[x] = 0 /\ Revenue[x] = 0
    BY <1>1, RowTypes DEF NoSales
  <1>5. /\ DOMAIN rows = DOMAIN q
        /\ \A i \in DOMAIN q : rows[i].orders = sales[q[i]].orders
                               /\ rows[i].revenue = sales[q[i]].revenue
    BY DEF GetSalesDaily
  <1>6. Lists(q, 1..Cardinality(E), E) /\ \A i \in DOMAIN q : q[i] \in Day
    <2>1. Lists(q, 1..Cardinality(E), E)
      BY <1>2, DatesListed
    <2>2. q \in [1..Cardinality(E) -> E]
      BY <2>1 DEF Lists
    <2> QED
      BY <1>1, <2>1, <2>2
  <1> HIDE DEF E, rows
  <1> HIDE DEF q
  <1>7. /\ DOMAIN os = DOMAIN q /\ \A i \in DOMAIN q : os[i] = Orders[q[i]]
        /\ DOMAIN rs = DOMAIN q /\ \A i \in DOMAIN q : rs[i] = Revenue[q[i]]
    BY <1>5, <1>6, RowTypes
  <1>8. Sales(d) = [orderCount |-> SumOf(os), totalRevenue |-> SumOf(rs)]
    BY DEF Sales, GetSalesSummary, rows
  <1> HIDE DEF os, rs
  <1>9. SumOf(os) = SumOver(Orders, E) /\ SumOf(rs) = SumOver(Revenue, E)
    <2>1. IsFiniteSet(E) /\ Lists(q, 1..Cardinality(E), E)
          /\ \A x \in E : Orders[x] \in Int /\ Revenue[x] \in Int
      BY <1>1, <1>2, <1>3, <1>6
    <2>2. SumOf(os) = SumOver(Orders, E)
      BY <2>1, <1>7, RowsAddUp
    <2>3. SumOf(rs) = SumOver(Revenue, E)
      BY <2>1, <1>7, RowsAddUp
    <2> QED
      BY <2>2, <2>3
  <1>10. /\ SumOver(Orders, E) = SumOver(Orders, 1..d)
         /\ SumOver(Revenue, E) = SumOver(Revenue, 1..d)
    BY <1>1, <1>3, <1>4, SumWithout
  <1> QED
    BY <1>8, <1>9, <1>10

\* The performance over all days.
LEMMA ShippingInAll ==
    ASSUME DailyTypeOK
    PROVE  LET p == GetLogisticsPerformance(GetLogisticsDaily(1, MaxDay))
           IN  /\ p.totalShipments = SumOver(Shipments, Day)
               /\ p.deliveredCount = SumOver(Delivered, Day)
               /\ p.failedCount    = SumOver(Failed, Day)
  <1> DEFINE E == {x \in 1..MaxDay : shipping[x] # NoShipping}
             q == ByDate(E)
             rows == GetLogisticsDaily(1, MaxDay)
             ss == [i \in DOMAIN rows |-> rows[i].shipments]
             ds == [i \in DOMAIN rows |-> rows[i].delivered]
             fs == [i \in DOMAIN rows |-> rows[i].failed]
  <1>1. IsFiniteSet(Day) /\ E \in SUBSET Day /\ Day \subseteq Int /\ Day = 1..MaxDay
    BY DaysUpTo DEF DailyTypeOK
  <1>2. IsFiniteSet(E) /\ E \subseteq Int
    BY <1>1, FS_Subset
  <1>3. \A x \in Day : Shipments[x] \in Int /\ Delivered[x] \in Int /\ Failed[x] \in Int
    BY RowTypes
  <1>4. \A x \in Day \ E : Shipments[x] = 0 /\ Delivered[x] = 0 /\ Failed[x] = 0
    BY <1>1, RowTypes DEF NoShipping
  <1>5. /\ DOMAIN rows = DOMAIN q
        /\ \A i \in DOMAIN q : /\ rows[i].shipments = shipping[q[i]].shipments
                               /\ rows[i].delivered = shipping[q[i]].delivered
                               /\ rows[i].failed = shipping[q[i]].failed
    BY DEF GetLogisticsDaily
  <1>6. Lists(q, 1..Cardinality(E), E) /\ \A i \in DOMAIN q : q[i] \in Day
    <2>1. Lists(q, 1..Cardinality(E), E)
      BY <1>2, DatesListed
    <2>2. q \in [1..Cardinality(E) -> E]
      BY <2>1 DEF Lists
    <2> QED
      BY <1>1, <2>1, <2>2
  <1> HIDE DEF E, rows, q
  <1>7. /\ DOMAIN ss = DOMAIN q /\ \A i \in DOMAIN q : ss[i] = Shipments[q[i]]
        /\ DOMAIN ds = DOMAIN q /\ \A i \in DOMAIN q : ds[i] = Delivered[q[i]]
        /\ DOMAIN fs = DOMAIN q /\ \A i \in DOMAIN q : fs[i] = Failed[q[i]]
    BY <1>5, <1>6, RowTypes
  <1>8. LET p == GetLogisticsPerformance(rows)
        IN  p.totalShipments = SumOf(ss) /\ p.deliveredCount = SumOf(ds)
            /\ p.failedCount = SumOf(fs)
    BY DEF GetLogisticsPerformance
  <1> HIDE DEF ss, ds, fs
  <1>9. /\ SumOf(ss) = SumOver(Shipments, E) /\ SumOf(ds) = SumOver(Delivered, E)
        /\ SumOf(fs) = SumOver(Failed, E)
    <2>1. IsFiniteSet(E) /\ Lists(q, 1..Cardinality(E), E)
          /\ \A x \in E : Shipments[x] \in Int /\ Delivered[x] \in Int /\ Failed[x] \in Int
      BY <1>1, <1>2, <1>3, <1>6
    <2>2. SumOf(ss) = SumOver(Shipments, E)
      BY <2>1, <1>7, RowsAddUp
    <2>3. SumOf(ds) = SumOver(Delivered, E)
      BY <2>1, <1>7, RowsAddUp
    <2>4. SumOf(fs) = SumOver(Failed, E)
      BY <2>1, <1>7, RowsAddUp
    <2> QED
      BY <2>2, <2>3, <2>4
  <1>10. /\ SumOver(Shipments, E) = SumOver(Shipments, Day)
         /\ SumOver(Delivered, E) = SumOver(Delivered, Day)
         /\ SumOver(Failed, E) = SumOver(Failed, Day)
    <2>1. SumOver(Shipments, E) = SumOver(Shipments, Day)
      BY <1>1, <1>3, <1>4, SumWithout
    <2>2. SumOver(Delivered, E) = SumOver(Delivered, Day)
      BY <1>1, <1>3, <1>4, SumWithout
    <2>3. SumOver(Failed, E) = SumOver(Failed, Day)
      BY <1>1, <1>3, <1>4, SumWithout
    <2> QED
      BY <2>1, <2>2, <2>3
  <1> QED
    BY <1>8, <1>9, <1>10 DEF rows

\* The replicas that have taken an order they have not added to a row.
Adding == {k \in Replica : handler[k][OrderCreated].at = "upsert"}

\* What is still to be added to the rows of the days up to d, which lie behind
\* once today is past d.
ToAdd(d) == IF today <= d THEN Cardinality(Adding) ELSE 0

\* No order is in the rows of the days up to d before it was created.
NotAhead(d) == SumOver(Orders, 1..d) + ToAdd(d) <= SumOver(created[OrderCreated], 1..d)

\* What the rows of all days add up to: with DailyInv, inductive.  A row without
\* orders has no revenue, which the first upsert of a day relies on.
TotalsInv ==
    /\ SumOver(Orders, Day) = counted[OrderCreated]
    /\ SumOver(Revenue, Day) = earned
    /\ SumOver(Shipments, Day) = counted["logistics.shipment_created"]
    /\ SumOver(Delivered, Day) = counted["logistics.shipment_delivered"]
    /\ SumOver(Failed, Day) = counted["logistics.shipment_returned"]
    /\ \A d \in Day : sales[d].orders = 0 => sales[d].revenue = 0
    /\ \A d \in Day : NotAhead(d)

\* Counters of days of which only today's changes.
LEMMA TodayChanges ==
    ASSUME NEW now \in Day, NEW d \in Day, NEW c, NEW e,
           \A x \in Day : c[x] \in Nat /\ e[x] \in Nat,
           \A x \in Day : x # now => e[x] = c[x]
    PROVE  /\ SumOver(c, 1..d) \in Nat /\ SumOver(e, 1..d) \in Nat
           /\ now <= d => SumOver(e, 1..d) = SumOver(c, 1..d) + (e[now] - c[now])
           /\ d < now => SumOver(e, 1..d) = SumOver(c, 1..d)
  <1> DEFINE U == 1..d
  <1>1. /\ IsFiniteSet(U) /\ now \in Nat /\ d \in Nat /\ now >= 1
        /\ \A x \in U : c[x] \in Nat /\ e[x] \in Nat
        /\ now <= d => now \in U /\ \A x \in U \ {now} : e[x] = c[x]
        /\ d < now => \A x \in U : c[x] = e[x]
    BY DaysUpTo, DailyAssumption DEF Day
  <1>2. \A x \in U : c[x] \in Int /\ e[x] \in Int
    BY <1>1
  <1> HIDE DEF U
  <1>3. SumOver(c, U) \in Nat /\ SumOver(e, U) \in Nat
    BY <1>1, SumIsNat
  <1>4. ASSUME now <= d PROVE SumOver(e, U) = SumOver(c, U) + (e[now] - c[now])
    BY <1>1, <1>2, <1>4, SumChanges
  <1>5. ASSUME d < now PROVE SumOver(e, U) = SumOver(c, U)
    BY <1>1, <1>5, SumSame
  <1> QED
    BY <1>3, <1>4, <1>5 DEF U

\* Over all days.
LEMMA TotalChanges ==
    ASSUME NEW now \in Day, NEW c, NEW e, \A x \in Day : c[x] \in Nat /\ e[x] \in Nat,
           \A x \in Day : x # now => e[x] = c[x]
    PROVE  /\ SumOver(c, Day) \in Nat /\ SumOver(e, Day) \in Nat
           /\ SumOver(e, Day) = SumOver(c, Day) + (e[now] - c[now])
  <1>1. MaxDay \in Day /\ Day = 1..MaxDay /\ now <= MaxDay
    BY DaysUpTo, DailyAssumption DEF Day
  <1>2. ASSUME NEW d \in Day
        PROVE  /\ SumOver(c, 1..d) \in Nat /\ SumOver(e, 1..d) \in Nat
               /\ now <= d => SumOver(e, 1..d) = SumOver(c, 1..d) + (e[now] - c[now])
    BY TodayChanges
  <1>3. /\ SumOver(c, 1..MaxDay) \in Nat /\ SumOver(e, 1..MaxDay) \in Nat
        /\ SumOver(e, 1..MaxDay) = SumOver(c, 1..MaxDay) + (e[now] - c[now])
    BY <1>1, <1>2
  <1> QED
    BY <1>1, <1>3

LEMMA AddingFinite ==
    /\ IsFiniteSet(Adding) /\ Adding \in SUBSET Replica /\ Cardinality(Adding) \in Nat
  <1>1. Adding \in SUBSET Replica
    BY DEF Adding
  <1> QED
    BY <1>1, DailyAssumption, FS_Subset, FS_CardinalityType

LEMMA AddingFiniteNext == Cardinality(Adding') \in Nat /\ IsFiniteSet(Adding')
  <1>1. Adding' \in SUBSET Replica
    BY DEF Adding
  <1> QED
    BY <1>1, DailyAssumption, FS_Subset, FS_CardinalityType

LEMMA UpToTypes ==
    ASSUME DailyTypeOK, NEW d \in Day
    PROVE  /\ SumOver(Orders, 1..d) \in Nat /\ SumOver(created[OrderCreated], 1..d) \in Nat
           /\ ToAdd(d) \in Nat /\ d \in Nat
  <1> DEFINE U == 1..d
  <1>1. IsFiniteSet(U) /\ U \subseteq Day /\ d \in Nat
    BY DaysUpTo
  <1>2. \A x \in U : Orders[x] \in Nat /\ created[OrderCreated][x] \in Nat
    BY <1>1, RowTypes
  <1>3. ToAdd(d) \in Nat
    BY AddingFinite DEF ToAdd
  <1> HIDE DEF U
  <1>4. SumOver(Orders, U) \in Nat /\ SumOver(created[OrderCreated], U) \in Nat
    BY <1>1, <1>2, SumIsNat
  <1> QED
    BY <1>1, <1>3, <1>4 DEF U

\* A step that creates and counts nothing.
LEMMA TotalsStill ==
    ASSUME DailyTypeOK, TotalsInv, today' \in Day, today' >= today,
           UNCHANGED <<sales, shipping, counted, earned, created>>, Adding' \subseteq Adding
    PROVE  TotalsInv'
  <1>1. /\ Orders' = Orders /\ Revenue' = Revenue /\ Shipments' = Shipments
        /\ Delivered' = Delivered /\ Failed' = Failed
    BY DEF Orders, Revenue, Shipments, Delivered, Failed
  <1>2. /\ Cardinality(Adding') \in Nat /\ Cardinality(Adding) \in Nat
        /\ Cardinality(Adding') <= Cardinality(Adding)
    BY AddingFinite, FS_Subset, FS_CardinalityType
  <1>3. ASSUME NEW d \in Day PROVE NotAhead(d)'
    <2>1. /\ SumOver(Orders, 1..d) \in Nat /\ SumOver(created[OrderCreated], 1..d) \in Nat
          /\ ToAdd(d) \in Nat /\ d \in Nat /\ today \in Nat /\ today' \in Nat
      BY UpToTypes, DailyAssumption DEF DailyTypeOK, Day
    <2>2. ToAdd(d)' \in Nat /\ ToAdd(d)' <= ToAdd(d)
      BY <1>2, <2>1 DEF ToAdd
    <2>3. NotAhead(d)
      BY DEF TotalsInv
    <2>4. SumOver(Orders, 1..d) + ToAdd(d)' <= SumOver(created[OrderCreated], 1..d)
      BY <2>1, <2>2, <2>3 DEF NotAhead
    <2> QED
      BY <1>1, <2>4 DEF NotAhead
  <1> QED
    BY <1>1, <1>3 DEF TotalsInv

\* An event is created; when it is an order, a replica may have taken it.
LEMMA TotalsHappen ==
    ASSUME DailyTypeOK, DailyTypeOK', TotalsInv, NEW j \in Consumed, Happens(j),
           Cardinality(Adding') <= Cardinality(Adding) + (IF j = OrderCreated THEN 1 ELSE 0)
    PROVE  TotalsInv'
  <1>0. /\ UNCHANGED <<today, sales, shipping, counted, earned>> /\ today \in Day
        /\ created' = [created EXCEPT ![j][today] = @ + 1]
    BY DEF Happens, DailyTypeOK
  <1>1. /\ Orders' = Orders /\ Revenue' = Revenue /\ Shipments' = Shipments
        /\ Delivered' = Delivered /\ Failed' = Failed
    BY <1>0 DEF Orders, Revenue, Shipments, Delivered, Failed
  <1>4. Cardinality(Adding') \in Nat /\ Cardinality(Adding) \in Nat
    BY AddingFinite, AddingFiniteNext
  <1>2. CASE j # OrderCreated
    <2>1. created'[OrderCreated] = created[OrderCreated]
      BY <1>0, <1>2 DEF DailyTypeOK, Consumed, Counting
    <2>2. /\ Cardinality(Adding') \in Nat /\ Cardinality(Adding) \in Nat
          /\ Cardinality(Adding') <= Cardinality(Adding)
      BY <1>2, <1>4
    <2>3. ASSUME NEW d \in Day PROVE NotAhead(d)'
      <3>1. /\ SumOver(Orders, 1..d) \in Nat /\ SumOver(created[OrderCreated], 1..d) \in Nat
            /\ ToAdd(d) \in Nat
        BY UpToTypes
      <3>2. ToAdd(d)' \in Nat /\ ToAdd(d)' <= ToAdd(d)
        BY <1>0, <2>2 DEF ToAdd
      <3>3. NotAhead(d)
        BY DEF TotalsInv
      <3>4. SumOver(Orders, 1..d) + ToAdd(d)' <= SumOver(created[OrderCreated], 1..d)
        BY <3>1, <3>2, <3>3 DEF NotAhead
      <3> QED
        BY <1>1, <2>1, <3>4 DEF NotAhead
    <2> QED
      BY <1>0, <1>1, <2>3 DEF TotalsInv
  <1>3. CASE j = OrderCreated
    <2> DEFINE c == created[OrderCreated]
               e == created'[OrderCreated]
    <2>1. /\ \A x \in Day : c[x] \in Nat /\ e[x] \in Nat
          /\ \A x \in Day : x # today => e[x] = c[x]
          /\ e[today] = c[today] + 1
      BY <1>0, <1>3, DailyAssumption DEF DailyTypeOK
    <2> HIDE DEF c, e
    <2>3. /\ Cardinality(Adding') \in Nat /\ Cardinality(Adding) \in Nat
          /\ Cardinality(Adding') <= Cardinality(Adding) + 1
      BY <1>3, <1>4
    <2>4. ASSUME NEW d \in Day PROVE NotAhead(d)'
      <3>1. /\ SumOver(Orders, 1..d) \in Nat /\ SumOver(c, 1..d) \in Nat
            /\ ToAdd(d) \in Nat /\ d \in Nat /\ today \in Nat
        BY <1>0, UpToTypes, DailyAssumption DEF c, Day
      <3>2. /\ today <= d => SumOver(e, 1..d) = SumOver(c, 1..d) + (e[today] - c[today])
            /\ d < today => SumOver(e, 1..d) = SumOver(c, 1..d)
            /\ SumOver(e, 1..d) \in Nat
        <4>1. ASSUME NEW now \in Day, \A x \in Day : x # now => e[x] = c[x]
              PROVE  /\ SumOver(e, 1..d) \in Nat
                     /\ now <= d => SumOver(e, 1..d) = SumOver(c, 1..d) + (e[now] - c[now])
                     /\ d < now => SumOver(e, 1..d) = SumOver(c, 1..d)
          BY <2>1, <4>1, TodayChanges
        <4> QED
          BY <1>0, <2>1, <4>1
      <3>3. SumOver(Orders, 1..d) + ToAdd(d) <= SumOver(c, 1..d)
        BY DEF TotalsInv, NotAhead, c
      <3>4. /\ today <= d => ToAdd(d)' = Cardinality(Adding') /\ ToAdd(d) = Cardinality(Adding)
            /\ d < today => ToAdd(d)' = 0 /\ ToAdd(d) = 0
        BY <1>0, <3>1 DEF ToAdd
      <3>5. e[today] - c[today] = 1
        BY <1>0, <2>1
      <3>6. SumOver(Orders, 1..d) + ToAdd(d)' <= SumOver(e, 1..d)
        <4>1. CASE today <= d
          BY <2>3, <3>1, <3>2, <3>3, <3>4, <3>5, <4>1
        <4>2. CASE d < today
          BY <3>1, <3>2, <3>3, <3>4, <4>2
        <4> QED
          BY <3>1, <4>1, <4>2
      <3> QED
        BY <1>1, <3>6 DEF NotAhead, e
    <2> QED
      BY <1>0, <1>1, <2>4 DEF TotalsInv
  <1> QED
    BY <1>2, <1>3

\* What one upsert adds to its row.
LEMMA SalesRowGrows ==
    ASSUME NEW r \in [orders : Nat, revenue : Nat, avg : Nat], NEW amount \in Nat,
           r.orders = 0 => r.revenue = 0
    PROVE  /\ incrSalesDaily(r, amount).orders = r.orders + 1
           /\ incrSalesDaily(r, amount).revenue = r.revenue + amount
  BY DEF incrSalesDaily

LEMMA ShippingRowGrows ==
    ASSUME NEW r \in [shipments : Nat, delivered : Nat, failed : Nat, rate : Nat],
           NEW j \in Counting \ {OrderCreated}
    PROVE  LET new == incrLogisticsDaily(r, j)
               one(i) == IF j = i THEN 1 ELSE 0
           IN  /\ new.shipments = r.shipments + one("logistics.shipment_created")
               /\ new.delivered = r.delivered + one("logistics.shipment_delivered")
               /\ new.failed = r.failed + one("logistics.shipment_returned")
  <1>1. CASE j = "logistics.shipment_created"
    BY <1>1 DEF incrLogisticsDaily, Delta
  <1>2. CASE j = "logistics.shipment_delivered"
    BY <1>2 DEF incrLogisticsDaily, Delta
  <1>3. CASE j = "logistics.shipment_returned"
    BY <1>3 DEF incrLogisticsDaily, Delta
  <1> QED
    BY <1>1, <1>2, <1>3 DEF Counting

\* An order is added to today's row, and its replica has one less to add.
LEMMA TotalsOrderAdded ==
    ASSUME DailyInv, DailyTypeOK', TotalsInv, NEW k \in Replica, NEW heard \in BOOLEAN,
           Upsert(k, OrderCreated, heard)
    PROVE  TotalsInv'
  <1> DEFINE amount == handler[k][OrderCreated].amount
             new == incrSalesDaily(sales[today], amount)
  <1>0. DailyTypeOK
    BY DEF DailyInv
  <1>1. /\ handler[k][OrderCreated].at = "upsert" /\ sales' = [sales EXCEPT ![today] = new]
        /\ earned' = earned + amount /\ shipping' = shipping
        /\ counted' = [counted EXCEPT ![OrderCreated] = @ + 1]
        /\ today' = today /\ created' = created
    BY DEF Upsert
  <1>2. /\ today \in Day /\ amount \in Nat /\ earned \in Nat
        /\ sales \in [Day -> [orders : Nat, revenue : Nat, avg : Nat]]
        /\ sales[today].orders = 0 => sales[today].revenue = 0
    <2>1. OrderCreated \in Consumed
      BY DEF Consumed, Counting
    <2> QED
      BY <1>0, <2>1 DEF DailyTypeOK, TotalsInv
  <1>3. /\ new.orders = sales[today].orders + 1 /\ new.revenue = sales[today].revenue + amount
        /\ sales[today].orders \in Nat /\ sales[today].revenue \in Nat
    BY <1>2, SalesRowGrows
  <1> HIDE DEF amount, new
  <1>4. /\ sales'[today] = new /\ \A x \in Day : x # today => sales'[x] = sales[x]
    BY <1>1, <1>2
  <1>5. /\ \A x \in Day : Orders[x] \in Nat /\ Orders'[x] \in Nat
        /\ \A x \in Day : Revenue[x] \in Nat /\ Revenue'[x] \in Nat
        /\ \A x \in Day : x # today => Orders'[x] = Orders[x]
        /\ \A x \in Day : x # today => Revenue'[x] = Revenue[x]
        /\ Orders'[today] - Orders[today] = 1 /\ Revenue'[today] - Revenue[today] = amount
    BY <1>2, <1>3, <1>4 DEF Orders, Revenue
  <1>6. Shipments' = Shipments /\ Delivered' = Delivered /\ Failed' = Failed
    BY <1>1 DEF Shipments, Delivered, Failed
  <1>7. /\ counted'[OrderCreated] = counted[OrderCreated] + 1
        /\ \A i \in Counting \ {OrderCreated} : counted'[i] = counted[i]
    BY <1>0, <1>1 DEF DailyTypeOK, Consumed, Counting
  <1>8. /\ SumOver(Orders', Day) = SumOver(Orders, Day) + (Orders'[today] - Orders[today])
        /\ SumOver(Revenue', Day) = SumOver(Revenue, Day) + (Revenue'[today] - Revenue[today])
    BY <1>2, <1>5, TotalChanges
  <1>9. /\ SumOver(Orders', Day) = counted'[OrderCreated] /\ SumOver(Revenue', Day) = earned'
        /\ SumOver(Shipments', Day) = counted'["logistics.shipment_created"]
        /\ SumOver(Delivered', Day) = counted'["logistics.shipment_delivered"]
        /\ SumOver(Failed', Day) = counted'["logistics.shipment_returned"]
    <2>1. {"logistics.shipment_created", "logistics.shipment_delivered",
           "logistics.shipment_returned"} \subseteq Counting \ {OrderCreated}
      BY DEF Counting, OrderCreated
    <2> QED
      BY <1>1, <1>5, <1>6, <1>7, <1>8, <2>1 DEF TotalsInv
  <1>10. \A d \in Day : sales'[d].orders = 0 => sales'[d].revenue = 0
    BY <1>3, <1>4 DEF TotalsInv
  <1>11. k \in Adding /\ Adding' = Adding \ {k}
    <2>1. handler'[k][OrderCreated].at # "upsert"
          /\ \A l \in Replica : l # k => handler'[l][OrderCreated] = handler[l][OrderCreated]
      <3>1. OrderCreated \in Consumed /\ Waiting.at = "idle"
            /\ [Waiting EXCEPT !.at = "publish"].at = "publish"
        BY DEF Consumed, Counting, Waiting
      <3>2. handler \in [Replica -> [Consumed -> Handling]]
        BY <1>0, HandlerTypes
      <3>3. PICK w : w.at # "upsert" /\ handler' = [handler EXCEPT ![k][OrderCreated] = w]
        BY <3>1 DEF Upsert, AfterUpsert
      <3> QED
        BY <3>1, <3>2, <3>3
    <2> QED
      BY <1>1, <2>1 DEF Adding
  <1>12. Cardinality(Adding') = Cardinality(Adding) - 1 /\ Cardinality(Adding) \in Nat
    BY <1>11, AddingFinite, FS_RemoveElement
  <1>13. ASSUME NEW d \in Day PROVE NotAhead(d)'
    <2>1. /\ SumOver(Orders, 1..d) \in Nat /\ SumOver(created[OrderCreated], 1..d) \in Nat
          /\ ToAdd(d) \in Nat /\ d \in Nat /\ today \in Nat
      BY <1>0, <1>2, UpToTypes, DailyAssumption DEF Day
    <2>2. /\ today <= d =>
                 SumOver(Orders', 1..d) = SumOver(Orders, 1..d) + (Orders'[today] - Orders[today])
          /\ d < today => SumOver(Orders', 1..d) = SumOver(Orders, 1..d)
          /\ SumOver(Orders', 1..d) \in Nat
      <3> DEFINE c == Orders
                 e == Orders'
      <3>1. /\ \A x \in Day : c[x] \in Nat /\ e[x] \in Nat
            /\ \A x \in Day : x # today => e[x] = c[x]
        BY <1>5
      <3> HIDE DEF c, e
      <3>2. ASSUME NEW now \in Day, \A x \in Day : x # now => e[x] = c[x]
            PROVE  /\ SumOver(e, 1..d) \in Nat
                   /\ now <= d => SumOver(e, 1..d) = SumOver(c, 1..d) + (e[now] - c[now])
                   /\ d < now => SumOver(e, 1..d) = SumOver(c, 1..d)
        BY <3>1, <3>2, TodayChanges
      <3>3. /\ SumOver(e, 1..d) \in Nat
            /\ today <= d => SumOver(e, 1..d) = SumOver(c, 1..d) + (e[today] - c[today])
            /\ d < today => SumOver(e, 1..d) = SumOver(c, 1..d)
        BY <1>2, <3>1, <3>2
      <3> QED
        BY <3>3 DEF c, e
    <2>3. SumOver(Orders, 1..d) + ToAdd(d) <= SumOver(created[OrderCreated], 1..d)
      BY DEF TotalsInv, NotAhead
    <2>4. /\ today <= d => ToAdd(d)' = Cardinality(Adding') /\ ToAdd(d) = Cardinality(Adding)
          /\ d < today => ToAdd(d)' = 0 /\ ToAdd(d) = 0
      BY <1>1, <2>1 DEF ToAdd
    <2>5. SumOver(Orders', 1..d) + ToAdd(d)' <= SumOver(created[OrderCreated], 1..d)
      <3>1. CASE today <= d
        BY <1>5, <1>12, <2>1, <2>2, <2>3, <2>4, <3>1
      <3>2. CASE d < today
        BY <2>1, <2>2, <2>3, <2>4, <3>2
      <3> QED
        BY <2>1, <3>1, <3>2
    <2> QED
      BY <1>1, <2>5 DEF NotAhead
  <1> QED
    BY <1>9, <1>10, <1>13 DEF TotalsInv

\* A shipment's event is added to today's row.
LEMMA TotalsShipmentAdded ==
    ASSUME DailyInv, DailyTypeOK', TotalsInv, NEW k \in Replica,
           NEW j \in Counting \ {OrderCreated}, NEW heard \in BOOLEAN, Upsert(k, j, heard)
    PROVE  TotalsInv'
  <1> DEFINE new == incrLogisticsDaily(shipping[today], j)
             one(i) == IF j = i THEN 1 ELSE 0
  <1>0. DailyTypeOK
    BY DEF DailyInv
  <1>1. /\ shipping' = [shipping EXCEPT ![today] = new]
        /\ earned' = earned /\ sales' = sales /\ counted' = [counted EXCEPT ![j] = @ + 1]
        /\ today' = today /\ created' = created
    BY DEF Upsert
  <1>2. /\ today \in Day /\ DOMAIN shipping = Day
        /\ shipping[today] \in [shipments : Nat, delivered : Nat, failed : Nat, rate : Nat]
    BY <1>0, DailyAssumption DEF DailyTypeOK
  <1>3. /\ new.shipments = shipping[today].shipments + one("logistics.shipment_created")
        /\ new.delivered = shipping[today].delivered + one("logistics.shipment_delivered")
        /\ new.failed = shipping[today].failed + one("logistics.shipment_returned")
    BY <1>2, ShippingRowGrows
  <1> HIDE DEF new
  <1>4. shipping'[today] = new /\ \A x \in Day : x # today => shipping'[x] = shipping[x]
    BY <1>0, <1>1, <1>2 DEF DailyTypeOK
  <1>5. /\ \A x \in Day : Shipments[x] \in Nat /\ Shipments'[x] \in Nat
        /\ \A x \in Day : Delivered[x] \in Nat /\ Delivered'[x] \in Nat
        /\ \A x \in Day : Failed[x] \in Nat /\ Failed'[x] \in Nat
    <2>1. \A x \in Day : /\ shipping[x].shipments \in Nat /\ shipping[x].delivered \in Nat
                         /\ shipping[x].failed \in Nat
      BY <1>0 DEF DailyTypeOK
    <2>2. \A x \in Day : /\ shipping'[x].shipments \in Nat /\ shipping'[x].delivered \in Nat
                         /\ shipping'[x].failed \in Nat
      BY DEF DailyTypeOK
    <2> QED
      BY <2>1, <2>2 DEF Shipments, Delivered, Failed
  <1>6. /\ \A x \in Day : x # today => Shipments'[x] = Shipments[x]
        /\ \A x \in Day : x # today => Delivered'[x] = Delivered[x]
        /\ \A x \in Day : x # today => Failed'[x] = Failed[x]
    BY <1>4 DEF Shipments, Delivered, Failed
  <1>7. /\ Shipments'[today] = Shipments[today] + one("logistics.shipment_created")
        /\ Delivered'[today] = Delivered[today] + one("logistics.shipment_delivered")
        /\ Failed'[today] = Failed[today] + one("logistics.shipment_returned")
    BY <1>2, <1>3, <1>4 DEF Shipments, Delivered, Failed
  <1>8. \A i \in Counting : counted'[i] = counted[i] + one(i) /\ counted[i] \in Nat
    BY <1>0, <1>1 DEF DailyTypeOK, Consumed
  <1>9. Orders' = Orders /\ Revenue' = Revenue /\ counted'[OrderCreated] = counted[OrderCreated]
    <2>1. one(OrderCreated) = 0 /\ OrderCreated \in Counting
      BY DEF Counting
    <2> HIDE DEF one
    <2>2. counted'[OrderCreated] = counted[OrderCreated]
      BY <1>8, <2>1
    <2> QED
      BY <1>1, <2>2 DEF Orders, Revenue
  <1>10. \A i : one(i) \in Nat
    OBVIOUS
  <1> HIDE DEF one
  <1>11. SumOver(Shipments', Day) = SumOver(Shipments, Day) + one("logistics.shipment_created")
    <2>1. SumOver(Shipments', Day) = SumOver(Shipments, Day) + (Shipments'[today] - Shipments[today])
      BY <1>2, <1>5, <1>6, TotalChanges
    <2> QED
      BY <1>2, <1>5, <1>7, <1>10, <2>1
  <1>12. SumOver(Delivered', Day) = SumOver(Delivered, Day) + one("logistics.shipment_delivered")
    <2>1. SumOver(Delivered', Day) = SumOver(Delivered, Day) + (Delivered'[today] - Delivered[today])
      BY <1>2, <1>5, <1>6, TotalChanges
    <2> QED
      BY <1>2, <1>5, <1>7, <1>10, <2>1
  <1>13. SumOver(Failed', Day) = SumOver(Failed, Day) + one("logistics.shipment_returned")
    <2>1. SumOver(Failed', Day) = SumOver(Failed, Day) + (Failed'[today] - Failed[today])
      BY <1>2, <1>5, <1>6, TotalChanges
    <2> QED
      BY <1>2, <1>5, <1>7, <1>10, <2>1
  <1>14. /\ SumOver(Orders', Day) = counted'[OrderCreated] /\ SumOver(Revenue', Day) = earned'
         /\ SumOver(Shipments', Day) = counted'["logistics.shipment_created"]
         /\ SumOver(Delivered', Day) = counted'["logistics.shipment_delivered"]
         /\ SumOver(Failed', Day) = counted'["logistics.shipment_returned"]
    <2>1. {"logistics.shipment_created", "logistics.shipment_delivered",
           "logistics.shipment_returned"} \subseteq Counting
      BY DEF Counting
    <2> QED
      BY <1>1, <1>8, <1>9, <1>11, <1>12, <1>13, <2>1 DEF TotalsInv
  <1>15. Adding' \subseteq Adding
    <2>1. PICK w : handler' = [handler EXCEPT ![k][j] = w]
      BY DEF Upsert, AfterUpsert
    <2>2. handler \in [Replica -> [Consumed -> Handling]] /\ OrderCreated \in Consumed
      BY <1>0, HandlerTypes DEF Consumed, Counting
    <2>3. \A l \in Replica : handler'[l][OrderCreated] = handler[l][OrderCreated]
      BY <2>1, <2>2
    <2> QED
      BY <2>3 DEF Adding
  <1>16. Cardinality(Adding') \in Nat /\ Cardinality(Adding) \in Nat
         /\ Cardinality(Adding') <= Cardinality(Adding)
    BY <1>15, AddingFinite, FS_Subset, FS_CardinalityType
  <1>17. ASSUME NEW d \in Day PROVE NotAhead(d)'
    <2>1. /\ SumOver(Orders, 1..d) \in Nat /\ SumOver(created[OrderCreated], 1..d) \in Nat
          /\ ToAdd(d) \in Nat /\ NotAhead(d)
      BY <1>0, UpToTypes DEF TotalsInv
    <2>2. ToAdd(d)' \in Nat /\ ToAdd(d)' <= ToAdd(d)
      BY <1>1, <1>16 DEF ToAdd
    <2>3. SumOver(Orders, 1..d) + ToAdd(d)' <= SumOver(created[OrderCreated], 1..d)
      BY <2>1, <2>2 DEF NotAhead
    <2> QED
      BY <1>1, <1>9, <2>3 DEF NotAhead
  <1> QED
    BY <1>1, <1>14, <1>17 DEF TotalsInv

LEMMA TotalsInit == DailyInit => TotalsInv
  <1> SUFFICES ASSUME DailyInit PROVE TotalsInv
    OBVIOUS
  <1>1. DailyTypeOK
    BY DailyInitInv DEF DailyInv
  <1>2. \A x \in Day : /\ Orders[x] = 0 /\ Revenue[x] = 0
                       /\ Shipments[x] = 0 /\ Delivered[x] = 0 /\ Failed[x] = 0
    BY DEF DailyInit, NoSales, NoShipping, Orders, Revenue, Shipments, Delivered, Failed
  <1>3. ASSUME NEW c, NEW d \in Day, \A x \in Day : c[x] = 0
        PROVE  SumOver(c, 1..d) = 0
    <2> DEFINE U == 1..d
    <2>1. IsFiniteSet(U) /\ {} \in SUBSET U /\ U \subseteq Day
      BY DaysUpTo
    <2>2. \A x \in U : c[x] \in Int /\ c[x] = 0
      BY <1>3, <2>1
    <2> HIDE DEF U
    <2>3. SumOver(c, U) = SumOver(c, {})
      BY <2>1, <2>2, SumWithout
    <2>4. SumOver(c, U) = 0
      BY <2>3, SumEmpty
    <2> QED
      BY <2>4 DEF U
  <1>4. MaxDay \in Day /\ Day = 1..MaxDay
    BY DaysUpTo, <1>1 DEF DailyTypeOK
  <1>5. /\ SumOver(Orders, Day) = 0 /\ SumOver(Revenue, Day) = 0
        /\ SumOver(Shipments, Day) = 0 /\ SumOver(Delivered, Day) = 0
        /\ SumOver(Failed, Day) = 0
    BY <1>2, <1>3, <1>4
  <1>6. \A i \in Counting : counted[i] = 0
    BY DEF DailyInit, Consumed
  <1>7. {OrderCreated, "logistics.shipment_created", "logistics.shipment_delivered",
         "logistics.shipment_returned"} \subseteq Counting
    BY DEF Counting
  <1>8. \A d \in Day : sales[d].orders = 0 /\ sales[d].revenue = 0
    BY DEF DailyInit, NoSales
  <1>9. ASSUME NEW d \in Day PROVE NotAhead(d)
    <2>1. Adding = {}
      BY DEF DailyInit, Adding, Waiting, Consumed, Counting
    <2>2. ToAdd(d) = 0
      BY <2>1, FS_EmptySet DEF ToAdd
    <2>3. SumOver(Orders, 1..d) = 0
      BY <1>2, <1>3
    <2>4. SumOver(created[OrderCreated], 1..d) \in Nat
      BY <1>1, UpToTypes
    <2> QED
      BY <2>2, <2>3, <2>4 DEF NotAhead
  <1> QED
    BY <1>5, <1>6, <1>7, <1>8, <1>9 DEF TotalsInv, DailyInit

\* A replica's handler of one event is replaced by one that is not about to add.
LEMMA NoMoreToAdd ==
    ASSUME DailyTypeOK, NEW k \in Replica, NEW j \in Consumed, NEW w, w.at # "upsert",
           handler' = [handler EXCEPT ![k][j] = w]
    PROVE  Adding' \subseteq Adding
  <1>1. handler \in [Replica -> [Consumed -> Handling]] /\ OrderCreated \in Consumed
    BY HandlerTypes DEF Consumed, Counting
  <1>2. \A l \in Replica : handler'[l][OrderCreated] = handler[l][OrderCreated]
                           \/ handler'[l][OrderCreated].at # "upsert"
    BY <1>1
  <1> QED
    BY <1>2 DEF Adding

\* An order is taken by a replica.
LEMMA OneMoreToAdd ==
    ASSUME NEW k \in Replica, \A l \in Adding' : l \in Adding \/ l = k
    PROVE  Cardinality(Adding') <= Cardinality(Adding) + 1
  <1> DEFINE A == Adding
             B == Adding'
  <1>1. IsFiniteSet(A) /\ Cardinality(A) \in Nat /\ B \in SUBSET (A \cup {k})
    BY AddingFinite
  <1> HIDE DEF A, B
  <1>2. IsFiniteSet(A \cup {k})
        /\ (Cardinality(A \cup {k}) = Cardinality(A)
            \/ Cardinality(A \cup {k}) = Cardinality(A) + 1)
    BY <1>1, FS_AddElement
  <1>3. Cardinality(B) <= Cardinality(A \cup {k}) /\ Cardinality(B) \in Nat
    BY <1>1, <1>2, FS_Subset, FS_CardinalityType
  <1>4. Cardinality(B) <= Cardinality(A) + 1
    BY <1>1, <1>2, <1>3
  <1> QED
    BY <1>4 DEF A, B

LEMMA TotalsTake ==
    ASSUME DailyTypeOK, DailyTypeOK', TotalsInv, NEW k \in Replica, NEW j \in Consumed,
           NEW amount, Take(k, j, amount)
    PROVE  TotalsInv'
  <1>1. Happens(j) /\ \E w : handler' = [handler EXCEPT ![k][j] = w]
    BY DEF Take
  <1>2. \A l \in Replica : l # k \/ j # OrderCreated =>
            handler'[l][OrderCreated] = handler[l][OrderCreated]
    <2>1. handler \in [Replica -> [Consumed -> Handling]] /\ OrderCreated \in Consumed
      BY HandlerTypes DEF Consumed, Counting
    <2> QED
      BY <1>1, <2>1
  <1>3. Cardinality(Adding) \in Nat /\ Cardinality(Adding') \in Nat
    BY AddingFinite, AddingFiniteNext
  <1>4. CASE j = OrderCreated
    <2>1. \A l \in Adding' : l \in Adding \/ l = k
      BY <1>2 DEF Adding
    <2>2. Cardinality(Adding') <= Cardinality(Adding) + 1
      BY <2>1, OneMoreToAdd
    <2> QED
      BY <1>1, <1>4, <2>2, TotalsHappen
  <1>5. CASE j # OrderCreated
    <2>1. Adding' = Adding
      BY <1>2, <1>5 DEF Adding
    <2>2. Cardinality(Adding') <= Cardinality(Adding) + 0
      BY <1>3, <2>1
    <2> QED
      BY <1>1, <1>5, <2>2, TotalsHappen
  <1> QED
    BY <1>4, <1>5

LEMMA TotalsMissed ==
    ASSUME DailyTypeOK, DailyTypeOK', TotalsInv, NEW j \in Consumed, Missed(j)
    PROVE  TotalsInv'
  <1>1. Happens(j) /\ handler' = handler
    BY DEF Missed
  <1>2. Adding' = Adding /\ Cardinality(Adding) \in Nat
    BY <1>1, AddingFinite DEF Adding
  <1>3. Cardinality(Adding') <= Cardinality(Adding) + (IF j = OrderCreated THEN 1 ELSE 0)
    BY <1>2
  <1> QED
    BY <1>1, <1>3, TotalsHappen

LEMMA TotalsInvariant == DailySpec => [](DailyInv /\ TotalsInv)
  <1>1. ASSUME DailyInv, TotalsInv, DailyInv', [DailyNext]_dailyVars PROVE TotalsInv'
    <2>0. /\ DailyTypeOK /\ DailyTypeOK'
          /\ today \in Day /\ today \in Nat /\ today' \in Day
          /\ Waiting.at # "upsert" /\ [Waiting EXCEPT !.at = "publish"].at # "upsert"
      <3>1. DailyTypeOK /\ DailyTypeOK'
        BY <1>1 DEF DailyInv
      <3>2. today \in Day /\ today' \in Day
        BY <3>1 DEF DailyTypeOK
      <3>3. today \in Nat
        BY <3>2 DEF Day
      <3>4. Waiting.at # "upsert" /\ [Waiting EXCEPT !.at = "publish"].at # "upsert"
        BY DEF Waiting
      <3> QED
        BY <3>1, <3>2, <3>3, <3>4
    <2>1. CASE Midnight
      <3>1. UNCHANGED <<sales, shipping, counted, earned, created, handler>> /\ today' = today + 1
        BY <2>1 DEF Midnight
      <3>2. Adding' = Adding /\ today' >= today
        BY <2>0, <3>1 DEF Adding
      <3> QED
        BY <1>1, <2>0, <3>1, <3>2, TotalsStill
    <2>2. ASSUME NEW k \in Replica, NEW j \in Consumed,
                 UpsertFails(k, j) \/ \E heard \in BOOLEAN : publishAggregate(k, j, heard)
          PROVE  TotalsInv'
      <3>1. UNCHANGED <<today, sales, shipping, counted, earned, created>>
        BY <2>2 DEF UpsertFails, publishAggregate
      <3>2. \E w : w.at # "upsert" /\ handler' = [handler EXCEPT ![k][j] = w]
        BY <2>0, <2>2 DEF UpsertFails, AfterUpsert, publishAggregate
      <3>3. Adding' \subseteq Adding
        BY <2>0, <3>2, NoMoreToAdd
      <3>4. today' >= today
        BY <2>0, <3>1
      <3> QED
        BY <1>1, <2>0, <3>1, <3>3, <3>4, TotalsStill
    <2>3. ASSUME NEW k \in Replica, RestartAnalytics(k) PROVE TotalsInv'
      <3>1. /\ UNCHANGED <<today, sales, shipping, counted, earned, created>>
            /\ handler' = [handler EXCEPT ![k] = [j \in Consumed |-> Waiting]]
        BY <2>3 DEF RestartAnalytics
      <3>2. handler \in [Replica -> [Consumed -> Handling]] /\ OrderCreated \in Consumed
        BY <2>0, HandlerTypes DEF Consumed, Counting
      <3>3. Adding' \subseteq Adding /\ today' >= today
        BY <2>0, <3>1, <3>2 DEF Adding
      <3> QED
        BY <1>1, <2>0, <3>1, <3>3, TotalsStill
    <2>4. ASSUME UNCHANGED <<today, sales, shipping, handler, created, counted, earned>>
          PROVE  TotalsInv'
      <3>1. Adding' = Adding /\ today' >= today
        BY <2>0, <2>4 DEF Adding
      <3> QED
        BY <1>1, <2>0, <2>4, <3>1, TotalsStill
    <2>5. CASE UNCHANGED dailyVars \/ ScanLogistics \/ \E from, to \in Day : ScanSales(from, to)
      BY <2>4, <2>5 DEF dailyVars, ScanLogistics, ScanSales
    <2>6. ASSUME NEW k \in Replica, NEW j \in Consumed, NEW heard \in BOOLEAN,
                 Upsert(k, j, heard)
          PROVE  TotalsInv'
      <3>1. j \in Counting
        BY <1>1, <2>6 DEF DailyInv, Upsert
      <3> QED
        BY <1>1, <2>0, <2>6, <3>1, TotalsOrderAdded, TotalsShipmentAdded
    <2>7. ASSUME NEW j \in Consumed, Missed(j) PROVE TotalsInv'
      BY <1>1, <2>0, <2>7, TotalsMissed
    <2>8. ASSUME NEW k \in Replica, NEW j \in Consumed, NEW amount, Take(k, j, amount)
          PROVE  TotalsInv'
      BY <1>1, <2>0, <2>8, TotalsTake
    <2> QED
      BY <1>1, <2>1, <2>2, <2>3, <2>5, <2>6, <2>7, <2>8 DEF DailyNext
  <1> QED
    BY <1>1, DailyInvariant, TotalsInit, PTL DEF DailySpec

\* The summary and the performance are those of what has been counted, and the
\* orders in the rows up to a day have all been created by then.
LEMMA TotalsHold == DailyInv /\ TotalsInv => TotalsMatch
  <1> SUFFICES ASSUME DailyInv, TotalsInv PROVE TotalsMatch
    OBVIOUS
  <1>1. DailyTypeOK /\ Day = 1..MaxDay /\ MaxDay \in Day
    BY DaysUpTo DEF DailyInv, DailyTypeOK
  <1>2. Sales(MaxDay) = [orderCount |-> counted[OrderCreated], totalRevenue |-> earned]
    BY <1>1, SalesUpTo DEF TotalsInv
  <1>3. LET p == GetLogisticsPerformance(GetLogisticsDaily(1, MaxDay))
        IN  /\ p.totalShipments = counted["logistics.shipment_created"]
            /\ p.deliveredCount = counted["logistics.shipment_delivered"]
            /\ p.failedCount    = counted["logistics.shipment_returned"]
    BY <1>1, ShippingInAll DEF TotalsInv
  <1>4. ASSUME NEW d \in Day PROVE Sales(d).orderCount <= CreatedUpTo(OrderCreated, d)
    <2> DEFINE s == [x \in 1..d |-> created[OrderCreated][x]]
               c == created[OrderCreated]
               U == 1..d
    <2>1. Sales(d).orderCount = SumOver(Orders, U)
      BY <1>1, SalesUpTo
    <2>2. CreatedUpTo(OrderCreated, d) = SumOver(s, U)
      BY SumOfIs DEF CreatedUpTo
    <2>3. IsFiniteSet(U) /\ \A x \in U : s[x] = c[x]
      BY DaysUpTo
    <2>4. SumOver(Orders, U) + ToAdd(d) <= SumOver(c, U)
      BY DEF TotalsInv, NotAhead
    <2>5. SumOver(Orders, U) \in Nat /\ SumOver(c, U) \in Nat /\ ToAdd(d) \in Nat
      BY <1>1, UpToTypes
    <2> HIDE DEF s, c, U
    <2>6. SumOver(s, U) = SumOver(c, U)
      BY <2>3, SumSame
    <2> QED
      BY <2>1, <2>2, <2>4, <2>5, <2>6
  <1> QED
    BY <1>2, <1>3, <1>4 DEF TotalsMatch

\* For any replicas, calendar, amounts and events, however the handlers
\* interleave, fail, restart and cross midnight: the sums of the rows are what
\* was counted, and they are never ahead of what had happened.
THEOREM DailyRowsHold == DailySpec => []DailyRowsAddUp
  <1>1. DailyInv /\ TotalsInv /\ ToldAfterwards /\ FiguresMatch => DailyRowsAddUp
    BY TotalsHold DEF DailyRowsAddUp
  <1> QED
    BY <1>1, TotalsInvariant, DailyFiguresMatch, PTL

-----------------------------------------------------------------------------
(* How far from their mean values can be.                                   *)

LEMMA ProductIsNat == ASSUME NEW x \in Nat, NEW y \in Nat PROVE x * y \in Nat
  OBVIOUS

LEMMA ProductGrows ==
    ASSUME NEW p \in Int, NEW q \in Int, NEW v \in Nat, v > 0, p * v <= q * v
    PROVE  p <= q
  <1> SUFFICES ASSUME p > q PROVE FALSE
    OBVIOUS
  <1>1. p - q - 1 \in Nat
    OBVIOUS
  <1>2. (p - q - 1) * v \in Nat
    BY <1>1, ProductIsNat
  <1> QED
    BY <1>2

\* x and p others with the sum r and the sum of squares q.
LEMMA DeviationBound ==
    ASSUME NEW p \in Nat, NEW x \in Int, NEW r \in Int, NEW q \in Nat, r * r <= p * q
    PROVE  (p * x - r) * (p * x - r) <= p * ((p + 1) * (x * x + q) - (x + r) * (x + r))
  <1> DEFINE g == p * q - r * r
  <1>1. g \in Nat
    <2>1. p * q \in Int /\ r * r \in Int
      OBVIOUS
    <2> QED
      BY <2>1
  <1>2. p * g \in Nat
    <2> HIDE DEF g
    <2> QED
      BY <1>1, ProductIsNat
  <1>3. p * ((p + 1) * (x * x + q) - (x + r) * (x + r)) - (p * x - r) * (p * x - r) = p * g + g
    OBVIOUS
  <1> DEFINE u == (p * x - r) * (p * x - r)
             w == p * ((p + 1) * (x * x + q) - (x + r) * (x + r))
             h == p * g
  <1>4. u \in Int /\ w \in Int /\ h \in Nat /\ w - u = h + g
    BY <1>2, <1>3
  <1> HIDE DEF u, w, h, g
  <1>5. u <= w
    BY <1>1, <1>4
  <1> QED
    BY <1>5 DEF u, w

\* Of n values, not all of them equal, none is k or more standard deviations from
\* their mean unless n > k^2.
LEMMA FarFromMean ==
    ASSUME NEW s, IsFiniteSet(DOMAIN s), \A i \in DOMAIN s : s[i] \in Int,
           NEW at \in DOMAIN s, NEW k \in Nat, Spread(s) > 0, Beyond(s[at], s, k)
    PROVE  Number(s) \in Nat /\ Number(s) >= k * k + 1
  <1> DEFINE D == DOMAIN s
             sq == [i \in DOMAIN s |-> s[i] * s[i]]
             n == Number(s)
             p == Cardinality(D \ {at})
             x == s[at]
             r == SumOver(s, D \ {at})
             q == SumOver(sq, D \ {at})
  <1>1. /\ IsFiniteSet(D) /\ \A i \in D : s[i] \in Int
        /\ \A i \in D : sq[i] \in Nat /\ sq[i] = s[i] * s[i]
        /\ DOMAIN sq = D /\ at \in D
    BY SquareIsNat
  <1>2. SumOf(s) = SumOver(s, D) /\ SumOf(sq) = SumOver(sq, D) /\ n = Cardinality(D)
    BY <1>1, SumOfIs DEF Number
  <1>3. Spread(s) = n * SumOf(sq) - SumOf(s) * SumOf(s)
    BY DEF Spread
  <1>4. x \in Int /\ sq[at] = x * x
    BY <1>1
  <1> HIDE DEF D, sq, n, x
  <1>5. IsFiniteSet(D \ {at}) /\ n \in Nat /\ p \in Nat /\ n = p + 1
    <2>1. IsFiniteSet(D) /\ at \in D
      BY <1>1
    <2>2. IsFiniteSet(D \ {at})
      BY <2>1, OneLess
    <2>3. Cardinality(D \ {at}) = Cardinality(D) - 1
      BY <2>1, OneLess
    <2>4. Cardinality(D) \in Nat /\ Cardinality(D \ {at}) \in Nat
      BY <2>1, <2>2, FS_CardinalityType
    <2> QED
      BY <1>2, <2>2, <2>3, <2>4
  <1>6. /\ \A i \in D : sq[i] \in Int
        /\ \A i \in D \ {at} : s[i] \in Int /\ sq[i] \in Nat /\ sq[i] = s[i] * s[i]
    BY <1>1
  <1>7. SumOver(s, D) = s[at] + r /\ SumOver(sq, D) = sq[at] + q
    BY <1>1, <1>6, SumTakeOut
  <1>8. r \in Int /\ q \in Nat
    BY <1>5, <1>6, SumIsInt, SumIsNat
  <1>9. r * r <= p * q
    BY <1>5, <1>6, SumOfSquares
  <1> HIDE DEF p, r, q
  <1>10. SumOf(s) = x + r /\ SumOf(sq) = x * x + q
    BY <1>2, <1>4, <1>7 DEF x
  <1>11. Spread(s) = (p + 1) * (x * x + q) - (x + r) * (x + r)
    BY <1>3, <1>5, <1>10
  <1>12. Deviation(x, s) = p * x - r
    <2>1. Deviation(x, s) = n * x - SumOf(s)
      BY DEF Deviation, n
    <2>2. (p + 1) * x - (x + r) = p * x - r
      BY <1>4, <1>5, <1>8
    <2> QED
      BY <1>5, <1>10, <2>1, <2>2
  <1>13. (p * x - r) * (p * x - r) >= k * k * Spread(s)
    BY <1>12 DEF Beyond, x
  <1>14. (p * x - r) * (p * x - r) <= p * Spread(s)
    BY <1>4, <1>5, <1>8, <1>9, <1>11, DeviationBound
  <1>15. k * k <= p
    <2> DEFINE v == Spread(s)
               u == (p * x - r) * (p * x - r)
    <2>1. v \in Nat /\ v > 0 /\ u \in Int /\ k * k \in Nat
      <3>1. v \in Int
        BY <1>4, <1>5, <1>8, <1>11
      <3>2. u \in Int
        BY <1>4, <1>5, <1>8
      <3> HIDE DEF v, u
      <3>3. k * k \in Nat
        OBVIOUS
      <3>4. v > 0
        BY DEF v
      <3> QED
        BY <3>1, <3>2, <3>3, <3>4
    <2>2. u >= (k * k) * v /\ u <= p * v
      BY <1>13, <1>14
    <2> HIDE DEF v, u
    <2> DEFINE kk == k * k
    <2>3. kk \in Nat /\ u >= kk * v
      BY <2>1, <2>2
    <2> HIDE DEF kk
    <2>4. kk * v <= p * v
      BY <1>5, <2>1, <2>2, <2>3
    <2>5. kk <= p
      BY <1>5, <2>1, <2>3, <2>4, ProductGrows
    <2> QED
      BY <2>5 DEF kk
  <1>16. n \in Nat /\ n >= k * k + 1
    BY <1>5, <1>15
  <1> QED
    BY <1>16 DEF n

\* A window without a day far from its mean has no alarm but those for days
\* without orders, and a far day takes five days, or ten when it is critical.
LEMMA AlarmsAre ==
    ASSUME NEW n \in Nat, NEW revenues \in [1..n -> Nat],
           NEW a \in DetectAnomalies(Days(revenues), <<>>)
    PROVE  LET days == Days(revenues)
               sold == Cardinality({i \in DOMAIN days : days[i].orders > 0})
           IN  /\ a.metric = "total_revenue" => Len(days) >= 5
               /\ a.severity = "critical" =>
                      (IF a.metric = "avg_order_value" THEN sold ELSE Len(days)) >= 10
  <1> DEFINE days == Days(revenues)
             r == [i \in DOMAIN days |-> days[i].revenue]
             sold == {i \in DOMAIN days : days[i].orders > 0}
             aov == [i \in sold |-> days[i].revenue \div days[i].orders]
  <1>1. /\ DOMAIN days = 1..n /\ Len(days) = n
        /\ \A i \in 1..n : days[i].revenue \in Nat /\ days[i].orders \in {0, 1}
    BY DEF Days
  <1>2. IsFiniteSet(1..n) /\ Cardinality(1..n) = n
    <2>1. 1 \in Int /\ n \in Int /\ n \in Nat
      OBVIOUS
    <2> QED
      BY <2>1, FS_Interval
  <1>3. detectLogisticsAnomalies(<<>>) = {}
    BY DEF detectLogisticsAnomalies
  <1>4. a \in detectSalesAnomalies(days) \/ a \in detectBusinessAnomalies(days)
    BY <1>3 DEF DetectAnomalies
  <1> HIDE DEF days
  <1>5. CASE a \in detectSalesAnomalies(days)
    <2>1. /\ DOMAIN r = 1..n /\ IsFiniteSet(DOMAIN r) /\ Number(r) = n
          /\ \A i \in DOMAIN r : r[i] \in Int
      BY <1>1, <1>2 DEF Number
    <2>2. \/ /\ Spread(r) > 0 /\ a.metric = "total_revenue"
             /\ \E i \in DOMAIN r : a.severity = Severity(r[i], r) /\ Beyond(r[i], r, 2)
          \/ a.metric = "total_orders" /\ a.severity = "warning"
      <3> DEFINE far == {[day |-> days[i].day, metric |-> "total_revenue",
                          severity |-> Severity(r[i], r)] :
                             i \in {k \in DOMAIN r : Beyond(r[k], r, 2)}}
                 none == {[day |-> days[i].day, metric |-> "total_orders",
                           severity |-> "warning"] :
                              i \in {k \in DOMAIN days : days[k].orders = 0}}
      <3>1. detectSalesAnomalies(days) = (IF Spread(r) > 0 THEN far ELSE {}) \cup none
        BY DEF detectSalesAnomalies
      <3> HIDE DEF r
      <3>2. \A b \in far : b.metric = "total_revenue"
                /\ \E i \in DOMAIN r : b.severity = Severity(r[i], r) /\ Beyond(r[i], r, 2)
        OBVIOUS
      <3>3. \A b \in none : b.metric = "total_orders" /\ b.severity = "warning"
        OBVIOUS
      <3> HIDE DEF far, none
      <3>4. (Spread(r) > 0 /\ a \in far) \/ a \in none
        BY <1>5, <3>1
      <3> QED
        BY <3>2, <3>3, <3>4
    <2> HIDE DEF r
    <2>3. CASE a.metric = "total_orders" /\ a.severity = "warning"
      BY <2>3
    <2>4. ASSUME Spread(r) > 0, a.metric = "total_revenue", NEW i \in DOMAIN r,
                 a.severity = Severity(r[i], r), Beyond(r[i], r, 2)
          PROVE  n >= 5 /\ (a.severity = "critical" => n >= 10)
      <3>1. Number(r) >= 2 * 2 + 1
        BY <2>1, <2>4, FarFromMean
      <3>2. a.severity = "critical" => Beyond(r[i], r, 3)
        BY <2>4 DEF Severity
      <3>3. Beyond(r[i], r, 3) => Number(r) >= 3 * 3 + 1
        BY <2>1, <2>4, FarFromMean
      <3> QED
        BY <2>1, <3>1, <3>2, <3>3
    <2> QED
      BY <1>1, <2>2, <2>3, <2>4 DEF days
  <1>6. CASE a \in detectBusinessAnomalies(days)
    <2>1. /\ Spread(aov) > 0 /\ a.metric = "avg_order_value"
          /\ \E i \in DOMAIN aov : a.severity = Severity(aov[i], aov)
      BY <1>6 DEF detectBusinessAnomalies
    <2>2. /\ DOMAIN aov = sold /\ IsFiniteSet(sold) /\ Number(aov) = Cardinality(sold)
      <3>1. sold \in SUBSET (1..n)
        BY <1>1
      <3> QED
        BY <1>2, <3>1, FS_Subset DEF Number
    <2>3. \A i \in sold : aov[i] \in Int
      BY <1>1
    <2> HIDE DEF aov
    <2>4. ASSUME NEW i \in DOMAIN aov, a.severity = Severity(aov[i], aov)
          PROVE  a.severity = "critical" => Number(aov) >= 10
      <3>1. a.severity = "critical" => Beyond(aov[i], aov, 3)
        BY <2>4 DEF Severity
      <3>2. Beyond(aov[i], aov, 3) => Number(aov) >= 3 * 3 + 1
        BY <2>1, <2>2, <2>3, FarFromMean
      <3>3. 3 * 3 + 1 = 10
        OBVIOUS
      <3> QED
        BY <3>1, <3>2, <3>3
    <2>5. a.severity = "critical" => Cardinality(sold) >= 10
      BY <2>1, <2>2, <2>4
    <2> QED
      BY <2>1, <2>5 DEF days
  <1> QED
    BY <1>4, <1>5, <1>6

\* For any windows of any days: an alarm about a day's revenue takes at least five
\* days, a critical one ten.
THEOREM AlarmsNeedDaysHolds == AdviceSpec => []AlarmsNeedDays
  <1>1. AdviceInv => AlarmsNeedDays
    <2> SUFFICES ASSUME AdviceInv, question.kind = "anomalies" PROVE AlarmsNeedDays
      BY DEF AlarmsNeedDays
    <2>1. PICK n \in Nat : question.revenues \in [1..n -> Nat]
      BY DEF AdviceInv
    <2> QED
      BY <2>1, AlarmsAre DEF AlarmsNeedDays
  <1> QED
    BY <1>1, AdviceInvariant, PTL

-----------------------------------------------------------------------------
(* The forecast of a steady demand.                                         *)

\* The days of the series, its values and their products add up to these, n days
\* of v and then today, of which nothing has been ordered.
LEMMA SteadySums ==
    ASSUME NEW n \in Nat, NEW v \in Int
    PROVE  LET h == Steady(n, v)
           IN  /\ h \in Seq(Int) /\ Len(h) = n + 1
               /\ \A i \in 1..n : h[i] = v
               /\ h[n + 1] = 0
               /\ SumOf(h) \in Int /\ SumOf(h) = n * v
               /\ SumX(h) \in Int /\ 2 * SumX(h) = (n + 1) * n
               /\ SumXX(h) \in Int /\ 6 * SumXX(h) = (n + 1) * n * (2 * n + 1)
               /\ SumXY(h) \in Int /\ 2 * SumXY(h) = v * (n * (n - 1))
  <1> DEFINE whole == [i \in 1..n |-> v]
             h == Steady(n, v)
             I == 1..(n + 1)
  <1>1. whole \in Seq(Int) /\ Len(whole) = n /\ \A i \in 1..n : whole[i] = v
    OBVIOUS
  <1>2. h = Append(whole, 0)
    BY DEF Steady, fillMissingDays
  <1> HIDE DEF whole, h
  <1>3. /\ h \in Seq(Int) /\ Len(h) = n + 1 /\ DOMAIN h = I
        /\ \A i \in 1..n : h[i] = v
        /\ h[n + 1] = 0
    BY <1>1, <1>2
  <1>4. IsFiniteSet(I) /\ 1..n \subseteq I
    <2>1. 1 \in Int /\ n + 1 \in Int
      OBVIOUS
    <2> QED
      BY <2>1, FS_Interval
  <1> DEFINE x == [i \in I |-> i - 1]
             xx == [i \in I |-> (i - 1) * (i - 1)]
             xy == [i \in I |-> (i - 1) * h[i]]
  <1>5. /\ SumOf(h) = SumOver(h, I) /\ SumX(h) = SumOver(x, I)
        /\ SumXX(h) = SumOver(xx, I) /\ SumXY(h) = SumOver(xy, I)
    <2>1. /\ DOMAIN x = I /\ DOMAIN xx = I /\ DOMAIN xy = I
          /\ SumX(h) = SumOf(x) /\ SumXX(h) = SumOf(xx) /\ SumXY(h) = SumOf(xy)
      BY <1>3 DEF SumX, SumXX, SumXY
    <2> HIDE DEF x, xx, xy, I
    <2> QED
      BY <1>3, <2>1, SumOfIs
  <1>6. /\ \A i \in I : h[i] \in Int /\ x[i] \in Int /\ xx[i] \in Int /\ xy[i] \in Int
        /\ x \in [I -> Int] /\ \A i \in I : x[i] = 1 * (i - 1) + 0
        /\ \A i \in I : xx[i] = (i - 1) * (i - 1)
        /\ \A i \in 1..n : xy[i] = v * (i - 1) + 0
        /\ \A i \in 1..n : h[i] = 0 * (i - 1) + v
        /\ xy[n + 1] = 0
    <2>1. \A i \in I : h[i] \in {v, 0}
      BY <1>3
    <2>2. \A i \in I : h[i] \in Int /\ i - 1 \in Int
      BY <2>1
    <2>3. \A i \in I : x[i] \in Int /\ xx[i] \in Int /\ xy[i] \in Int
      BY <2>2
    <2>4. \A i \in 1..n : xy[i] = v * (i - 1) + 0
      BY <1>3, <1>4
    <2>5. xy[n + 1] = 0
      BY <1>3
    <2>6. \A i \in 1..n : h[i] = 0 * (i - 1) + v
      BY <1>3
    <2> HIDE DEF xy
    <2> QED
      BY <2>2, <2>3, <2>4, <2>5, <2>6
  <1> HIDE DEF x, xx, xy
  <1>7. 2 * SumOver(x, I) = (n + 1) * n /\ SumOver(x, I) \in Int
    <2> DEFINE m == n + 1
    <2>3. m \in Nat /\ 1 \in Int /\ 0 \in Int /\ Climbs(x, m, 1, 0)
      BY <1>6 DEF Climbs
    <2> HIDE DEF m
    <2>4. 2 * SumOver(x, 1..m) = 1 * (m * (m - 1)) + 2 * 0 * m
      BY <2>3, SumOfSteps
    <2>1. 2 * SumOver(x, I) = 1 * (m * (m - 1)) + 2 * 0 * m /\ m = n + 1
      BY <2>4 DEF m
    <2>2. SumOver(x, I) \in Int
      BY <1>4, <1>6, SumIsInt
    <2> QED
      BY <2>1, <2>2
  <1>8. 6 * SumOver(xx, I) = (n + 1) * n * (2 * n + 1) /\ SumOver(xx, I) \in Int
    <2>1. 6 * SumOver(xx, 1..(n + 1)) = (n + 1) * ((n + 1) - 1) * (2 * (n + 1) - 1)
      <3>1. n + 1 \in Nat
        OBVIOUS
      <3> QED
        BY <1>6, <3>1, SumOfStepSquares
    <2>2. SumOver(xx, I) \in Int
      BY <1>4, <1>6, SumIsInt
    <2> QED
      BY <2>1, <2>2
  <1>9. SumOver(h, I) = SumOver(h, 1..n) + 0 /\ SumOver(xy, I) = SumOver(xy, 1..n) + 0
    BY <1>3, <1>6, SumToNext
  <1>10. SumOver(h, I) \in Int /\ SumOver(xy, I) \in Int
    BY <1>4, <1>6, SumIsInt
  <1>11. SumOver(h, 1..n) \in Int /\ SumOver(xy, 1..n) \in Int
    <2> DEFINE U == 1..n
    <2>1. IsFiniteSet(U)
      BY <1>4, FS_Subset
    <2>2. \A i \in U : h[i] \in Int /\ xy[i] \in Int
      BY <1>4, <1>6
    <2> HIDE DEF U
    <2>3. SumOver(h, U) \in Int /\ SumOver(xy, U) \in Int
      BY <2>1, <2>2, SumIsInt
    <2> QED
      BY <2>3 DEF U
  <1>12. /\ 2 * SumOver(h, 1..n) = 0 * (n * (n - 1)) + 2 * v * n
         /\ 2 * SumOver(xy, 1..n) = v * (n * (n - 1)) + 2 * 0 * n
    <2>1. 0 \in Int /\ Climbs(h, n, 0, v) /\ Climbs(xy, n, v, 0)
      BY <1>6 DEF Climbs
    <2> QED
      BY <2>1, SumOfSteps
  <1>13. SumOver(h, I) = n * v /\ 2 * SumOver(xy, I) = v * (n * (n - 1))
    <2> DEFINE A == SumOver(h, 1..n)
               B == SumOver(xy, 1..n)
    <2>1. A \in Int /\ B \in Int /\ 2 * A = 2 * (v * n) /\ 2 * B = v * (n * (n - 1))
      <3>1. 0 * (n * (n - 1)) = 0 /\ 2 * 0 * n = 0
        OBVIOUS
      <3> QED
        BY <1>11, <1>12, <3>1
    <2>2. SumOver(h, I) = A /\ SumOver(xy, I) = B
      BY <1>9, <2>1
    <2> HIDE DEF A, B
    <2>3. A = n * v
      BY <2>1
    <2> QED
      BY <2>1, <2>2, <2>3
  <1> QED
    BY <1>3, <1>5, <1>7, <1>8, <1>10, <1>13 DEF h

\* Twelve times the value of the straight line, for x days with the sums x, xx,
\* xy and s, in terms of multiples of them.
LEMMA LineFromSums ==
    ASSUME NEW N \in Int, NEW s \in Int, NEW x \in Int, NEW xx \in Int, NEW xy \in Int,
           NEW j \in Int, NEW A \in Int, NEW B \in Int, NEW C \in Int,
           2 * x = A, 6 * xx = B, 2 * xy = C
    PROVE  /\ 12 * (s * (N * xx - x * x) - (N * xy - x * s) * x + N * (N * xy - x * s) * j)
                 = s * (2 * (N * B) - 3 * (A * A)) - 3 * ((N * C - A * s) * A)
                   + 6 * (N * (N * C - A * s) * j)
           /\ 12 * (N * (N * xx - x * x)) = N * (2 * (N * B) - 3 * (A * A))
  OBVIOUS

\* And with those of a steady series.
LEMMA SteadyLine ==
    ASSUME NEW n \in Int, NEW v \in Int, NEW i \in Int
    PROVE  LET N == n + 1
               A == N * n
               B == N * n * (2 * n + 1)
               C == v * (n * (n - 1))
               s == n * v
               K == N * N * n * v
           IN  /\ s * (2 * (N * B) - 3 * (A * A)) - 3 * ((N * C - A * s) * A)
                      + 6 * (N * (N * C - A * s) * (n + i))
                      = K * (n * (n + 5) - 6 * (n + i))
               /\ N * (2 * (N * B) - 3 * (A * A)) * v = K * (N * (n + 2))
  OBVIOUS

\* A multiple of the line and of what it is compared with.
LEMMA ScaledDown ==
    ASSUME NEW K \in Nat, K > 0, NEW u \in Int, NEW w \in Int, u < w, 0 < w,
           NEW y \in Int, NEW next \in Int, NEW d \in Int,
           12 * y = K * u, 12 * next = K * (u - 6), 12 * d = K * w
    PROVE  y < d /\ 0 < d /\ next <= y
  <1>1. w - u - 1 \in Nat /\ w - 1 \in Nat
    OBVIOUS
  <1>2. K * (w - u - 1) \in Nat /\ K * (w - 1) \in Nat
    <2> DEFINE a == w - u - 1
               b == w - 1
    <2>1. a \in Nat /\ b \in Nat
      BY <1>1
    <2> HIDE DEF a, b
    <2>2. K * a \in Nat /\ K * b \in Nat
      BY <2>1, ProductIsNat
    <2> QED
      BY <2>2 DEF a, b
  <1>3. /\ K * (w - u - 1) = K * w - K * u - K /\ K * (w - 1) = K * w - K
        /\ K * (u - 6) = K * u - 6 * K /\ K * w \in Int /\ K * u \in Int
    OBVIOUS
  <1> DEFINE p == K * w
             q == K * u
  <1>4. p \in Int /\ q \in Int /\ p - q - K >= 0 /\ p - K >= 0
        /\ 12 * y = q /\ 12 * d = p /\ 12 * next = q - 6 * K
    BY <1>2, <1>3
  <1> HIDE DEF p, q
  <1> QED
    BY <1>4

\* The straight line through a steady series and the part of today lies below the
\* demand and falls.
LEMMA LineFallsShort ==
    ASSUME NEW n \in Nat \ {0}, NEW v \in Nat \ {0}, NEW i \in Nat
    PROVE  LET h == Steady(n, v)
           IN  /\ forecastLinear(h, i) < Denominator(h) * v
               /\ forecastLinear(h, i + 1) <= forecastLinear(h, i)
  <1> DEFINE h == Steady(n, v)
             N == n + 1
             s == SumOf(h)
             x == SumX(h)
             xx == SumXX(h)
             xy == SumXY(h)
             A == N * n
             B == N * n * (2 * n + 1)
             C == v * (n * (n - 1))
             K == N * N * n * v
             line(j) == s * (N * xx - x * x) - (N * xy - x * s) * x + N * (N * xy - x * s) * j
             den == N * (N * xx - x * x)
  <1>1. /\ Len(h) = N /\ s \in Int /\ s = n * v /\ x \in Int /\ 2 * x = A
        /\ xx \in Int /\ 6 * xx = B /\ xy \in Int /\ 2 * xy = C
    BY SteadySums
  <1> HIDE DEF h
  <1>2. \A j \in Int : forecastLinear(h, j) =
            IF line(N - 1 + j) < 0 THEN 0 ELSE line(N - 1 + j)
    BY <1>1 DEF forecastLinear
  <1>3. Denominator(h) = den
    BY <1>1 DEF Denominator
  <1> HIDE DEF s, x, xx, xy
  <1>4. N \in Int /\ A \in Int /\ B \in Int /\ C \in Int /\ n \in Int /\ v \in Int /\ i \in Int
        /\ i + 1 \in Int
    OBVIOUS
  <1>5. ASSUME NEW j \in Int
        PROVE  12 * line(n + j) = K * (n * (n + 5) - 6 * (n + j))
    <2>1. 12 * line(n + j) = s * (2 * (N * B) - 3 * (A * A)) - 3 * ((N * C - A * s) * A)
                             + 6 * (N * (N * C - A * s) * (n + j))
      <3> DEFINE m == n + j
      <3>1. m \in Int
        BY <1>4
      <3> HIDE DEF m, N, A, B, C
      <3>2. 12 * line(m) = s * (2 * (N * B) - 3 * (A * A)) - 3 * ((N * C - A * s) * A)
                           + 6 * (N * (N * C - A * s) * m)
        BY <1>1, <1>4, <3>1, LineFromSums
      <3> QED
        BY <3>2 DEF m
    <2>2. (n * v) * (2 * (N * B) - 3 * (A * A)) - 3 * ((N * C - A * (n * v)) * A)
              + 6 * (N * (N * C - A * (n * v)) * (n + j))
              = K * (n * (n + 5) - 6 * (n + j))
      BY <1>4, SteadyLine
    <2> QED
      BY <1>1, <2>1, <2>2
  <1>6. 12 * (den * v) = K * (N * (n + 2))
    <2>1. 12 * den = N * (2 * (N * B) - 3 * (A * A))
      <3> HIDE DEF N, A, B, C
      <3> QED
        BY <1>1, <1>4, LineFromSums
    <2>2. N * (2 * (N * B) - 3 * (A * A)) * v = K * (N * (n + 2))
      BY <1>4, SteadyLine
    <2>3. 12 * (den * v) = (12 * den) * v
      BY <1>1, <1>4
    <2> QED
      BY <2>1, <2>2, <2>3
  <1> DEFINE u == n * (n + 5) - 6 * (n + i)
             w == N * (n + 2)
             y == line(n + i)
             next == line(n + (i + 1))
             d == den * v
  <1>7. K \in Nat /\ K > 0
    <2>1. \A a \in Nat, b \in Nat : a > 0 /\ b > 0 => a * b \in Nat /\ a * b > 0
      <3> TAKE a \in Nat, b \in Nat
      <3> HAVE a > 0 /\ b > 0
      <3>1. a - 1 \in Nat
        OBVIOUS
      <3>2. (a - 1) * b \in Nat
        BY <3>1, ProductIsNat
      <3> QED
        BY <3>2
    <2>2. N \in Nat /\ N > 0 /\ n \in Nat /\ n > 0 /\ v \in Nat /\ v > 0
      OBVIOUS
    <2> HIDE DEF N
    <2>3. N * N \in Nat /\ N * N > 0
      BY <2>1, <2>2
    <2>4. (N * N) * n \in Nat /\ (N * N) * n > 0
      BY <2>1, <2>2, <2>3
    <2>5. ((N * N) * n) * v \in Nat /\ ((N * N) * n) * v > 0
      BY <2>1, <2>2, <2>4
    <2> QED
      BY <2>5
  <1>8. u \in Int /\ w \in Int /\ u < w /\ 0 < w
    <2>1. n * n \in Nat
      BY ProductIsNat
    <2>2. w = n * n + 3 * n + 2 /\ u = n * n - n - 6 * i
      OBVIOUS
    <2> QED
      BY <2>1, <2>2
  <1>9. 12 * y = K * u /\ 12 * d = K * w
    BY <1>4, <1>5, <1>6
  <1>10. 12 * next = K * (u - 6)
    <2>1. n * (n + 5) - 6 * (n + (i + 1)) = u - 6
      OBVIOUS
    <2>2. 12 * next = K * (n * (n + 5) - 6 * (n + (i + 1)))
      BY <1>4, <1>5
    <2> QED
      BY <2>1, <2>2
  <1>11. y \in Int /\ next \in Int /\ d \in Int
    BY <1>1, <1>4
  <1> HIDE DEF K, u, w, y, next, d
  <1>12. y < d /\ 0 < d /\ next <= y
    BY <1>7, <1>8, <1>9, <1>10, <1>11, ScaledDown
  <1>13. N - 1 + i = n + i /\ N - 1 + (i + 1) = n + (i + 1)
    OBVIOUS
  <1>14. /\ forecastLinear(h, i) = IF y < 0 THEN 0 ELSE y
         /\ forecastLinear(h, i + 1) = IF next < 0 THEN 0 ELSE next
    BY <1>2, <1>4, <1>13 DEF y, next
  <1>15. forecastLinear(h, i) < d /\ forecastLinear(h, i + 1) <= forecastLinear(h, i)
    BY <1>11, <1>12, <1>14
  <1> QED
    BY <1>3, <1>15 DEF h, d

\* The average of seven days of which today is one.
LEMMA AverageFallsShort ==
    ASSUME NEW n \in Nat, n >= 6, NEW v \in Int
    PROVE  forecastRollingAvg(Steady(n, v)) = 6 * v
  <1> DEFINE h == Steady(n, v)
             t == SubSeq(h, n - 5, n + 1)
             I == 1..7
  <1>1. h \in Seq(Int) /\ Len(h) = n + 1 /\ (\A i \in 1..n : h[i] = v) /\ h[n + 1] = 0
    BY SteadySums
  <1> HIDE DEF h
  <1>2. Len(h) - Window(h) + 1 = n - 5
    BY <1>1 DEF Window
  <1>3. forecastRollingAvg(h) = SumOf(t)
    BY <1>1, <1>2 DEF forecastRollingAvg
  <1>4. t \in Seq(Int) /\ Len(t) = 7 /\ \A i \in 1..7 : t[i] = h[(n - 5) + i - 1]
    <2>1. n - 5 \in Int /\ n + 1 \in Int /\ \A i \in (n - 5)..(n + 1) : h[i] \in Int
      BY <1>1
    <2> DEFINE a == n - 5
               b == n + 1
    <2>2. a \in Int /\ b \in Int /\ a <= b /\ b - a + 1 = 7 /\ \A i \in a..b : h[i] \in Int
      BY <2>1
    <2>3. t = SubSeq(h, a, b)
      OBVIOUS
    <2> HIDE DEF a, b, t
    <2>4. /\ SubSeq(h, a, b) \in Seq(Int)
          /\ Len(SubSeq(h, a, b)) = b - a + 1
          /\ \A i \in 1..(b - a + 1) : SubSeq(h, a, b)[i] = h[a + i - 1]
      BY <2>2, SubSeqProperties
    <2> QED
      BY <2>2, <2>3, <2>4 DEF a
  <1> HIDE DEF t
  <1>5. DOMAIN t = 1..7 /\ (\A i \in 1..6 : t[i] = v) /\ t[7] = 0
    <2>1. \A i \in 1..6 : t[i] = v
      <3> TAKE i \in 1..6
      <3>1. i \in 1..7 /\ (n - 5) + i - 1 \in 1..n
        OBVIOUS
      <3>2. t[i] = h[(n - 5) + i - 1]
        BY <1>4, <3>1
      <3> QED
        BY <1>1, <3>1, <3>2
    <2>2. t[7] = h[(n - 5) + 7 - 1] /\ (n - 5) + 7 - 1 = n + 1
      BY <1>4
    <2>3. t[7] = 0
      BY <1>1, <2>2
    <2> QED
      BY <1>4, <2>1, <2>3
  <1>6. SumOf(t) = SumOver(t, 1..7)
    BY <1>5, SumOfIs
  <1>7. SumOver(t, 1..7) = SumOver(t, 1..6) + t[7]
    <2> DEFINE m == 6
    <2>1. m \in Nat /\ m + 1 = 7 /\ \A i \in 1..(m + 1) : t[i] \in Int
      <3>1. \A i \in 1..7 : i \in 1..6 \/ i = 7
        OBVIOUS
      <3> QED
        BY <1>5, <3>1
    <2> HIDE DEF m
    <2>2. SumOver(t, 1..(m + 1)) = SumOver(t, 1..m) + t[m + 1]
      BY <2>1, SumToNext
    <2> QED
      BY <2>1, <2>2 DEF m
  <1>8. 2 * SumOver(t, 1..6) = 2 * v * 6
    <2>1. 6 \in Nat /\ 0 \in Int /\ Climbs(t, 6, 0, v)
      BY <1>5 DEF Climbs
    <2>2. 2 * SumOver(t, 1..6) = 0 * (6 * (6 - 1)) + 2 * v * 6
      BY <2>1, SumOfSteps
    <2> QED
      BY <2>2
  <1>9. SumOver(t, 1..6) \in Int
    <2> DEFINE U == 1..6
    <2>1. 1 \in Int /\ 6 \in Int
      OBVIOUS
    <2>2. IsFiniteSet(U) /\ \A i \in U : t[i] \in Int
      BY <1>5, <2>1, FS_Interval
    <2> HIDE DEF U
    <2>3. SumOver(t, U) \in Int
      BY <2>2, SumIsInt
    <2> QED
      BY <2>3 DEF U
  <1>10. SumOf(t) = 6 * v
    BY <1>5, <1>6, <1>7, <1>8, <1>9
  <1> QED
    BY <1>3, <1>10 DEF h

\* For any demands, histories, horizons, thresholds, prices and multipliers: what the service answers
\* about forecasts, orders and transfers is as AdviceHolds says.
THEOREM AdviceHoldsAlways == AdviceSpec => []AdviceHolds
  <1>1. AdviceInv => ForecastLags
    <2> SUFFICES ASSUME AdviceInv, question.kind = "forecast" PROVE ForecastLags
      BY DEF ForecastLags
    <2>1. question.steady \in Nat \ {0} /\ question.days \in 7..MaxHistory /\ question.ahead \in 1..MaxHorizon
      BY DEF AdviceInv
    <2>2. question.days \in Nat \ {0} /\ question.days >= 6 /\ question.ahead \in Nat
      BY <2>1, AdviceAssumption
    <2>3. forecastRollingAvg(Steady(question.days, question.steady)) = 6 * question.steady
      BY <2>1, <2>2, AverageFallsShort
    <2> QED
      BY <2>1, <2>2, <2>3, LineFallsShort DEF ForecastLags
  <1> QED
    BY <1>1, AdviceInvariant, AdviceIsSound, PTL DEF AdviceHolds

=============================================================================
