--------------------------- MODULE AnalyticsDaily ---------------------------
(***************************************************************************)
(* The analytics service's consumer: the replicas share a queue group, each *)
(* has one goroutine per subject, and a handler adds one event to the row   *)
(* of the day on which it runs, then publishes analytics.aggregate_updated. *)
(* Nothing keeps an event that no replica took or whose upsert failed.      *)
(***************************************************************************)
EXTENDS AnalyticsRules

CONSTANTS
    Replica,    \* instances of the service
    Amounts,    \* total_amount of an order
    RateCap,    \* first on_time_rate NUMERIC(5,2) cannot hold: 1000 %
    MaxDay,     \* bound on the calendar
    MaxCreated  \* bound on the events of a subject and day

ASSUME DailyAssumption ==
    /\ RateCap \in Nat \ {0} /\ MaxDay \in Nat \ {0} /\ MaxCreated \in Nat
    /\ Amounts \subseteq Nat /\ IsFiniteSet(Replica)

VARIABLES
    today,      \* time.Now().UTC() of every replica, as a date
    sales,      \* sales[d]: row of analytics.sales_daily, or NoSales
    shipping,   \* shipping[d]: row of analytics.logistics_daily, or NoShipping
    handler,    \* handler[k][j]: what replica k does with an event of subject j
    created,    \* created[j][d]: events of subject j published on day d (history)
    counted,    \* counted[j]: upserts of events of subject j (history)
    earned,     \* sum of the amounts of the orders counted (history)
    aggregates, \* aggregates[j]: analytics.aggregate_updated published for subject j
    scan        \* a DetectAnomalies: what it has read, then its answer

dailyVars == <<today, sales, shipping, handler, created, counted, earned, aggregates, scan>>

Day == 1..MaxDay
OrderCreated == "order.created"
Counting == {OrderCreated, "logistics.shipment_created", "logistics.shipment_delivered",
             "logistics.shipment_returned"}
\* Of the subjects that are only passed on as aggregate_updated, one.
Consumed == Counting \cup {"order.cancelled"}

NoSales    == [orders |-> 0, revenue |-> 0, avg |-> 0]
NoShipping == [shipments |-> 0, delivered |-> 0, failed |-> 0, rate |-> 0]
Waiting       == [at |-> "idle", amount |-> 0]

\* Type correctness of the rows and of the handlers' locals.
DailyTypeOK ==
    /\ today \in Day
    /\ sales \in [Day -> [orders : Nat, revenue : Nat, avg : Nat]]
    /\ shipping \in [Day -> [shipments : Nat, delivered : Nat, failed : Nat,
                              rate : 0..(RateCap - 1)]]
    /\ handler \in [Replica -> [Consumed -> [at : {"idle", "upsert", "publish"}, amount : Nat]]]
    /\ created \in [Consumed -> [Day -> 0..MaxCreated]]
    /\ counted \in [Consumed -> Nat] /\ aggregates \in [Consumed -> Nat] /\ earned \in Nat
    /\ scan.at \in {"none", "sales", "done"}

DailyInit ==
    /\ today      = 1
    /\ sales      = [d \in Day |-> NoSales]
    /\ shipping   = [d \in Day |-> NoShipping]
    /\ handler    = [k \in Replica |-> [j \in Consumed |-> Waiting]]
    /\ created    = [j \in Consumed |-> [d \in Day |-> 0]]
    /\ counted    = [j \in Consumed |-> 0]
    /\ earned     = 0
    /\ aggregates = [j \in Consumed |-> 0]
    /\ scan       = [at |-> "none"]

Midnight ==
    /\ today < MaxDay /\ today' = today + 1
    /\ UNCHANGED <<sales, shipping, handler, created, counted, earned, aggregates, scan>>

\* A service publishes; NATS gives the event to one replica of the queue group,
\* or to none.
Happens(j) ==
    /\ created[j][today] < MaxCreated   \* bound
    /\ created' = [created EXCEPT ![j][today] = @ + 1]
    /\ UNCHANGED <<today, sales, shipping, counted, earned, aggregates, scan>>

Take(k, j, amount) ==
    /\ handler[k][j] = Waiting
    /\ handler' = [handler EXCEPT ![k][j] =
                       [at |-> IF j \in Counting THEN "upsert" ELSE "publish", amount |-> amount]]
    /\ Happens(j)

Missed(j) == Happens(j) /\ UNCHANGED handler

-----------------------------------------------------------------------------
\* The row after INSERT .. ON CONFLICT (date) DO UPDATE: an average is computed
\* by the second branch only.
incrSalesDaily_Replace(row, amount) ==
    IF row.orders = 0 THEN [orders |-> 1, revenue |-> amount, avg |-> 0]
    ELSE [orders |-> row.orders + 1, revenue |-> amount, avg |-> Rounded(amount, row.orders + 1)]
incrSalesDaily(row, amount) ==
    IF row.orders = 0 THEN [orders |-> 1, revenue |-> amount, avg |-> 0]
    ELSE [orders |-> row.orders + 1, revenue |-> row.revenue + amount,
          avg |-> Rounded(row.revenue + amount, row.orders + 1)]

\* deltaShipments, deltaDelivered, deltaFailed of the subject's handler
Delta(j) ==
    CASE j = "logistics.shipment_created"   -> <<1, 0, 0>>
      [] j = "logistics.shipment_delivered" -> <<0, 1, 0>>
      [] j = "logistics.shipment_returned"  -> <<0, 0, 1>>

\* A return takes a delivery back.
incrLogisticsDaily_TakesBack(row, j) ==
    LET s == row.shipments + Delta(j)[1]
        d == row.delivered + Delta(j)[2] - Delta(j)[3]
    IN  [shipments |-> s, delivered |-> d, failed |-> row.failed + Delta(j)[3],
         rate |-> IF row = NoShipping \/ s = 0 THEN 0 ELSE Rounded(10000 * d, s)]

incrLogisticsDaily(row, j) ==
    LET s == row.shipments + Delta(j)[1]
        d == row.delivered + Delta(j)[2]
    IN  [shipments |-> s, delivered |-> d, failed |-> row.failed + Delta(j)[3],
         rate |-> IF row = NoShipping \/ s = 0 THEN 0 ELSE Rounded(10000 * d, s)]

\* The handler's next state: it publishes unless its upsert failed.
AfterUpsert(k, j, told) ==
    handler' = [handler EXCEPT ![k][j] = IF told THEN [Waiting EXCEPT !.at = "publish"] ELSE Waiting]

\* The upsert commits; the handler may not learn of it within its five seconds.
Upsert(k, j, told) ==
    /\ handler[k][j].at = "upsert"
    /\ IF j = OrderCreated
       THEN /\ sales' = [sales EXCEPT ![today] = incrSalesDaily(@, handler[k][j].amount)]
            /\ earned' = earned + handler[k][j].amount
            /\ UNCHANGED shipping
       ELSE /\ incrLogisticsDaily(shipping[today], j).rate < RateCap
            /\ shipping' = [shipping EXCEPT ![today] = incrLogisticsDaily(@, j)]
            /\ UNCHANGED <<sales, earned>>
    /\ counted' = [counted EXCEPT ![j] = @ + 1]
    /\ AfterUpsert(k, j, told)
    /\ UNCHANGED <<today, created, aggregates, scan>>

\* It fails: the pool has no connection, the statement times out, or the rate
\* overflows its column, as it does for every delivery on a day with ten times
\* as many of them as shipments.
UpsertFails(k, j) ==
    /\ handler[k][j].at = "upsert" /\ AfterUpsert(k, j, FALSE)
    /\ UNCHANGED <<today, sales, shipping, created, counted, earned, aggregates, scan>>

\* publishAggregate, whose failure is only logged.
publishAggregate(k, j, sent) ==
    /\ handler[k][j].at = "publish"
    /\ handler' = [handler EXCEPT ![k][j] = Waiting]
    /\ aggregates' = [aggregates EXCEPT ![j] = IF sent THEN @ + 1 ELSE @]
    /\ UNCHANGED <<today, sales, shipping, created, counted, earned, scan>>

\* A replica is started again: the events its goroutines had taken are lost.
RestartAnalytics(k) ==
    /\ handler' = [handler EXCEPT ![k] = [j \in Consumed |-> Waiting]]
    /\ UNCHANGED <<today, sales, shipping, created, counted, earned, aggregates, scan>>

-----------------------------------------------------------------------------
\* The rows of a window, by date: a day without events has none.
ByDate(days) == CHOOSE q \in SetToSeqs(days) : \A i, j \in DOMAIN q : i < j => q[i] < q[j]

GetSalesDaily(from, to) ==
    LET days == ByDate({d \in from..to : sales[d] # NoSales})
    IN  [i \in DOMAIN days |-> [day |-> days[i], orders |-> sales[days[i]].orders,
                                revenue |-> sales[days[i]].revenue]]

GetLogisticsDaily(from, to) ==
    LET days == ByDate({d \in from..to : shipping[d] # NoShipping})
    IN  [i \in DOMAIN days |-> [day |-> days[i], shipments |-> shipping[days[i]].shipments,
                                delivered |-> shipping[days[i]].delivered,
                                failed |-> shipping[days[i]].failed,
                                rate |-> shipping[days[i]].rate]]

\* DetectAnomalies: the two tables are read one after the other.
ScanSales(from, to) ==
    /\ scan.at = "none"
    /\ scan' = [at |-> "sales", from |-> from, to |-> to, sales |-> GetSalesDaily(from, to)]
    /\ UNCHANGED <<today, sales, shipping, handler, created, counted, earned, aggregates>>

ScanLogistics ==
    /\ scan.at = "sales"
    /\ scan' = [at |-> "done", from |-> scan.from, to |-> scan.to,
                alarms |-> DetectAnomalies(scan.sales, GetLogisticsDaily(scan.from, scan.to))]
    /\ UNCHANGED <<today, sales, shipping, handler, created, counted, earned, aggregates>>

DailyNext ==
    \/ Midnight
    \/ \E j \in Consumed : Missed(j)
    \/ \E k \in Replica, j \in Consumed :
           \/ \E amount \in IF j = OrderCreated THEN Amounts ELSE {0} : Take(k, j, amount)
           \/ UpsertFails(k, j)
           \/ \E heard \in BOOLEAN : Upsert(k, j, heard) \/ publishAggregate(k, j, heard)
    \/ \E k \in Replica : RestartAnalytics(k)
    \/ \E from, to \in Day : from <= to /\ ScanSales(from, to)
    \/ ScanLogistics

DailySpec == DailyInit /\ [][DailyNext]_dailyVars

-----------------------------------------------------------------------------
CreatedUpTo(j, d) == SumOf([x \in 1..d |-> created[j][x]])
Sales(d) == GetSalesSummary(GetSalesDaily(1, d))

\* The totals over all days are those of the upserts that committed, and the
\* totals up to any day are never ahead of what had happened by then.
TotalsMatch ==
    /\ Sales(MaxDay) = [orderCount |-> counted[OrderCreated], totalRevenue |-> earned]
    /\ LET p == GetLogisticsPerformance(GetLogisticsDaily(1, MaxDay))
       IN  /\ p.totalShipments = counted["logistics.shipment_created"]
           /\ p.deliveredCount = counted["logistics.shipment_delivered"]
           /\ p.failedCount    = counted["logistics.shipment_returned"]
    /\ \A d \in Day : Sales(d).orderCount <= CreatedUpTo(OrderCreated, d)

\* No aggregate_updated is out before its event is in a row.
ToldAfterwards == \A j \in Counting : aggregates[j] <= counted[j]

\* The average and the rate of a day are those of its counters from its second
\* event on.
FiguresMatch ==
    \A d \in Day :
        /\ sales[d].orders > 1 => sales[d].avg = Rounded(sales[d].revenue, sales[d].orders)
        /\ /\ shipping[d].shipments + shipping[d].delivered + shipping[d].failed > 1
           /\ shipping[d].shipments > 0
           => shipping[d].rate = Rounded(10000 * shipping[d].delivered, shipping[d].shipments)

\* However replicas interleave and fail, the rows of sales_daily and
\* logistics_daily hold what was counted, and what is published follows them.
DailyRowsAddUp == TotalsMatch /\ ToldAfterwards /\ FiguresMatch

\* "Sales: revenue > 2 sigma from mean, zero-order days" (docs/mcp-tools.md): in
\* an answer about a window that ended before today and holds two days with
\* orders, which the rules ask for, a day on which none was created has an alarm.
QuietDaysReported ==
    /\ scan.at = "done" /\ scan.to < today
    /\ Cardinality({d \in scan.from..scan.to : sales[d] # NoSales}) >= 2
    => \A d \in scan.from..scan.to :
           created[OrderCreated][d] = 0
               => \E a \in scan.alarms : a.day = d /\ a.metric = "total_orders"

\* The consumers of some subjects alone.
EventsOf(js) == DailyNext /\ \A j \in Consumed \ js : created'[j] = created[j]
=============================================================================
