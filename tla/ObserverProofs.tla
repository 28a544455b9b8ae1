--------------------------- MODULE ObserverProofs ---------------------------
(***************************************************************************)
(* The services that watch and prod the others: the simulator's actors, the *)
(* notifications and the answers clients are given about shipments, and all *)
(* of them side by side with the analytics service (MCObservers).           *)
(***************************************************************************)
EXTENDS MCObservers, AnalyticsProofs

-----------------------------------------------------------------------------
(* The simulator.                                                          *)

\* A request to move a row asks for a move the tables allow.
Sound(r) ==
    /\ r.do = "order"  => OrderRules!CanTransition(r.from, r.to)
    /\ r.do = "parcel" => ParcelRules!CanTransition(r.from, r.to)

SoundRequest == {r \in Request : Sound(r)}

\* Where the actors are and what they have left; those that were stopped sleep.
ActorsHold ==
    /\ actor \in [Actor -> [at : Asleep \cup {"tick"}, todo : Seq(Request)]]
    /\ \A a \in Actor : /\ actor[a].at = "tick" <=> actor[a].todo # <<>>
                        /\ actor[a].todo \in Seq(SoundRequest)
    /\ QuietAfterStop /\ quiet \subseteq Actor

\* What the switch, the counters and the rows may be.
SwitchHolds == enabled \in BOOLEAN /\ scenario \in Scenario /\ recent \in BOOLEAN
TallyHolds  == tally \in [actions : 0..MaxTally, errors : 0..MaxTally]
RowsHold ==
    /\ order \in [Order -> OrderRules!Status \cup {"none"}]
    /\ parcel \in [Parcel -> [status : ParcelRules!Status \cup {"none"}, attempts : 0..MaxAttempts]]

SimInv == ActorsHold /\ SwitchHolds /\ TallyHolds /\ RowsHold /\ surprised = {}

LEMMA SimConstants ==
  /\ MinActions \in Nat /\ MaxTally \in Nat /\ MaxAttempts \in Nat
  /\ "steady" \in Scenario
  BY SimulatorAssumption

LEMMA SoundIsRequest == \A s \in Seq(SoundRequest) : s \in Seq(Request)
  BY DEF SoundRequest

\* What Over leaves of an actor in its Tick.
LEMMA OverIs ==
  ASSUME NEW a \in Actor, NEW todo \in Seq(SoundRequest)
  PROVE  /\ Over(a, todo) \in [at : Asleep \cup {"tick"}, todo : Seq(Request)]
         /\ Over(a, todo).todo = todo
         /\ Over(a, todo).at = "tick" <=> todo # <<>>
  <1>1. todo \in Seq(Request) /\ <<>> \in Seq(Request)
    BY SoundIsRequest, EmptySeq
  <1> QED
    BY <1>1 DEF Over, AtLoop, Asleep

\* An actor that is in its Tick goes on with other requests.
LEMMA ActorGoesOn ==
  ASSUME ActorsHold, NEW a \in Actor, NEW todo \in Seq(SoundRequest),
         actor[a].at = "tick" \/ enabled,
         actor' = [actor EXCEPT ![a] = Over(a, todo)], UNCHANGED <<enabled, quiet>>
  PROVE  ActorsHold'
  <1>1. /\ Over(a, todo) \in [at : Asleep \cup {"tick"}, todo : Seq(Request)]
        /\ Over(a, todo).todo = todo
        /\ Over(a, todo).at = "tick" <=> todo # <<>>
    BY OverIs
  <1>2. ~enabled => a \notin quiet
    BY DEF ActorsHold, QuietAfterStop, Asleep
  <1>3. QuietAfterStop'
    BY <1>2 DEF ActorsHold, QuietAfterStop
  <1> QED
    BY <1>1, <1>3 DEF ActorsHold

\* The request an actor is about to make.
LEMMA StepIs ==
  ASSUME ActorsHold, NEW a \in Actor, actor[a].at = "tick"
  PROVE  Step(a) \in SoundRequest /\ Tail(actor[a].todo) \in Seq(SoundRequest)
  BY HeadTailProperties DEF ActorsHold, Step

\* The request is made and perhaps others are put before those left.
LEMMA NextHolds ==
  ASSUME ActorsHold, NEW a \in Actor, actor[a].at = "tick", UNCHANGED <<enabled, quiet>>,
         Next_(a) \/ Abandon(a)
  PROVE  ActorsHold'
  <1>1. Tail(actor[a].todo) \in Seq(SoundRequest) /\ <<>> \in Seq(SoundRequest)
    BY StepIs, EmptySeq
  <1>2. AtLoop = Over(a, <<>>)
    BY DEF Over
  <1> QED
    BY <1>1, <1>2, ActorGoesOn DEF Next_, Abandon

LEMMA InsertHolds ==
  ASSUME ActorsHold, NEW a \in Actor, actor[a].at = "tick", UNCHANGED <<enabled, quiet>>,
         NEW s \in Seq(SoundRequest), Insert(a, s)
  PROVE  ActorsHold'
  <1>1. Tail(actor[a].todo) \in Seq(SoundRequest)
    BY StepIs
  <1>2. s \o Tail(actor[a].todo) \in Seq(SoundRequest)
    BY <1>1, ConcatProperties
  <1> QED
    BY <1>2, ActorGoesOn DEF Insert

\* Every list a Tick asks for is one of a status.
LEMMA ScriptIs == ASSUME NEW a \in Actor PROVE Script(a) \in Seq(SoundRequest) /\ Script(a) # <<>>
  <1>1. /\ \A d \in {"refresh", "spawn", "stock", "users", "notify"} : [do |-> d] \in SoundRequest
        /\ \A st \in ToSet(transitions) : [do |-> "orders", status |-> st] \in SoundRequest
        /\ \A st \in ToSet(transitStatuses) : [do |-> "parcels", status |-> st] \in SoundRequest
    BY DEF SoundRequest, Request, Sound
  <1>2. /\ transitions \in Seq(ToSet(transitions)) /\ Len(transitions) = 4
        /\ transitStatuses \in Seq(ToSet(transitStatuses)) /\ Len(transitStatuses) = 9
    BY DEF transitions, transitStatuses, ToSet
  <1>3. CASE a = "order_progressor"
    <2>1. Script(a) = [i \in 1..4 |-> [do |-> "orders", status |-> transitions[i]]]
      BY <1>2, <1>3 DEF Script
    <2>2. \A i \in 1..4 : transitions[i] \in ToSet(transitions)
      BY <1>2, ElementOfSeq
    <2> QED
      BY <1>1, <2>1, <2>2, IsASeq
  <1>4. CASE a = "shipment_progressor"
    <2>1. Script(a) = [i \in 1..9 |-> [do |-> "parcels", status |-> transitStatuses[i]]]
      BY <1>2, <1>4 DEF Script
    <2>2. \A i \in 1..9 : transitStatuses[i] \in ToSet(transitStatuses)
      BY <1>2, ElementOfSeq
    <2> QED
      BY <1>1, <2>1, <2>2, IsASeq
  <1>5. CASE a \in {"order_spawner", "inventory_fluctuator", "notification_actor"}
    BY <1>1, <1>5 DEF Script
  <1> QED
    BY <1>3, <1>4, <1>5 DEF Actor

LEMMA SimTypes == SimInv => SimulatorTypeOK
  BY DEF SimInv, ActorsHold, SwitchHolds, TallyHolds, RowsHold, SimulatorTypeOK

LEMMA SimInitInv == SimulatorInit => SimInv
  <1> SUFFICES ASSUME SimulatorInit PROVE SimInv
    OBVIOUS
  <1>1. /\ AtLoop \in [at : Asleep \cup {"tick"}, todo : Seq(Request)]
        /\ AtLoop.todo = <<>> /\ AtLoop.at = "loop" /\ <<>> \in Seq(SoundRequest)
    BY EmptySeq DEF AtLoop, Asleep
  <1>2. ActorsHold
    BY <1>1 DEF SimulatorInit, ActorsHold, QuietAfterStop, Asleep
  <1>3. 0 \in 0..MaxTally /\ 0 \in 0..MaxAttempts
    BY SimConstants
  <1>4. TallyHolds /\ RowsHold
    BY <1>3 DEF SimulatorInit, TallyHolds, RowsHold, NoParcel
  <1> QED
    BY <1>2, <1>4, SimConstants DEF SimulatorInit, SimInv, SwitchHolds

LEMMA CountHolds ==
  ASSUME TallyHolds, NEW actions \in {0, 1}, NEW errors \in {0, 1}, Count(actions, errors)
  PROVE  TallyHolds'
  <1>1. /\ tally.actions + actions \in 0..MaxTally /\ tally.errors + errors \in 0..MaxTally
    BY SimConstants DEF TallyHolds, Count
  <1> QED
    BY <1>1 DEF TallyHolds, Count

\* The status requests, and the supervisor's stop.
LEMMA StoppedHolds == ASSUME ActorsHold, Stopped, actor' = actor PROVE ActorsHold' /\ enabled' \in BOOLEAN
  BY DEF ActorsHold, Stopped, QuietAfterStop

LEMMA SwitchesInv ==
  ASSUME SimInv, NEW sc \in Scenario, Start(sc) \/ SetScenario(sc) \/ StopSimulator \/ MinutePasses
  PROVE  SimInv'
  <1>1. CASE Start(sc)
    BY <1>1 DEF Start, world, SimInv, ActorsHold, QuietAfterStop, SwitchHolds, TallyHolds, RowsHold
  <1>2. CASE SetScenario(sc)
    BY <1>2 DEF SetScenario, world, SimInv, ActorsHold, QuietAfterStop, SwitchHolds, TallyHolds, RowsHold
  <1>3. CASE StopSimulator
    <2>1. ActorsHold' /\ enabled' \in BOOLEAN
      BY <1>3, StoppedHolds DEF SimInv, StopSimulator
    <2> QED
      BY <1>3, <2>1 DEF StopSimulator, world, SimInv, SwitchHolds, TallyHolds, RowsHold
  <1>4. CASE MinutePasses
    BY <1>4 DEF MinutePasses, world, SimInv, ActorsHold, QuietAfterStop, SwitchHolds, TallyHolds, RowsHold
  <1> QED
    BY <1>1, <1>2, <1>3, <1>4

LEMMA SuperviseInv == ASSUME SimInv, Supervise PROVE SimInv'
  <1>1. TallyHolds'
    BY SimConstants DEF SimInv, TallyHolds, Supervise
  <1>2. ActorsHold' /\ enabled' \in BOOLEAN /\ recent' \in BOOLEAN
    <2>1. CASE enabled /\ TooManyErrors /\ ~recent
      BY <2>1, StoppedHolds DEF SimInv, Supervise
    <2>2. CASE ~(enabled /\ TooManyErrors /\ ~recent)
      BY <2>2 DEF SimInv, Supervise, ActorsHold, QuietAfterStop, SwitchHolds
    <2> QED
      BY <2>1, <2>2
  <1> QED
    BY <1>1, <1>2 DEF Supervise, world, SimInv, SwitchHolds, RowsHold

\* A move of the logistics service leaves a parcel a parcel.
LEMMA ParcelMovedIs ==
  ASSUME RowsHold, NEW p \in Parcel, NEW to \in ParcelRules!Status,
         to = "delivery_attempted" => parcel[p].attempts < MaxAttempts,
         parcel' = ParcelMoved(p, to), order' = order
  PROVE  RowsHold'
  <1> DEFINE n == IF to = "delivery_attempted" THEN parcel[p].attempts + 1 ELSE parcel[p].attempts
  <1>1. n \in 0..MaxAttempts
    BY SimConstants DEF RowsHold
  <1>2. parcel' = [parcel EXCEPT ![p] = [@ EXCEPT !.status = to, !.attempts = n]]
    BY DEF ParcelMoved, RowsHold
  <1> HIDE DEF n
  <1>3. [parcel[p] EXCEPT !.status = to, !.attempts = n]
            \in [status : ParcelRules!Status \cup {"none"}, attempts : 0..MaxAttempts]
    BY <1>1 DEF RowsHold
  <1> QED
    BY <1>2, <1>3 DEF RowsHold

LEMMA AllowedIsStatus ==
  /\ \A from : OrderRules!Allowed(from) \subseteq OrderRules!Status
  /\ \A from : ParcelRules!Allowed(from) \subseteq ParcelRules!Status
  <1>1. ASSUME NEW from PROVE OrderRules!Allowed(from) \subseteq OrderRules!Status
    BY DEF OrderRules!Allowed, OrderRules!Status
  <1>2. ASSUME NEW from PROVE ParcelRules!Allowed(from) \subseteq ParcelRules!Status
    BY DEF ParcelRules!Allowed, ParcelRules!Status
  <1> QED
    BY <1>1, <1>2

LEMMA OthersInv == ASSUME SimInv, OthersMove PROVE SimInv'
  <1>1. RowsHold'
    <2>1. ASSUME NEW o \in Order, NEW to \in OrderRules!Allowed(order[o]),
                 order' = [order EXCEPT ![o] = to], parcel' = parcel
          PROVE  RowsHold'
      BY <2>1, AllowedIsStatus DEF SimInv, RowsHold
    <2>2. ASSUME NEW p \in Parcel, NEW to \in ParcelRules!Allowed(parcel[p].status),
                 to = "delivery_attempted" => parcel[p].attempts < MaxAttempts,
                 parcel' = ParcelMoved(p, to), order' = order
          PROVE  RowsHold'
      BY <2>2, AllowedIsStatus, ParcelMovedIs DEF SimInv
    <2>3. ASSUME NEW p \in Parcel, parcel' = [parcel EXCEPT ![p].status = "created"], order' = order
          PROVE  RowsHold'
      <3>1. [parcel[p] EXCEPT !.status = "created"]
                \in [status : ParcelRules!Status \cup {"none"}, attempts : 0..MaxAttempts]
        BY DEF SimInv, RowsHold, ParcelRules!Status
      <3> QED
        BY <2>3, <3>1 DEF SimInv, RowsHold
    <2> QED
      BY <2>1, <2>2, <2>3 DEF OthersMove
  <1> QED
    BY <1>1 DEF OthersMove, SimInv, ActorsHold, QuietAfterStop, SwitchHolds, TallyHolds

\* What the actors do that touches no row: the loop, failures, and requests
\* whose answers are not kept here.
LEMMA LoopInv == ASSUME SimInv, NEW a \in Actor, FallAsleep(a) \/ Wake(a) PROVE SimInv'
  <1>1. CASE FallAsleep(a)
    <2>1. actor' = [actor EXCEPT ![a] = [actor[a] EXCEPT !.at = "asleep"]]
      BY <1>1 DEF FallAsleep
    <2>2. /\ [actor[a] EXCEPT !.at = "asleep"] \in [at : Asleep \cup {"tick"}, todo : Seq(Request)]
          /\ actor[a].todo = <<>>
      BY <1>1 DEF FallAsleep, SimInv, ActorsHold, Asleep
    <2>3. ActorsHold'
      BY <1>1, <2>1, <2>2 DEF FallAsleep, SimInv, ActorsHold, QuietAfterStop, Asleep
    <2> QED
      BY <1>1, <2>3 DEF FallAsleep, world, SimInv, SwitchHolds, TallyHolds, RowsHold
  <1>2. CASE Wake(a)
    <2>1. /\ Script(a) \in Seq(SoundRequest) /\ Script(a) # <<>> /\ <<>> \in Seq(SoundRequest)
          /\ Woken(a) = Over(a, IF enabled THEN Script(a) ELSE <<>>)
      BY ScriptIs, EmptySeq DEF Woken, Over
    <2>2. ActorsHold'
      <3>1. CASE enabled
        BY <1>2, <2>1, <3>1, ActorGoesOn DEF Wake, SimInv
      <3>2. CASE ~enabled
        <4>1. actor' = [actor EXCEPT ![a] = AtLoop]
          BY <1>2, <3>2 DEF Wake, Woken
        <4>2. AtLoop \in [at : Asleep \cup {"tick"}, todo : Seq(Request)]
          BY EmptySeq DEF AtLoop, Asleep
        <4> QED
          BY <1>2, <2>1, <4>1, <4>2
             DEF Wake, SimInv, ActorsHold, QuietAfterStop, AtLoop, Asleep
      <3> QED
        BY <3>1, <3>2
    <2> QED
      BY <1>2, <2>2 DEF Wake, world, SimInv, SwitchHolds, TallyHolds, RowsHold
  <1> QED
    BY <1>1, <1>2

LEMMA FailsInv == ASSUME SimInv, NEW a \in Actor, Fails(a) PROVE SimInv'
  <1>1. /\ actor[a].at = "tick" /\ UNCHANGED <<enabled, quiet>>
        /\ Next_(a) \/ Abandon(a)
    BY DEF Fails, Running
  <1>2. ActorsHold'
    BY <1>1, NextHolds DEF SimInv
  <1>3. TallyHolds'
    BY CountHolds DEF Fails, SimInv
  <1> QED
    BY <1>2, <1>3 DEF Fails, Running, world, SimInv, SwitchHolds, RowsHold

LEMMA FetchedInv == ASSUME SimInv, NEW a \in Actor, Fetched(a) \/ addEvent(a) PROVE SimInv'
  <1>1. /\ actor[a].at = "tick" /\ UNCHANGED <<enabled, quiet, scenario, recent>>
        /\ Next_(a) \/ Abandon(a)
        /\ UNCHANGED <<tally, order, parcel, surprised>>
    BY DEF Fetched, addEvent, Turn, Running, world
  <1>2. ActorsHold'
    BY <1>1, NextHolds DEF SimInv
  <1> QED
    BY <1>1, <1>2 DEF SimInv, SwitchHolds, TallyHolds, RowsHold

LEMMA AnsweredHolds ==
  ASSUME ActorsHold, TallyHolds, NEW a \in Actor, NEW heard \in BOOLEAN, actor[a].at = "tick",
         Answered(a, heard), UNCHANGED <<enabled, quiet>>
  PROVE  ActorsHold' /\ TallyHolds'
  <1>1. Next_(a) \/ Abandon(a)
    BY DEF Answered
  <1>2. Count(0, 0) \/ Count(1, 0) \/ Count(0, 1)
    BY DEF Answered
  <1> QED
    BY <1>1, <1>2, NextHolds, CountHolds

LEMMA spawnOneInv ==
  ASSUME SimInv, NEW a \in Actor, NEW heard \in BOOLEAN, NEW o \in Order, spawnOne(a, o, heard)
  PROVE  SimInv'
  <1>1. /\ actor[a].at = "tick" /\ UNCHANGED <<enabled, quiet, scenario, recent, surprised, parcel>>
        /\ Answered(a, heard) /\ order' = [order EXCEPT ![o] = "pending"]
    BY DEF spawnOne, Turn, Running, world
  <1>2. ActorsHold' /\ TallyHolds'
    BY <1>1, AnsweredHolds DEF SimInv
  <1>3. RowsHold'
    BY <1>1 DEF SimInv, RowsHold, OrderRules!Status
  <1> QED
    BY <1>1, <1>2, <1>3 DEF SimInv, SwitchHolds

LEMMA adjustOneInv ==
  ASSUME SimInv, NEW a \in Actor, NEW heard \in BOOLEAN, adjustOne(a, heard)
  PROVE  SimInv'
  <1>1. /\ actor[a].at = "tick" /\ UNCHANGED <<enabled, quiet, scenario, recent, surprised>>
        /\ Answered(a, heard) /\ UNCHANGED <<order, parcel>>
    BY DEF adjustOne, Turn, Running, world
  <1>2. ActorsHold' /\ TallyHolds'
    BY <1>1, AnsweredHolds DEF SimInv
  <1> QED
    BY <1>1, <1>2 DEF SimInv, SwitchHolds, RowsHold

\* The moves an actor plans for a row are those the tables allow from the
\* status it was listed with.
LEMMA OrderPlanIs ==
  ASSUME NEW o \in Order, NEW from \in ToSet(transitions), NEW plan \in OrderPlan(o, from)
  PROVE  plan \in Seq(SoundRequest)
  <1>1. from \in {"pending", "confirmed", "processing", "shipped"}
    BY DEF ToSet, transitions
  <1>2. /\ OrderRules!CanTransition(from, NextStatus(from))
        /\ from # "shipped" => OrderRules!CanTransition(from, "cancelled")
        /\ {from, NextStatus(from), "cancelled"} \subseteq OrderRules!Status
    BY <1>1 DEF OrderRules!CanTransition, OrderRules!Allowed, OrderRules!Status, NextStatus
  <1>3. \A to \in OrderRules!Status : OrderRules!CanTransition(from, to) =>
            [do |-> "order", id |-> o, from |-> from, to |-> to] \in SoundRequest
    BY <1>2 DEF SoundRequest, Sound, Request
  <1>4. \A r \in SoundRequest : <<r>> \in Seq(SoundRequest)
    OBVIOUS
  <1>5. <<>> \in Seq(SoundRequest)
    BY EmptySeq
  <1> QED
    BY <1>2, <1>3, <1>4, <1>5 DEF OrderPlan

LEMMA ParcelPlanIs ==
  ASSUME NEW p \in Parcel, NEW from \in ToSet(transitStatuses), NEW plan \in ParcelPlan(p, from)
  PROVE  plan \in Seq(SoundRequest)
  <1>1. from \in {"created", "label_created", "awaiting_pickup", "picked_up", "in_transit",
                  "at_hub", "out_for_delivery", "delivery_attempted", "held_at_office"}
    BY DEF ToSet, transitStatuses
  <1>2. ASSUME NEW to \in Advance(from, parcel[p].attempts)
        PROVE  ParcelRules!CanTransition(from, to) /\ {from, to} \subseteq ParcelRules!Status
    BY <1>1 DEF Advance, ParcelRules!CanTransition, ParcelRules!Allowed, ParcelRules!Status
  <1>3. Moves(p, from) \subseteq SoundRequest
    BY <1>2 DEF Moves, SoundRequest, Sound, Request
  <1>4. EventStep \in SoundRequest
    BY DEF EventStep, SoundRequest, Sound, Request
  <1>5. \A r, e \in SoundRequest : <<r>> \in Seq(SoundRequest) /\ <<e, r>> \in Seq(SoundRequest)
    OBVIOUS
  <1>6. <<>> \in Seq(SoundRequest)
    BY EmptySeq
  <1> QED
    BY <1>3, <1>4, <1>5, <1>6 DEF ParcelPlan

LEMMA ListsInv ==
  ASSUME SimInv, NEW a \in Actor, NEW o \in Order, listOrders(a, o)
  PROVE  SimInv'
  <1>1. /\ actor[a].at = "tick" /\ Step(a).do = "orders"
        /\ UNCHANGED <<enabled, quiet, scenario, recent, surprised, tally, order, parcel>>
        /\ Next_(a) \/ \E plan \in OrderPlan(o, Step(a).status) : Insert(a, plan)
    BY DEF listOrders, Turn, Running, world
  <1>2. Step(a) \in SoundRequest
    BY <1>1, StepIs DEF SimInv
  <1>3. Step(a).status \in ToSet(transitions)
    BY <1>1, <1>2 DEF SoundRequest, Request
  <1>4. ActorsHold'
    BY <1>1, <1>3, NextHolds, InsertHolds, OrderPlanIs DEF SimInv
  <1> QED
    BY <1>1, <1>4 DEF SimInv, SwitchHolds, TallyHolds, RowsHold

LEMMA ShipmentListsInv ==
  ASSUME SimInv, NEW a \in Actor, NEW p \in Parcel, listShipments(a, p)
  PROVE  SimInv'
  <1>1. /\ actor[a].at = "tick" /\ Step(a).do = "parcels"
        /\ UNCHANGED <<enabled, quiet, scenario, recent, surprised, tally, order, parcel>>
        /\ Next_(a) \/ \E plan \in ParcelPlan(p, Step(a).status) : Insert(a, plan)
    BY DEF listShipments, Turn, Running, world
  <1>2. Step(a) \in SoundRequest
    BY <1>1, StepIs DEF SimInv
  <1>3. Step(a).status \in ToSet(transitStatuses)
    BY <1>1, <1>2 DEF SoundRequest, Request
  <1>4. ActorsHold'
    BY <1>1, <1>3, NextHolds, InsertHolds, ParcelPlanIs DEF SimInv
  <1> QED
    BY <1>1, <1>4 DEF SimInv, SwitchHolds, TallyHolds, RowsHold

LEMMA moveOrderInv ==
  ASSUME SimInv, NEW a \in Actor, NEW heard \in BOOLEAN, moveOrder(a, heard)
  PROVE  SimInv'
  <1>1. actor[a].at = "tick" /\ Step(a).do = "order" /\ Step(a) \in SoundRequest
    BY StepIs DEF SimInv, moveOrder, Turn
  <1>2. /\ Step(a).id \in Order /\ Step(a).to \in OrderRules!Status
        /\ OrderRules!CanTransition(Step(a).from, Step(a).to)
    BY <1>1 DEF SoundRequest, Sound, Request
  <1>3. [do |-> "ship", id |-> Step(a).id] \in SoundRequest
    BY <1>2 DEF SoundRequest, Sound, Request
  <1>4. <<[do |-> "ship", id |-> Step(a).id]>> \in Seq(SoundRequest)
    BY <1>3
  <1>5. UNCHANGED <<enabled, quiet, scenario, recent, parcel>>
    BY DEF moveOrder, Running
  <1>6. ActorsHold'
    BY <1>1, <1>4, <1>5, NextHolds, InsertHolds DEF SimInv, moveOrder
  <1>7. TallyHolds'
    <2>1. Count(0, 0) \/ Count(1, 0)
      BY DEF moveOrder
    <2> QED
      BY <2>1, CountHolds DEF SimInv
  <1>8. RowsHold'
    BY <1>2, <1>5 DEF moveOrder, SimInv, RowsHold
  <1>9. surprised' = {}
    BY <1>2 DEF moveOrder, SimInv
  <1> QED
    BY <1>5, <1>6, <1>7, <1>8, <1>9 DEF SimInv, SwitchHolds

LEMMA moveParcelInv ==
  ASSUME SimInv, NEW a \in Actor, NEW heard \in BOOLEAN, moveParcel(a, heard)
  PROVE  SimInv'
  <1>1. actor[a].at = "tick" /\ Step(a).do = "parcel" /\ Step(a) \in SoundRequest
    BY StepIs DEF SimInv, moveParcel, Turn
  <1>2. /\ Step(a).id \in Parcel /\ Step(a).to \in ParcelRules!Status
        /\ ParcelRules!CanTransition(Step(a).from, Step(a).to)
    BY <1>1 DEF SoundRequest, Sound, Request
  <1>3. <<>> \in Seq(SoundRequest) /\ <<EventStep>> \in Seq(SoundRequest)
    BY EmptySeq DEF EventStep, SoundRequest, Sound, Request
  <1>4. UNCHANGED <<enabled, quiet, scenario, recent, order>>
    BY DEF moveParcel, Running
  <1>5. ActorsHold'
    BY <1>1, <1>3, <1>4, NextHolds, InsertHolds DEF SimInv, moveParcel
  <1>6. TallyHolds'
    <2>1. Count(0, 0) \/ Count(1, 0)
      BY DEF moveParcel
    <2> QED
      BY <2>1, CountHolds DEF SimInv
  <1>7. RowsHold'
    <2>1. CASE parcel' = ParcelMoved(Step(a).id, Step(a).to)
      BY <1>2, <1>4, <2>1, ParcelMovedIs DEF moveParcel, SimInv
    <2>2. CASE parcel' = parcel
      BY <1>4, <2>2 DEF SimInv, RowsHold
    <2> QED
      BY <2>1, <2>2 DEF moveParcel
  <1>8. surprised' = {}
    BY <1>2 DEF moveParcel, SimInv
  <1> QED
    BY <1>4, <1>5, <1>6, <1>7, <1>8 DEF SimInv, SwitchHolds

LEMMA createShipmentInv ==
  ASSUME SimInv, NEW a \in Actor, NEW p \in Parcel, createShipment(a, p)
  PROVE  SimInv'
  <1>1. /\ actor[a].at = "tick" /\ Next_(a)
        /\ UNCHANGED <<enabled, quiet, scenario, recent, surprised, tally, order>>
        /\ parcel' = [parcel EXCEPT ![p] = [parcel[p] EXCEPT !.status = "created"]]
    BY DEF createShipment, Turn, Running
  <1>2. ActorsHold'
    BY <1>1, NextHolds DEF SimInv
  <1>3. [parcel[p] EXCEPT !.status = "created"]
            \in [status : ParcelRules!Status \cup {"none"}, attempts : 0..MaxAttempts]
    BY DEF SimInv, RowsHold, ParcelRules!Status
  <1>4. RowsHold'
    BY <1>1, <1>3 DEF SimInv, RowsHold
  <1> QED
    BY <1>1, <1>2, <1>4 DEF SimInv, SwitchHolds, TallyHolds

LEMMA SimulatorInvariant == SimulatorSpec => []SimInv
  <1>1. SimInv /\ UNCHANGED simVars => SimInv'
    BY DEF simVars, world, SimInv, ActorsHold, QuietAfterStop, SwitchHolds, TallyHolds, RowsHold
  <1>2. ASSUME SimInv, NEW a \in Actor, Act(a) PROVE SimInv'
    BY <1>2, LoopInv, FailsInv, FetchedInv, adjustOneInv, spawnOneInv, ListsInv, ShipmentListsInv,
       moveOrderInv, moveParcelInv, createShipmentInv DEF Act
  <1>3. ASSUME SimInv, SimulatorNext PROVE SimInv'
    BY <1>2, <1>3, SimConstants, SwitchesInv, SuperviseInv, OthersInv DEF SimulatorNext
  <1> QED
    BY <1>1, <1>3, SimInitInv, PTL DEF SimulatorSpec

\* The simulator's switch, actors, counters and rows keep their types: what an
\* actor asks for next is always one of the requests there are.
THEOREM SimulatorTypeCorrect == SimulatorSpec => []SimulatorTypeOK
  BY SimTypes, SimulatorInvariant, PTL

\* For any orders, shipments and scenarios, with staff and consumers moving the
\* same rows at any moment: an actor that was not in a Tick when the simulator
\* was stopped sends nothing, and no move is refused of a row nobody moved.
THEOREM SimulatorKeepsStep == SimulatorSpec => []SimulatorInStep
  <1>1. SimInv => SimulatorInStep
    BY DEF SimInv, ActorsHold, SimulatorInStep, RefusedOnlyIfMoved
  <1> QED
    BY <1>1, SimulatorInvariant, PTL

-----------------------------------------------------------------------------
(* The notifications.                                                      *)

\* A connection is done with a notification when it was written it or is no
\* longer open.
Settled(n, c) == n \in pushed[c] \/ conns[c] # "open"

\* What a goroutine knows of the notification it creates.
WorkHolds(g) ==
    work[g] # NoWork =>
        /\ work[g].todo # <<>>
        /\ work[g].at = "prefs" => work[g].off \subseteq Off(UserOf(g), work[g].type)
        /\ work[g].at # "prefs" => \A ch \in work[g].off : ~work[g].pref[ch]
        /\ work[g].at = "insert" => work[g].pref["inApp"]
        /\ work[g].at \in {"push", "write"} =>
               /\ work[g].note \in NoteId /\ notes[work[g].note] # NoNote
               /\ \A c \in notes[work[g].note].open : SocketUser[c] = UserOf(g)
        /\ work[g].at = "write" =>
               \A c \in notes[work[g].note].open : c \in work[g].left \/ Settled(work[g].note, c)
        /\ work[g].writes # "none" => work[g].at = "write" /\ work[g].writes \in work[g].left

\* A row was inserted before it was read, and after its connections were opened.
NoteHolds(n) ==
    /\ notes[n] # NoNote => \A c \in notes[n].open : conns[c] # "new"
    /\ answered[n] <= 1
    /\ notes[n].status # "read" => answered[n] = 0

NotesInv ==
    /\ NotificationTypeOK
    /\ \A g \in Goroutine : WorkHolds(g)
    /\ \A n \in NoteId : NoteHolds(n)
    /\ PushReachesOpen
    /\ unwanted = {}

\* The goroutine is on its way from the row of n to its connections.
OnItsWay(g, n) == work[g].at \in {"push", "write"} /\ work[g].note = n

LEMMA NoteConstants ==
  /\ SocketUser \in [Socket -> Person] /\ "system" \in Person
  /\ BulkUsers \in Seq(Person) /\ BulkUsers # <<>>
  /\ "none" \notin Socket /\ "none" \notin NoteId
  /\ \A j \in Listened \ {"events.notifications.send"} : TypeOf(j) \in NoteType
  BY NotificationAssumption, SubjectsAssumption

\* Work under way and no work are told apart by where they are.
LEMMA WorkIs ==
  ASSUME NotificationTypeOK, NEW g \in Goroutine
  PROVE  /\ work[g] = NoWork <=> work[g].at = "free"
         /\ work[g] # NoWork => work[g] \in Work
         /\ work[g].at # "free" => work[g] \in Work
         /\ NoWork.at = "free" /\ \A w \in Work : w.at # "free" /\ w # NoWork
  <1>1. NoWork.at = "free" /\ \A w \in Work : w.at # "free" /\ w # NoWork
    BY DEF NoWork, Work
  <1>2. work[g] \in Work \cup {NoWork}
    BY DEF NotificationTypeOK
  <1> QED
    BY <1>1, <1>2

LEMMA NoteIs ==
  ASSUME NotificationTypeOK, NEW n \in NoteId
  PROVE  /\ notes[n] # NoNote => notes[n] \in Note
         /\ notes[n].status \in {"pending", "read"} => notes[n] \in Note
         /\ NoNote.status = "none" /\ \A m \in Note : m.status # "none" /\ m # NoNote
  <1>1. NoNote.status = "none" /\ \A m \in Note : m.status # "none" /\ m # NoNote
    BY DEF NoNote, Note
  <1>2. notes[n] \in Note \cup {NoNote}
    BY DEF NotificationTypeOK
  <1> QED
    BY <1>1, <1>2

LEMMA JobIs ==
  ASSUME NotificationTypeOK, NEW todo \in Seq(Person), todo # <<>>, NEW t \in NoteType
  PROVE  /\ Job(todo, t) \in Work /\ Job(todo, t).at = "prefs" /\ Job(todo, t).writes = "none"
         /\ Job(todo, t).todo = todo /\ Job(todo, t).type = t
         /\ Job(todo, t).off = Off(Head(todo), t)
  <1>1. NoPref \in Pref
    BY DEF NoPref, Pref, Channel
  <1>2. Off(Head(todo), t) \subseteq Channel
    BY DEF Off
  <1> QED
    BY <1>1, <1>2 DEF Job, Work

\* What the goroutines know stays true when rows stay and connections only close.
RowsStay ==
    \A n \in NoteId : notes[n] # NoNote => notes'[n] # NoNote /\ notes'[n].open = notes[n].open
SettledStays ==
    \A n \in NoteId, c \in Socket :
        conns[c] # "new" /\ Settled(n, c) => n \in pushed'[c] \/ conns'[c] # "open"

LEMMA WorkKept ==
  ASSUME NotificationTypeOK, NEW g \in Goroutine, WorkHolds(g), work'[g] = work[g], prefs' = prefs,
         \A n \in NoteId : NoteHolds(n), RowsStay, SettledStays
  PROVE  WorkHolds(g)'
  <1> SUFFICES ASSUME work[g] # NoWork PROVE WorkHolds(g)'
    BY DEF WorkHolds
  <1>1. work[g] \in Work
    BY WorkIs
  <1>2. UserOf(g)' = UserOf(g) /\ Off(UserOf(g), work[g].type)' = Off(UserOf(g), work[g].type)
    BY DEF UserOf, Off
  <1>3. ASSUME work[g].at \in {"push", "write"}
        PROVE  /\ work[g].note \in NoteId /\ notes[work[g].note] # NoNote
               /\ notes'[work[g].note] # NoNote
               /\ notes'[work[g].note].open = notes[work[g].note].open
               /\ \A c \in notes[work[g].note].open : c \in Socket /\ conns[c] # "new"
    <2>1. work[g].note \in NoteId /\ notes[work[g].note] # NoNote
      BY <1>3 DEF WorkHolds
    <2>2. notes[work[g].note] \in Note
      BY <2>1, NoteIs
    <2> QED
      BY <2>1, <2>2 DEF RowsStay, NoteHolds, Note
  <1>4. work[g].at \in {"push", "write"} =>
            /\ work[g].note \in NoteId /\ notes'[work[g].note] # NoNote
            /\ \A c \in notes'[work[g].note].open : SocketUser[c] = UserOf(g)
    BY <1>3 DEF WorkHolds
  <1>5. work[g].at = "write" =>
            \A c \in notes'[work[g].note].open : c \in work[g].left \/ Settled(work[g].note, c)'
    BY <1>3 DEF WorkHolds, SettledStays, Settled
  <1> QED
    BY <1>2, <1>4, <1>5 DEF WorkHolds

\* Every row is reached if the goroutines that stop pushing one are done with it.
LEMMA ReachKept ==
  ASSUME NotesInv, NotificationTypeOK', RowsStay, SettledStays, cut \subseteq cut',
         \A n \in NoteId : notes'[n] # NoNote =>
             notes[n] # NoNote \/ \E g \in Goroutine : OnItsWay(g, n)',
         \A g \in Goroutine, n \in NoteId : OnItsWay(g, n) =>
             \/ OnItsWay(g, n)' \/ n \in cut'
             \/ \A c \in notes[n].open : Settled(n, c)'
  PROVE  PushReachesOpen'
  <1> SUFFICES ASSUME NEW n \in NoteId, notes'[n] # NoNote, n \notin cut',
                      \A g \in Goroutine : ~OnItsWay(g, n)', NEW c \in notes'[n].open
               PROVE  Settled(n, c)'
    BY DEF PushReachesOpen, Rows, Pushing, OnItsWay, Settled
  <1>1. notes[n] # NoNote /\ notes'[n].open = notes[n].open /\ n \notin cut
    BY DEF RowsStay
  <1>2. \A d \in notes[n].open : d \in Socket /\ conns[d] # "new"
    BY <1>1, NoteIs DEF NotesInv, NoteHolds, Note
  <1>3. CASE \E g \in Goroutine : OnItsWay(g, n)
    BY <1>1, <1>3
  <1>4. CASE \A g \in Goroutine : ~OnItsWay(g, n)
    <2>1. Settled(n, c)
      BY <1>1, <1>4 DEF NotesInv, PushReachesOpen, Rows, Pushing, OnItsWay, Settled
    <2> QED
      BY <1>1, <1>2, <2>1 DEF SettledStays, Settled
  <1> QED
    BY <1>3, <1>4

\* A goroutine's step that leaves the tables and the connections alone.
LEMMA OnlyWorks ==
  ASSUME NotesInv, NEW g \in Goroutine, NEW w \in Work \cup {NoWork}, work' = [work EXCEPT ![g] = w],
         UNCHANGED <<prefs, notes, reads, conns, pinging, pushed, cut, unwanted, answered>>,
         WorkHolds(g)',
         \A n \in NoteId : OnItsWay(g, n) => OnItsWay(g, n)' \/ \A c \in notes[n].open : Settled(n, c)
  PROVE  NotesInv'
  <1>1. NotificationTypeOK /\ NotificationTypeOK'
    BY DEF NotesInv, NotificationTypeOK
  <1>2. RowsStay /\ SettledStays
    BY DEF RowsStay, SettledStays, Settled
  <1>3. ASSUME NEW h \in Goroutine PROVE WorkHolds(h)'
    <2>1. CASE h = g
      BY <2>1
    <2>2. CASE h # g
      <3>1. work'[h] = work[h] /\ WorkHolds(h)
        BY <2>2 DEF NotesInv, NotificationTypeOK
      <3> QED
        BY <1>1, <1>2, <3>1, WorkKept DEF NotesInv
    <2> QED
      BY <2>1, <2>2
  <1>4. ASSUME NEW n \in NoteId PROVE NoteHolds(n)'
    BY DEF NotesInv, NoteHolds
  <1>5. PushReachesOpen'
    <2>1. ASSUME NEW h \in Goroutine, NEW n \in NoteId, OnItsWay(h, n)
          PROVE  OnItsWay(h, n)' \/ \A c \in notes[n].open : Settled(n, c)'
      BY <1>1, <2>1 DEF NotificationTypeOK, OnItsWay, Settled
    <2> QED
      BY <1>1, <1>2, <2>1, ReachKept
  <1> QED
    BY <1>1, <1>3, <1>4, <1>5 DEF NotesInv

\* What is left of an idle goroutine's row when it takes a job.
LEMMA BeginJobInv ==
  ASSUME NotesInv, NEW g \in Goroutine, NEW todo \in Seq(Person), todo # <<>>, NEW t \in NoteType,
         BeginJob(g, todo, t)
  PROVE  NotesInv'
  <1>1. NotificationTypeOK /\ work[g].at = "free" /\ work' = [work EXCEPT ![g] = Job(todo, t)]
    BY WorkIs DEF NotesInv, BeginJob
  <1>2. /\ Job(todo, t) \in Work /\ Job(todo, t).at = "prefs" /\ Job(todo, t).writes = "none"
        /\ Job(todo, t).todo = todo /\ Job(todo, t).type = t
        /\ Job(todo, t).off = Off(Head(todo), t)
    BY <1>1, JobIs
  <1>3. work'[g] = Job(todo, t) /\ prefs' = prefs
    BY <1>1 DEF BeginJob, NotificationTypeOK
  <1>4. WorkHolds(g)'
    BY <1>2, <1>3 DEF WorkHolds, UserOf, Off
  <1>5. \A n \in NoteId : ~OnItsWay(g, n)
    BY <1>1 DEF OnItsWay
  <1> QED
    BY <1>1, <1>2, <1>4, <1>5, OnlyWorks DEF BeginJob

LEMMA JobsInv ==
  ASSUME NotesInv, NEW g \in Goroutine, NEW u \in Person, NEW t \in NoteType,
         handleDomainEvent(g) \/ handleNotificationSend(g, u, t) \/ Create(g, u, t) \/ Bulk(g, t)
  PROVE  NotesInv'
  <1>1. <<"system">> \in Seq(Person) /\ <<u>> \in Seq(Person)
        /\ <<"system">> # <<>> /\ <<u>> # <<>>
    BY NoteConstants
  <1>2. CASE handleDomainEvent(g)
    BY <1>1, <1>2, BeginJobInv, NoteConstants DEF handleDomainEvent
  <1>3. CASE handleNotificationSend(g, u, t) \/ Create(g, u, t)
    BY <1>1, <1>3, BeginJobInv DEF handleNotificationSend, Create
  <1>4. CASE Bulk(g, t)
    BY <1>4, BeginJobInv, NoteConstants DEF Bulk
  <1> QED
    BY <1>2, <1>3, <1>4

\* The preferences a goroutine works by turn off what was off when it began.
LEMMA GetPreferencesInv == ASSUME NotesInv, NEW g \in Goroutine, GetPreferences(g) PROVE NotesInv'
  <1>1. /\ NotificationTypeOK /\ work[g] \in Work /\ work[g].at = "prefs" /\ WorkHolds(g)
        /\ work[g] # NoWork
    BY WorkIs DEF NotesInv, GetPreferences
  <1>2. PICK blind \in BOOLEAN :
            work' = [work EXCEPT ![g].pref = IF blind THEN NoPref ELSE findPreference(UserOf(g), work[g].type),
                                 ![g].off = IF blind THEN {} ELSE @,
                                 ![g].at = IF (IF blind THEN NoPref ELSE findPreference(UserOf(g), work[g].type)).inApp
                                           THEN "insert" ELSE "external"]
    BY DEF GetPreferences
  <1> DEFINE p == IF blind THEN NoPref ELSE findPreference(UserOf(g), work[g].type)
             off == IF blind THEN {} ELSE work[g].off
             w == [work[g] EXCEPT !.pref = p, !.off = off,
                                  !.at = IF p.inApp THEN "insert" ELSE "external"]
  <1>3. work[g].todo \in Seq(Person) /\ work[g].todo # <<>> /\ work[g].type \in NoteType
        /\ UserOf(g) \in Person
    BY <1>1, HeadTailProperties DEF Work, WorkHolds, UserOf
  <1>4. NoPref \in Pref /\ prefs[UserOf(g)][work[g].type] \in Pref
    BY <1>1, <1>3 DEF NotificationTypeOK, NoPref, Pref
  <1>5. p \in Pref /\ off \subseteq work[g].off
    BY <1>4 DEF findPreference
  <1>6. ASSUME NEW ch \in off PROVE ~p[ch]
    <2>1. ch \in Off(UserOf(g), work[g].type) /\ ~blind
      BY <1>1, <1>6 DEF WorkHolds
    <2> QED
      BY <2>1 DEF Off, findPreference
  <1>7. work' = [work EXCEPT ![g] = w]
    BY <1>2
  <1> HIDE DEF p, off
  <1>8. /\ w \in Work /\ w.at \in {"insert", "external"} /\ (w.at = "insert" => p.inApp)
        /\ w.pref = p /\ w.off = off /\ w.todo = work[g].todo /\ w.writes = work[g].writes
    BY <1>1, <1>5 DEF Work, Pref
  <1> HIDE DEF w
  <1>9. work'[g] = w
    BY <1>1, <1>7 DEF NotificationTypeOK
  <1>10. work[g].writes = "none"
    BY <1>1 DEF WorkHolds
  <1>11. WorkHolds(g)'
    BY <1>1, <1>6, <1>8, <1>9, <1>10 DEF WorkHolds
  <1>12. \A n \in NoteId : ~OnItsWay(g, n)
    BY <1>1 DEF OnItsWay
  <1> QED
    BY <1>7, <1>8, <1>11, <1>12, OnlyWorks DEF GetPreferences

LEMMA TailLeft ==
  ASSUME NEW S, NEW s \in Seq(S), s # <<>>, Len(s) > 1
  PROVE  Tail(s) \in Seq(S) /\ Tail(s) # <<>>
  <1>1. Tail(s) \in Seq(S) /\ Len(Tail(s)) = Len(s) - 1 /\ Len(s) \in Nat
    BY HeadTailProperties, LenProperties
  <1>2. Len(Tail(s)) # 0
    BY <1>1
  <1> QED
    BY <1>1, <1>2, EmptySeq

\* A goroutine that is done takes the next user of its bulk, or nothing.
LEMMA ReturnedHolds ==
  ASSUME NotificationTypeOK, NEW g \in Goroutine, work[g] # NoWork, WorkHolds(g),
         work'[g] = Returned(g), prefs' = prefs
  PROVE  Returned(g) \in Work \cup {NoWork} /\ WorkHolds(g)'
  <1>1. work[g] \in Work
    BY WorkIs
  <1>2. work[g].todo \in Seq(Person) /\ work[g].todo # <<>> /\ work[g].type \in NoteType
    BY <1>1 DEF Work, WorkHolds
  <1>3. CASE Len(work[g].todo) > 1
    <2> DEFINE rest == Tail(work[g].todo)
               j == Job(rest, work[g].type)
    <2>1. rest \in Seq(Person) /\ rest # <<>>
      BY <1>2, <1>3, TailLeft
    <2>2. work'[g] = j /\ Returned(g) = j
      BY <1>3 DEF Returned
    <2> HIDE DEF rest
    <2>3. /\ j \in Work /\ j.at = "prefs" /\ j.writes = "none"
          /\ j.todo = rest /\ j.type = work[g].type /\ j.off = Off(Head(rest), work[g].type)
      BY <1>2, <2>1, JobIs
    <2> HIDE DEF j
    <2>4. UserOf(g)' = Head(rest) /\ \A u, t : Off(u, t)' = Off(u, t)
      BY <2>2, <2>3 DEF UserOf, Off
    <2> QED
      BY <2>1, <2>2, <2>3, <2>4 DEF WorkHolds, Off
  <1>4. CASE ~(Len(work[g].todo) > 1)
    BY <1>4 DEF Returned, WorkHolds
  <1> QED
    BY <1>3, <1>4

LEMMA ReturnsInv ==
  ASSUME NotesInv, NEW g \in Goroutine, InsertFails(g) \/ deliverExternal(g)
  PROVE  NotesInv'
  <1>1. /\ NotificationTypeOK /\ work[g] \in Work /\ work[g].at \in {"insert", "external"}
        /\ WorkHolds(g) /\ work[g] # NoWork
        /\ work' = [work EXCEPT ![g] = Returned(g)]
        /\ UNCHANGED <<prefs, notes, reads, conns, pinging, pushed, cut, answered>>
    BY WorkIs DEF NotesInv, InsertFails, deliverExternal
  <1>2. unwanted' = unwanted
    <2>1. CASE InsertFails(g)
      BY <2>1 DEF InsertFails
    <2>2. CASE deliverExternal(g)
      <3>1. \A ch \in Channel : work[g].pref[ch] => Against(g, ch) = {}
        BY <1>1, <2>2 DEF WorkHolds, deliverExternal, Against
      <3>2. /\ work[g].pref.email => Against(g, "email") = {}
            /\ work[g].pref.sms => Against(g, "sms") = {}
        BY <3>1 DEF Channel
      <3> QED
        BY <2>2, <3>2 DEF deliverExternal
    <2> QED
      BY <2>1, <2>2
  <1>3. work'[g] = Returned(g)
    BY <1>1 DEF NotificationTypeOK
  <1>4. Returned(g) \in Work \cup {NoWork} /\ WorkHolds(g)'
    BY <1>1, <1>3, ReturnedHolds
  <1>5. \A n \in NoteId : ~OnItsWay(g, n)
    BY <1>1 DEF OnItsWay
  <1> QED
    BY <1>1, <1>2, <1>4, <1>5, OnlyWorks

\* A row is inserted with the connections its user has at that moment.
LEMMA InsertNotificationInv ==
  ASSUME NotesInv, NEW g \in Goroutine, NEW n \in NoteId, InsertNotification(g, n)
  PROVE  NotesInv'
  <1> DEFINE fresh == [status |-> "pending", user |-> UserOf(g), open |-> userConns(UserOf(g))]
             w == [work[g] EXCEPT !.at = "push", !.note = n]
  <1>1. /\ NotificationTypeOK /\ work[g] \in Work /\ work[g].at = "insert" /\ WorkHolds(g)
        /\ work[g] # NoWork /\ notes[n] = NoNote
    BY WorkIs DEF NotesInv, InsertNotification
  <1>2. work[g].todo \in Seq(Person) /\ work[g].todo # <<>> /\ UserOf(g) \in Person
    BY <1>1, HeadTailProperties DEF Work, WorkHolds, UserOf
  <1>3. /\ fresh \in Note /\ fresh # NoNote /\ fresh.open = userConns(UserOf(g)) /\ fresh.status = "pending"
        /\ \A c \in fresh.open : c \in Socket /\ conns[c] # "new" /\ SocketUser[c] = UserOf(g)
    BY <1>2 DEF Note, NoNote, userConns
  <1>4. /\ w \in Work /\ w.at = "push" /\ w.note = n /\ w.todo = work[g].todo /\ w.off = work[g].off
        /\ w.pref = work[g].pref /\ w.writes = work[g].writes
    BY <1>1 DEF Work
  <1>5. /\ notes' = [notes EXCEPT ![n] = fresh] /\ work' = [work EXCEPT ![g] = w]
        /\ UNCHANGED <<prefs, reads, conns, pinging, pushed, cut, answered>>
    BY DEF InsertNotification
  <1>6. unwanted' = {}
    BY <1>1 DEF NotesInv, InsertNotification, Against, WorkHolds
  <1> HIDE DEF fresh, w
  <1>7. /\ work'[g] = w /\ notes'[n] = fresh
        /\ \A h \in Goroutine \ {g} : work'[h] = work[h]
        /\ \A m \in NoteId \ {n} : notes'[m] = notes[m]
    BY <1>1, <1>5 DEF NotificationTypeOK
  <1>8. NotificationTypeOK'
    BY <1>1, <1>3, <1>4, <1>5, <1>6 DEF NotificationTypeOK
  <1>9. RowsStay /\ SettledStays
    BY <1>1, <1>5, <1>7 DEF RowsStay, SettledStays, Settled
  <1>10. ASSUME NEW h \in Goroutine PROVE WorkHolds(h)'
    <2>1. CASE h = g
      <3>1. UserOf(g)' = UserOf(g) /\ work[g].writes = "none"
        BY <1>1, <1>4, <1>7 DEF UserOf, WorkHolds
      <3> QED
        BY <1>1, <1>2, <1>3, <1>4, <1>7, <2>1, <3>1 DEF WorkHolds
    <2>2. CASE h # g
      BY <1>1, <1>5, <1>7, <1>9, <2>2, WorkKept DEF NotesInv
    <2> QED
      BY <2>1, <2>2
  <1>11. ASSUME NEW m \in NoteId PROVE NoteHolds(m)'
    <2>1. CASE m = n
      <3>1. answered[n] = 0 /\ answered'[n] = 0
        BY <1>1, <1>5, NoteIs DEF NotesInv, NoteHolds
      <3> QED
        BY <1>3, <1>5, <1>7, <2>1, <3>1 DEF NoteHolds
    <2>2. CASE m # n
      BY <1>5, <1>7, <2>2 DEF NotesInv, NoteHolds
    <2> QED
      BY <2>1, <2>2
  <1>12. PushReachesOpen'
    <2>1. OnItsWay(g, n)'
      BY <1>4, <1>7 DEF OnItsWay
    <2>2. ASSUME NEW h \in Goroutine, NEW m \in NoteId, OnItsWay(h, m) PROVE OnItsWay(h, m)'
      BY <1>1, <1>7, <2>2 DEF OnItsWay
    <2>3. \A m \in NoteId : notes'[m] # NoNote => notes[m] # NoNote \/ \E h \in Goroutine : OnItsWay(h, m)'
      BY <1>7, <2>1
    <2>4. cut \subseteq cut'
      BY <1>5
    <2> QED
      BY <1>8, <1>9, <2>2, <2>3, <2>4, ReachKept
  <1> QED
    BY <1>6, <1>8, <1>10, <1>11, <1>12 DEF NotesInv

\* The connections of the user that are open are all in the copy.
LEMMA CopyConnsInv == ASSUME NotesInv, NEW g \in Goroutine, CopyConns(g) PROVE NotesInv'
  <1> DEFINE to == IF userConns(UserOf(g)) = {} THEN "external" ELSE "write"
             w == [work[g] EXCEPT !.left = userConns(UserOf(g)), !.at = to]
  <1>1. /\ NotificationTypeOK /\ work[g] \in Work /\ work[g].at = "push" /\ WorkHolds(g)
        /\ work[g] # NoWork
    BY WorkIs DEF NotesInv, CopyConns
  <1>2. userConns(UserOf(g)) \subseteq Socket
    BY DEF userConns
  <1>3. /\ w \in Work /\ w.at = to /\ w.left = userConns(UserOf(g)) /\ w.todo = work[g].todo
        /\ w.off = work[g].off /\ w.pref = work[g].pref /\ w.writes = work[g].writes
        /\ w.note = work[g].note
    BY <1>1, <1>2 DEF Work
  <1>4. /\ work' = [work EXCEPT ![g] = w]
        /\ UNCHANGED <<prefs, notes, reads, conns, pinging, pushed, cut, unwanted, answered>>
    BY DEF CopyConns
  <1> HIDE DEF w
  <1>5. work'[g] = w
    BY <1>1, <1>4 DEF NotificationTypeOK
  <1>6. /\ work[g].note \in NoteId /\ notes[work[g].note] # NoNote
        /\ \A c \in notes[work[g].note].open :
              c \in Socket /\ SocketUser[c] = UserOf(g) /\ conns[c] # "new"
    <2>1. work[g].note \in NoteId /\ notes[work[g].note] # NoNote
      BY <1>1 DEF WorkHolds
    <2>2. notes[work[g].note] \in Note /\ NoteHolds(work[g].note)
      BY <1>1, <2>1, NoteIs DEF NotesInv
    <2> QED
      BY <1>1, <2>1, <2>2 DEF WorkHolds, NoteHolds, Note
  <1>7. \A c \in notes[work[g].note].open : c \in userConns(UserOf(g)) \/ Settled(work[g].note, c)
    BY <1>6 DEF userConns, Settled
  <1>8. UserOf(g)' = UserOf(g) /\ work[g].writes = "none"
    BY <1>1, <1>3, <1>5 DEF UserOf, WorkHolds
  <1>9. \A c \in notes[work[g].note].open : Settled(work[g].note, c)' <=> Settled(work[g].note, c)
    BY <1>3, <1>4, <1>5 DEF Settled
  <1>10. WorkHolds(g)'
    BY <1>1, <1>3, <1>4, <1>5, <1>6, <1>7, <1>8, <1>9 DEF WorkHolds
  <1>11. ASSUME NEW n \in NoteId, OnItsWay(g, n)
         PROVE  OnItsWay(g, n)' \/ \A c \in notes[n].open : Settled(n, c)
    BY <1>1, <1>3, <1>5, <1>7, <1>11 DEF OnItsWay
  <1> QED
    BY <1>3, <1>4, <1>10, <1>11, OnlyWorks

LEMMA BeginWriteInv ==
  ASSUME NotesInv, NEW g \in Goroutine, NEW c \in Socket, BeginWrite(g, c)
  PROVE  NotesInv'
  <1> DEFINE w == [work[g] EXCEPT !.writes = c]
  <1>1. /\ NotificationTypeOK /\ work[g] \in Work /\ work[g].at = "write" /\ WorkHolds(g)
        /\ work[g] # NoWork /\ c \in work[g].left
    BY WorkIs DEF NotesInv, BeginWrite
  <1>2. /\ w \in Work /\ w.writes = c
        /\ w.at = work[g].at /\ w.todo = work[g].todo /\ w.off = work[g].off
        /\ w.pref = work[g].pref /\ w.note = work[g].note /\ w.left = work[g].left
    BY <1>1 DEF Work
  <1>3. /\ work' = [work EXCEPT ![g] = w]
        /\ UNCHANGED <<prefs, notes, reads, conns, pinging, pushed, cut, unwanted, answered>>
    BY DEF BeginWrite
  <1> HIDE DEF w
  <1>4. work'[g] = w
    BY <1>1, <1>3 DEF NotificationTypeOK
  <1>5. UserOf(g)' = UserOf(g) /\ \A n, d : Settled(n, d)' <=> Settled(n, d)
    BY <1>2, <1>3, <1>4 DEF UserOf, Settled
  <1>6. WorkHolds(g)'
    BY <1>1, <1>2, <1>3, <1>4, <1>5 DEF WorkHolds
  <1>7. \A n \in NoteId : OnItsWay(g, n) => OnItsWay(g, n)'
    BY <1>2, <1>4 DEF OnItsWay
  <1> QED
    BY <1>2, <1>3, <1>6, <1>7, OnlyWorks

LEMMA WorksKept ==
  ASSUME NotesInv, NEW g \in Goroutine, NEW w, work' = [work EXCEPT ![g] = w], WorkHolds(g)',
         prefs' = prefs, RowsStay, SettledStays
  PROVE  \A h \in Goroutine : WorkHolds(h)'
  <1> SUFFICES ASSUME NEW h \in Goroutine PROVE WorkHolds(h)'
    OBVIOUS
  <1>1. CASE h = g
    BY <1>1
  <1>2. CASE h # g
    <2>1. work'[h] = work[h] /\ WorkHolds(h) /\ NotificationTypeOK
      BY <1>2 DEF NotesInv, NotificationTypeOK
    <2> QED
      BY <2>1, WorkKept DEF NotesInv
  <1> QED
    BY <1>1, <1>2

\* A write reaches an open connection, or finds it broken and drops it; the
\* loop over the copy goes on either way.
LEMMA EndWriteInv == ASSUME NotesInv, NEW g \in Goroutine, EndWrite(g) PROVE NotesInv'
  <1> DEFINE c == work[g].writes
             n == work[g].note
             w == Written(work[g], c)
  <1>1. /\ NotificationTypeOK /\ work[g] \in Work /\ work[g].at = "write" /\ WorkHolds(g)
        /\ work[g] # NoWork /\ c # "none"
    BY WorkIs DEF NotesInv, EndWrite
  <1>2. /\ c \in Socket /\ c \in work[g].left /\ n \in NoteId /\ notes[n] # NoNote
        /\ \A d \in notes[n].open : d \in work[g].left \/ Settled(n, d)
        /\ \A d \in notes[n].open : d \in Socket /\ conns[d] # "new"
    <2>1. /\ c \in Socket /\ c \in work[g].left /\ n \in NoteId /\ notes[n] # NoNote
          /\ \A d \in notes[n].open : d \in work[g].left \/ Settled(n, d)
      BY <1>1 DEF Work, WorkHolds
    <2>2. notes[n] \in Note /\ NoteHolds(n)
      BY <1>1, <2>1, NoteIs DEF NotesInv
    <2> QED
      BY <2>1, <2>2 DEF NoteHolds, Note
  <1>3. /\ work' = [work EXCEPT ![g] = w] /\ UNCHANGED <<prefs, notes, reads, pinging, cut, unwanted, answered>>
        /\ \/ conns[c] = "open" /\ pushed' = [pushed EXCEPT ![c] = @ \cup {n}] /\ conns' = conns
           \/ conns[c] # "open" /\ conns' = [conns EXCEPT ![c] = "gone"] /\ pushed' = pushed
    BY DEF EndWrite
  <1>4. /\ w \in Work /\ w.todo = work[g].todo /\ w.off = work[g].off /\ w.pref = work[g].pref
        /\ w.note = n /\ w.writes = "none" /\ w.at # "prefs" /\ w.at # "insert"
        /\ \/ w.at = "external" /\ work[g].left = {c}
           \/ w.at = "write" /\ w.left = work[g].left \ {c}
    BY <1>1 DEF Written, Work
  <1> HIDE DEF w
  <1>5. work'[g] = w /\ UserOf(g)' = UserOf(g)
    BY <1>1, <1>3, <1>4 DEF NotificationTypeOK, UserOf
  <1> HIDE DEF c, n
  <1>6. n \in pushed'[c] \/ conns'[c] # "open"
    BY <1>1, <1>2, <1>3 DEF NotificationTypeOK
  <1>7. RowsStay /\ SettledStays
    BY <1>1, <1>2, <1>3 DEF NotificationTypeOK, RowsStay, SettledStays, Settled
  <1>8. \A d \in notes[n].open : d = c \/ d \in work[g].left \ {c} \/ n \in pushed'[d] \/ conns'[d] # "open"
    BY <1>2, <1>7 DEF SettledStays
  <1>9. \A d \in notes[n].open : d \in work[g].left \ {c} \/ n \in pushed'[d] \/ conns'[d] # "open"
    BY <1>6, <1>8
  <1>10. WorkHolds(g)'
    BY <1>1, <1>2, <1>3, <1>4, <1>5, <1>9 DEF WorkHolds, Settled, n
  <1>11. NotificationTypeOK'
    BY <1>1, <1>2, <1>3, <1>4 DEF NotificationTypeOK
  <1>12. \A h \in Goroutine : WorkHolds(h)'
    BY <1>3, <1>7, <1>10, WorksKept
  <1>13. ASSUME NEW m \in NoteId PROVE NoteHolds(m)'
    <2>1. \A d \in Socket : conns[d] # "new" => conns'[d] # "new"
      BY <1>1, <1>2, <1>3 DEF NotificationTypeOK
    <2>2. notes[m] # NoNote => notes[m].open \subseteq Socket
      BY <1>1, NoteIs DEF Note
    <2> QED
      BY <1>3, <2>1, <2>2 DEF NotesInv, NoteHolds
  <1>14. PushReachesOpen'
    <2>1. ASSUME NEW h \in Goroutine, NEW m \in NoteId, OnItsWay(h, m)
          PROVE  OnItsWay(h, m)' \/ \A d \in notes[m].open : Settled(m, d)'
      <3>1. CASE h = g
        <4>1. m = n
          BY <2>1, <3>1 DEF OnItsWay, n
        <4>2. w.at = "write" => OnItsWay(h, m)'
          BY <1>4, <1>5, <3>1, <4>1 DEF OnItsWay
        <4>3. work[g].left = {c} => \A d \in notes[m].open : Settled(m, d)'
          BY <1>9, <4>1 DEF Settled
        <4> QED
          BY <1>4, <4>2, <4>3
      <3>2. CASE h # g
        BY <1>1, <1>3, <2>1, <3>2 DEF NotificationTypeOK, OnItsWay
      <3> QED
        BY <3>1, <3>2
    <2>2. cut \subseteq cut' /\ \A m \in NoteId : notes'[m] # NoNote => notes[m] # NoNote
      BY <1>3
    <2> QED
      BY <1>7, <1>11, <2>1, <2>2, ReachKept
  <1> QED
    BY <1>3, <1>11, <1>12, <1>13, <1>14 DEF NotesInv

\* A step of the connections and their pingers alone: an open one closes, a new
\* one opens, which no row knows of yet.
LEMMA ConnsInv ==
  ASSUME NotesInv, UNCHANGED <<prefs, notes, work, reads, pushed, cut, unwanted, answered>>,
         conns' \in [Socket -> {"new", "open", "broken", "gone"}], pinging' \subseteq Socket,
         \A c \in Socket : conns[c] # "new" =>
             conns'[c] # "new" /\ (conns[c] # "open" => conns'[c] # "open")
  PROVE  NotesInv'
  <1>1. NotificationTypeOK /\ NotificationTypeOK' /\ RowsStay /\ SettledStays
    BY DEF NotesInv, NotificationTypeOK, RowsStay, SettledStays, Settled
  <1>2. ASSUME NEW g \in Goroutine PROVE WorkHolds(g)'
    BY <1>1, WorkKept DEF NotesInv
  <1>3. ASSUME NEW n \in NoteId PROVE NoteHolds(n)'
    <2>1. notes[n] # NoNote => notes[n].open \subseteq Socket
      BY <1>1, NoteIs DEF Note
    <2> QED
      BY <2>1 DEF NotesInv, NoteHolds
  <1>4. PushReachesOpen'
    <2>1. \A g \in Goroutine, n \in NoteId : OnItsWay(g, n) => OnItsWay(g, n)'
      BY DEF OnItsWay
    <2> QED
      BY <1>1, <2>1, ReachKept
  <1> QED
    BY <1>1, <1>2, <1>3, <1>4 DEF NotesInv

LEMMA PeersInv ==
  ASSUME NotesInv, NEW c \in Socket,
         BeginPing(c) \/ EndPing(c) \/ HandleWebSocket(c) \/ PeerLeaves(c) \/ readPump(c)
  PROVE  NotesInv'
  <1>1. NotificationTypeOK
    BY DEF NotesInv
  <1>2. UNCHANGED <<prefs, notes, work, reads, pushed, cut, unwanted, answered>>
    BY DEF BeginPing, EndPing, HandleWebSocket, PeerLeaves, readPump
  <1>3. pinging' \subseteq Socket
    BY <1>1 DEF NotificationTypeOK, BeginPing, EndPing, HandleWebSocket, PeerLeaves, readPump
  <1>4. \/ conns' = conns
        \/ conns[c] = "new" /\ conns' = [conns EXCEPT ![c] = "open"]
        \/ conns[c] = "open" /\ conns' = [conns EXCEPT ![c] = "broken"]
        \/ conns[c] = "broken" /\ conns' = [conns EXCEPT ![c] = "gone"]
    BY DEF BeginPing, EndPing, HandleWebSocket, PeerLeaves, readPump
  <1>5. /\ conns' \in [Socket -> {"new", "open", "broken", "gone"}]
        /\ \A d \in Socket : conns[d] # "new" =>
             conns'[d] # "new" /\ (conns[d] # "open" => conns'[d] # "open")
    BY <1>1, <1>4 DEF NotificationTypeOK
  <1> QED
    BY <1>2, <1>3, <1>5, ConnsInv

\* The process ends: what was being pushed is cut, and no connection is left.
LEMMA RestartNotificationsInv == ASSUME NotesInv, RestartNotifications PROVE NotesInv'
  <1>1. NotificationTypeOK /\ NotificationTypeOK'
    <2>1. NotificationTypeOK
      BY DEF NotesInv
    <2>2. Pushing(Goroutine) \subseteq NoteId
      BY <2>1 DEF NotesInv, Pushing, WorkHolds, NoWork
    <2>3. work' \in [Goroutine -> Work \cup {NoWork}] /\ cut' \subseteq NoteId
      BY <2>1, <2>2 DEF NotificationTypeOK, RestartNotifications
    <2> QED
      BY <2>1, <2>3 DEF NotificationTypeOK, RestartNotifications
  <1>2. RowsStay /\ SettledStays
    BY <1>1 DEF RestartNotifications, RowsStay, SettledStays
  <1>3. ASSUME NEW g \in Goroutine PROVE WorkHolds(g)'
    BY DEF WorkHolds, RestartNotifications
  <1>4. ASSUME NEW n \in NoteId PROVE NoteHolds(n)'
    <2>1. notes[n] # NoNote => notes[n].open \subseteq Socket
      BY <1>1, NoteIs DEF Note
    <2> QED
      BY <2>1 DEF NotesInv, NoteHolds, RestartNotifications
  <1>5. PushReachesOpen'
    <2>1. \A g \in Goroutine, n \in NoteId : OnItsWay(g, n) => n \in cut'
      BY DEF OnItsWay, Pushing, RestartNotifications
    <2>2. cut \subseteq cut' /\ notes' = notes
      BY DEF RestartNotifications
    <2> QED
      BY <1>1, <1>2, <2>1, <2>2, ReachKept
  <1> QED
    BY <1>1, <1>3, <1>4, <1>5 DEF NotesInv, RestartNotifications

\* A request ends in the panic of its second write.
LEMMA RequestCutInv ==
  ASSUME NotesInv, NEW h \in Goroutine, work' = [work EXCEPT ![h] = NoWork],
         cut' = cut \cup Pushing({h}),
         UNCHANGED <<prefs, notes, reads, conns, pinging, pushed, unwanted, answered>>
  PROVE  NotesInv'
  <1>1. NotificationTypeOK /\ NotificationTypeOK'
    <2>1. NotificationTypeOK
      BY DEF NotesInv
    <2>2. Pushing({h}) \subseteq NoteId
      BY <2>1 DEF NotesInv, Pushing, WorkHolds, NoWork
    <2> QED
      BY <2>1, <2>2 DEF NotificationTypeOK
  <1>2. RowsStay /\ SettledStays
    BY DEF RowsStay, SettledStays, Settled
  <1>3. work'[h] = NoWork
    BY <1>1 DEF NotificationTypeOK
  <1>4. WorkHolds(h)'
    BY <1>3 DEF WorkHolds
  <1>5. \A g \in Goroutine : WorkHolds(g)'
    BY <1>2, <1>4, WorksKept
  <1>6. ASSUME NEW n \in NoteId PROVE NoteHolds(n)'
    BY DEF NotesInv, NoteHolds
  <1>7. PushReachesOpen'
    <2>1. ASSUME NEW g \in Goroutine, NEW n \in NoteId, OnItsWay(g, n) PROVE OnItsWay(g, n)' \/ n \in cut'
      <3>1. CASE g = h
        BY <2>1, <3>1 DEF OnItsWay, Pushing
      <3>2. CASE g # h
        BY <1>1, <2>1, <3>2 DEF OnItsWay, NotificationTypeOK
      <3> QED
        BY <3>1, <3>2
    <2> QED
      BY <1>1, <1>2, <2>1, ReachKept
  <1> QED
    BY <1>1, <1>5, <1>6, <1>7 DEF NotesInv

LEMMA ClashInv ==
  ASSUME NotesInv, NEW g \in Goroutine, NEW c \in Socket, Clash(g, c)
  PROVE  NotesInv'
  <1>1. CASE RestartNotifications
    BY <1>1, RestartNotificationsInv
  <1>2. ASSUME NEW h \in HttpRequest, work' = [work EXCEPT ![h] = NoWork],
               cut' = cut \cup Pushing({h}),
               UNCHANGED <<prefs, notes, reads, conns, pinging, pushed, unwanted, answered>>
        PROVE  NotesInv'
    BY <1>2, RequestCutInv DEF Goroutine
  <1>3. ASSUME conns' = [conns EXCEPT ![c] = IF @ = "open" THEN "broken" ELSE @],
               work' = [work EXCEPT ![g].writes = c],
               UNCHANGED <<prefs, notes, reads, pinging, pushed, cut, unwanted, answered>>
        PROVE  NotesInv'
    <2> DEFINE w == [work[g] EXCEPT !.writes = c]
    <2>1. /\ NotificationTypeOK /\ work[g] \in Work /\ work[g].at = "write" /\ WorkHolds(g)
          /\ work[g] # NoWork /\ c \in work[g].left
      BY WorkIs DEF NotesInv, Clash
    <2>2. /\ w \in Work /\ w.writes = c
          /\ w.at = work[g].at /\ w.todo = work[g].todo /\ w.off = work[g].off
          /\ w.pref = work[g].pref /\ w.note = work[g].note /\ w.left = work[g].left
      BY <2>1 DEF Work
    <2>3. work' = [work EXCEPT ![g] = w]
      BY <1>3
    <2> HIDE DEF w
    <2>4. work'[g] = w /\ UserOf(g)' = UserOf(g)
      BY <2>1, <2>2, <2>3 DEF NotificationTypeOK, UserOf
    <2>5. NotificationTypeOK'
      BY <1>3, <2>1, <2>2, <2>3 DEF NotificationTypeOK
    <2>6. /\ RowsStay /\ SettledStays
          /\ \A n \in NoteId, d \in Socket : Settled(n, d) => Settled(n, d)'
          /\ \A d \in Socket : conns[d] # "new" => conns'[d] # "new"
      BY <1>3, <2>1 DEF NotificationTypeOK, RowsStay, SettledStays, Settled
    <2>7. work[g].note \in NoteId /\ notes[work[g].note].open \subseteq Socket
      <3>1. work[g].note \in NoteId /\ notes[work[g].note] # NoNote
        BY <2>1 DEF WorkHolds
      <3> QED
        BY <2>1, <3>1, NoteIs DEF Note
    <2>8. WorkHolds(g)'
      BY <1>3, <2>1, <2>2, <2>4, <2>6, <2>7 DEF WorkHolds
    <2>9. \A h \in Goroutine : WorkHolds(h)'
      BY <1>3, <2>3, <2>6, <2>8, WorksKept
    <2>10. ASSUME NEW n \in NoteId PROVE NoteHolds(n)'
      <3>1. notes[n] # NoNote => notes[n].open \subseteq Socket
        BY <2>1, NoteIs DEF Note
      <3> QED
        BY <1>3, <2>6, <3>1 DEF NotesInv, NoteHolds
    <2>11. PushReachesOpen'
      <3>1. ASSUME NEW h \in Goroutine, NEW n \in NoteId, OnItsWay(h, n) PROVE OnItsWay(h, n)'
        BY <2>1, <2>2, <2>3, <3>1 DEF NotificationTypeOK, OnItsWay
      <3> QED
        BY <1>3, <2>5, <2>6, <3>1, ReachKept
    <2> QED
      BY <1>3, <2>5, <2>9, <2>10, <2>11 DEF NotesInv
  <1> QED
    BY <1>1, <1>2, <1>3 DEF Clash

LEMMA ClashPingInv == ASSUME NotesInv, NEW c \in Socket, ClashPing(c) PROVE NotesInv'
  <1>1. CASE RestartNotifications
    BY <1>1, RestartNotificationsInv
  <1>2. ASSUME NEW h \in HttpRequest, work' = [work EXCEPT ![h] = NoWork],
               cut' = cut \cup Pushing({h}),
               UNCHANGED <<prefs, notes, reads, conns, pinging, pushed, unwanted, answered>>
        PROVE  NotesInv'
    BY <1>2, RequestCutInv DEF Goroutine
  <1>3. ASSUME conns' = [conns EXCEPT ![c] = "broken"], pinging' = pinging \cup {c},
               UNCHANGED <<prefs, notes, work, reads, pushed, cut, unwanted, answered>>
        PROVE  NotesInv'
    <2>1. NotificationTypeOK
      BY DEF NotesInv
    <2>2. /\ pinging' \subseteq Socket /\ conns' \in [Socket -> {"new", "open", "broken", "gone"}]
          /\ \A d \in Socket : conns[d] # "new" =>
                conns'[d] # "new" /\ (conns[d] # "open" => conns'[d] # "open")
      BY <1>3, <2>1 DEF NotificationTypeOK
    <2> QED
      BY <1>3, <2>2, ConnsInv
  <1> QED
    BY <1>1, <1>2, <1>3 DEF ClashPing

\* What was off for a goroutine and is not turned on is still off in the row.
LEMMA UpdatePreferenceInv ==
  ASSUME NotesInv, NEW u \in Person, NEW t \in NoteType, NEW q \in PrefRequest,
         UpdatePreference(u, t, q)
  PROVE  NotesInv'
  <1> DEFINE on == {ch \in Channel : Filled(q)[ch]}
  <1>1. NotificationTypeOK
    BY DEF NotesInv
  <1>2. Filled(q) \in Pref /\ Filled(q).row
    BY NotificationAssumption DEF Filled, Pref
  <1>3. /\ prefs' = [prefs EXCEPT ![u][t] = Filled(q)]
        /\ UNCHANGED <<notes, reads, conns, pinging, pushed, cut, unwanted, answered>>
    BY DEF UpdatePreference
  <1>4. ASSUME NEW g \in Goroutine
        PROVE  \/ /\ work'[g] = [work[g] EXCEPT !.off = @ \ on] /\ work[g] # NoWork
                  /\ UserOf(g) = u /\ work[g].type = t
               \/ work'[g] = work[g] /\ (work[g] = NoWork \/ UserOf(g) # u \/ work[g].type # t)
    BY DEF UpdatePreference
  <1> HIDE DEF on
  <1>5. ASSUME NEW g \in Goroutine, work[g] # NoWork
        PROVE  /\ work'[g] \in Work /\ work'[g] # NoWork /\ work'[g].off \subseteq work[g].off
               /\ UserOf(g) = u /\ work[g].type = t => work'[g].off = work[g].off \ on
               /\ work'[g].at = work[g].at /\ work'[g].todo = work[g].todo
               /\ work'[g].type = work[g].type /\ work'[g].pref = work[g].pref
               /\ work'[g].note = work[g].note /\ work'[g].left = work[g].left
               /\ work'[g].writes = work[g].writes /\ UserOf(g)' = UserOf(g)
    <2>1. work[g] \in Work
      BY <1>1, <1>5, WorkIs
    <2>2. CASE work'[g] = [work[g] EXCEPT !.off = @ \ on] /\ UserOf(g) = u /\ work[g].type = t
      <3>1. work'[g] \in Work
        BY <2>1, <2>2 DEF Work
      <3>2. work'[g] # NoWork
        BY <3>1 DEF Work, NoWork
      <3> QED
        BY <2>1, <2>2, <3>1, <3>2 DEF Work, UserOf
    <2>3. CASE work'[g] = work[g] /\ (UserOf(g) # u \/ work[g].type # t)
      BY <1>5, <2>1, <2>3 DEF UserOf
    <2> QED
      BY <1>4, <1>5, <2>2, <2>3
  <1>6. \A g \in Goroutine : work[g] = NoWork => work'[g] = NoWork
    BY <1>4
  <1>7. NotificationTypeOK'
    <2>1. prefs' \in [Person -> [NoteType -> Pref]]
      BY <1>1, <1>2, <1>3 DEF NotificationTypeOK
    <2>2. work' \in [Goroutine -> Work \cup {NoWork}]
      <3>1. work' = [g \in Goroutine |-> work'[g]]
        BY DEF UpdatePreference
      <3> QED
        BY <1>5, <1>6, <3>1
    <2> QED
      BY <1>1, <1>3, <2>1, <2>2 DEF NotificationTypeOK
  <1>8. ASSUME NEW g \in Goroutine PROVE WorkHolds(g)'
    <2>1. CASE work[g] = NoWork
      BY <1>6, <2>1 DEF WorkHolds
    <2>2. CASE work[g] # NoWork
      <3>1. WorkHolds(g) /\ work[g] \in Work
        BY <1>1, <2>2, WorkIs DEF NotesInv
      <3>2. work[g].todo \in Seq(Person) /\ work[g].todo # <<>> /\ work[g].type \in NoteType
        BY <2>2, <3>1 DEF Work, WorkHolds
      <3>3. UserOf(g) \in Person
        BY <3>2, HeadTailProperties DEF UserOf
      <3>4. ASSUME work[g].at = "prefs", NEW ch \in work'[g].off
            PROVE  ch \in Off(UserOf(g), work[g].type)'
        <4>1. /\ ch \in Channel /\ prefs[UserOf(g)][work[g].type].row
              /\ ~prefs[UserOf(g)][work[g].type][ch]
          BY <1>5, <2>2, <3>1, <3>4 DEF WorkHolds, Off
        <4>2. CASE UserOf(g) = u /\ work[g].type = t
          <5>1. prefs'[u][t] = Filled(q)
            BY <1>1, <1>3 DEF NotificationTypeOK
          <5>2. ~Filled(q)[ch]
            BY <1>5, <2>2, <3>4, <4>1, <4>2 DEF on
          <5> QED
            BY <1>2, <1>5, <2>2, <4>1, <4>2, <5>1, <5>2 DEF Off
        <4>3. CASE ~(UserOf(g) = u /\ work[g].type = t)
          <5>1. prefs'[UserOf(g)][work[g].type] = prefs[UserOf(g)][work[g].type]
            BY <1>1, <1>3, <3>2, <3>3, <4>3 DEF NotificationTypeOK
          <5> QED
            BY <1>5, <2>2, <4>1, <5>1 DEF Off
        <4> QED
          BY <4>2, <4>3
      <3>5. work'[g].at = "prefs" => work'[g].off \subseteq Off(UserOf(g), work[g].type)'
        BY <1>5, <2>2, <3>4
      <3>6. \A n, c : Settled(n, c)' <=> Settled(n, c)
        BY <1>3 DEF Settled
      <3> QED
        BY <1>3, <1>5, <2>2, <3>1, <3>5, <3>6 DEF WorkHolds
    <2> QED
      BY <2>1, <2>2
  <1>9. ASSUME NEW n \in NoteId PROVE NoteHolds(n)'
    BY <1>3 DEF NotesInv, NoteHolds
  <1>10. PushReachesOpen'
    <2>1. RowsStay /\ SettledStays
      BY <1>3 DEF RowsStay, SettledStays, Settled
    <2>2. ASSUME NEW h \in Goroutine, NEW n \in NoteId, OnItsWay(h, n) PROVE OnItsWay(h, n)'
      <3>1. work[h] # NoWork
        BY <2>2 DEF OnItsWay, NoWork
      <3> QED
        BY <1>5, <2>2, <3>1 DEF OnItsWay
    <2> QED
      BY <1>3, <1>7, <2>1, <2>2, ReachKept
  <1> QED
    BY <1>3, <1>7, <1>8, <1>9, <1>10 DEF NotesInv

\* A row is read once: the answer goes with the change.
LEMMA ReadsInv ==
  ASSUME NotesInv, NEW h \in HttpRequest, NEW n \in NoteId, MarkAsRead(h, n) \/ UpdateRead(h)
  PROVE  NotesInv'
  <1>1. NotificationTypeOK
    BY DEF NotesInv
  <1>2. CASE UNCHANGED <<notes, answered>>
    <2>1. /\ NotificationTypeOK' /\ UNCHANGED <<prefs, work, conns, pushed, cut, unwanted>>
          /\ RowsStay /\ SettledStays
      BY <1>1, <1>2 DEF MarkAsRead, UpdateRead, NotificationTypeOK, RowsStay, SettledStays, Settled
    <2>2. ASSUME NEW g \in Goroutine PROVE WorkHolds(g)'
      BY <1>1, <2>1, WorkKept DEF NotesInv
    <2>3. ASSUME NEW m \in NoteId PROVE NoteHolds(m)'
      BY <1>2, <2>1 DEF NotesInv, NoteHolds
    <2>4. PushReachesOpen'
      <3>1. \A g \in Goroutine, m \in NoteId : OnItsWay(g, m) => OnItsWay(g, m)'
        BY <2>1 DEF OnItsWay
      <3> QED
        BY <1>2, <2>1, <3>1, ReachKept
    <2> QED
      BY <2>1, <2>2, <2>3, <2>4 DEF NotesInv
  <1>3. CASE UpdateRead(h) /\ ~(UNCHANGED <<notes, answered>>)
    <2> DEFINE m == reads[h]
               fresh == [notes[m] EXCEPT !.status = "read"]
    <2>1. /\ m # "none" /\ m \in NoteId /\ notes[m].status = "pending"
          /\ notes' = [notes EXCEPT ![m] = fresh] /\ answered' = [answered EXCEPT ![m] = @ + 1]
          /\ reads' = [reads EXCEPT ![h] = "none"]
          /\ UNCHANGED <<prefs, work, conns, pinging, pushed, cut, unwanted>>
      BY <1>1, <1>3 DEF UpdateRead, StillPending, NotificationTypeOK
    <2>2. /\ notes[m] \in Note /\ notes[m] # NoNote
          /\ fresh \in Note /\ fresh # NoNote /\ fresh.open = notes[m].open /\ fresh.status = "read"
      BY <1>1, <2>1, NoteIs DEF Note
    <2>3. answered[m] = 0
      BY <2>1 DEF NotesInv, NoteHolds
    <2> HIDE DEF m, fresh
    <2>4. /\ notes'[m] = fresh /\ answered'[m] = 1
          /\ \A k \in NoteId \ {m} : notes'[k] = notes[k] /\ answered'[k] = answered[k]
      BY <1>1, <2>1, <2>3 DEF NotificationTypeOK
    <2>5. NotificationTypeOK'
      BY <1>1, <2>1, <2>2, <2>3 DEF NotificationTypeOK
    <2>6. RowsStay /\ SettledStays
      BY <2>1, <2>2, <2>4 DEF RowsStay, SettledStays, Settled
    <2>7. ASSUME NEW g \in Goroutine PROVE WorkHolds(g)'
      BY <1>1, <2>1, <2>6, WorkKept DEF NotesInv
    <2>8. ASSUME NEW k \in NoteId PROVE NoteHolds(k)'
      <3>1. CASE k = m
        BY <2>1, <2>2, <2>4, <3>1 DEF NotesInv, NoteHolds
      <3>2. CASE k # m
        BY <2>1, <2>4, <3>2 DEF NotesInv, NoteHolds
      <3> QED
        BY <3>1, <3>2
    <2>9. PushReachesOpen'
      <3>1. \A g \in Goroutine, k \in NoteId : OnItsWay(g, k) => OnItsWay(g, k)'
        BY <2>1 DEF OnItsWay
      <3>2. \A k \in NoteId : notes'[k] # NoNote => notes[k] # NoNote
        BY <2>2, <2>4
      <3> QED
        BY <2>1, <2>5, <2>6, <3>1, <3>2, ReachKept
    <2> QED
      BY <2>1, <2>5, <2>7, <2>8, <2>9 DEF NotesInv
  <1> QED
    BY <1>2, <1>3 DEF MarkAsRead

LEMMA NotesInitInv == NotificationInit => NotesInv
  <1> SUFFICES ASSUME NotificationInit PROVE NotesInv
    OBVIOUS
  <1>1. NoPref \in Pref
    BY DEF NoPref, Pref
  <1>2. NotificationTypeOK
    BY <1>1 DEF NotificationInit, NotificationTypeOK
  <1>3. ASSUME NEW g \in Goroutine PROVE WorkHolds(g)
    BY DEF NotificationInit, WorkHolds
  <1>4. ASSUME NEW n \in NoteId PROVE NoteHolds(n)
    BY DEF NotificationInit, NoteHolds
  <1>5. PushReachesOpen
    BY DEF NotificationInit, PushReachesOpen, Rows
  <1> QED
    BY <1>2, <1>3, <1>4, <1>5 DEF NotesInv, NotificationInit

LEMMA NotificationInvariant == NotificationSpec => []NotesInv
  <1>1. ASSUME NotesInv, UNCHANGED noteVars PROVE NotesInv'
    <2>1. NotificationTypeOK
      BY <1>1 DEF NotesInv
    <2>2. /\ UNCHANGED <<prefs, notes, work, reads, pushed, cut, unwanted, answered>>
          /\ conns' = conns /\ pinging' = pinging
      BY <1>1 DEF noteVars
    <2> QED
      BY <1>1, <2>1, <2>2, ConnsInv DEF NotificationTypeOK
  <1>2. ASSUME NotesInv, NotificationNext PROVE NotesInv'
    <2>1. Listened \subseteq Goroutine /\ HttpRequest \subseteq Goroutine /\ "system" \in Person
      BY NoteConstants DEF Goroutine
    <2>3. ASSUME NEW g \in Listened, handleDomainEvent(g) PROVE NotesInv'
      <3>1. TypeOf(g) \in NoteType
        BY <2>3, NoteConstants DEF handleDomainEvent
      <3> QED
        BY <1>2, <2>1, <2>3, <3>1, JobsInv
    <2>4. ASSUME NEW g \in Goroutine, NEW t \in NoteType, Bulk(g, t) PROVE NotesInv'
      BY <1>2, <2>1, <2>4, JobsInv
    <2>5. ASSUME NEW g \in Goroutine,
                 GetPreferences(g) \/ InsertFails(g) \/ CopyConns(g) \/ EndWrite(g) \/ deliverExternal(g)
          PROVE  NotesInv'
      BY <1>2, <2>5, GetPreferencesInv, ReturnsInv, CopyConnsInv, EndWriteInv
    <2>6. ASSUME NEW g \in Goroutine, NEW c \in Socket, BeginWrite(g, c) \/ Clash(g, c) PROVE NotesInv'
      BY <1>2, <2>6, BeginWriteInv, ClashInv
    <2>9. ASSUME NEW c \in Socket,
                 \/ BeginPing(c) \/ ClashPing(c) \/ EndPing(c) \/ HandleWebSocket(c)
                 \/ PeerLeaves(c) \/ readPump(c)
          PROVE  NotesInv'
      BY <1>2, <2>9, PeersInv, ClashPingInv
    <2>7. ASSUME NEW h \in HttpRequest, UpdateRead(h) PROVE NotesInv'
      <3>1. CASE NoteId = {}
        <4>1. reads[h] = "none"
          BY <1>2, <3>1 DEF NotesInv, NotificationTypeOK
        <4> QED
          BY <2>7, <4>1 DEF UpdateRead
      <3>2. CASE NoteId # {}
        BY <1>2, <2>7, <3>2, ReadsInv
      <3> QED
        BY <3>1, <3>2
    <2>8. ASSUME NEW u \in Person, NEW t \in NoteType,
                 NEW g \in Goroutine, handleNotificationSend(g, u, t) \/ Create(g, u, t)
          PROVE  NotesInv'
      BY <1>2, <2>8, JobsInv
    <2> QED
      BY <1>2, <2>3, <2>4, <2>5, <2>6, <2>7, <2>8, <2>9, InsertNotificationInv, ReadsInv,
         UpdatePreferenceInv, RestartNotificationsInv
         DEF NotificationNext
  <1> QED
    BY <1>1, <1>2, NotesInitInv, PTL DEF NotificationSpec

\* The notification service's tables, connections and goroutines keep their types.
THEOREM NotificationTypeCorrect == NotificationSpec => []NotificationTypeOK
  <1>1. NotesInv => NotificationTypeOK
    BY DEF NotesInv
  <1> QED
    BY <1>1, NotificationInvariant, PTL

\* For any users, connections, subjects and requests: a notification reaches
\* every connection that stays open unless a panic cut its goroutine short,
\* nothing goes over a channel that was off all along, and it is read once.
THEOREM NotificationsAreAsAsked == NotificationSpec => []NotifiedAsAsked
  <1>1. NotesInv => NotifiedAsAsked
    BY DEF NotesInv, NoteHolds, NotifiedAsAsked, PrefRespected, ReadOnce
  <1> QED
    BY <1>1, NotificationInvariant, PTL

-----------------------------------------------------------------------------
(* What clients are told of shipments.                                     *)

\* Where a shipment stands in the whole list.
Rank(s, desc) == Cardinality({t \in Exists : Before(t, s, desc)}) + 1

\* The shipments whose created_at is taken, and that created_at.
Used == {s \in Shipment : row[s] # NoRow \/ stamp[s] # NoRow}
CreatedAt(s) == IF row[s] # NoRow THEN row[s].created ELSE stamp[s].created

\* No two times of creation are equal.
CreatedApart ==
    /\ IsFiniteSet(Used)
    /\ \A s \in Used : CreatedAt(s) \in 1..Cardinality(Used)
    /\ \A s, t \in Used : CreatedAt(s) = CreatedAt(t) => s = t

\* A timeline tells of attempts that are there, a row counts no others.
AttemptsThere ==
    \A s \in Shipment :
        /\ told[s] <= tries[s]
        /\ row[s] # NoRow => row[s].attempts <= tries[s]
        /\ stamp[s] # NoRow => stamp[s].attempts = 0

\* What an answer under way has read is still true of the tables, which only grow.
TimelineHolds ==
    reader.kind = "timeline" =>
        /\ reader.attempts <= tries[reader.ship] /\ reader.told <= told[reader.ship]
        /\ reader.pc = "done" => reader.attempts <= reader.tries /\ reader.told <= reader.tries

\* What a walk has not got yet is behind the offset it goes on from.
WalkHolds ==
    reader.kind = "walk" =>
        /\ base \subseteq Exists
        /\ Len(reader.got) < HardCap =>
             \A s \in base :
                 \/ s \in ToSet(reader.got)
                 \/ reader.pc # "done" /\ Rank(s, reader.desc) > reader.offset

\* What moved forward and was not found stands at or after the status asked for next.
TripHolds ==
    reader.kind = "trip" =>
        /\ base \subseteq Exists
        /\ ~reader.failed => \A s \in base :
               \/ moved[s] = "other" \/ s \in reader.got
               \/ Station(row[s].status) >= reader.pc

\* A summary under way has the fields it was begun with.
Summary(p, n, x, y, g) ==
    [kind |-> "summary", pc |-> p, total |-> n, byStatus |-> x, byCarrier |-> y, groups |-> g]

SummaryHolds == reader.kind = "summary" => \E p, n, x, y, g : reader = Summary(p, n, x, y, g)

\* The inductive invariant of the shipment views.
ViewsInv ==
    /\ ViewsTypeOK /\ CreatedApart /\ AttemptsThere
    /\ TimelineHolds /\ WalkHolds /\ TripHolds /\ SummaryHolds

-----------------------------------------------------------------------------
\* The sentinels and the first row of a shipment.
LEMMA ViewsConstants ==
    /\ NoRow \notin Row /\ \A i \in Nat : FirstRow(i) \in Row
    /\ MaxTries \in Nat /\ HardCap \in Nat /\ PageSize \in Nat \ {0} /\ Limit(PageSize) = PageSize
    /\ "none" \notin Status
  <1>1. "none" \notin Status /\ "label_created" \in Status
    BY DEF Status
  <1>2. NoRow \notin Row
    BY <1>1 DEF NoRow, Row
  <1>3. (CHOOSE c \in Carrier : TRUE) \in Carrier
    BY ViewsAssumption
  <1>4. \A i \in Nat : FirstRow(i) \in Row
    BY <1>1, <1>3 DEF FirstRow, Row
  <1>5. PageSize \in Nat \ {0} /\ Limit(PageSize) = PageSize
    BY ViewsAssumption DEF Limit
  <1> QED
    BY <1>1, <1>2, <1>4, <1>5, ViewsAssumption

LEMMA TenStations == Len(TransitList) = 10
  BY DEF TransitList

\* A station is a place on the tool's list of statuses, or 0.
LEMMA StationIs ==
    ASSUME NEW x
    PROVE  /\ Len(TransitList) = 10 /\ Station(x) \in 0..10
           /\ Station(x) > 0 => TransitList[Station(x)] = x
  <1>1. DOMAIN TransitList = 1..10 /\ Len(TransitList) = 10
    BY DEF TransitList
  <1>2. ToSet(TransitList) = {TransitList[i] : i \in 1..10}
    BY <1>1 DEF ToSet
  <1>3. CASE x \in ToSet(TransitList)
    <2>1. \E i \in 1..10 : TransitList[i] = x
      BY <1>2, <1>3
    <2>2. Station(x) \in 1..10 /\ TransitList[Station(x)] = x
      BY <1>1, <1>3, <2>1 DEF Station
    <2> QED
      BY <1>1, <2>2
  <1>4. CASE x \notin ToSet(TransitList)
    BY <1>1, <1>4 DEF Station
  <1> QED
    BY <1>3, <1>4

\* What the type of the tables says of one shipment.
LEMMA RowIs ==
    ASSUME ViewsTypeOK, NEW s \in Shipment
    PROVE  /\ s \in Exists => row[s] \in Row
           /\ stamp[s] # NoRow => stamp[s] \in Row
           /\ tries[s] \in Nat /\ told[s] \in Nat
           /\ Exists \subseteq Shipment
  BY ViewsConstants DEF ViewsTypeOK, Exists

\* The parts about the tables hold as long as nobody writes them.
LEMMA TablesStill ==
    ASSUME CreatedApart, AttemptsThere, UNCHANGED writers
    PROVE  CreatedApart' /\ AttemptsThere'
  <1>1. row' = row /\ stamp' = stamp /\ tries' = tries /\ told' = told
    BY DEF writers
  <1>2. Used' = Used /\ \A s : CreatedAt(s)' = CreatedAt(s)
    BY <1>1 DEF Used, CreatedAt
  <1>3. CreatedApart'
    BY <1>2 DEF CreatedApart
  <1> QED
    BY <1>1, <1>3 DEF AttemptsThere

\* The times of creation stay apart as long as no row is stamped.
LEMMA CreatedStill ==
    ASSUME ViewsTypeOK, CreatedApart, stamp' = stamp,
           \A s \in Shipment : /\ row'[s] = NoRow <=> row[s] = NoRow
                               /\ row[s] # NoRow => row'[s].created = row[s].created
    PROVE  CreatedApart' /\ Exists' = Exists
  <1>1. Used' = Used
    BY DEF Used
  <1>2. \A s \in Used : CreatedAt(s)' = CreatedAt(s)
    BY DEF Used, CreatedAt
  <1>3. Exists' = Exists
    BY DEF Exists
  <1> QED
    BY <1>1, <1>2, <1>3 DEF CreatedApart

\* An answer that only asks for more leaves the tables and the histories alone.
LEMMA ReadsKeep ==
    ASSUME ViewsInv, UNCHANGED writers, UNCHANGED <<base, moved>>,
           reader'.kind \in {"idle", asks},
           reader' \in {Idle} \cup Timeline \cup Walk \cup Trip \/ reader'.kind = "summary"
    PROVE  ViewsTypeOK' /\ CreatedApart' /\ AttemptsThere'
  <1>1. CreatedApart' /\ AttemptsThere'
    BY TablesStill DEF ViewsInv
  <1>2. ViewsTypeOK'
    BY DEF ViewsInv, ViewsTypeOK, writers
  <1> QED
    BY <1>1, <1>2

\* The kinds of requests are told apart by their names.
LEMMA KindIs ==
    ASSUME ViewsTypeOK
    PROVE  /\ reader.kind \in {"idle", "timeline", "walk", "trip", "summary"}
           /\ reader.kind = "timeline" => reader \in Timeline
           /\ reader.kind = "walk" => reader \in Walk
           /\ reader.kind = "trip" => reader \in Trip
           /\ reader = Idle => reader.kind = "idle"
  BY DEF ViewsTypeOK, Kind, Idle, Timeline, Walk, Trip

-----------------------------------------------------------------------------
(* The timeline of a shipment.                                              *)

LEMMA InsertAttemptInv ==
    ASSUME ViewsInv, asks = "timeline", NEW s \in Shipment, InsertAttempt(s) \/ TellAttempt(s)
    PROVE  ViewsInv'
  <1>1. /\ stamp' = stamp /\ known' = known /\ asks' = asks /\ reader' = reader
        /\ base' = base /\ moved' = moved
    BY DEF InsertAttempt, TellAttempt
  <1>2. \A t \in Shipment : tries[t] \in Nat /\ told[t] \in Nat /\ told[t] <= tries[t]
    BY RowIs DEF ViewsInv, AttemptsThere
  <1>3. row \in [Shipment -> Row \cup {NoRow}] /\ MaxTries \in Nat
        /\ tries \in [Shipment -> 0..MaxTries] /\ told \in [Shipment -> 0..MaxTries]
    BY ViewsConstants DEF ViewsInv, ViewsTypeOK
  <1>4. /\ tries' \in [Shipment -> 0..MaxTries] /\ told' \in [Shipment -> 0..MaxTries]
        /\ \A t \in Shipment : tries'[t] >= tries[t] /\ told'[t] >= told[t] /\ told'[t] <= tries'[t]
    <2>1. CASE InsertAttempt(s)
      BY <1>2, <1>3, <2>1 DEF InsertAttempt
    <2>2. CASE TellAttempt(s)
      BY <1>2, <1>3, <2>2 DEF TellAttempt
    <2> QED
      BY <2>1, <2>2
  <1>5. /\ row' \in [Shipment -> Row \cup {NoRow}]
        /\ \A t \in Shipment : /\ row'[t] = NoRow <=> row[t] = NoRow
                               /\ row[t] # NoRow => row'[t].created = row[t].created
                                                    /\ row'[t].attempts <= tries'[t]
    <2>0. \A t \in Shipment : row[t] # NoRow => row[t].attempts <= tries[t]
      BY DEF ViewsInv, AttemptsThere
    <2>1. CASE InsertAttempt(s)
      <3>1. row[s] \in Row /\ row[s].attempts \in Nat /\ row[s].attempts <= tries[s]
        BY <2>0, <2>1, RowIs DEF ViewsInv, InsertAttempt, Row, Exists
      <3> DEFINE new == [row[s] EXCEPT !.attempts = @ + 1]
      <3>2. new \in Row /\ new.attempts = row[s].attempts + 1 /\ new.created = row[s].created
        BY <3>1 DEF Row
      <3>3. row' = [row EXCEPT ![s] = new] /\ tries' = [tries EXCEPT ![s] = @ + 1]
        BY <2>1 DEF InsertAttempt
      <3>4. new # NoRow /\ row[s] # NoRow
        BY <3>1, <3>2, ViewsConstants
      <3> HIDE DEF new
      <3>5. row' \in [Shipment -> Row \cup {NoRow}] /\ row'[s] = new
            /\ tries'[s] = tries[s] + 1
            /\ \A t \in Shipment \ {s} : row'[t] = row[t] /\ tries'[t] = tries[t]
        BY <1>3, <3>2, <3>3
      <3>6. new.attempts <= tries[s] + 1
        BY <1>2, <3>1, <3>2
      <3> QED
        BY <2>0, <3>2, <3>4, <3>5, <3>6
    <2>2. CASE TellAttempt(s)
      BY <1>3, <2>0, <2>2 DEF TellAttempt
    <2> QED
      BY <2>1, <2>2
  <1>6. CreatedApart'
    BY <1>1, <1>5, CreatedStill DEF ViewsInv
  <1>7. AttemptsThere'
    BY <1>1, <1>4, <1>5 DEF ViewsInv, AttemptsThere
  <1>8. ViewsTypeOK'
    BY <1>1, <1>4, <1>5 DEF ViewsInv, ViewsTypeOK
  <1>9. TimelineHolds'
    <2> SUFFICES ASSUME reader.kind = "timeline" PROVE TimelineHolds'
      BY <1>1 DEF TimelineHolds
    <2>1. reader \in Timeline
      BY KindIs DEF ViewsInv
    <2>2. reader.ship \in Shipment /\ reader.attempts \in Nat /\ reader.told \in Nat
      BY <2>1 DEF Timeline
    <2>3. /\ reader.attempts <= tries[reader.ship] /\ reader.told <= told[reader.ship]
          /\ reader.pc = "done" => reader.attempts <= reader.tries /\ reader.told <= reader.tries
      BY DEF ViewsInv, TimelineHolds
    <2>4. /\ tries[reader.ship] \in Nat /\ told[reader.ship] \in Nat
          /\ tries'[reader.ship] \in Nat /\ told'[reader.ship] \in Nat
          /\ tries'[reader.ship] >= tries[reader.ship] /\ told'[reader.ship] >= told[reader.ship]
      BY <1>2, <1>3, <1>4, <2>2
    <2>5. reader.attempts <= tries'[reader.ship] /\ reader.told <= told'[reader.ship]
      BY <2>2, <2>3, <2>4
    <2> QED
      BY <1>1, <2>3, <2>5 DEF TimelineHolds
  <1>10. reader.kind \in {"idle", "timeline"}
    BY DEF ViewsInv, ViewsTypeOK
  <1>11. WalkHolds' /\ TripHolds' /\ SummaryHolds'
    BY <1>1, <1>10 DEF WalkHolds, TripHolds, SummaryHolds
  <1> QED
    BY <1>6, <1>7, <1>8, <1>9, <1>11 DEF ViewsInv

LEMMA TimelineInv ==
    ASSUME ViewsInv,
           (\E s \in Shipment : GetTimeline(s)) \/ ReadEvents \/ GetDeliveryAttempts
    PROVE  ViewsInv'
  <1> DEFINE ok == /\ UNCHANGED writers /\ moved' = moved /\ asks = "timeline"
                   /\ reader' \in Timeline
                   /\ reader'.attempts <= tries[reader'.ship]
                   /\ reader'.told <= told[reader'.ship]
                   /\ reader'.pc = "done" => reader'.attempts <= reader'.tries
                                             /\ reader'.told <= reader'.tries
                   /\ base' \subseteq Shipment
  <1>1. ASSUME NEW s \in Shipment, GetTimeline(s) PROVE ok
    <2>1. /\ row[s] # NoRow /\ row[s] \in Row /\ tries[s] \in Nat /\ told[s] \in Nat
          /\ row[s].attempts <= tries[s]
      BY <1>1, RowIs DEF ViewsInv, AttemptsThere, GetTimeline, Exists
    <2>2. row[s].attempts \in Nat
      BY <2>1 DEF Row
    <2>3. /\ reader' = [kind |-> "timeline", pc |-> "events", ship |-> s,
                        attempts |-> row[s].attempts, told |-> 0, tries |-> 0]
          /\ base' = {s} /\ asks = "timeline" /\ UNCHANGED <<writers, moved>>
      BY <1>1 DEF GetTimeline, Begin
    <2>4. reader' \in Timeline
      BY <2>2, <2>3 DEF Timeline
    <2> QED
      BY <2>1, <2>3, <2>4
  <1>2. ASSUME ReadEvents \/ GetDeliveryAttempts PROVE ok
    <2>1. reader.kind = "timeline" /\ reader \in Timeline /\ asks = "timeline"
      BY <1>2, KindIs DEF ViewsInv, ViewsTypeOK, ReadEvents, GetDeliveryAttempts
    <2>2. /\ reader.ship \in Shipment /\ reader.attempts \in Nat /\ reader.told \in Nat
          /\ reader.attempts <= tries[reader.ship] /\ reader.told <= told[reader.ship]
      BY <2>1 DEF ViewsInv, TimelineHolds, Timeline
    <2>3. /\ tries[reader.ship] \in Nat /\ told[reader.ship] \in Nat
          /\ told[reader.ship] <= tries[reader.ship]
      BY <2>2, RowIs DEF ViewsInv, AttemptsThere
    <2>4. UNCHANGED <<writers, base, moved>> /\ base \subseteq Shipment
      BY <1>2 DEF ReadEvents, GetDeliveryAttempts, Reads, ViewsInv, ViewsTypeOK
    <2>5. CASE ReadEvents
      <3>1. reader' = [reader EXCEPT !.pc = "attempts", !.told = told[reader.ship]]
        BY <2>5 DEF ReadEvents, Reads
      <3>2. /\ reader' \in Timeline /\ reader'.ship = reader.ship /\ reader'.pc = "attempts"
            /\ reader'.attempts = reader.attempts /\ reader'.told = told[reader.ship]
        BY <2>1, <2>3, <3>1 DEF Timeline
      <3> QED
        BY <2>1, <2>2, <2>3, <2>4, <3>2
    <2>6. CASE GetDeliveryAttempts
      <3>1. reader' = [reader EXCEPT !.pc = "done", !.tries = tries[reader.ship]]
        BY <2>6 DEF GetDeliveryAttempts, Reads
      <3>2. /\ reader' \in Timeline /\ reader'.ship = reader.ship /\ reader'.tries = tries[reader.ship]
            /\ reader'.attempts = reader.attempts /\ reader'.told = reader.told
        BY <2>1, <2>3, <3>1 DEF Timeline
      <3>3. reader.told <= tries[reader.ship]
        BY <2>2, <2>3
      <3> QED
        BY <2>1, <2>2, <2>3, <2>4, <3>2, <3>3
    <2> QED
      BY <1>2, <2>5, <2>6
  <1>3. ok
    BY <1>1, <1>2
  <1>4. reader' \in Timeline => reader'.kind = "timeline"
    BY DEF Timeline
  <1>5. tries' = tries /\ told' = told /\ asks' = asks /\ row' = row
        /\ stamp' = stamp /\ known' = known
    BY <1>3 DEF writers
  <1>6. CreatedApart' /\ AttemptsThere'
    BY <1>3, TablesStill DEF ViewsInv
  <1>7. ViewsTypeOK'
    BY <1>3, <1>4, <1>5 DEF ViewsInv, ViewsTypeOK
  <1>8. TimelineHolds'
    BY <1>3, <1>5 DEF TimelineHolds
  <1>9. WalkHolds' /\ TripHolds' /\ SummaryHolds'
    BY <1>3, <1>4 DEF WalkHolds, TripHolds, SummaryHolds
  <1> QED
    BY <1>6, <1>7, <1>8, <1>9 DEF ViewsInv

-----------------------------------------------------------------------------
(* The walk over the pages of the list.                                     *)

LEMMA ExistsFinite ==
    ASSUME CreatedApart PROVE IsFiniteSet(Exists) /\ Cardinality(Exists) \in Nat
  <1>1. Exists \in SUBSET Used /\ IsFiniteSet(Used)
    BY DEF Exists, Used, CreatedApart
  <1> QED
    BY <1>1, FS_Subset, FS_CardinalityType

\* The whole list holds every shipment, at the place of its rank.
LEMMA PlaceIs ==
    ASSUME ViewsTypeOK, CreatedApart, NEW d \in BOOLEAN
    PROVE  /\ Listed(d) \in Seq(Exists) /\ Len(Listed(d)) = Cardinality(Exists)
           /\ \A s \in Exists : Rank(s, d) \in 1..Cardinality(Exists) /\ Listed(d)[Rank(s, d)] = s
  <1> DEFINE c == [s \in Exists |-> IF d THEN 0 - row[s].created ELSE row[s].created]
  <1>1. \A s \in Exists : row[s].created \in Nat
    <2> TAKE s \in Exists
    <2>1. s \in Shipment
      BY DEF Exists
    <2>2. row[s] \in Row
      BY <2>1, RowIs
    <2> QED
      BY <2>2 DEF Row
  <1>2. c \in [Exists -> Int]
    BY <1>1
  <1>3. \A s, t \in Exists : c[s] < c[t] <=> Before(s, t, d)
    BY <1>1 DEF Before
  <1>4. \A s, t \in Exists : c[s] = c[t] => s = t
    <2> SUFFICES ASSUME NEW s \in Exists, NEW t \in Exists, c[s] = c[t] PROVE s = t
      OBVIOUS
    <2>1. row[s].created = row[t].created
      BY <1>1
    <2>2. CreatedAt(s) = CreatedAt(t) /\ s \in Used /\ t \in Used
      BY <2>1 DEF CreatedAt, Used, Exists
    <2> QED
      BY <2>2 DEF CreatedApart
  <1> HIDE DEF c
  <1>5. IsFiniteSet(Exists)
    BY ExistsFinite
  <1>6. \A q \in SetToSeqs(Exists) :
            (\A i, j \in DOMAIN q : i < j => Before(q[i], q[j], d)) <=>
            (\A i, j \in DOMAIN q : i < j => c[q[i]] < c[q[j]])
    <2> TAKE q \in SetToSeqs(Exists)
    <2>1. \A i \in DOMAIN q : q[i] \in Exists
      BY DEF SetToSeqs
    <2> QED
      BY <1>3, <2>1
  <1>7. \E q \in SetToSeqs(Exists) : \A i, j \in DOMAIN q : i < j => Before(q[i], q[j], d)
    BY <1>2, <1>4, <1>5, <1>6, SortedListExists
  <1>8. /\ Listed(d) \in SetToSeqs(Exists)
        /\ \A i, j \in DOMAIN Listed(d) : i < j => Before(Listed(d)[i], Listed(d)[j], d)
    BY <1>7 DEF Listed
  <1>9. \A i, j \in DOMAIN Listed(d) : i < j => c[Listed(d)[i]] < c[Listed(d)[j]]
    BY <1>6, <1>8
  <1>10. \A s \in Exists : {t \in Exists : c[t] < c[s]} = {t \in Exists : Before(t, s, d)}
    BY <1>3
  <1>11. \A s \in Exists :
            /\ Listed(d) \in Seq(Exists) /\ Len(Listed(d)) = Cardinality(Exists)
            /\ Rank(s, d) \in 1..Cardinality(Exists)
            /\ Listed(d)[Rank(s, d)] = s
    <2> TAKE s \in Exists
    <2> DEFINE q == Listed(d)
    <2>1. q \in SetToSeqs(Exists) /\ \A i, j \in DOMAIN q : i < j => c[q[i]] < c[q[j]]
      BY <1>8, <1>9
    <2> HIDE DEF q
    <2>2. /\ q \in Seq(Exists) /\ Len(q) = Cardinality(Exists)
          /\ Cardinality({t \in Exists : c[t] < c[s]}) + 1 \in 1..Cardinality(Exists)
          /\ q[Cardinality({t \in Exists : c[t] < c[s]}) + 1] = s
      BY <1>2, <1>5, <2>1, SortedPlaces
    <2> QED
      BY <2>2, <1>10 DEF q, Rank
  <1>12. Listed(d) \in Seq(Exists) /\ Len(Listed(d)) = Cardinality(Exists)
    <2>1. Listed(d) \in [1..Cardinality(Exists) -> Exists]
      BY <1>8 DEF SetToSeqs
    <2>2. Cardinality(Exists) \in Nat
      BY ExistsFinite
    <2> QED
      BY <2>1, <2>2
  <1> QED
    BY <1>11, <1>12

LEMMA StampInv ==
    ASSUME ViewsInv, NEW s \in Shipment, NEW c \in Carrier, Stamp(s, c)
    PROVE  ViewsInv'
  <1> DEFINE new == [FirstRow(0) EXCEPT !.carrier = c, !.created = 1 + Cardinality(Used)]
  <1>1. /\ row[s] = NoRow /\ stamp[s] = NoRow /\ stamp' = [stamp EXCEPT ![s] = new]
        /\ UNCHANGED <<row, tries, told, known, asks, reader, base, moved>>
    BY DEF Stamp, Used
  <1>2. IsFiniteSet(Used) /\ Cardinality(Used) \in Nat
    BY FS_CardinalityType DEF ViewsInv, CreatedApart
  <1>3. FirstRow(0) \in Row /\ FirstRow(0).attempts = 0
    BY ViewsConstants DEF FirstRow
  <1>4. new \in Row /\ new.created = 1 + Cardinality(Used) /\ new.attempts = 0
    <2> DEFINE n == 1 + Cardinality(Used)
    <2>1. \A f \in Row, i \in Nat : LET g == [f EXCEPT !.carrier = c, !.created = i]
                                    IN  /\ g \in Row /\ g.created = i
                                        /\ g.attempts = f.attempts
      BY DEF Row
    <2>2. n \in Nat
      BY <1>2
    <2> QED
      BY <1>3, <2>1, <2>2
  <1>5. new # NoRow
    BY <1>4, ViewsConstants
  <1> HIDE DEF new
  <1>6. stamp \in [Shipment -> Row \cup {NoRow}]
    BY DEF ViewsInv, ViewsTypeOK
  <1>7. stamp'[s] = new /\ \A t \in Shipment \ {s} : stamp'[t] = stamp[t]
    BY <1>1, <1>6
  <1>8. Used' = Used \cup {s} /\ s \notin Used
    BY <1>1, <1>5, <1>7 DEF Used
  <1>9. IsFiniteSet(Used') /\ Cardinality(Used') = Cardinality(Used) + 1
    BY <1>2, <1>8, FS_AddElement
  <1>10. CreatedAt(s)' = Cardinality(Used) + 1 /\ \A t \in Used : CreatedAt(t)' = CreatedAt(t)
    <2>1. CreatedAt(s)' = Cardinality(Used) + 1
      BY <1>1, <1>2, <1>4, <1>7 DEF CreatedAt
    <2>2. \A t \in Used : t \in Shipment \ {s}
      BY <1>8 DEF Used
    <2> QED
      BY <1>1, <1>7, <2>1, <2>2 DEF CreatedAt
  <1>11. \A t \in Used : CreatedAt(t) \in 1..Cardinality(Used)
    BY DEF ViewsInv, CreatedApart
  <1>12. CreatedApart'
    <2>1. \A t \in Used' : CreatedAt(t)' \in 1..Cardinality(Used')
      BY <1>2, <1>8, <1>9, <1>10, <1>11
    <2>2. \A t, u \in Used : CreatedAt(t) = CreatedAt(u) => t = u
      BY DEF ViewsInv, CreatedApart
    <2>3. ASSUME NEW t \in Used', NEW u \in Used', CreatedAt(t)' = CreatedAt(u)' PROVE t = u
      <3>1. CASE t \in Used /\ u \in Used
        BY <1>10, <2>2, <2>3, <3>1
      <3>2. CASE t \in Used /\ u = s
        <4>1. CreatedAt(t) \in 1..Cardinality(Used) /\ CreatedAt(t) = Cardinality(Used) + 1
          BY <1>10, <1>11, <2>3, <3>2
        <4> QED
          BY <4>1, <1>2
      <3>3. CASE t = s /\ u \in Used
        <4>1. CreatedAt(u) \in 1..Cardinality(Used) /\ CreatedAt(u) = Cardinality(Used) + 1
          BY <1>10, <1>11, <2>3, <3>3
        <4> QED
          BY <4>1, <1>2
      <3>4. CASE t = s /\ u = s
        BY <3>4
      <3> QED
        BY <1>8, <2>3, <3>1, <3>2, <3>3, <3>4
    <2> QED
      BY <1>9, <2>1, <2>3 DEF CreatedApart
  <1>13. AttemptsThere'
    BY <1>1, <1>4, <1>7 DEF ViewsInv, AttemptsThere
  <1>14. ViewsTypeOK'
    <2>1. stamp' \in [Shipment -> Row \cup {NoRow}]
      BY <1>1, <1>4, <1>6
    <2> QED
      BY <1>1, <2>1 DEF ViewsInv, ViewsTypeOK
  <1>15. TimelineHolds' /\ TripHolds' /\ SummaryHolds' /\ WalkHolds'
    <2>1. Exists' = Exists /\ \A t, d : Rank(t, d)' = Rank(t, d)
      BY <1>1 DEF Exists, Rank, Before
    <2> QED
      BY <1>1, <2>1 DEF ViewsInv, TimelineHolds, TripHolds, SummaryHolds, WalkHolds
  <1> QED
    BY <1>12, <1>13, <1>14, <1>15 DEF ViewsInv

\* A row inserted during a walk puts no other shipment further to the front.
LEMMA InsertShipmentInv ==
    ASSUME ViewsInv, asks = "walk", NEW s \in Shipment, InsertShipment(s)
    PROVE  ViewsInv'
  <1>1. /\ row[s] = NoRow /\ stamp[s] # NoRow /\ row' = [row EXCEPT ![s] = stamp[s]]
        /\ UNCHANGED <<stamp, tries, told, known, asks, reader, base, moved>>
    BY DEF InsertShipment
  <1>2. /\ row \in [Shipment -> Row \cup {NoRow}] /\ stamp[s] \in Row
        /\ tries[s] \in Nat /\ stamp[s].attempts = 0
    BY <1>1, RowIs DEF ViewsInv, ViewsTypeOK, AttemptsThere
  <1>3. /\ row' \in [Shipment -> Row \cup {NoRow}] /\ row'[s] = stamp[s]
        /\ \A t \in Shipment \ {s} : row'[t] = row[t]
    BY <1>1, <1>2
  <1>4. Exists' = Exists \cup {s}
    BY <1>1, <1>3 DEF Exists
  <1>5. Used' = Used /\ \A t \in Used : CreatedAt(t)' = CreatedAt(t)
    BY <1>1, <1>3 DEF Used, CreatedAt
  <1>6. CreatedApart'
    BY <1>5 DEF ViewsInv, CreatedApart
  <1>7. AttemptsThere'
    BY <1>1, <1>2, <1>3 DEF ViewsInv, AttemptsThere
  <1>8. ViewsTypeOK'
    BY <1>1, <1>3 DEF ViewsInv, ViewsTypeOK
  <1>9. ASSUME NEW t \in Exists, NEW d \in BOOLEAN
        PROVE  Rank(t, d) \in Nat /\ Rank(t, d)' \in Nat /\ Rank(t, d) <= Rank(t, d)'
    <2> DEFINE old  == {u \in Exists : Before(u, t, d)}
               more == {u \in Exists' : Before(u, t, d)'}
    <2>1. t # s /\ t \in Shipment /\ Exists \subseteq Shipment /\ s \notin Exists
      BY <1>1 DEF Exists
    <2>2. old \in SUBSET more
      BY <1>3, <1>4, <2>1 DEF Before
    <2>3. IsFiniteSet(more)
      <3>1. IsFiniteSet(Exists')
        BY <1>4, ExistsFinite, FS_AddElement DEF ViewsInv
      <3>2. more \in SUBSET (Exists')
        OBVIOUS
      <3> QED
        BY <3>1, <3>2, FS_Subset
    <2>4. Rank(t, d) = Cardinality(old) + 1 /\ Rank(t, d)' = Cardinality(more) + 1
      BY DEF Rank
    <2> HIDE DEF old, more
    <2>5. /\ Cardinality(old) \in Nat /\ Cardinality(more) \in Nat
          /\ Cardinality(old) <= Cardinality(more)
      BY <2>2, <2>3, FS_Subset, FS_CardinalityType
    <2> QED
      BY <2>4, <2>5
  <1>10. WalkHolds'
    <2> SUFFICES ASSUME reader.kind = "walk" PROVE WalkHolds'
      BY <1>1 DEF WalkHolds
    <2>1. reader.desc \in BOOLEAN /\ reader.offset \in Nat
      BY KindIs DEF ViewsInv, Walk
    <2>2. PICK d \in BOOLEAN : d = reader.desc
      BY <2>1
    <2>3. base \subseteq Exists
      BY DEF ViewsInv, WalkHolds
    <2>4. ASSUME Len(reader.got) < HardCap, NEW t \in base, t \notin ToSet(reader.got)
          PROVE  reader.pc # "done" /\ Rank(t, d)' > reader.offset
      <3>1. reader.pc # "done" /\ Rank(t, d) > reader.offset
        BY <2>2, <2>4 DEF ViewsInv, WalkHolds
      <3>2. Rank(t, d) \in Nat /\ Rank(t, d)' \in Nat /\ Rank(t, d) <= Rank(t, d)'
        BY <1>9, <2>3
      <3> QED
        BY <2>1, <3>1, <3>2
    <2>5. reader' = reader /\ reader'.desc = d
      BY <1>1, <2>2
    <2>6. \A t : Rank(t, reader.desc)' = Rank(t, d)'
      BY <2>5 DEF Rank, Before
    <2> QED
      BY <1>1, <1>4, <2>3, <2>4, <2>6 DEF WalkHolds
  <1>11. TimelineHolds' /\ TripHolds' /\ SummaryHolds'
    <2>1. reader.kind \in {"idle", "walk"} /\ reader' = reader
      BY <1>1 DEF ViewsInv, ViewsTypeOK
    <2> QED
      BY <2>1 DEF TimelineHolds, TripHolds, SummaryHolds
  <1> QED
    BY <1>6, <1>7, <1>8, <1>10, <1>11 DEF ViewsInv

\* A page of a list: what stands on it, and how long it is.
LEMMA PageIs ==
    ASSUME NEW S, NEW q \in Seq(S), NEW off \in Nat, NEW p \in Nat \ {0}
    PROVE  LET data == SubSeq(q, off + 1, Min({off + p, Len(q)}))
           IN  /\ data \in Seq(S)
               /\ \A r \in 1..Len(q) : off < r /\ r <= off + p => q[r] \in ToSet(data)
               /\ \A r \in 1..Len(q) : off + p < r => Len(data) = p
  <1> DEFINE m == Min({off + p, Len(q)})
             data == SubSeq(q, off + 1, m)
  <1>0. p \in Nat /\ p > 0 /\ off \in Nat /\ Len(q) \in Nat
    OBVIOUS
  <1>1. Len(q) \in Nat /\ DOMAIN q = 1..Len(q) /\ \A i \in 1..Len(q) : q[i] \in S
    OBVIOUS
  <1>2. m = IF off + p <= Len(q) THEN off + p ELSE Len(q)
    <2>1. \A x, y \in Nat : Min({x, y}) = IF x <= y THEN x ELSE y
      <3> SUFFICES ASSUME NEW x \in Nat, NEW y \in Nat PROVE Min({x, y}) = IF x <= y THEN x ELSE y
        OBVIOUS
      <3>1. CASE x <= y
        <4>1. \A z \in {x, y} : (\A w \in {x, y} : z <= w) <=> z = x
          BY <3>1
        <4> QED
          BY <3>1, <4>1 DEF Min
      <3>2. CASE ~(x <= y)
        <4>1. \A z \in {x, y} : (\A w \in {x, y} : z <= w) <=> z = y
          BY <3>2
        <4> QED
          BY <3>2, <4>1 DEF Min
      <3> QED
        BY <3>1, <3>2
    <2>2. off + p \in Nat
      OBVIOUS
    <2> QED
      BY <1>1, <2>1, <2>2
  <1> HIDE DEF m
  <1>7. m \in Nat /\ m <= Len(q)
    <2> DEFINE n == Len(q)
    <2> HIDE DEF n
    <2>1. m = (IF off + p <= n THEN off + p ELSE n) /\ n \in Nat
      BY <1>0, <1>2 DEF n
    <2>2. m \in Nat /\ m <= n
      BY <1>0, <2>1
    <2> QED
      BY <2>2 DEF n
  <1>3. m \in Nat /\ \A i \in (off + 1)..m : q[i] \in S
    BY <1>0, <1>1, <1>7
  <1>4. /\ data \in Seq(S) /\ Len(data) = IF off + 1 <= m THEN m - off ELSE 0
        /\ \A i \in 1..(m - off) : data[i] = q[off + i]
    <2>1. /\ SubSeq(q, off + 1, m) \in Seq(S)
          /\ Len(SubSeq(q, off + 1, m)) = IF off + 1 <= m THEN m - (off + 1) + 1 ELSE 0
          /\ \A i \in 1 .. m - (off + 1) + 1 : SubSeq(q, off + 1, m)[i] = q[off + 1 + i - 1]
      BY <1>3, SubSeqProperties
    <2> QED
      BY <1>3, <2>1
  <1> HIDE DEF data
  <1>5. ASSUME NEW r \in 1..Len(q), off < r, r <= off + p PROVE q[r] \in ToSet(data)
    <2>1. r - off \in 1..(m - off) /\ off + 1 <= m
      BY <1>0, <1>2, <1>5, <1>7
    <2>2. data[r - off] = q[r] /\ r - off \in 1..Len(data)
      BY <1>1, <1>4, <2>1
    <2>3. r - off \in DOMAIN data
      BY <1>4, <2>2
    <2> QED
      BY <2>2, <2>3 DEF ToSet
  <1>6. ASSUME NEW r \in 1..Len(q), off + p < r PROVE Len(data) = p
    <2>1. m = off + p
      BY <1>0, <1>2, <1>6
    <2> QED
      BY <1>0, <1>4, <2>1
  <1> QED
    BY <1>4, <1>5, <1>6 DEF data, m

LEMMA ConcatHas ==
    ASSUME NEW S, NEW a \in Seq(S), NEW b \in Seq(S)
    PROVE  a \o b \in Seq(S) /\ ToSet(a \o b) = ToSet(a) \cup ToSet(b)
  <1>1. /\ a \o b \in Seq(S) /\ Len(a \o b) = Len(a) + Len(b)
        /\ Len(a) \in Nat /\ Len(b) \in Nat
        /\ DOMAIN a = 1..Len(a) /\ DOMAIN b = 1..Len(b) /\ DOMAIN (a \o b) = 1..(Len(a) + Len(b))
    OBVIOUS
  <1>2. \A i \in 1..Len(a) : (a \o b)[i] = a[i] /\ i \in 1..(Len(a) + Len(b))
    BY <1>1
  <1>3. \A i \in 1..Len(b) : (a \o b)[Len(a) + i] = b[i] /\ Len(a) + i \in 1..(Len(a) + Len(b))
    BY <1>1
  <1>4. \A i \in 1..(Len(a) + Len(b)) :
            \/ i \in 1..Len(a) /\ (a \o b)[i] = a[i]
            \/ i - Len(a) \in 1..Len(b) /\ (a \o b)[i] = b[i - Len(a)]
    BY <1>1
  <1>5. ToSet(a) \subseteq ToSet(a \o b)
    BY <1>1, <1>2 DEF ToSet
  <1>6. ToSet(b) \subseteq ToSet(a \o b)
    BY <1>1, <1>3 DEF ToSet
  <1>7. ToSet(a \o b) \subseteq ToSet(a) \cup ToSet(b)
    <2> SUFFICES ASSUME NEW i \in 1..(Len(a) + Len(b)) PROVE (a \o b)[i] \in ToSet(a) \cup ToSet(b)
      BY <1>1 DEF ToSet
    <2>1. CASE i \in 1..Len(a) /\ (a \o b)[i] = a[i]
      BY <1>1, <2>1 DEF ToSet
    <2>2. CASE i - Len(a) \in 1..Len(b) /\ (a \o b)[i] = b[i - Len(a)]
      <3>1. b[i - Len(a)] \in ToSet(b)
        BY <1>1, <2>2 DEF ToSet
      <3> QED
        BY <2>2, <3>1
    <2> QED
      BY <1>4, <2>1, <2>2
  <1> QED
    BY <1>1, <1>5, <1>6, <1>7

\* The readers of the walk, once their effect on the request is known.
LEMMA WalkStep ==
    ASSUME ViewsInv, UNCHANGED writers, moved' = moved, asks = "walk", reader' \in Walk,
           base' \subseteq Exists,
           NEW d \in BOOLEAN, reader'.desc = d,
           Len(reader'.got) < HardCap =>
               \A s \in base' : \/ s \in ToSet(reader'.got)
                                \/ reader'.pc # "done" /\ Rank(s, d) > reader'.offset
    PROVE  ViewsInv'
  <1>1. row' = row /\ stamp' = stamp /\ tries' = tries /\ told' = told
        /\ known' = known /\ asks' = asks
    BY DEF writers
  <1>2. reader'.kind = "walk"
    BY DEF Walk
  <1>3. CreatedApart' /\ AttemptsThere'
    BY TablesStill DEF ViewsInv
  <1>4. Exists' = Exists /\ Exists \subseteq Shipment
    BY <1>1 DEF Exists
  <1>5. ViewsTypeOK'
    BY <1>1, <1>2, <1>4 DEF ViewsInv, ViewsTypeOK
  <1>6. \A s : Rank(s, reader.desc)' = Rank(s, d)
    BY <1>1, <1>4 DEF Rank, Before
  <1>7. WalkHolds'
    BY <1>4, <1>6 DEF WalkHolds
  <1>8. TimelineHolds' /\ TripHolds' /\ SummaryHolds'
    BY <1>2 DEF TimelineHolds, TripHolds, SummaryHolds
  <1> QED
    BY <1>3, <1>5, <1>7, <1>8 DEF ViewsInv

LEMMA ApiGetAllInv ==
    ASSUME ViewsInv, NEW d \in BOOLEAN, ApiGetAll(d) PROVE ViewsInv'
  <1>1. /\ reader' = [kind |-> "walk", pc |-> "count", desc |-> d, offset |-> 0, got |-> <<>>]
        /\ base' = Exists /\ asks = "walk" /\ UNCHANGED writers /\ moved' = moved
    BY DEF ApiGetAll, Begin
  <1>2. reader' \in Walk /\ reader'.desc = d /\ reader'.offset = 0 /\ reader'.pc # "done"
    BY <1>1 DEF Walk
  <1>3. \A s \in Exists : Rank(s, d) > 0
    <2> TAKE s \in Exists
    <2>1. Rank(s, d) \in 1..Cardinality(Exists) /\ Cardinality(Exists) \in Nat
      BY PlaceIs, ExistsFinite DEF ViewsInv
    <2> QED
      BY <2>1
  <1> QED
    BY <1>1, <1>2, <1>3, WalkStep

LEMMA CountShipmentsInv ==
    ASSUME ViewsInv, CountShipments PROVE ViewsInv'
  <1>1. /\ reader.kind = "walk" /\ reader \in Walk /\ asks = "walk"
        /\ reader' = [reader EXCEPT !.pc = IF Exists = {} THEN "done" ELSE "page"]
        /\ UNCHANGED writers /\ base' = base /\ moved' = moved
    BY KindIs DEF ViewsInv, ViewsTypeOK, CountShipments, Reads
  <1>2. /\ reader' \in Walk /\ reader'.desc = reader.desc /\ reader'.offset = reader.offset
        /\ reader'.got = reader.got /\ reader'.pc = IF Exists = {} THEN "done" ELSE "page"
    BY <1>1 DEF Walk
  <1>3. PICK d \in BOOLEAN : d = reader.desc
    BY <1>1 DEF Walk
  <1>4. /\ base \subseteq Exists
        /\ Len(reader.got) < HardCap =>
             \A s \in base : s \in ToSet(reader.got) \/ Rank(s, d) > reader.offset
    BY <1>1, <1>3 DEF ViewsInv, WalkHolds
  <1>5. Exists = {} => base = {}
    BY <1>4
  <1> QED
    BY <1>1, <1>2, <1>3, <1>4, <1>5, WalkStep

LEMMA ListShipmentsInv ==
    ASSUME ViewsInv, ListShipments PROVE ViewsInv'
  <1>1. /\ reader.kind = "walk" /\ reader \in Walk /\ asks = "walk"
        /\ UNCHANGED writers /\ base' = base /\ moved' = moved
    BY KindIs DEF ViewsInv, ViewsTypeOK, ListShipments, Reads
  <1>2. PICK d \in BOOLEAN : d = reader.desc
    BY <1>1 DEF Walk
  <1>3. reader.offset \in Nat /\ reader.got \in Seq(Shipment) /\ PageSize \in Nat \ {0}
    BY <1>1, ViewsConstants DEF Walk
  <1> DEFINE off  == reader.offset
             data == SubSeq(Listed(d), off + 1, Min({off + PageSize, Cardinality(Exists)}))
             got  == reader.got \o data
             last == Len(data) < PageSize \/ Len(got) >= HardCap
  <1>4. reader' = [reader EXCEPT !.got = got, !.pc = IF last THEN "done" ELSE "count",
                                 !.offset = IF last THEN @ ELSE @ + PageSize]
    BY <1>2, ViewsConstants DEF ListShipments, Reads
  <1>5. /\ Listed(d) \in Seq(Shipment) /\ Len(Listed(d)) = Cardinality(Exists)
        /\ \A s \in Exists : Rank(s, d) \in 1..Cardinality(Exists) /\ Listed(d)[Rank(s, d)] = s
    <2>1. Listed(d) \in Seq(Exists) /\ Exists \subseteq Shipment
      BY PlaceIs DEF ViewsInv, Exists
    <2> QED
      BY <2>1, PlaceIs DEF ViewsInv
  <1>6. /\ data \in Seq(Shipment)
        /\ \A s \in Exists : off < Rank(s, d) /\ Rank(s, d) <= off + PageSize => s \in ToSet(data)
        /\ \A s \in Exists : off + PageSize < Rank(s, d) => Len(data) = PageSize
    <2> DEFINE q == Listed(d)
    <2>1. /\ q \in Seq(Shipment) /\ Len(q) = Cardinality(Exists)
          /\ \A s \in Exists : Rank(s, d) \in 1..Len(q) /\ q[Rank(s, d)] = s
      BY <1>5
    <2> HIDE DEF q
    <2>2. LET page == SubSeq(q, off + 1, Min({off + PageSize, Len(q)}))
          IN  /\ page \in Seq(Shipment)
              /\ \A r \in 1..Len(q) : off < r /\ r <= off + PageSize => q[r] \in ToSet(page)
              /\ \A r \in 1..Len(q) : off + PageSize < r => Len(page) = PageSize
      BY <1>3, <2>1, PageIs
    <2>3. data = SubSeq(q, off + 1, Min({off + PageSize, Len(q)}))
      BY <2>1 DEF q
    <2> HIDE DEF data
    <2> QED
      BY <2>1, <2>2, <2>3
  <1>7. base \subseteq Exists
        /\ (Len(reader.got) < HardCap =>
             \A s \in base : s \in ToSet(reader.got) \/ Rank(s, d) > off)
    BY <1>1, <1>2 DEF ViewsInv, WalkHolds
  <1> HIDE DEF data
  <1>8. got \in Seq(Shipment) /\ ToSet(got) = ToSet(reader.got) \cup ToSet(data)
        /\ Len(got) = Len(reader.got) + Len(data) /\ Len(reader.got) \in Nat /\ Len(data) \in Nat
    BY <1>3, <1>6, ConcatHas
  <1> HIDE DEF got
  <1>9. /\ reader' \in Walk /\ reader'.desc = d /\ reader'.got = got
        /\ reader'.pc = (IF last THEN "done" ELSE "count")
        /\ reader'.offset = (IF last THEN off ELSE off + PageSize)
    <2>1. off + PageSize \in Nat
      BY <1>3
    <2> QED
      BY <1>1, <1>2, <1>4, <1>8, <2>1 DEF Walk
  <1>10. ASSUME Len(got) < HardCap, NEW s \in base, s \notin ToSet(got)
         PROVE  reader'.pc # "done" /\ Rank(s, d) > reader'.offset
    <2>1. Len(reader.got) < HardCap
      BY <1>8, <1>10, ViewsConstants
    <2>2. s \in Exists /\ off < Rank(s, d)
      BY <1>7, <1>8, <1>10, <2>1
    <2>3. Rank(s, d) \in Nat
      BY <1>5, <2>2
    <2>4. off + PageSize < Rank(s, d)
      BY <1>3, <1>6, <1>8, <1>10, <2>2, <2>3
    <2>5. Len(data) = PageSize
      BY <1>6, <2>2, <2>4
    <2>6. ~last
      BY <1>3, <1>8, <1>10, <2>5, ViewsConstants
    <2> QED
      BY <1>9, <2>4, <2>6
  <1> QED
    BY <1>1, <1>7, <1>9, <1>10, WalkStep

-----------------------------------------------------------------------------
(* The walk over the statuses, the summary, and the end of a request.       *)

\* Writers of other columns leave the walk over the pages as it is.
LEMMA SetStatusInv ==
    ASSUME ViewsInv, asks \in {"trip", "summary"}, NEW s \in Shipment, NEW to \in Target,
           SetStatus(s, to)
    PROVE  ViewsInv'
  <1> DEFINE new == [row[s] EXCEPT !.status = to]
  <1>1. /\ s \in Exists /\ row' = [row EXCEPT ![s] = new]
        /\ moved' = [moved EXCEPT ![s] = Moved(s, to)]
        /\ UNCHANGED <<stamp, tries, told, known, asks, reader, base>>
    BY DEF SetStatus
  <1>2. /\ row \in [Shipment -> Row \cup {NoRow}] /\ row[s] \in Row /\ row[s] # NoRow
        /\ moved \in [Shipment -> {"still", "forward", "other"}]
    BY <1>1, RowIs DEF ViewsInv, ViewsTypeOK, Exists
  <1>3. /\ new \in Row /\ new.status = to /\ new.created = row[s].created
        /\ new.attempts = row[s].attempts
    <2>1. to \in Status
      BY ViewsAssumption
    <2> QED
      BY <1>2, <2>1 DEF Row
  <1>4. new # NoRow
    BY <1>3, ViewsConstants
  <1> HIDE DEF new
  <1>5. /\ row' \in [Shipment -> Row \cup {NoRow}] /\ row'[s] = new
        /\ \A t \in Shipment \ {s} : row'[t] = row[t]
    BY <1>1, <1>2, <1>3
  <1>6. CreatedApart' /\ Exists' = Exists
    BY <1>1, <1>2, <1>3, <1>4, <1>5, CreatedStill DEF ViewsInv
  <1>7. AttemptsThere'
    BY <1>1, <1>2, <1>3, <1>5 DEF ViewsInv, AttemptsThere
  <1>8. /\ Moved(s, to) \in {"still", "forward", "other"}
        /\ moved' \in [Shipment -> {"still", "forward", "other"}]
        /\ moved'[s] = Moved(s, to) /\ \A t \in Shipment \ {s} : moved'[t] = moved[t]
    <2>1. Moved(s, to) \in {"still", "forward", "other"}
      BY <1>2 DEF Moved
    <2> QED
      BY <1>1, <1>2, <2>1
  <1>9. ViewsTypeOK'
    BY <1>1, <1>5, <1>8 DEF ViewsInv, ViewsTypeOK
  <1>10. TripHolds'
    <2> SUFFICES ASSUME reader.kind = "trip" PROVE TripHolds'
      BY <1>1 DEF TripHolds
    <2>1. reader # Idle /\ reader.pc \in Nat /\ base \subseteq Exists /\ Exists \subseteq Shipment
      <3>1. reader \in Trip /\ base \subseteq Exists /\ reader # Idle
        BY KindIs DEF ViewsInv, TripHolds
      <3> QED
        BY <3>1, StationIs DEF Trip, Exists
    <2>2. ASSUME ~reader.failed, NEW t \in base
          PROVE  \/ moved'[t] = "other" \/ t \in reader.got
                 \/ Station(row'[t].status) >= reader.pc
      <3>1. \/ moved[t] = "other" \/ t \in reader.got
            \/ Station(row[t].status) >= reader.pc
        BY <2>2 DEF ViewsInv, TripHolds
      <3>2. CASE t # s
        BY <1>5, <1>8, <2>1, <3>1, <3>2
      <3>3. CASE t = s
        <4>1. Station(row[s].status) \in 0..10 /\ Station(to) \in 0..10 /\ row'[s].status = to
          BY <1>3, <1>5, StationIs
        <4>2. CASE Station(row[s].status) = Station(to)
          BY <1>8, <3>1, <3>3, <4>1, <4>2 DEF Moved
        <4>3. CASE Station(row[s].status) # Station(to) /\ moved'[s] # "other"
          <5>1. Station(row[s].status) < Station(to) /\ moved[s] # "other"
            BY <1>8, <2>1, <4>3 DEF Moved
          <5> QED
            BY <2>1, <3>1, <3>3, <4>1, <5>1
        <4> QED
          BY <3>3, <4>2, <4>3
      <3> QED
        BY <3>2, <3>3
    <2> QED
      BY <1>1, <1>6, <2>1, <2>2 DEF TripHolds
  <1>11. TimelineHolds' /\ WalkHolds' /\ SummaryHolds'
    <2>1. reader.kind \in {"idle", "trip", "summary"} /\ reader' = reader
      BY <1>1 DEF ViewsInv, ViewsTypeOK
    <2> QED
      BY <2>1 DEF TimelineHolds, WalkHolds, SummaryHolds, ViewsInv
  <1> QED
    BY <1>6, <1>7, <1>9, <1>10, <1>11 DEF ViewsInv

LEMMA CarriersInv ==
    ASSUME ViewsInv, asks = "summary", NEW c \in Carrier,
           CreateCarrier(c) \/ \E to \in Carrier : ReassignCarrier(c, to)
    PROVE  ViewsInv'
  <1>1. UNCHANGED <<stamp, tries, told, asks, reader, base, moved>>
    BY DEF CreateCarrier, ReassignCarrier
  <1>2. row \in [Shipment -> Row \cup {NoRow}]
    BY DEF ViewsInv, ViewsTypeOK
  <1> DEFINE kept(s) == /\ row'[s] = NoRow <=> row[s] = NoRow
                        /\ row[s] # NoRow => row'[s].created = row[s].created
                                             /\ row'[s].attempts = row[s].attempts
             ok == row' \in [Shipment -> Row \cup {NoRow}] /\ \A s \in Shipment : kept(s)
  <1>3. ok /\ known' \subseteq Carrier
    <2>1. known \subseteq Carrier
      BY DEF ViewsInv, ViewsTypeOK
    <2>2. CASE CreateCarrier(c)
      BY <1>2, <2>1, <2>2 DEF CreateCarrier
    <2>3. ASSUME NEW to \in Carrier, ReassignCarrier(c, to) PROVE ok /\ known' = known
      <3> DEFINE new(s) == [row[s] EXCEPT !.carrier = to]
      <3>1. /\ row' = [s \in Shipment |-> IF s \in Candidates(c) THEN new(s) ELSE row[s]]
            /\ known' = known
        BY <2>3 DEF ReassignCarrier
      <3>2. ASSUME NEW s \in Candidates(c)
            PROVE  /\ new(s) \in Row /\ new(s).created = row[s].created
                   /\ new(s).attempts = row[s].attempts /\ new(s) # NoRow /\ row[s] # NoRow
        <4>1. row[s] \in Row /\ row[s] # NoRow
          BY <3>2, RowIs DEF Candidates, Exists, ViewsInv
        <4>2. new(s) \in Row /\ new(s).created = row[s].created
              /\ new(s).attempts = row[s].attempts
          BY <4>1 DEF Row
        <4> QED
          BY <4>1, <4>2, ViewsConstants
      <3> HIDE DEF new
      <3> QED
        BY <1>2, <3>1, <3>2
    <2> HIDE DEF ok
    <2> QED
      BY <2>1, <2>2, <2>3
  <1>4. CreatedApart'
    BY <1>1, <1>3, CreatedStill DEF ViewsInv
  <1>5. AttemptsThere'
    BY <1>1, <1>3 DEF ViewsInv, AttemptsThere
  <1>6. ViewsTypeOK'
    BY <1>1, <1>3 DEF ViewsInv, ViewsTypeOK
  <1>7. reader.kind \in {"idle", "summary"} /\ reader' = reader
    BY <1>1 DEF ViewsInv, ViewsTypeOK
  <1>8. TimelineHolds' /\ WalkHolds' /\ TripHolds' /\ SummaryHolds'
    BY <1>7 DEF TimelineHolds, WalkHolds, TripHolds, SummaryHolds, ViewsInv
  <1> QED
    BY <1>4, <1>5, <1>6, <1>8 DEF ViewsInv

LEMMA TripInv ==
    ASSUME ViewsInv, InTransitTool \/ TripStatus PROVE ViewsInv'
  <1> DEFINE ok == /\ UNCHANGED writers /\ moved' = moved /\ asks = "trip" /\ reader' \in Trip
                   /\ base' \subseteq Exists
                   /\ ~reader'.failed => \A s \in base' :
                          \/ moved[s] = "other" \/ s \in reader'.got
                          \/ Station(row[s].status) >= reader'.pc
  <1>0. Exists \subseteq Shipment
    BY DEF Exists
  <1>1. ASSUME InTransitTool PROVE ok
    <2>1. /\ reader' = [kind |-> "trip", pc |-> 1, got |-> {}, failed |-> FALSE]
          /\ base' = {s \in Exists : Station(row[s].status) > 0}
          /\ asks = "trip" /\ UNCHANGED writers /\ moved' = moved
      BY <1>1 DEF InTransitTool, Begin
    <2>2. reader' \in Trip
      BY <2>1, StationIs DEF Trip
    <2>3. \A s : Station(row[s].status) \in Nat
      BY StationIs
    <2> QED
      BY <2>1, <2>2, <2>3
  <1>2. ASSUME TripStatus PROVE ok
    <2>1. /\ reader.kind = "trip" /\ reader \in Trip /\ asks = "trip" /\ reader.pc \in 1..10
          /\ UNCHANGED writers /\ base' = base /\ moved' = moved
      <3>1. /\ reader.kind = "trip" /\ reader \in Trip /\ asks = "trip"
            /\ UNCHANGED writers /\ base' = base /\ moved' = moved
        BY <1>2, KindIs DEF ViewsInv, ViewsTypeOK, TripStatus, Reads
      <3>2. reader.pc \in 1..11 /\ reader.pc <= 10
        BY <1>2, <3>1, TenStations DEF TripStatus, Trip
      <3> QED
        BY <3>1, <3>2
    <2>2. /\ base \subseteq Exists
          /\ ~reader.failed => \A s \in base :
                 \/ moved[s] = "other" \/ s \in reader.got
                 \/ Station(row[s].status) >= reader.pc
      BY <2>1 DEF ViewsInv, TripHolds
    <2>3. reader.got \subseteq Shipment /\ reader.failed \in BOOLEAN /\ reader.pc + 1 \in 1..11
          /\ Len(TransitList) + 1 = 11
      BY <2>1, TenStations DEF Trip
    <2>4. CASE reader' = [reader EXCEPT !.pc = @ + 1, !.failed = TRUE]
      <3>1. reader' \in Trip /\ reader'.failed
        BY <2>1, <2>3, <2>4 DEF Trip
      <3> QED
        BY <2>1, <2>2, <3>1
    <2>5. CASE reader' = [reader EXCEPT !.pc = @ + 1,
                    !.got = @ \cup {s \in Exists : row[s].status = TransitList[reader.pc]}]
      <3>1. /\ reader' \in Trip /\ reader'.failed = reader.failed /\ reader'.pc = reader.pc + 1
            /\ reader'.got = reader.got
                 \cup {s \in Exists : row[s].status = TransitList[reader.pc]}
        BY <1>0, <2>1, <2>3, <2>5 DEF Trip
      <3>2. ASSUME ~reader.failed, NEW s \in base, s \notin reader'.got, moved[s] # "other"
            PROVE  Station(row[s].status) >= reader.pc + 1
        <4>1. Station(row[s].status) >= reader.pc /\ s \in Exists
          BY <2>2, <3>1, <3>2
        <4>2. row[s].status # TransitList[reader.pc]
          BY <3>1, <3>2, <4>1
        <4>3. /\ Station(row[s].status) \in 0..10
              /\ Station(row[s].status) > 0 => TransitList[Station(row[s].status)] = row[s].status
          BY StationIs
        <4>4. Station(row[s].status) # reader.pc
          BY <2>1, <4>2, <4>3
        <4> QED
          BY <2>1, <4>1, <4>3, <4>4
      <3> QED
        BY <2>1, <2>2, <3>1, <3>2
    <2> QED
      BY <1>2, <2>4, <2>5 DEF TripStatus, Reads
  <1>3. ok
    BY <1>1, <1>2
  <1>4. reader'.kind = "trip"
    BY <1>3 DEF Trip
  <1>5. row' = row /\ stamp' = stamp /\ tries' = tries /\ told' = told
        /\ known' = known /\ asks' = asks /\ Exists' = Exists
    BY <1>3 DEF writers, Exists
  <1>6. CreatedApart' /\ AttemptsThere'
    BY <1>3, TablesStill DEF ViewsInv
  <1>7. ViewsTypeOK'
    BY <1>0, <1>3, <1>4, <1>5 DEF ViewsInv, ViewsTypeOK
  <1>8. TripHolds'
    BY <1>3, <1>5 DEF TripHolds
  <1>9. TimelineHolds' /\ WalkHolds' /\ SummaryHolds'
    BY <1>4 DEF TimelineHolds, WalkHolds, SummaryHolds
  <1> QED
    BY <1>6, <1>7, <1>8, <1>9 DEF ViewsInv

LEMMA SummaryInv ==
    ASSUME ViewsInv, InTransitSummary \/ GroupByStatus \/ GroupByCarrier PROVE ViewsInv'
  <1>1. /\ reader'.kind = "summary" /\ asks = "summary" /\ UNCHANGED writers /\ moved' = moved
        /\ base' \subseteq Shipment
        /\ \E p, n, x, y, g : reader' = Summary(p, n, x, y, g)
    <2>1. CASE InTransitSummary
      BY <2>1 DEF InTransitSummary, Begin, Exists, Summary
    <2>2. CASE GroupByStatus \/ GroupByCarrier
      <3>1. /\ reader.kind = "summary" /\ asks = "summary" /\ UNCHANGED writers /\ moved' = moved
            /\ base' = base /\ base \subseteq Shipment
        BY <2>2 DEF ViewsInv, ViewsTypeOK, GroupByStatus, GroupByCarrier, Reads
      <3>2. PICK p, n, x, y, g : reader = Summary(p, n, x, y, g)
        BY <3>1 DEF ViewsInv, SummaryHolds
      <3>3. \/ \E m : reader' = [reader EXCEPT !.pc = "carrier", !.byStatus = m]
            \/ \E m, k : reader' = [reader EXCEPT !.pc = "done", !.groups = k, !.byCarrier = m]
        <4>1. GroupByCarrier => \E m, k : reader' = [reader EXCEPT !.pc = "done", !.groups = k, !.byCarrier = m]
          BY Zenon DEF GroupByCarrier, Reads
        <4>2. GroupByStatus => \E m : reader' = [reader EXCEPT !.pc = "carrier", !.byStatus = m]
          BY Zenon DEF GroupByStatus, Reads
        <4> QED
          BY <2>2, <4>1, <4>2
      <3>4. ASSUME NEW m, reader' = [reader EXCEPT !.pc = "carrier", !.byStatus = m]
            PROVE  \E q, u, v, w, h : reader' = Summary(q, u, v, w, h)
        <4>1. reader' = Summary("carrier", n, m, y, g)
          BY <3>2, <3>4 DEF Summary
        <4> QED
          BY <4>1, Zenon
      <3>5. ASSUME NEW m, NEW k, reader' = [reader EXCEPT !.pc = "done", !.groups = k, !.byCarrier = m]
            PROVE  \E q, u, v, w, h : reader' = Summary(q, u, v, w, h)
        <4>1. reader' = Summary("done", n, x, m, k)
          BY <3>2, <3>5 DEF Summary
        <4> QED
          BY <4>1, Zenon
      <3>6. \E q, u, v, w, h : reader' = Summary(q, u, v, w, h)
        BY <3>3, <3>4, <3>5, Zenon
      <3>7. reader'.kind = "summary"
        BY <3>6 DEF Summary
      <3> QED
        BY <3>1, <3>6, <3>7
    <2> QED
      BY <2>1, <2>2
  <1>2. tries' = tries /\ told' = told /\ asks' = asks /\ row' = row
        /\ stamp' = stamp /\ known' = known
    BY <1>1 DEF writers
  <1>3. CreatedApart' /\ AttemptsThere'
    BY <1>1, TablesStill DEF ViewsInv
  <1>4. ViewsTypeOK'
    BY <1>1, <1>2 DEF ViewsInv, ViewsTypeOK
  <1>5. TimelineHolds' /\ WalkHolds' /\ TripHolds' /\ SummaryHolds'
    BY <1>1 DEF TimelineHolds, WalkHolds, TripHolds, SummaryHolds
  <1> QED
    BY <1>3, <1>4, <1>5 DEF ViewsInv

LEMMA FinishInv == ASSUME ViewsInv, Finish PROVE ViewsInv'
  <1>1. /\ reader' = Idle /\ base' = {} /\ moved' = [s \in Shipment |-> "still"]
        /\ UNCHANGED writers
    BY DEF Finish
  <1>2. tries' = tries /\ told' = told /\ asks' = asks /\ row' = row
        /\ stamp' = stamp /\ known' = known /\ reader'.kind = "idle"
    BY <1>1 DEF writers, Idle
  <1>3. CreatedApart' /\ AttemptsThere'
    BY <1>1, TablesStill DEF ViewsInv
  <1>4. ViewsTypeOK'
    BY <1>1, <1>2 DEF ViewsInv, ViewsTypeOK
  <1>5. TimelineHolds' /\ WalkHolds' /\ TripHolds' /\ SummaryHolds'
    BY <1>2 DEF TimelineHolds, WalkHolds, TripHolds, SummaryHolds
  <1> QED
    BY <1>3, <1>4, <1>5 DEF ViewsInv

LEMMA ViewsInitInv == ViewsInit => ViewsInv
  <1> SUFFICES ASSUME ViewsInit PROVE ViewsInv
    OBVIOUS
  <1> DEFINE place(s) == CHOOSE i \in DOMAIN Stored : Stored[i] = s
             n == Len(Stored)
  <1>1. /\ Stored \in Seq(Shipment) /\ n \in Nat /\ DOMAIN Stored = 1..n
        /\ \A i, j \in 1..n : Stored[i] = Stored[j] => i = j
    BY ViewsAssumption DEF IsInjective
  <1>2. ToSet(Stored) \subseteq Shipment
    BY <1>1 DEF ToSet
  <1>3. ASSUME NEW s \in ToSet(Stored)
        PROVE  /\ place(s) \in 1..n /\ Stored[place(s)] = s
               /\ row[s] = FirstRow(place(s)) /\ row[s] \in Row /\ row[s].created = place(s)
               /\ row[s].attempts = 0 /\ row[s] # NoRow
    <2>1. \E i \in DOMAIN Stored : Stored[i] = s
      BY DEF ToSet
    <2>2. place(s) \in 1..n /\ Stored[place(s)] = s
      BY <1>1, <2>1
    <2> HIDE DEF place
    <2>3. FirstRow(place(s)) \in Row /\ FirstRow(place(s)).created = place(s)
          /\ FirstRow(place(s)).attempts = 0
      BY <2>2, ViewsConstants DEF FirstRow
    <2>4. row[s] = FirstRow(place(s))
      BY <1>2 DEF ViewsInit, place
    <2>5. row[s] # NoRow
      BY <2>3, <2>4, ViewsConstants
    <2> QED
      BY <2>2, <2>3, <2>4, <2>5
  <1>4. \A s \in Shipment \ ToSet(Stored) : row[s] = NoRow
    BY DEF ViewsInit
  <1>5. row \in [Shipment -> Row \cup {NoRow}]
    <2>1. row = [s \in Shipment |-> row[s]]
      BY DEF ViewsInit
    <2>2. \A s \in Shipment : row[s] \in Row \cup {NoRow}
      BY <1>3, <1>4
    <2> QED
      BY <2>1, <2>2
  <1>6. /\ stamp = [s \in Shipment |-> NoRow] /\ tries = [s \in Shipment |-> 0]
        /\ told = [s \in Shipment |-> 0] /\ known \subseteq Carrier
        /\ asks \in Kind /\ reader = Idle /\ base = {}
        /\ moved = [s \in Shipment |-> "still"] /\ MaxTries \in Nat
    BY ViewsAssumption DEF ViewsInit
  <1>7. ViewsTypeOK
    BY <1>5, <1>6 DEF ViewsTypeOK, Idle
  <1>8. Used = ToSet(Stored)
    <2>1. \A s \in Shipment : stamp[s] = NoRow
      BY <1>6
    <2>2. \A s \in Shipment : row[s] # NoRow <=> s \in ToSet(Stored)
      BY <1>3, <1>4
    <2> QED
      BY <1>2, <2>1, <2>2 DEF Used
  <1>9. \A s \in Used : CreatedAt(s) = place(s)
    BY <1>3, <1>8 DEF CreatedAt
  <1> HIDE DEF place
  <1>10. IsFiniteSet(Used) /\ Cardinality(Used) = n
    <2>1. Stored \in [1..n -> ToSet(Stored)]
      BY <1>1 DEF ToSet
    <2>2. \A s \in ToSet(Stored) : \E i \in 1..n : Stored[i] = s
      BY <1>1 DEF ToSet
    <2>3. Stored \in Bijection(1..n, ToSet(Stored))
      BY <1>1, <2>1, <2>2, Fun_IsBij
    <2>4. ExistsBijection(1..n, ToSet(Stored))
      BY <2>3, Fun_ExistsBij
    <2>5. IsFiniteSet(1..n) /\ Cardinality(1..n) = n
      BY <1>1, FS_Interval
    <2> QED
      BY <1>8, <2>4, <2>5, FS_Bijection
  <1>11. CreatedApart
    <2>1. \A s \in Used : place(s) \in 1..n /\ Stored[place(s)] = s
      BY <1>3, <1>8
    <2> QED
      BY <1>9, <1>10, <2>1 DEF CreatedApart
  <1>12. AttemptsThere
    <2> SUFFICES ASSUME NEW s \in Shipment
                 PROVE  /\ told[s] <= tries[s]
                        /\ row[s] # NoRow => row[s].attempts <= tries[s]
                        /\ stamp[s] = NoRow
      BY DEF AttemptsThere
    <2>1. row[s] # NoRow => row[s].attempts = 0
      BY <1>3, <1>4
    <2>2. told[s] = 0 /\ tries[s] = 0 /\ stamp[s] = NoRow
      BY <1>6
    <2> QED
      BY <2>1, <2>2
  <1>13. TimelineHolds /\ WalkHolds /\ TripHolds /\ SummaryHolds
    BY <1>6 DEF Idle, TimelineHolds, WalkHolds, TripHolds, SummaryHolds
  <1> QED
    BY <1>7, <1>11, <1>12, <1>13 DEF ViewsInv

LEMMA ViewsInvariant == ViewsSpec => []ViewsInv
  <1>1. ASSUME ViewsInv, UNCHANGED viewsVars PROVE ViewsInv'
    <2>1. /\ UNCHANGED writers /\ reader' = reader /\ base' = base /\ moved' = moved
          /\ row' = row /\ stamp' = stamp /\ tries' = tries /\ told' = told
          /\ known' = known /\ asks' = asks
      BY <1>1 DEF viewsVars, writers
    <2>2. CreatedApart' /\ AttemptsThere' /\ ViewsTypeOK'
      BY <1>1, <2>1, TablesStill DEF ViewsInv, ViewsTypeOK
    <2>3. Exists' = Exists /\ \A s : Rank(s, reader.desc)' = Rank(s, reader.desc)
      BY <2>1 DEF Exists, Rank, Before
    <2> QED
      BY <1>1, <2>1, <2>2, <2>3 DEF ViewsInv, TimelineHolds, WalkHolds, TripHolds, SummaryHolds
  <1>2. ASSUME ViewsInv, Write PROVE ViewsInv'
    <2>1. CASE asks = "timeline" /\ \E s \in Shipment : InsertAttempt(s) \/ TellAttempt(s)
      BY <1>2, <2>1, InsertAttemptInv
    <2>2. CASE /\ asks = "walk"
               /\ \E s \in Shipment : InsertShipment(s) \/ \E c \in Carrier : Stamp(s, c)
      BY <1>2, <2>2, InsertShipmentInv, StampInv
    <2>3. CASE /\ asks \in {"trip", "summary"}
               /\ \E s \in Shipment, to \in Target : SetStatus(s, to)
      BY <1>2, <2>3, SetStatusInv
    <2>4. CASE /\ asks = "summary"
               /\ \E c \in Carrier : CreateCarrier(c) \/ \E to \in Carrier : ReassignCarrier(c, to)
      BY <1>2, <2>4, CarriersInv
    <2> QED
      BY <1>2, <2>1, <2>2, <2>3, <2>4 DEF Write
  <1>3. ASSUME ViewsInv, Read PROVE ViewsInv'
    BY <1>3, TimelineInv, ApiGetAllInv, CountShipmentsInv, ListShipmentsInv, TripInv, SummaryInv,
       FinishInv DEF Read
  <1> QED
    BY <1>1, <1>2, <1>3, ViewsInitInv, PTL DEF ViewsSpec, ViewsNext

\* The tables of shipments and the requests that read them keep their types.
THEOREM ViewsTypeCorrect == ViewsSpec => []ViewsTypeOK
  <1>1. ViewsInv => ViewsTypeOK
    BY DEF ViewsInv
  <1> QED
    BY <1>1, ViewsInvariant, PTL

\* For any shipments and any number of attempts: an attempt that the row counts
\* or the timeline of GetTimeline mentions is among the attempts of its answer.
THEOREM TimelinesAreConsistent == ViewsSpec => []TimelineConsistent
  <1>1. ViewsInv => TimelineConsistent
    BY DEF ViewsInv, TimelineHolds, TimelineConsistent
  <1> QED
    BY <1>1, ViewsInvariant, PTL

\* For any shipments, insertions, page size and cap: api_get_all hides no
\* shipment that was there from the start, and the walk over the statuses none
\* that only moved forward.
THEOREM WalksMissNothing == ViewsSpec => []ListsMissNothing
  <1>1. ViewsInv => WalkMissesNothing
    <2> SUFFICES ASSUME ViewsInv, reader.kind = "walk", reader.pc = "done",
                        Len(reader.got) < HardCap, NEW s \in base
                 PROVE  s \in ToSet(reader.got)
      BY DEF WalkMissesNothing
    <2> QED
      BY DEF ViewsInv, WalkHolds
  <1>2. ViewsInv => TransitFindsForward
    <2> SUFFICES ASSUME ViewsInv, reader.kind = "trip", reader.pc > Len(TransitList),
                        ~reader.failed, NEW s \in base, moved[s] # "other"
                 PROVE  s \in reader.got
      BY DEF TransitFindsForward
    <2>1. s \in reader.got \/ Station(row[s].status) >= reader.pc
      BY DEF ViewsInv, TripHolds
    <2>2. reader.pc \in Nat /\ reader.pc > 10
      BY KindIs, TenStations DEF ViewsInv, Trip
    <2>3. Station(row[s].status) \in 0..10
      BY StationIs
    <2> QED
      BY <2>1, <2>2, <2>3
  <1>3. ViewsInv => ListsMissNothing
    BY <1>1, <1>2 DEF ListsMissNothing
  <1> QED
    BY <1>3, ViewsInvariant, PTL

-----------------------------------------------------------------------------
(* The groups of the summary.                                              *)

\* Every row's carrier has a row of its own.
CarriersKnown ==
    /\ IsFiniteSet(known)
    /\ \A s \in Shipment : /\ row[s] # NoRow => row[s].carrier \in known
                           /\ stamp[s] # NoRow => stamp[s].carrier \in known

\* Of the shipments there were at the beginning none has changed its status.
Still == \A s \in base : moved[s] = "still"

\* While none has, the total is still true, and the groups read add up to it.
GroupsHold ==
    reader.kind = "summary" =>
        /\ base = Exists
        /\ Still => reader.total = Cardinality(Active)
        /\ reader.pc \in {"carrier", "done"} /\ Still => reader.byStatus = reader.total
        /\ reader.pc = "done" /\ Still =>
               /\ reader.byCarrier <= reader.total
               /\ reader.groups < MaxGroups \/ Cardinality(known) <= MaxGroups
                      => reader.byCarrier = reader.total

SummaryInvar == CarriersKnown /\ GroupsHold

\* The sizes of the groups of the shipments under way add up to those of them
\* that are in one of the groups.
LEMMA TotalIs ==
    ASSUME NEW A, IsFiniteSet(A), NEW C, IsFiniteSet(C), NEW f
    PROVE  Total([x \in C |-> Cardinality({s \in A : f[s] = x})]) = Cardinality({s \in A : f[s] \in C})
  <1> DEFINE part == [x \in C |-> {s \in A : f[s] = x}]
             size == [x \in C |-> Cardinality({s \in A : f[s] = x})]
             all  == {s \in A : f[s] \in C}
  <1>1. \A x \in C : part[x] \in SUBSET A /\ size[x] = Cardinality(part[x])
    OBVIOUS
  <1>2. \A x, y \in C : x # y => part[x] \cap part[y] = {}
    OBVIOUS
  <1>3. \A a : a \in all <=> \E x \in C : a \in part[x]
    OBVIOUS
  <1>4. DOMAIN size = C
    OBVIOUS
  <1> HIDE DEF part, size, all
  <1>5. \A x \in C : IsFiniteSet(part[x])
    BY <1>1, FS_Subset
  <1>6. SumOver(size, C) = Cardinality(all)
    BY <1>1, <1>2, <1>3, <1>5, SumOfParts
  <1>7. Total(size) = SumOver(size, DOMAIN size)
    BY DEF Total, FoldSet, MapThenFoldSet, SumOver, Adds, Pick
  <1> QED
    BY <1>4, <1>6, <1>7 DEF size, all

LEMMA ActiveIs ==
    ASSUME ViewsInv
    PROVE  /\ IsFiniteSet(Active) /\ Active \subseteq Exists /\ Exists \subseteq Shipment
           /\ IsFiniteSet(ActiveStatus) /\ Cardinality(Active) \in Nat
  <1>1. IsFiniteSet(Exists) /\ Exists \subseteq Shipment
    BY ExistsFinite DEF ViewsInv, Exists
  <1>2. IsFiniteSet(Active) /\ Active \subseteq Exists /\ Cardinality(Active) \in Nat
    BY <1>1, FS_Subset, FS_CardinalityType DEF Active
  <1>3. IsFiniteSet(ActiveStatus)
    <2>1. DOMAIN TransitList = 1..10 /\ ToSet(TransitList) = {TransitList[i] : i \in DOMAIN TransitList}
      BY DEF ToSet, TransitList
    <2>2. TransitList \in Surjection(1..10, ToSet(TransitList))
      <3>1. TransitList = [i \in 1..10 |-> TransitList[i]]
        BY DEF TransitList
      <3> DEFINE q == TransitList
      <3>2. q = [i \in 1..10 |-> q[i]] /\ ToSet(TransitList) = {q[i] : i \in 1..10}
        BY <2>1, <3>1
      <3> HIDE DEF q
      <3>3. q \in Surjection(1..10, {q[i] : i \in 1..10})
        BY <3>2 DEF Surjection
      <3> QED
        BY <3>2, <3>3 DEF q
    <2>3. IsFiniteSet(1..10)
      <3>1. 1 \in Int /\ 10 \in Int
        OBVIOUS
      <3> QED
        BY <3>1, FS_Interval
    <2>4. IsFiniteSet(ToSet(TransitList))
      BY <2>2, <2>3, FS_Surjection
    <2> QED
      BY <2>4, FS_Subset DEF ActiveStatus
  <1> QED
    BY <1>1, <1>2, <1>3

\* A status that stays at its station stays the same, or off the list.
LEMMA SameStation ==
    ASSUME NEW x, NEW y, Station(x) = Station(y) PROVE x \in ActiveStatus <=> y \in ActiveStatus
  <1>1. \A z : z \in ToSet(TransitList) => Station(z) > 0
    <2> TAKE z
    <2> HAVE z \in ToSet(TransitList)
    <2>1. \E i \in 1..10 : TransitList[i] = z
      BY DEF ToSet, TransitList
    <2>2. DOMAIN TransitList = 1..10
      BY DEF TransitList
    <2> QED
      BY <2>1, <2>2 DEF Station
  <1>2. Station(x) > 0 => x = y
    BY StationIs
  <1>3. ~(Station(x) > 0) => x \notin ActiveStatus /\ y \notin ActiveStatus
    BY <1>1 DEF ActiveStatus
  <1> QED
    BY <1>2, <1>3

LEMMA SetStatusGroups ==
    ASSUME ViewsInv, SummaryInvar, NEW s \in Shipment, NEW to \in Target, SetStatus(s, to)
    PROVE  SummaryInvar'
  <1>1. /\ s \in Exists /\ row' = [row EXCEPT ![s].status = to]
        /\ moved' = [moved EXCEPT ![s] = Moved(s, to)]
        /\ UNCHANGED <<stamp, tries, told, known, asks, reader, base>>
    BY DEF SetStatus
  <1>2. /\ row \in [Shipment -> Row \cup {NoRow}] /\ row[s] \in Row /\ row[s] # NoRow
        /\ moved \in [Shipment -> {"still", "forward", "other"}]
    BY <1>1, RowIs DEF ViewsInv, ViewsTypeOK, Exists
  <1>3. /\ row'[s].status = to /\ row'[s].carrier = row[s].carrier /\ row'[s] \in Row
        /\ \A t \in Shipment \ {s} : row'[t] = row[t]
    <2>1. to \in Status
      BY ViewsAssumption
    <2> QED
      BY <1>1, <1>2, <2>1 DEF Row
  <1>4. row'[s] # NoRow
    BY <1>3, ViewsConstants
  <1>5. CarriersKnown'
    BY <1>1, <1>2, <1>3 DEF SummaryInvar, CarriersKnown
  <1>6. Exists' = Exists
    BY <1>1, <1>2, <1>3, <1>4 DEF Exists
  <1>7. moved'[s] = Moved(s, to) /\ \A t \in Shipment \ {s} : moved'[t] = moved[t]
    BY <1>1, <1>2
  <1>8. ASSUME reader.kind = "summary", base = Exists, Still' PROVE Still /\ Active' = Active
    <2>1. Moved(s, to) = "still" /\ reader # Idle
      BY <1>1, <1>7, <1>8 DEF Still, Idle
    <2>2. Station(row[s].status) = Station(to) /\ moved[s] = "still"
      BY <2>1 DEF Moved
    <2>3. Still
      BY <1>1, <1>7, <1>8, <2>2, ActiveIs DEF Still
    <2>4. row[s].status \in ActiveStatus <=> row'[s].status \in ActiveStatus
      BY <1>3, <2>2, SameStation
    <2>5. \A t \in Exists : row[t].status \in ActiveStatus <=> row'[t].status \in ActiveStatus
      BY <1>3, <2>4, ActiveIs
    <2> QED
      BY <1>6, <2>3, <2>5 DEF Active
  <1>9. GroupsHold'
    BY <1>1, <1>6, <1>8 DEF SummaryInvar, GroupsHold
  <1> QED
    BY <1>5, <1>9 DEF SummaryInvar

LEMMA CarriersGroups ==
    ASSUME ViewsInv, SummaryInvar, NEW c \in Carrier,
           CreateCarrier(c) \/ \E to \in Carrier : ReassignCarrier(c, to)
    PROVE  SummaryInvar'
  <1>1. UNCHANGED <<stamp, tries, told, asks, reader, base, moved>>
    BY DEF CreateCarrier, ReassignCarrier
  <1>2. row \in [Shipment -> Row \cup {NoRow}]
    BY DEF ViewsInv, ViewsTypeOK
  <1>3. /\ IsFiniteSet(known') /\ known \subseteq known' /\ Cardinality(known) <= Cardinality(known')
    <2>1. known' = known \/ known' = known \cup {c}
      BY DEF CreateCarrier, ReassignCarrier
    <2>2. IsFiniteSet(known')
      BY <2>1, FS_AddElement DEF SummaryInvar, CarriersKnown
    <2> QED
      BY <2>1, <2>2, FS_Subset
  <1>4. \A s \in Shipment : /\ row'[s] = NoRow <=> row[s] = NoRow
                            /\ row[s] # NoRow => row'[s].status = row[s].status
                            /\ row[s] # NoRow => row'[s].carrier \in known'
    <2>1. CASE CreateCarrier(c)
      BY <1>3, <2>1 DEF CreateCarrier, SummaryInvar, CarriersKnown
    <2>2. ASSUME NEW to \in Carrier, ReassignCarrier(c, to), NEW s \in Shipment
          PROVE  /\ row'[s] = NoRow <=> row[s] = NoRow
                 /\ row[s] # NoRow => row'[s].status = row[s].status
                 /\ row[s] # NoRow => row'[s].carrier \in known'
      <3> DEFINE new == [row[s] EXCEPT !.carrier = to]
      <3>1. /\ row'[s] = IF s \in Candidates(c) THEN new ELSE row[s]
            /\ known' = known /\ to \in known
        BY <2>2 DEF ReassignCarrier
      <3>2. CASE s \in Candidates(c)
        <4>1. row[s] \in Row /\ row[s] # NoRow
          BY <3>2, RowIs DEF Candidates, Exists, ViewsInv
        <4>2. new \in Row /\ new.status = row[s].status /\ new.carrier = to
          BY <4>1 DEF Row
        <4> HIDE DEF new
        <4> QED
          BY <3>1, <3>2, <4>1, <4>2, ViewsConstants
      <3>3. CASE s \notin Candidates(c)
        <4> HIDE DEF new
        <4> QED
          BY <3>1, <3>3 DEF SummaryInvar, CarriersKnown
      <3> QED
        BY <3>2, <3>3
    <2> QED
      BY <2>1, <2>2
  <1>5. CarriersKnown'
    BY <1>1, <1>3, <1>4 DEF SummaryInvar, CarriersKnown
  <1>6. Exists' = Exists /\ Active' = Active /\ Still' = Still
    BY <1>1, <1>4 DEF Exists, Active, Still
  <1>7. Cardinality(known') <= MaxGroups => Cardinality(known) <= MaxGroups
    <2>1. Cardinality(known) \in Nat /\ Cardinality(known') \in Nat /\ MaxGroups \in Nat
      BY <1>3, FS_CardinalityType, ViewsAssumption DEF SummaryInvar, CarriersKnown
    <2> QED
      BY <1>3, <2>1
  <1>8. GroupsHold'
    BY <1>1, <1>6, <1>7 DEF SummaryInvar, GroupsHold
  <1> QED
    BY <1>5, <1>8 DEF SummaryInvar

LEMMA InTransitSummaryGroups ==
    ASSUME ViewsInv, SummaryInvar, InTransitSummary PROVE SummaryInvar'
  <1>1. /\ reader' = Summary("status", Cardinality(Active), 0, 0, 0) /\ base' = Exists
        /\ UNCHANGED writers /\ moved' = moved
    BY DEF InTransitSummary, Begin, Summary
  <1>2. row' = row /\ stamp' = stamp /\ known' = known
    BY <1>1 DEF writers
  <1>3. Exists' = Exists /\ Active' = Active
    BY <1>2 DEF Exists, Active
  <1>4. reader'.kind = "summary" /\ reader'.pc = "status" /\ reader'.total = Cardinality(Active)
    BY <1>1 DEF Summary
  <1> QED
    BY <1>1, <1>2, <1>3, <1>4 DEF SummaryInvar, CarriersKnown, GroupsHold

LEMMA GroupByStatusGroups ==
    ASSUME ViewsInv, SummaryInvar, GroupByStatus PROVE SummaryInvar'
  <1> DEFINE m == Total([x \in ActiveStatus |-> Cardinality({s \in Active : row[s].status = x})])
  <1>1. /\ reader.kind = "summary" /\ reader' = [reader EXCEPT !.pc = "carrier", !.byStatus = m]
        /\ UNCHANGED writers /\ base' = base /\ moved' = moved
    BY DEF GroupByStatus, Reads
  <1>2. m = Cardinality(Active)
    <2> DEFINE f == [s \in Active |-> row[s].status]
    <2>1. Total([x \in ActiveStatus |-> Cardinality({s \in Active : f[s] = x})])
            = Cardinality({s \in Active : f[s] \in ActiveStatus})
      <3> HIDE DEF f
      <3> QED
        BY ActiveIs, TotalIs
    <2>2. \A x : {s \in Active : f[s] = x} = {s \in Active : row[s].status = x}
      OBVIOUS
    <2>3. {s \in Active : f[s] \in ActiveStatus} = Active
      BY DEF Active
    <2> HIDE DEF f
    <2> QED
      BY <2>1, <2>2, <2>3
  <1> HIDE DEF m
  <1>3. row' = row /\ stamp' = stamp /\ known' = known
    BY <1>1 DEF writers
  <1>4. Exists' = Exists /\ Active' = Active /\ Still' = Still
    BY <1>1, <1>3 DEF Exists, Active, Still
  <1>5. /\ reader'.kind = "summary" /\ reader'.pc = "carrier" /\ reader'.total = reader.total
        /\ reader'.byStatus = m
    <2>1. PICK p, n, x, y, g : reader = Summary(p, n, x, y, g)
      BY <1>1 DEF ViewsInv, SummaryHolds
    <2> QED
      BY <1>1, <2>1 DEF Summary
  <1> QED
    BY <1>1, <1>2, <1>3, <1>4, <1>5 DEF SummaryInvar, CarriersKnown, GroupsHold

LEMMA GroupByCarrierGroups ==
    ASSUME ViewsInv, SummaryInvar, GroupByCarrier PROVE SummaryInvar'
  <1> DEFINE carriers == {row[s].carrier : s \in Active}
             Of(top) == Total([c \in top |-> OfCarrier(c)])
  <1>1. PICK top \in SUBSET carriers :
            /\ Cardinality(top) = Min({MaxGroups, Cardinality(carriers)})
            /\ reader' = [reader EXCEPT !.pc = "done", !.groups = Cardinality(top),
                                        !.byCarrier = Of(top)]
    BY Zenon DEF GroupByCarrier, Reads
  <1>2. /\ reader.kind = "summary" /\ reader.pc = "carrier"
        /\ UNCHANGED writers /\ base' = base /\ moved' = moved
    BY DEF GroupByCarrier, Reads
  <1>3. IsFiniteSet(carriers) /\ carriers \subseteq known
    <2>1. \A s \in Active : row[s].carrier \in known
      BY ActiveIs DEF SummaryInvar, CarriersKnown, Exists
    <2>2. carriers \in SUBSET known
      BY <2>1
    <2> QED
      BY <2>2, FS_Subset DEF SummaryInvar, CarriersKnown
  <1>4. IsFiniteSet(top) /\ Cardinality(top) \in Nat /\ Cardinality(carriers) \in Nat
    BY <1>3, FS_Subset, FS_CardinalityType
  <1> DEFINE shown == {s \in Active : row[s].carrier \in top}
  <1>5. Of(top) = Cardinality(shown)
    <2> DEFINE f == [s \in Active |-> row[s].carrier]
    <2>1. Total([c \in top |-> Cardinality({s \in Active : f[s] = c})])
            = Cardinality({s \in Active : f[s] \in top})
      <3> HIDE DEF f
      <3> QED
        BY <1>4, ActiveIs, TotalIs
    <2>2. \A c : {s \in Active : f[s] = c} = {s \in Active : row[s].carrier = c}
      OBVIOUS
    <2>3. {s \in Active : f[s] \in top} = shown
      OBVIOUS
    <2> HIDE DEF f, shown
    <2> QED
      BY <2>1, <2>2, <2>3 DEF OfCarrier
  <1>6. Cardinality(shown) \in Nat /\ Cardinality(shown) <= Cardinality(Active)
    <2>1. shown \in SUBSET Active
      OBVIOUS
    <2> HIDE DEF shown
    <2> QED
      BY <2>1, ActiveIs, FS_Subset, FS_CardinalityType
  <1>7. Cardinality(top) < MaxGroups \/ Cardinality(known) <= MaxGroups => shown = Active
    <2> SUFFICES ASSUME Cardinality(top) < MaxGroups \/ Cardinality(known) <= MaxGroups
                 PROVE  shown = Active
      OBVIOUS
    <2>1. MaxGroups \in Nat /\ Cardinality(known) \in Nat /\ Cardinality(carriers) <= Cardinality(known)
      BY <1>3, FS_Subset, FS_CardinalityType, ViewsAssumption DEF SummaryInvar, CarriersKnown
    <2>2. Cardinality(top) = Cardinality(carriers)
      <3> HIDE DEF carriers
      <3>1. MaxGroups \in Int /\ Cardinality(carriers) \in Int
        BY <1>4, <2>1
      <3>2. Min({MaxGroups, Cardinality(carriers)}) \in {MaxGroups, Cardinality(carriers)}
            /\ Min({MaxGroups, Cardinality(carriers)}) <= Cardinality(carriers)
        BY <3>1, LeastOfTwo
      <3> QED
        BY <1>1, <1>3, <1>4, <2>1, <3>2
    <2>3. top = carriers
      <3> HIDE DEF carriers
      <3> QED
        BY <1>3, <2>2, FS_Subset
    <2> QED
      BY <2>3
  <1>8. row' = row /\ stamp' = stamp /\ known' = known
    BY <1>2 DEF writers
  <1>9. Exists' = Exists /\ Active' = Active /\ Still' = Still
    BY <1>2, <1>8 DEF Exists, Active, Still
  <1>10. /\ reader'.kind = "summary" /\ reader'.pc = "done" /\ reader'.total = reader.total
         /\ reader'.byStatus = reader.byStatus /\ reader'.byCarrier = Cardinality(shown)
         /\ reader'.groups = Cardinality(top)
    <2>1. PICK p, n, x, y, g : reader = Summary(p, n, x, y, g)
      BY <1>2 DEF ViewsInv, SummaryHolds
    <2> DEFINE m == Cardinality(shown)
               k == Cardinality(top)
    <2>2. reader' = [reader EXCEPT !.pc = "done", !.groups = k, !.byCarrier = m]
      BY <1>1, <1>5
    <2> HIDE DEF m, k
    <2>3. reader' = Summary("done", n, x, m, k)
      BY <2>1, <2>2 DEF Summary
    <2>4. /\ reader'.kind = "summary" /\ reader'.pc = "done" /\ reader'.total = reader.total
          /\ reader'.byStatus = reader.byStatus /\ reader'.byCarrier = m /\ reader'.groups = k
      BY <2>1, <2>3 DEF Summary
    <2> QED
      BY <2>4 DEF m, k
  <1>11. GroupsHold'
    <2> HIDE DEF carriers, shown, Of
    <2> QED
      BY <1>2, <1>6, <1>7, <1>8, <1>9, <1>10 DEF SummaryInvar, GroupsHold
  <1> QED
    BY <1>2, <1>8, <1>11 DEF SummaryInvar, CarriersKnown

\* The other writers belong to other requests.
LEMMA OthersGroups ==
    ASSUME ViewsInv, SummaryInvar, asks # "summary",
           \/ \E s \in Shipment : InsertAttempt(s) \/ TellAttempt(s) \/ InsertShipment(s)
           \/ \E s \in Shipment, c \in Carrier : Stamp(s, c)
    PROVE  SummaryInvar'
  <1>1. known' = known /\ reader' = reader /\ reader.kind # "summary"
    BY DEF ViewsInv, ViewsTypeOK, InsertAttempt, TellAttempt, InsertShipment, Stamp
  <1>2. /\ row \in [Shipment -> Row \cup {NoRow}] /\ stamp \in [Shipment -> Row \cup {NoRow}]
    BY DEF ViewsInv, ViewsTypeOK
  <1>3. CarriersKnown'
    <2>1. ASSUME NEW s \in Shipment, InsertAttempt(s) PROVE CarriersKnown'
      <3>1. row' = [row EXCEPT ![s].attempts = @ + 1] /\ stamp' = stamp /\ row[s] # NoRow
        BY <2>1 DEF InsertAttempt, Exists
      <3>2. row[s] \in Row
        BY <1>2, <3>1
      <3>3. row'[s].carrier = row[s].carrier /\ \A t \in Shipment \ {s} : row'[t] = row[t]
        BY <1>2, <3>1, <3>2 DEF Row
      <3> QED
        BY <1>1, <3>1, <3>3 DEF SummaryInvar, CarriersKnown
    <2>2. ASSUME NEW s \in Shipment, TellAttempt(s) PROVE CarriersKnown'
      BY <1>1, <2>2 DEF SummaryInvar, CarriersKnown, TellAttempt
    <2>3. ASSUME NEW s \in Shipment, InsertShipment(s) PROVE CarriersKnown'
      BY <1>1, <1>2, <2>3 DEF SummaryInvar, CarriersKnown, InsertShipment
    <2>4. ASSUME NEW s \in Shipment, NEW c \in Carrier, Stamp(s, c) PROVE CarriersKnown'
      <3> DEFINE new == [FirstRow(0) EXCEPT !.carrier = c, !.created =
                 1 + Cardinality({t \in Shipment : row[t] # NoRow \/ stamp[t] # NoRow})]
      <3>1. row' = row /\ stamp' = [stamp EXCEPT ![s] = new] /\ c \in known
        BY <2>4 DEF Stamp
      <3>2. new.carrier = c
        BY DEF FirstRow
      <3> HIDE DEF new
      <3> QED
        BY <1>1, <1>2, <3>1, <3>2 DEF SummaryInvar, CarriersKnown
    <2> QED
      BY <2>1, <2>2, <2>3, <2>4
  <1> QED
    BY <1>1, <1>3 DEF SummaryInvar, GroupsHold

\* Other requests, and the end of one, tell nothing of groups.
LEMMA ReadersGroups ==
    ASSUME SummaryInvar, UNCHANGED writers, reader'.kind # "summary" PROVE SummaryInvar'
  BY DEF SummaryInvar, CarriersKnown, GroupsHold, writers

LEMMA SummaryInvariant == ViewsSpec => []SummaryInvar
  <1>1. ASSUME ViewsInit PROVE SummaryInvar
    <2> DEFINE c == CHOOSE c \in Carrier : TRUE
    <2>1. known = {c} /\ reader = Idle
      BY <1>1 DEF ViewsInit
    <2>2. \A s \in Shipment : stamp[s] = NoRow /\ (row[s] # NoRow => row[s].carrier = c)
      BY <1>1 DEF ViewsInit, FirstRow
    <2> HIDE DEF c
    <2>3. IsFiniteSet(known)
      BY <2>1, FS_EmptySet, FS_AddElement
    <2> QED
      BY <2>1, <2>2, <2>3 DEF SummaryInvar, CarriersKnown, GroupsHold, Idle
  <1>2. ASSUME ViewsInv, SummaryInvar, ViewsNext, ViewsInv' PROVE SummaryInvar'
    <2>1. CASE Write
      BY <1>2, <2>1, OthersGroups, SetStatusGroups, CarriersGroups DEF Write
    <2>2. CASE Read
      <3>1. CASE InTransitSummary \/ GroupByStatus \/ GroupByCarrier
        BY <1>2, <3>1, InTransitSummaryGroups, GroupByStatusGroups, GroupByCarrierGroups
      <3>2. CASE \/ \E s \in Shipment : GetTimeline(s)
                 \/ ReadEvents \/ GetDeliveryAttempts
                 \/ \E desc \in BOOLEAN : ApiGetAll(desc)
                 \/ CountShipments \/ ListShipments \/ InTransitTool \/ TripStatus \/ Finish
        <4>1. UNCHANGED writers
          BY <3>2 DEF GetTimeline, ReadEvents, GetDeliveryAttempts, ApiGetAll, CountShipments,
                      ListShipments, InTransitTool, TripStatus, Finish, Begin, Reads
        <4>2. reader'.kind # "summary"
          <5>1. CASE (\E s \in Shipment : GetTimeline(s)) \/ (\E desc \in BOOLEAN : ApiGetAll(desc))
                     \/ InTransitTool \/ Finish
            BY <5>1 DEF GetTimeline, ApiGetAll, InTransitTool, Finish, Begin, Idle
          <5>2. CASE ReadEvents \/ GetDeliveryAttempts \/ CountShipments \/ ListShipments \/ TripStatus
            <6>1. asks # "summary" /\ asks' = asks
              BY <1>2, <4>1, <5>2 DEF ViewsInv, ViewsTypeOK, ReadEvents, GetDeliveryAttempts,
                          CountShipments, ListShipments, TripStatus, writers
            <6> QED
              BY <1>2, <6>1 DEF ViewsInv, ViewsTypeOK
          <5> QED
            BY <3>2, <5>1, <5>2
        <4> QED
          BY <1>2, <4>1, <4>2, ReadersGroups
      <3> QED
        BY <2>2, <3>1, <3>2 DEF Read
    <2> QED
      BY <1>2, <2>1, <2>2 DEF ViewsNext
  <1>3. ASSUME SummaryInvar, UNCHANGED viewsVars PROVE SummaryInvar'
    BY <1>3 DEF viewsVars, writers, SummaryInvar, CarriersKnown, GroupsHold, Still, Active, Exists
  <1>4. ViewsInv /\ SummaryInvar /\ [ViewsNext]_viewsVars /\ ViewsInv' => SummaryInvar'
    BY <1>2, <1>3
  <1> QED
    BY <1>1, <1>4, ViewsInvariant, PTL DEF ViewsSpec

\* For any carriers, shipments, reassignments and LIMIT: while no status changes,
\* the groups of the summary's answer add up to its total, those by carrier
\* unless the LIMIT may have cut them.
THEOREM SummariesAddUp == ViewsSpec => []SummaryAddsUp
  <1>1. ViewsInv /\ SummaryInvar => SummaryAddsUp
    BY DEF SummaryInvar, GroupsHold, SummaryAddsUp, Still
  <1> QED
    BY <1>1, ViewsInvariant, SummaryInvariant, PTL

-----------------------------------------------------------------------------
(* Side by side.                                                           *)

\* Every behaviour of the observers together is one of each of them.
THEOREM ObserversImplementParts ==
  ObserversSpec => /\ ViewsSpec /\ NotificationSpec /\ SimulatorSpec
                   /\ DailySpec /\ AdviceSpec
  <1>1. ObserversInit => ViewsInit /\ NotificationInit /\ SimulatorInit /\ DailyInit /\ AdviceInit
    BY DEF ObserversInit
  <1>2. [ObserversNext]_<<scene, viewsVars, noteVars, simVars, dailyVars, question>> =>
          /\ [ViewsNext]_viewsVars /\ [NotificationNext]_noteVars /\ [SimulatorNext]_simVars
          /\ [DailyNext]_dailyVars /\ [AdviceNext]_question
    <2>1. Notifies => NotificationNext
      BY DEF Notifies, Pushes, Prefers, Reading
    <2>2. Simulates => SimulatorNext
      BY DEF Simulates, Acting
    <2>3. Counts => DailyNext
      BY DEF Counts, EventsOf
    <2> QED
      BY <2>1, <2>2, <2>3 DEF ObserversNext
  <1> QED
    BY <1>1, <1>2, PTL
       DEF ObserversSpec, ViewsSpec, NotificationSpec, SimulatorSpec, DailySpec, AdviceSpec

\* The tables, messages, actors, rows and questions of all of them keep their types.
THEOREM ReadTypesCorrect == ObserversSpec => []ReadTypesOK
  <1>1. ViewsTypeOK /\ NotificationTypeOK /\ SimulatorTypeOK /\ DailyTypeOK /\ AdviceTypeOK
            => ReadTypesOK
    BY DEF ReadTypesOK
  <1> QED
    BY <1>1, ObserversImplementParts, ViewsTypeCorrect, NotificationTypeCorrect,
       SimulatorTypeCorrect, DailyFiguresMatch, AdviceIsSound, PTL

=============================================================================
