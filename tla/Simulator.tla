------------------------------ MODULE Simulator ------------------------------
(***************************************************************************)
(* The simulator service: five actors that wake, list rows through the      *)
(* gateway and move them on, a supervisor that stops them when too many     *)
(* ticks fail, and an administrator who starts and stops them.  The order   *)
(* and logistics services are the status tables the simulator's requests    *)
(* are held against; staff and consumers move the same rows.               *)
(***************************************************************************)
EXTENDS Naturals, Sequences, SequencesExt

CONSTANTS
    Scenario,   \* state.Scenario; all but "idle" only differ in rates and intervals
    Order,      \* orders
    Parcel,     \* shipments
    MinActions, \* actions in 15 s below which the supervisor does not judge: 5
    MaxTally,   \* bound on the actions and on the errors it looks at
    MaxAttempts    \* bound on delivery attempts

ASSUME SimulatorAssumption ==
    /\ {"idle", "steady"} \subseteq Scenario
    /\ MinActions \in Nat /\ MaxTally \in Nat /\ MaxAttempts \in Nat

OrderRules  == INSTANCE OrderStatus
ParcelRules == INSTANCE ShipmentStatus

VARIABLES
    enabled,    \* State.enabled
    scenario,   \* State.scenario
    actor,      \* actor[a]: where RunActor is, and the requests left in its Tick
    tally,      \* actions and errors counted since the supervisor last looked
    recent,     \* an automatic stop was less than a minute ago
    order,      \* order[o]: its status in the order service, or "none"
    parcel,     \* parcel[p]: its status and attempts in the logistics service
    quiet,      \* actors that were not in a Tick when Stop came (history)
    surprised   \* moves refused although the row had not moved (history)

simVars == <<enabled, scenario, actor, tally, recent, order, parcel, quiet, surprised>>

Actor    == {"order_spawner", "order_progressor", "shipment_progressor",
             "inventory_fluctuator", "notification_actor"}
Asleep   == {"loop", "asleep"}
NoParcel == [status |-> "none", attempts |-> 0]

AtLoop == [at |-> "loop", todo |-> <<>>]

\* main with AutoStart off.
SimulatorInit ==
    /\ enabled  = FALSE /\ scenario = "steady" /\ recent = FALSE
    /\ actor    = [a \in Actor |-> AtLoop]
    /\ tally    = [actions |-> 0, errors |-> 0]
    /\ order    = [o \in Order |-> "none"]
    /\ parcel   = [p \in Parcel |-> NoParcel]
    /\ quiet    = Actor
    /\ surprised = {}

world == <<order, parcel>>

-----------------------------------------------------------------------------
\* POST /simulator/start, /stop and /scenario.
Start(sc) ==
    /\ enabled' = TRUE /\ scenario' = sc /\ quiet' = {}
    /\ UNCHANGED <<actor, tally, recent, world, surprised>>

Stopped ==
    /\ enabled' = FALSE
    /\ quiet' = {a \in Actor : actor[a].at \in Asleep} \cup (IF enabled THEN {} ELSE quiet)

StopSimulator == Stopped /\ UNCHANGED <<scenario, actor, tally, recent, world, surprised>>

SetScenario(sc) ==
    /\ scenario' = sc
    /\ UNCHANGED <<enabled, actor, tally, recent, world, quiet, surprised>>

\* RunSupervisor, every 15 s.  What a batch swallows is no error, so when every
\* request fails there are neither actions nor errors to stop for.
TooManyErrors == tally.actions >= MinActions
              /\ 10 * tally.errors > 3 * (tally.actions + tally.errors)

Supervise ==
    /\ tally' = [actions |-> IF enabled THEN 0 ELSE tally.actions, errors |-> 0]
    /\ IF enabled /\ TooManyErrors /\ ~recent
       THEN Stopped /\ recent' = TRUE
       ELSE UNCHANGED <<enabled, quiet, recent>>
    /\ UNCHANGED <<scenario, actor, world, surprised>>

MinutePasses ==
    /\ recent /\ recent' = FALSE
    /\ UNCHANGED <<enabled, scenario, actor, tally, world, quiet, surprised>>

-----------------------------------------------------------------------------
transitStatuses == <<"created", "label_created", "awaiting_pickup", "picked_up", "in_transit",
                     "at_hub", "out_for_delivery", "delivery_attempted", "held_at_office">>
transitions == <<"pending", "confirmed", "processing", "shipped">>

\* The requests a Tick begins with.
Script(a) ==
    CASE a = "order_spawner"        -> <<[do |-> "refresh"], [do |-> "spawn"]>>
      [] a = "order_progressor"     -> [i \in DOMAIN transitions |->
                                           [do |-> "orders", status |-> transitions[i]]]
      [] a = "shipment_progressor"  -> [i \in DOMAIN transitStatuses |->
                                           [do |-> "parcels", status |-> transitStatuses[i]]]
      [] a = "inventory_fluctuator" -> <<[do |-> "refresh"], [do |-> "stock"]>>
      [] a = "notification_actor"   -> <<[do |-> "users"], [do |-> "notify"]>>

\* A request of a Tick: what it is for, and what the list it comes from showed.
Request ==
    [do : {"refresh", "spawn", "stock", "users", "notify", "event"}]
    \cup [do : {"orders"}, status : ToSet(transitions)]
    \cup [do : {"order"}, id : Order, from : OrderRules!Status, to : OrderRules!Status]
    \cup [do : {"ship"}, id : Order]
    \cup [do : {"parcels"}, status : ToSet(transitStatuses)]
    \cup [do : {"parcel"}, id : Parcel, from : ParcelRules!Status, to : ParcelRules!Status]

\* Type correctness of the state, the actors and the rows: an actor has requests
\* left just as long as it is in a Tick.
SimulatorTypeOK ==
    /\ enabled \in BOOLEAN /\ scenario \in Scenario /\ recent \in BOOLEAN
    /\ actor \in [Actor -> [at : Asleep \cup {"tick"}, todo : Seq(Request)]]
    /\ \A a \in Actor : actor[a].at = "tick" <=> actor[a].todo # <<>>
    /\ tally \in [actions : 0..MaxTally, errors : 0..MaxTally]
    /\ order \in [Order -> OrderRules!Status \cup {"none"}]
    /\ parcel \in [Parcel -> [status : ParcelRules!Status \cup {"none"}, attempts : 0..MaxAttempts]]
    /\ quiet \subseteq Actor

\* RunActor: an actor whose interval is zero looks again after two seconds.
FallAsleep(a) ==
    /\ actor[a].at = "loop" /\ enabled /\ scenario # "idle"
    /\ actor' = [actor EXCEPT ![a].at = "asleep"]
    /\ UNCHANGED <<enabled, scenario, tally, recent, world, quiet, surprised>>

\* What it does when it wakes: the second look at enabled.  From that look on it counts
\* as in its Tick, whose first request is a later step.
Woken_Blindly(a) == [at |-> "tick", todo |-> Script(a)]
Woken(a) == IF enabled THEN [at |-> "tick", todo |-> Script(a)] ELSE AtLoop

Wake(a) ==
    /\ actor[a].at = "asleep"
    /\ actor' = [actor EXCEPT ![a] = Woken(a)]
    /\ UNCHANGED <<enabled, scenario, tally, recent, world, quiet, surprised>>

\* The Tick is over.
Over(a, todo) == IF todo = <<>> THEN AtLoop ELSE [at |-> "tick", todo |-> todo]

Step(a) == Head(actor[a].todo)
Turn(a, do) == actor[a].at = "tick" /\ Step(a).do = do

Next_(a)     == actor' = [actor EXCEPT ![a] = Over(a, Tail(@.todo))]
Insert(a, s) == actor' = [actor EXCEPT ![a] = Over(a, s \o Tail(@.todo))]
Abandon(a)   == actor' = [actor EXCEPT ![a] = AtLoop]

Count(actions, errors) ==
    /\ tally.actions + actions <= MaxTally /\ tally.errors + errors <= MaxTally   \* bound
    /\ tally' = [actions |-> tally.actions + actions, errors |-> tally.errors + errors]

Running == UNCHANGED <<enabled, scenario, recent, quiet>>

\* Client.do ends with an error: no token and no login, a network error, a
\* timeout, or a decoding error.  Most batches go on; Tick's own requests do not.
Fails(a) ==
    /\ actor[a].at = "tick"
    /\ IF Step(a).do \in {"refresh", "users", "notify"} THEN Abandon(a) /\ Count(0, 1)
       ELSE Next_(a) /\ Count(0, 0)
    /\ UNCHANGED world /\ UNCHANGED surprised /\ Running

\* ensureUsers, MaybeRefresh: answered, or fresh enough not to be asked.  Without
\* users there is nobody to notify.
Fetched(a) ==
    /\ \/ (Turn(a, "refresh") \/ Turn(a, "users")) /\ Next_(a)
       \/ Turn(a, "users") /\ Abandon(a)
    /\ UNCHANGED <<tally, world, surprised>> /\ Running

\* An answer that is counted; the client may have given up before it came
\* (Heard is FALSE), and then the action is done and not counted.
Answered(a, heard) ==
    IF heard THEN Next_(a) /\ Count(1, 0)
    ELSE IF Step(a).do = "notify" THEN Abandon(a) /\ Count(0, 1)
    ELSE Next_(a) /\ Count(0, 0)

\* POST /orders
spawnOne(a, o, heard) ==
    /\ Turn(a, "spawn") /\ order[o] = "none"
    /\ order' = [order EXCEPT ![o] = "pending"]
    /\ Answered(a, heard)
    /\ UNCHANGED <<parcel, surprised>> /\ Running

\* POST /stock/adjust and /notifications; stock is in StockAccount's care.
adjustOne(a, heard) ==
    /\ Turn(a, "stock") \/ Turn(a, "notify")
    /\ Answered(a, heard)
    /\ UNCHANGED <<world, surprised>> /\ Running

NextStatus_Skip(from) ==
    CASE from = "pending"    -> "confirmed"
      [] from = "confirmed"  -> "shipped"
      [] from = "processing" -> "shipped"
      [] from = "shipped"    -> "delivered"
NextStatus(from) ==
    CASE from = "pending"    -> "confirmed"
      [] from = "confirmed"  -> "processing"
      [] from = "processing" -> "shipped"
      [] from = "shipped"    -> "delivered"

\* What processBatch decides for an order it was shown: too young, cancel, or
\* advance.
OrderPlan(o, from) ==
    {<<>>, <<[do |-> "order", id |-> o, from |-> from, to |-> NextStatus(from)]>>}
    \cup (IF from = "shipped" THEN {}
          ELSE {<<[do |-> "order", id |-> o, from |-> from, to |-> "cancelled"]>>})

listOrders(a, o) ==
    LET from == Step(a).status
    IN  /\ Turn(a, "orders")
        /\ IF order[o] = from THEN \E plan \in OrderPlan(o, from) : Insert(a, plan) ELSE Next_(a)
        /\ UNCHANGED <<tally, world, surprised>> /\ Running

\* PUT /orders/{id}/status or POST /orders/{id}/cancel: the service answers 200,
\* or 409 when its table does not allow the move now.  A shipped order is given
\* a shipment, besides the one its confirmation has caused.  Only Progressed is
\* in the supervisor's sum.
moveOrder(a, heard) ==
    LET s == Step(a)
        ship == <<[do |-> "ship", id |-> s.id]>>
        counts == IF s.to = "cancelled" THEN 0 ELSE 1
    IN  /\ Turn(a, "order")
        /\ IF OrderRules!CanTransition(order[s.id], s.to)
           THEN /\ order' = [order EXCEPT ![s.id] = s.to]
                /\ IF heard /\ s.to = "shipped" THEN Insert(a, ship) ELSE Next_(a)
                /\ Count(IF heard THEN counts ELSE 0, 0)
                /\ UNCHANGED surprised
           ELSE /\ Next_(a) /\ Count(0, 0)
                /\ surprised' = IF order[s.id] = s.from THEN surprised \cup {<<s.from, s.to>>}
                                ELSE surprised
                /\ UNCHANGED order
        /\ UNCHANGED parcel /\ Running

\* maybeCreateShipment: POST /shipments.
createShipment(a, p) ==
    /\ Turn(a, "ship") /\ parcel[p] = NoParcel
    /\ parcel' = [parcel EXCEPT ![p].status = "created"]
    /\ Next_(a)
    /\ UNCHANGED <<tally, order, surprised>> /\ Running

\* advance: the statuses it may ask for, by what it was shown.
Advance(from, tries) ==
    CASE from \in {"created", "label_created"} -> {"awaiting_pickup"}
      [] from = "awaiting_pickup"   -> {"picked_up"}
      [] from = "picked_up"         -> {"in_transit"}
      [] from = "in_transit"        -> {"at_hub", "out_for_delivery"}
      [] from = "at_hub"            -> {"out_for_delivery"}
      [] from = "out_for_delivery"  -> {"delivery_attempted", "delivered"}
      [] from = "delivery_attempted" -> IF tries >= 3 THEN {"returned_to_sender"}
                                        ELSE {"out_for_delivery", "held_at_office"}
      [] from = "held_at_office"    -> {"delivered", "returned_to_sender"}

Moves(p, from) ==
    {[do |-> "parcel", id |-> p, from |-> from, to |-> to] :
        to \in Advance(from, parcel[p].attempts)}
EventStep == [do |-> "event"]

\* A parcel that is picked up has its event written first, the others after.
ParcelPlan(p, from) ==
    {<<>>} \cup {IF from = "picked_up" THEN <<EventStep, m>> ELSE <<m>> : m \in Moves(p, from)}

listShipments(a, p) ==
    LET from == Step(a).status
    IN  /\ Turn(a, "parcels")
        /\ IF parcel[p].status = from THEN \E plan \in ParcelPlan(p, from) : Insert(a, plan)
           ELSE Next_(a)
        /\ UNCHANGED <<tally, world, surprised>> /\ Running

\* A move of the logistics service; a failed attempt is one more.
ParcelMoved(p, to) ==
    [parcel EXCEPT ![p].status = to,
                   ![p].attempts = IF to = "delivery_attempted" THEN @ + 1 ELSE @]

\* statusTo, recordAttempt and recordDelivery.
moveParcel(a, heard) ==
    LET s == Step(a)
        after == IF s.to \in {"delivery_attempted", "delivered"} THEN <<>> ELSE <<EventStep>>
    IN  /\ Turn(a, "parcel")
        /\ s.to = "delivery_attempted" => parcel[s.id].attempts < MaxAttempts   \* bound
        /\ IF ParcelRules!CanTransition(parcel[s.id].status, s.to)
           THEN /\ parcel' = ParcelMoved(s.id, s.to)
                /\ IF heard THEN Insert(a, after) ELSE Next_(a)
                /\ Count(IF heard THEN 1 ELSE 0, 0)
                /\ UNCHANGED surprised
           ELSE /\ Next_(a) /\ Count(0, 0)
                /\ surprised' = IF parcel[s.id].status = s.from
                                THEN surprised \cup {<<s.from, s.to>>} ELSE surprised
                /\ UNCHANGED parcel
        /\ UNCHANGED order /\ Running

\* POST /shipments/{id}/events
addEvent(a) ==
    /\ Turn(a, "event") /\ Next_(a)
    /\ UNCHANGED <<tally, world, surprised>> /\ Running

\* Staff, consumers and drivers move the same rows.
OthersMove ==
    /\ \/ \E o \in Order : order[o] # "none"
             /\ \E to \in OrderRules!Allowed(order[o]) : order' = [order EXCEPT ![o] = to]
             /\ UNCHANGED parcel
       \/ \E p \in Parcel : parcel[p] # NoParcel
             /\ \E to \in ParcelRules!Allowed(parcel[p].status) :
                   /\ to = "delivery_attempted" => parcel[p].attempts < MaxAttempts   \* bound
                   /\ parcel' = ParcelMoved(p, to)
             /\ UNCHANGED order
       \/ \E p \in Parcel : parcel[p] = NoParcel
             /\ parcel' = [parcel EXCEPT ![p].status = "created"] /\ UNCHANGED order
    /\ UNCHANGED <<enabled, scenario, actor, tally, recent, quiet, surprised>>

Act(a) ==
    \/ FallAsleep(a) \/ Wake(a) \/ Fails(a) \/ Fetched(a) \/ addEvent(a)
    \/ \E heard \in BOOLEAN :
           \/ adjustOne(a, heard) \/ moveOrder(a, heard) \/ moveParcel(a, heard)
           \/ \E o \in Order : spawnOne(a, o, heard)
    \/ \E o \in Order : listOrders(a, o)
    \/ \E p \in Parcel : listShipments(a, p) \/ createShipment(a, p)

SimulatorNext ==
    \/ \E a \in Actor : Act(a)
    \/ \E sc \in Scenario : Start(sc) \/ SetScenario(sc)
    \/ StopSimulator \/ Supervise \/ MinutePasses \/ OthersMove

SimulatorSpec == SimulatorInit /\ [][SimulatorNext]_simVars

-----------------------------------------------------------------------------
\* Once Stop has been answered, or the supervisor has stopped the simulator, an
\* actor that was not in the middle of a Tick sends nothing until the next Start,
\* wherever in its loop it was.
QuietAfterStop == ~enabled => \A a \in quiet : actor[a].at \in Asleep

\* The services refuse a move of the simulator only because someone moved the
\* row after it was listed: what it asks for is what the transition tables of
\* the order and logistics services allow.
RefusedOnlyIfMoved == surprised = {}

SimulatorInStep == QuietAfterStop /\ RefusedOnlyIfMoved
=============================================================================
