--------------------------- MODULE OrderFulfilment ---------------------------
(***************************************************************************)
(* The order service together with the two services that act on its       *)
(* events: core NATS between them, the consumer of the logistics service   *)
(* that creates a shipment for a confirmed order, and the consumer of the  *)
(* inventory service that hears of cancellations.                          *)
(*                                                                         *)
(* NATS is modelled by what internal/pkg/nats makes of it: an event goes   *)
(* to one subscriber of the queue group, which handles its events one      *)
(* after the other, at most once; nothing is stored, acknowledged or       *)
(* redelivered, and the error of a handler is logged.                      *)
(***************************************************************************)
EXTENDS OrderService

CONSTANTS
    Replica,        \* processes of the logistics service
    ManualLimit,    \* bound on POST /shipments per order
    Stocked,        \* orders that clients reserve stock for
    ConsumerFails   \* whether consumers lose events, statements fail, replicas die

ASSUME ReplicaAssumption  == Replica # {}
ASSUME ManualAssumption   == ManualLimit \in Nat
ASSUME StockedAssumption  == Stocked \subseteq Order
ASSUME ConsumerAssumption == ConsumerFails \in BOOLEAN

VARIABLES
    inbox,      \* inbox[k]: the order.status_changed events replica k has pending
    at,         \* at[k]: the next statement of the handler k runs, or "idle"
    task,       \* task[k]: the order that handler works on
    auto,       \* auto[o]: shipments of o that the consumer created
    manual,     \* manual[o]: shipments of o created through the API
    cancels,    \* orders whose order.cancelled the inventory service has pending
    reserved    \* reserved[o]: stock is reserved with reference o

logistics == <<inbox, at, task, auto, manual>>
inventory == <<cancels, reserved>>
allVars   == <<vars, logistics, inventory>>

FulfilmentInit ==
    /\ Init
    /\ inbox    = [k \in Replica |-> <<>>]
    /\ at       = [k \in Replica |-> "idle"]
    /\ task     = [k \in Replica |-> CHOOSE o \in Order : TRUE]
    /\ auto     = [o \in Order |-> 0]
    /\ manual   = [o \in Order |-> 0]
    /\ cancels  = {}
    /\ reserved = [o \in Order |-> FALSE]

-----------------------------------------------------------------------------
(* NATS: what the order service has just published reaches the subscribers *)
(* of its subject, or nobody.                                              *)

Latest(o) == feed'[o][Len(feed'[o])]

\* A consumer is handed the order's id and new status, or nothing.
RouteTo(o) ==
    \/ /\ Latest(o).type = "status_changed"
       /\ \E k \in Replica :
             inbox' = [inbox EXCEPT ![k] = Append(@, [order |-> o, to |-> Latest(o).to])]
       /\ UNCHANGED cancels
    \/ /\ Latest(o).type = "cancelled"
       /\ cancels' = cancels \cup {o}
       /\ UNCHANGED inbox
    \/ /\ Latest(o).type = "created" \/ ConsumerFails
       /\ UNCHANGED <<inbox, cancels>>

Route ==
    /\ IF feed' = feed THEN UNCHANGED <<inbox, cancels>>
       ELSE \E o \in Order : feed'[o] # feed[o] /\ RouteTo(o)
    /\ UNCHANGED <<at, task, auto, manual, reserved>>

-----------------------------------------------------------------------------
(* The consumer of the logistics service.                                  *)

\* A consumer that does not look at new_status.
TakeEvent_AnyStatus(k) ==
    /\ at[k] = "idle" /\ inbox[k] # <<>>
    /\ inbox' = [inbox EXCEPT ![k] = Tail(@)]
    /\ task' = [task EXCEPT ![k] = Head(inbox[k]).order]
    /\ at' = [at EXCEPT ![k] = "lookup"]
    /\ UNCHANGED <<vars, auto, manual, inventory>>

\* A consumer that drops every event, its comparison misspelt.
TakeEvent_Misspelt(k) ==
    /\ at[k] = "idle" /\ inbox[k] # <<>>
    /\ inbox' = [inbox EXCEPT ![k] = Tail(@)]
    /\ UNCHANGED <<vars, at, task, auto, manual, inventory>>

\* handleOrderStatusChanged: only a confirmed order matters.
TakeEvent(k) ==
    LET m == Head(inbox[k]) IN
    /\ at[k] = "idle" /\ inbox[k] # <<>>
    /\ inbox' = [inbox EXCEPT ![k] = Tail(@)]
    /\ IF m.to = "confirmed"
       THEN /\ task' = [task EXCEPT ![k] = m.order]
            /\ at' = [at EXCEPT ![k] = "lookup"]
       ELSE UNCHANGED <<task, at>>
    /\ UNCHANGED <<vars, auto, manual, inventory>>

\* The consumer without the lookup.
FindByOrderID_Skipped(k) ==
    /\ at[k] = "lookup"
    /\ at' = [at EXCEPT ![k] = "carrier"]
    /\ UNCHANGED <<vars, inbox, task, auto, manual, inventory>>

\* FindByOrderID; when it fails the consumer goes on and creates.
FindByOrderID(k) ==
    LET exists == auto[task[k]] + manual[task[k]] > 0 IN
    /\ at[k] = "lookup"
    /\ \/ exists /\ at' = [at EXCEPT ![k] = "idle"]
       \/ (~exists \/ ConsumerFails) /\ at' = [at EXCEPT ![k] = "carrier"]
    /\ UNCHANGED <<vars, inbox, task, auto, manual, inventory>>

\* PickDefaultActive and GetCarrierByID: there may be no active carrier.
PickCarrier(k) ==
    /\ at[k] = "carrier"
    /\ \/ at' = [at EXCEPT ![k] = "insert"]
       \/ ConsumerFails /\ at' = [at EXCEPT ![k] = "idle"]
    /\ UNCHANGED <<vars, inbox, task, auto, manual, inventory>>

\* The INSERT of CreateShipment; its error is logged and the event is gone.
InsertShipment(k) ==
    /\ at[k] = "insert"
    /\ at' = [at EXCEPT ![k] = "idle"]
    /\ \/ auto' = [auto EXCEPT ![task[k]] = @ + 1]
       \/ ConsumerFails /\ UNCHANGED auto
    /\ UNCHANGED <<vars, inbox, task, manual, inventory>>

\* A replica dies and starts again: what it had pending is gone.
Restart(k) ==
    /\ ConsumerFails
    /\ inbox' = [inbox EXCEPT ![k] = <<>>]
    /\ at' = [at EXCEPT ![k] = "idle"]
    /\ UNCHANGED <<vars, task, auto, manual, inventory>>

\* POST /shipments: no look at the order or at its other shipments.
PostShipment(o) ==
    /\ manual[o] < ManualLimit
    /\ manual' = [manual EXCEPT ![o] = @ + 1]
    /\ UNCHANGED <<vars, inbox, at, task, auto, inventory>>

-----------------------------------------------------------------------------
(* The inventory service, as far as an order is concerned.                 *)

\* POST /stock/reserve by a client that names the order as its reference.
ReserveForOrder(o) ==
    /\ o \in Stocked
    /\ status[o] # None /\ ~reserved[o]
    /\ reserved' = [reserved EXCEPT ![o] = TRUE]
    /\ UNCHANGED <<vars, logistics, cancels>>

\* handleOrderCancelled logs "releasing reserved stock" and returns.
HandleOrderCancelled(o) ==
    /\ o \in cancels
    /\ cancels' = cancels \ {o}
    /\ UNCHANGED <<vars, logistics, reserved>>

-----------------------------------------------------------------------------
Consume(k) == TakeEvent(k) \/ FindByOrderID(k) \/ PickCarrier(k) \/ InsertShipment(k)

Others ==
    \/ \E k \in Replica : Consume(k) \/ Restart(k)
    \/ \E o \in Order : PostShipment(o) \/ ReserveForOrder(o) \/ HandleOrderCancelled(o)

FulfilmentNext ==
    \/ Next /\ Route
    \/ Others

\* The system, and the system while nobody calls the bulk endpoint.
FulfilmentSpec == FulfilmentInit /\ [][FulfilmentNext]_allVars

SingleFulfilmentNext ==
    \/ SingleNext /\ Route
    \/ Others

SingleFulfilmentSpec == FulfilmentInit /\ [][SingleFulfilmentNext]_allVars

\* A handler that has begun is run to its end, and so is a subscription with
\* events pending; clients and failures owe nothing.
FairFulfilmentSpec ==
    /\ SingleFulfilmentSpec
    /\ \A r \in Request : WF_allVars(SingleStep(r) /\ Route)
    /\ \A k \in Replica : WF_allVars(Consume(k))

-----------------------------------------------------------------------------
(* Properties.                                                             *)

\* One replica whose statements do not fail creates one shipment at most per
\* order, although an order can be confirmed again and again and the API adds
\* shipments behind its back.
AutoShipmentOnce == \A o \in Order : auto[o] <= 1

\* With any failures, replicas and bulk calls: a shipment is created for no
\* order that was not confirmed first.
ShipmentNeedsConfirmation ==
    \A o \in Order : auto[o] > 0 => "confirmed" \in Visited(o)

\* Without bulk calls and failures every confirmed order gets its shipment.
ConfirmedEventuallyShipped ==
    \A o \in Order : "confirmed" \in Visited(o) ~> auto[o] + manual[o] > 0

\* PRD 8.3: "inventory (release stock)" hears of cancellations.  Once it has
\* handled one, nothing is reserved for the order any more.  Does not hold: its
\* consumer logs the release and releases nothing.
CancelReleasesStock ==
    [][\A o \in Order : o \in cancels \ cancels' => ~reserved'[o]]_allVars
=============================================================================
