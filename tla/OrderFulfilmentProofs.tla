----------------------- MODULE OrderFulfilmentProofs -----------------------
(***************************************************************************)
(* Proofs about OrderFulfilment, for every set of orders, of requests and  *)
(* of replicas: the order service is not disturbed by its consumers, and   *)
(* what the consumers create goes back to what the order service did.      *)
(***************************************************************************)
EXTENDS OrderFulfilment, OrderServiceProofs

-----------------------------------------------------------------------------
(* The consumers write nothing the order service reads.                    *)

LEMMA OthersLeaveOrders == Others => UNCHANGED vars
  BY DEF Others, Consume, TakeEvent, FindByOrderID, PickCarrier, InsertShipment, Restart,
     PostShipment, ReserveForOrder, HandleOrderCancelled

LEMMA FulfilmentStep == [FulfilmentNext]_allVars => [Next]_vars
  BY OthersLeaveOrders DEF FulfilmentNext, allVars

\* With its consumers attached the order service behaves as it does alone, so
\* whatever holds of it alone holds of the composed system.
THEOREM OrdersAsAlone == FulfilmentSpec => Spec
  <1>1. FulfilmentInit => Init
    BY DEF FulfilmentInit
  <1> QED
    BY <1>1, FulfilmentStep, PTL DEF FulfilmentSpec, Spec

LEMMA SingleOrdersAsAlone == SingleFulfilmentSpec => SingleSpec
  <1>1. FulfilmentInit => Init
    BY DEF FulfilmentInit
  <1>2. [SingleFulfilmentNext]_allVars => [SingleNext]_vars
    BY OthersLeaveOrders DEF SingleFulfilmentNext, allVars
  <1> QED
    BY <1>1, <1>2, PTL DEF SingleFulfilmentSpec, SingleSpec

\* So, with the consumers running, no order skips a stage, and without failures
\* and bulk calls no move goes unreported.
THEOREM MovesAccountedForInFulfilment ==
  ASSUME ~MayFail
  PROVE  SingleFulfilmentSpec => []NoSkippedStage /\ []EveryMoveAccountedFor
  <1>1. SingleSpec => Spec
    <2>1. [SingleNext]_vars => [Next]_vars
      BY DEF Next
    <2> QED
      BY <2>1, PTL DEF SingleSpec, Spec
  <1> QED
    BY <1>1, SingleOrdersAsAlone, StagesNeverSkipped, MovesAreAccountedFor, PTL

-----------------------------------------------------------------------------
(* Type correctness of the consumers.                                      *)

Message == [order : Order, to : Status \cup {None}]

ConsumersOK ==
    /\ inbox \in [Replica -> Seq(Message)]
    /\ at \in [Replica -> {"idle", "lookup", "carrier", "insert"}]
    /\ task \in [Replica -> Order]
    /\ auto \in [Order -> Nat]
    /\ manual \in [Order -> Nat]
    /\ cancels \subseteq Order
    /\ reserved \in [Order -> BOOLEAN]

LEMMA ConsumersInit == FulfilmentInit => ConsumersOK
  <1>1. (CHOOSE o \in Order : TRUE) \in Order
    BY OrderAssumption
  <1> QED
    BY <1>1 DEF FulfilmentInit, ConsumersOK

-----------------------------------------------------------------------------
(* A confirmation is a fact before anybody hears of it.                    *)

\* The steps of one request, bulk endpoint included.
ActOf(r) ==
    \/ StepOf(r)
    \/ BulkStep(r)
    \/ \E ids \in Batch, to \in Target, mode \in {"dry", "plain", "note"} :
          BulkUpdateStatus(r, ids, to, mode)

LEMMA OneActor == Next <=> \E r \in Request : ActOf(r)
  BY OneRequest DEF Next, BulkNext, ActOf

LEMMA BystandersWait ==
  ASSUME TypeOK, NEW r \in Request, ActOf(r)
  PROVE  \A q \in Request \ {r} : pc'[q] = pc[q] /\ job'[q] = job[q]
  <1>1. CASE StepOf(r)
    BY <1>1, OthersWait
  <1>2. CASE BulkStep(r)
    BY <1>2 DEF BulkStep, BulkLoad, BulkItem, BulkReread, BulkPublish, Goto, TypeOK
  <1>3. CASE \E ids \in Batch, to \in Target, mode \in {"dry", "plain", "note"} :
                BulkUpdateStatus(r, ids, to, mode)
    BY <1>3 DEF BulkUpdateStatus, Goto, TypeOK
  <1> QED
    BY <1>1, <1>2, <1>3 DEF ActOf

\* An event is added by its publisher, one at a time.
LEMMA FeedStep ==
  ASSUME TypeOK, NEW r \in Request, ActOf(r), feed' # feed
  PROVE  \E e \in Event :
            /\ feed' = [feed EXCEPT ![job[r].order] = Append(@, e)]
            /\ \/ pc[r] = "publish" /\ e = EventOf(r)
               \/ pc[r] = "bulk_publish" /\ e.to = job[r].seen
  <1>1. CASE StepOf(r)
    BY <1>1, FeedOnlyByPublish, EventOfType DEF Publish
  <1>2. CASE BulkPublish(r)
    <2> DEFINE e == [type |-> "status_changed", from |-> batch[r].snap[job[r].order],
                     to |-> job[r].seen]
    <2>1. /\ job[r].order \in Order /\ job[r].seen \in Status \cup {None}
          /\ batch[r].snap[job[r].order] \in Status \cup {None}
      BY DEF TypeOK, Job, BulkLocals
    <2>2. e \in Event /\ e.to = job[r].seen
      BY <2>1 DEF Event
    <2> QED
      BY <1>2, <2>2 DEF BulkPublish
  <1>3. CASE ~BulkPublish(r) /\ ~StepOf(r)
    BY <1>3 DEF ActOf, BulkStep, BulkLoad, BulkItem, BulkReread, BulkUpdateStatus
  <1> QED
    BY <1>1, <1>2, <1>3

\* The event that has just gone out about o.
LEMMA LatestIsNew ==
  ASSUME TypeOK, NEW r \in Request, ActOf(r), NEW o \in Order, feed'[o] # feed[o]
  PROVE  /\ o = job[r].order
         /\ Latest(o) \in Event
         /\ \/ pc[r] = "publish" /\ Latest(o) = EventOf(r)
            \/ pc[r] = "bulk_publish" /\ Latest(o).to = job[r].seen
  <1>1. PICK e \in Event :
            /\ feed' = [feed EXCEPT ![job[r].order] = Append(@, e)]
            /\ \/ pc[r] = "publish" /\ e = EventOf(r)
               \/ pc[r] = "bulk_publish" /\ e.to = job[r].seen
    BY FeedStep
  <1>2. o = job[r].order
    BY <1>1 DEF TypeOK
  <1>3. feed'[o] = Append(feed[o], e) /\ feed[o] \in Seq(Event)
    BY <1>1, <1>2 DEF TypeOK
  <1>4. Latest(o) = e
    BY <1>3 DEF Latest
  <1> QED
    BY <1>1, <1>2, <1>4

\* The statuses an order has had only grow in number.
LEMMA VisitedGrows ==
  ASSUME TypeOK, RowInHistory, [Next]_vars, NEW o \in Order
  PROVE  Visited(o) \subseteq Visited(o)'
  <1>1. \/ UNCHANGED moves
        \/ \E p \in Order : Write(p, "pending")
        \/ \E r \in Request : Write(job[r].order, job[r].to)
        \/ \E r \in Request : batch[r].ids # <<>> /\ Write(Head(batch[r].ids), job[r].to)
    <2>1. CASE UNCHANGED vars
      BY <2>1 DEF vars
    <2>2. CASE SingleNext
      BY <2>2 DEF SingleNext, SingleStep, CreateOrder, CancelOrder, UpdateOrderStatus,
         ReadAndCheck, CompareAndSet, ExplainMiss, LoadItems, Publish, WriteAudit, Abort, table
    <2>3. CASE BulkNext
      BY <2>3 DEF BulkNext, BulkStep, BulkUpdateStatus, BulkLoad, BulkItem, BulkReread,
         BulkPublish, table
    <2> QED
      BY <2>1, <2>2, <2>3 DEF Next
  <1>2. "pending" \in Status
    BY DEF Status
  <1>3. \A r \in Request : job[r].order \in Order /\ job[r].to \in Status
    BY DEF TypeOK, Job
  <1>4. \A r \in Request : batch[r].ids # <<>> => Head(batch[r].ids) \in Order
    BY DEF TypeOK, BulkLocals
  <1>5. \A p \in Order, to \in Status : Write(p, to) => Visited(o) \subseteq Visited(o)'
    BY WriteHistory
  <1>6. UNCHANGED moves => Visited(o) \subseteq Visited(o)'
    BY DEF Visited
  <1> QED
    BY <1>1, <1>2, <1>3, <1>4, <1>5, <1>6

\* What a handler is about to publish as the new status is one its order had.
Announces(r) ==
    /\ pc[r] \in {"items", "publish"} => job[r].to \in Visited(job[r].order)
    /\ pc[r] = "bulk_publish" /\ job[r].seen # None => job[r].seen \in Visited(job[r].order)

AnnouncedIsHistory == \A r \in Request : Announces(r)

\* So is what is on its way to a replica ...
PendingIsHistory ==
    \A k \in Replica : \A i \in DOMAIN inbox[k] :
        inbox[k][i].to = "confirmed" => "confirmed" \in Visited(inbox[k][i].order)

\* ... and what a replica works on.
TaskIsHistory ==
    \A k \in Replica : at[k] # "idle" => "confirmed" \in Visited(task[k])

ConfirmedInv ==
    /\ AnnouncedIsHistory
    /\ PendingIsHistory
    /\ TaskIsHistory
    /\ ShipmentNeedsConfirmation

LEMMA ConfirmedInit == FulfilmentInit => ConfirmedInv
  BY DEF FulfilmentInit, Init, ConfirmedInv, AnnouncedIsHistory, Announces, PendingIsHistory, TaskIsHistory,
     ShipmentNeedsConfirmation

\* What r itself is about to publish, after its step.
LEMMA ActorAnnounces ==
  ASSUME HistoryInv, AnnouncedIsHistory, NEW r \in Request, ActOf(r)
  PROVE  Announces(r)'
  <1>0. TypeOK /\ RowInHistory /\ Next
    BY OneActor DEF HistoryInv
  <1>1. CASE \E o \in Order : CreateOrder(r, o)
    <2>1. PICK o \in Order : CreateOrder(r, o)
      BY <1>1
    <2>2. CASE pc'[r] = "not_found"
      BY <2>2 DEF Announces
    <2>3. CASE /\ Write(o, "pending") /\ pc'[r] = "publish"
               /\ job'[r].order = o /\ job'[r].to = "pending"
      <3>1. "pending" \in Visited(o)'
        BY <1>0, <2>3, WriteHistory DEF Status
      <3> QED
        BY <2>3, <3>1 DEF Announces, Visited
    <2> QED
      BY <1>0, <2>1, <2>2, <2>3 DEF CreateOrder, Goto, TypeOK
  <1>2. CASE \E o \in Order : \E to, op : ReadAndCheck(r, op, o, to)
    BY <1>0, <1>2 DEF Announces, ReadAndCheck, Goto, TypeOK
  <1>3. CASE CompareAndSet(r)
    <2>1. PICK o \in Order, to \in Status : o = job[r].order /\ to = job[r].to
      BY <1>0 DEF TypeOK, Job
    <2>2. CASE pc'[r] = "reread"
      BY <2>2 DEF Announces
    <2>3. CASE Write(o, to) /\ pc'[r] = "items" /\ job' = job
      <3>1. to \in Visited(o)'
        BY <1>0, <2>3, WriteHistory
      <3> QED
        BY <2>1, <2>3, <3>1 DEF Announces, Visited
    <2> QED
      BY <1>0, <1>3, <2>1, <2>2, <2>3 DEF CompareAndSet, Goto, TypeOK
  <1>4. CASE LoadItems(r)
    <2>1. UNCHANGED <<moves, job>> /\ pc[r] = "items" /\ pc'[r] = "publish"
      BY <1>0, <1>4 DEF LoadItems, table, Goto, TypeOK
    <2> QED
      BY <2>1 DEF AnnouncedIsHistory, Announces, Visited
  <1>5. CASE BulkReread(r)
    <2>1. CASE pc'[r] # "bulk_publish"
      BY <1>0, <1>5, <2>1 DEF Announces, BulkReread, Goto, TypeOK
    <2>2. CASE pc'[r] = "bulk_publish"
      <3>1. PICK o \in Order : /\ o = Head(batch[r].done)
                               /\ job'[r].order = o /\ job'[r].seen = status[o]
        BY <1>0, <1>5, <2>2 DEF BulkReread, Goto, TypeOK, BulkLocals, Job
      <3>2. status[o] # None => status[o] \in Visited(o)
        BY <1>0 DEF RowInHistory
      <3>3. moves' = moves
        BY <1>5 DEF BulkReread, table
      <3> QED
        BY <2>2, <3>1, <3>2, <3>3 DEF Announces, Visited
    <2> QED
      BY <2>1, <2>2
  <1>6. CASE WriteAudit(r)
    BY <1>6 DEF WriteAudit, table, handlers, AnnouncedIsHistory, Announces, Visited
  <1>7. CASE ExplainMiss(r) \/ Publish(r) \/ Abort(r) \/ BulkLoad(r) \/ BulkItem(r) \/ BulkPublish(r)
    BY <1>0, <1>7 DEF Announces, ExplainMiss, Publish, Abort, BulkLoad, BulkItem, BulkPublish, Goto, TypeOK
  <1>8. CASE \E ids \in Batch, to \in Target, mode \in {"dry", "plain", "note"} :
                BulkUpdateStatus(r, ids, to, mode)
    BY <1>0, <1>8 DEF Announces, BulkUpdateStatus, Goto, TypeOK
  <1> QED
    BY <1>1, <1>2, <1>3, <1>4, <1>5, <1>6, <1>7, <1>8
       DEF ActOf, StepOf, SingleStep, CancelOrder, UpdateOrderStatus, BulkStep

LEMMA AnnouncedStep ==
  ASSUME HistoryInv, AnnouncedIsHistory, [Next]_vars
  PROVE  AnnouncedIsHistory'
  <1>0. TypeOK /\ RowInHistory
    BY DEF HistoryInv
  <1>1. CASE UNCHANGED vars
    BY <1>1 DEF vars, AnnouncedIsHistory, Announces, Visited
  <1>2. CASE Next
    <2>1. PICK r \in Request : ActOf(r)
      BY <1>2, OneActor
    <2>2. ASSUME NEW q \in Request
          PROVE  Announces(q)'
      <3>1. CASE q = r
        BY <2>1, <3>1, ActorAnnounces
      <3>2. CASE q # r
        <4>1. PICK o \in Order : o = job[q].order
          BY <1>0 DEF TypeOK, Job
        <4>2. pc'[q] = pc[q] /\ job'[q] = job[q]
          BY <1>0, <2>1, <3>2, BystandersWait
        <4>3. Visited(o) \subseteq Visited(o)'
          BY <1>0, VisitedGrows
        <4>4. /\ pc[q] \in {"items", "publish"} => job[q].to \in Visited(o)
              /\ pc[q] = "bulk_publish" /\ job[q].seen # None => job[q].seen \in Visited(o)
          BY <4>1 DEF AnnouncedIsHistory, Announces
        <4> QED
          BY <4>1, <4>2, <4>3, <4>4 DEF Announces, Visited
      <3> QED
        BY <3>1, <3>2
    <2> QED
      BY <2>2 DEF AnnouncedIsHistory
  <1> QED
    BY <1>1, <1>2

\* What NATS hands to a replica in a step of the order service is one message,
\* about a confirmation that has happened if it is about one.
LEMMA RouteDelivers ==
  ASSUME HistoryInv, AnnouncedIsHistory, Next, Route
  PROVE  /\ \/ inbox' = inbox
            \/ \E k \in Replica, m \in Message :
                  /\ inbox' = [inbox EXCEPT ![k] = Append(@, m)]
                  /\ m.to = "confirmed" => "confirmed" \in Visited(m.order)
         /\ \A o \in cancels' \ cancels : o \in Order
         /\ UNCHANGED <<at, task, auto, manual, reserved>>
  <1>0. TypeOK
    BY DEF HistoryInv
  <1>1. PICK r \in Request : ActOf(r)
    BY OneActor
  <1>2. CASE feed' = feed
    BY <1>2 DEF Route
  <1>3. CASE feed' # feed
    <2>1. PICK o \in Order : feed'[o] # feed[o] /\ RouteTo(o)
      BY <1>3 DEF Route
    <2>2. /\ o = job[r].order /\ Latest(o) \in Event
          /\ \/ pc[r] = "publish" /\ Latest(o) = EventOf(r)
             \/ pc[r] = "bulk_publish" /\ Latest(o).to = job[r].seen
      BY <1>0, <1>1, <2>1, LatestIsNew
    <2>3. PICK to \in Status \cup {None} : to = Latest(o).to
      BY <2>2 DEF Event
    <2>4. to = "confirmed" => "confirmed" \in Visited(o)
      <3>1. CASE pc[r] = "publish" /\ Latest(o) = EventOf(r)
        <4>1. to \in {"pending", None, job[r].to}
          BY <2>3, <3>1 DEF EventOf
        <4> QED
          BY <2>2, <3>1, <4>1 DEF AnnouncedIsHistory, Announces, None
      <3>2. CASE pc[r] = "bulk_publish" /\ Latest(o).to = job[r].seen
        BY <2>2, <2>3, <3>2 DEF AnnouncedIsHistory, Announces, None
      <3> QED
        BY <2>2, <3>1, <3>2
    <2>5. [order |-> o, to |-> to] \in Message
      BY <2>3 DEF Message
    <2>6. ASSUME NEW k \in Replica, inbox' = [inbox EXCEPT ![k] = Append(@, [order |-> o, to |-> to])]
          PROVE  \E m \in Message : /\ inbox' = [inbox EXCEPT ![k] = Append(@, m)]
                                    /\ m.to = "confirmed" => "confirmed" \in Visited(m.order)
      BY <2>4, <2>5, <2>6
    <2>7. cancels' \subseteq cancels \cup {o}
      BY <2>1 DEF RouteTo
    <2>8. \/ inbox' = inbox
          \/ \E k \in Replica : inbox' = [inbox EXCEPT ![k] = Append(@, [order |-> o, to |-> to])]
      BY <2>1, <2>3 DEF RouteTo
    <2> QED
      BY <2>6, <2>7, <2>8 DEF Route
  <1> QED
    BY <1>2, <1>3

\* The orders each replica is told of, one message more or one less.
LEMMA InboxFacts ==
  ASSUME NEW s \in Seq(Message)
  PROVE  /\ \A m \in Message : \A i \in DOMAIN Append(s, m) :
               (i \in DOMAIN s /\ Append(s, m)[i] = s[i]) \/ Append(s, m)[i] = m
         /\ s # <<>> => /\ 1 \in DOMAIN s /\ Head(s) = s[1] /\ s[1] \in Message
                        /\ Tail(s) \in Seq(Message)
                        /\ \A i \in DOMAIN Tail(s) : i + 1 \in DOMAIN s /\ Tail(s)[i] = s[i + 1]
  OBVIOUS

\* The type invariant, through a delivery and through each consumer step.
LEMMA ConsumersStep ==
  ASSUME HistoryInv, AnnouncedIsHistory, ConsumersOK, [FulfilmentNext]_allVars
  PROVE  ConsumersOK'
  <1>1. CASE UNCHANGED allVars
    BY <1>1 DEF allVars, logistics, inventory, ConsumersOK
  <1>2. CASE Next /\ Route
    <2>1. inbox' \in [Replica -> Seq(Message)]
      <3>1. CASE inbox' = inbox
        BY <3>1 DEF ConsumersOK
      <3>2. ASSUME NEW k \in Replica, NEW m \in Message,
                   inbox' = [inbox EXCEPT ![k] = Append(@, m)]
            PROVE  inbox' \in [Replica -> Seq(Message)]
        <4>1. Append(inbox[k], m) \in Seq(Message)
          BY DEF ConsumersOK
        <4> QED
          BY <3>2, <4>1 DEF ConsumersOK
      <3> QED
        BY <1>2, <3>1, <3>2, RouteDelivers
    <2> QED
      BY <1>2, <2>1, RouteDelivers DEF ConsumersOK
  <1>3. ASSUME NEW k \in Replica, TakeEvent(k)
        PROVE  ConsumersOK'
    <2>1. inbox[k] \in Seq(Message) /\ inbox[k] # <<>>
      BY <1>3 DEF ConsumersOK, TakeEvent
    <2>2. Tail(inbox[k]) \in Seq(Message) /\ Head(inbox[k]) \in Message
      BY <2>1, InboxFacts
    <2>3. inbox' \in [Replica -> Seq(Message)]
      BY <1>3, <2>2 DEF ConsumersOK, TakeEvent
    <2>4. Head(inbox[k]).order \in Order
      BY <2>2 DEF Message
    <2>5. /\ task' \in [Replica -> Order]
          /\ at' \in [Replica -> {"idle", "lookup", "carrier", "insert"}]
      BY <1>3, <2>4 DEF ConsumersOK, TakeEvent
    <2> QED
      BY <1>3, <2>3, <2>5 DEF ConsumersOK, TakeEvent, inventory
  <1>4. ASSUME NEW k \in Replica, FindByOrderID(k) \/ PickCarrier(k)
        PROVE  ConsumersOK'
    <2>1. at' \in [Replica -> {"idle", "lookup", "carrier", "insert"}]
      BY <1>4 DEF ConsumersOK, FindByOrderID, PickCarrier
    <2> QED
      BY <1>4, <2>1 DEF ConsumersOK, FindByOrderID, PickCarrier, inventory
  <1>5. ASSUME NEW k \in Replica, InsertShipment(k)
        PROVE  ConsumersOK'
    <2>1. /\ at' \in [Replica -> {"idle", "lookup", "carrier", "insert"}]
          /\ auto' \in [Order -> Nat]
      BY <1>5 DEF ConsumersOK, InsertShipment
    <2> QED
      BY <1>5, <2>1 DEF ConsumersOK, InsertShipment, inventory
  <1>6. ASSUME NEW k \in Replica, Restart(k)
        PROVE  ConsumersOK'
    <2>1. /\ at' \in [Replica -> {"idle", "lookup", "carrier", "insert"}]
          /\ inbox' \in [Replica -> Seq(Message)]
      BY <1>6 DEF ConsumersOK, Restart
    <2> QED
      BY <1>6, <2>1 DEF ConsumersOK, Restart, inventory
  <1>7. ASSUME NEW o \in Order, PostShipment(o) \/ ReserveForOrder(o) \/ HandleOrderCancelled(o)
        PROVE  ConsumersOK'
    <2>1. manual' \in [Order -> Nat]
      BY <1>7 DEF ConsumersOK, PostShipment, ReserveForOrder, HandleOrderCancelled, logistics
    <2>2. reserved' \in [Order -> BOOLEAN] /\ cancels' \subseteq Order
      BY <1>7 DEF ConsumersOK, PostShipment, ReserveForOrder, HandleOrderCancelled, inventory
    <2> QED
      BY <1>7, <2>1, <2>2
         DEF ConsumersOK, PostShipment, ReserveForOrder, HandleOrderCancelled, logistics
  <1> QED
    BY <1>1, <1>2, <1>3, <1>4, <1>5, <1>6, <1>7 DEF FulfilmentNext, Others, Consume

\* What the consumers know of confirmations stays true, as statuses that an
\* order has had are not taken back.
LEMMA ConfirmedKept ==
  ASSUME HistoryInv, ConfirmedInv, ConsumersOK, ConsumersOK', [FulfilmentNext]_allVars,
         NEW o \in Order, "confirmed" \in Visited(o)
  PROVE  "confirmed" \in Visited(o)'
  BY FulfilmentStep, VisitedGrows DEF HistoryInv

\* The messages: one that comes is true, one that goes does not matter.
LEMMA PendingStep ==
  ASSUME HistoryInv, ConfirmedInv, ConsumersOK, ConsumersOK', [FulfilmentNext]_allVars
  PROVE  PendingIsHistory'
  <1>0. ASSUME NEW k \in Replica, NEW i \in DOMAIN inbox'[k]
        PROVE  inbox'[k][i].order \in Order
    <2>1. inbox'[k] \in Seq(Message)
      BY DEF ConsumersOK
    <2>2. inbox'[k][i] \in Message
      BY <2>1
    <2> QED
      BY <2>2 DEF Message
  <1> SUFFICES ASSUME NEW k \in Replica, NEW i \in DOMAIN inbox'[k],
                      inbox'[k][i].to = "confirmed",
                      NEW o \in Order, o = inbox'[k][i].order
               PROVE  "confirmed" \in Visited(o)'
    BY <1>0 DEF PendingIsHistory, Visited
  <1>2. \/ \E j \in DOMAIN inbox[k] : inbox'[k][i] = inbox[k][j]
        \/ "confirmed" \in Visited(o)
    <2>0. inbox[k] \in Seq(Message)
      BY DEF ConsumersOK
    <2>1. CASE inbox' = inbox
      BY <2>1
    <2>2. ASSUME NEW q \in Replica, NEW m \in Message,
                 inbox' = [inbox EXCEPT ![q] = Append(@, m)],
                 m.to = "confirmed" => "confirmed" \in Visited(m.order)
          PROVE  \/ \E j \in DOMAIN inbox[k] : inbox'[k][i] = inbox[k][j]
                 \/ "confirmed" \in Visited(o)
      <3>1. CASE q # k
        BY <2>2, <3>1 DEF ConsumersOK
      <3>2. CASE q = k
        <4>1. inbox'[k] = Append(inbox[k], m)
          BY <2>2, <3>2 DEF ConsumersOK
        <4>2. (i \in DOMAIN inbox[k] /\ inbox'[k][i] = inbox[k][i]) \/ inbox'[k][i] = m
          BY <2>0, <4>1, InboxFacts
        <4> QED
          BY <2>2, <4>2
      <3> QED
        BY <3>1, <3>2
    <2>3. CASE \E q \in Replica : TakeEvent(q)
      <3>1. PICK q \in Replica : inbox[q] # <<>> /\ inbox' = [inbox EXCEPT ![q] = Tail(@)]
        BY <2>3 DEF TakeEvent
      <3>2. CASE q # k
        BY <3>1, <3>2 DEF ConsumersOK
      <3>3. CASE q = k
        <4>1. inbox'[k] = Tail(inbox[k]) /\ inbox[k] # <<>>
          BY <3>1, <3>3 DEF ConsumersOK
        <4>2. i + 1 \in DOMAIN inbox[k] /\ inbox'[k][i] = inbox[k][i + 1]
          BY <2>0, <4>1, InboxFacts
        <4> QED
          BY <4>2
      <3> QED
        BY <3>2, <3>3
    <2>4. CASE \E q \in Replica : Restart(q)
      <3>1. PICK q \in Replica : inbox' = [inbox EXCEPT ![q] = <<>>]
        BY <2>4 DEF Restart
      <3>2. CASE q # k
        BY <3>1, <3>2 DEF ConsumersOK
      <3>3. CASE q = k
        BY <3>1, <3>3 DEF ConsumersOK
      <3> QED
        BY <3>2, <3>3
    <2>5. CASE Next /\ Route
      BY <2>1, <2>2, <2>5, RouteDelivers DEF ConfirmedInv
    <2>6. CASE UNCHANGED allVars
      BY <2>1, <2>6 DEF allVars, logistics
    <2>7. CASE \/ \E q \in Replica : FindByOrderID(q) \/ PickCarrier(q) \/ InsertShipment(q)
               \/ \E p \in Order : PostShipment(p) \/ ReserveForOrder(p) \/ HandleOrderCancelled(p)
      BY <2>1, <2>7 DEF FindByOrderID, PickCarrier, InsertShipment, PostShipment,
         ReserveForOrder, HandleOrderCancelled, logistics
    <2> QED
      BY <2>3, <2>4, <2>5, <2>6, <2>7 DEF FulfilmentNext, Others, Consume
  <1>3. "confirmed" \in Visited(o)
    BY <1>2 DEF ConfirmedInv, PendingIsHistory
  <1> QED
    BY <1>3, ConfirmedKept

LEMMA TaskStep ==
  ASSUME HistoryInv, ConfirmedInv, ConsumersOK, ConsumersOK', [FulfilmentNext]_allVars
  PROVE  TaskIsHistory'
  <1>0. \A k \in Replica : task'[k] \in Order
    BY DEF ConsumersOK
  <1> SUFFICES ASSUME NEW k \in Replica, at'[k] # "idle",
                      NEW o \in Order, o = task'[k]
               PROVE  "confirmed" \in Visited(o)'
    BY <1>0 DEF TaskIsHistory, Visited
  <1>2. \/ at[k] # "idle" /\ task'[k] = task[k]
        \/ TakeEvent(k) /\ at[k] = "idle"
    <2>1. CASE UNCHANGED <<at, task>>
      BY <2>1
    <2>2. CASE \E q \in Replica \ {k} : Consume(q) \/ Restart(q)
      BY <2>2 DEF Consume, TakeEvent, FindByOrderID, PickCarrier, InsertShipment, Restart, ConsumersOK
    <2>3. CASE FindByOrderID(k) \/ PickCarrier(k) \/ InsertShipment(k) \/ Restart(k)
      BY <2>3 DEF FindByOrderID, PickCarrier, InsertShipment, Restart, ConsumersOK
    <2>4. CASE TakeEvent(k)
      BY <2>4 DEF TakeEvent
    <2>5. CASE Next /\ Route
      BY <2>1, <2>5 DEF Route
    <2>6. CASE UNCHANGED allVars
      BY <2>1, <2>6 DEF allVars, logistics
    <2>7. CASE \E p \in Order : PostShipment(p) \/ ReserveForOrder(p) \/ HandleOrderCancelled(p)
      BY <2>1, <2>7 DEF PostShipment, ReserveForOrder, HandleOrderCancelled, logistics
    <2> QED
      BY <2>2, <2>3, <2>4, <2>5, <2>6, <2>7 DEF FulfilmentNext, Others, Consume
  <1>3. ASSUME at[k] # "idle", task'[k] = task[k]
        PROVE  "confirmed" \in Visited(o)
    BY <1>3 DEF ConfirmedInv, TaskIsHistory
  <1>4. ASSUME TakeEvent(k)
        PROVE  "confirmed" \in Visited(o)
    <2>1. inbox[k] \in Seq(Message) /\ inbox[k] # <<>>
      BY <1>4 DEF ConsumersOK, TakeEvent
    <2>2. 1 \in DOMAIN inbox[k] /\ Head(inbox[k]) = inbox[k][1]
      BY <2>1, InboxFacts
    <2>3. Head(inbox[k]).to = "confirmed" /\ task'[k] = Head(inbox[k]).order
      BY <1>4 DEF TakeEvent, ConsumersOK
    <2> QED
      BY <2>2, <2>3 DEF ConfirmedInv, PendingIsHistory
  <1>5. "confirmed" \in Visited(o)
    BY <1>2, <1>3, <1>4
  <1> QED
    BY <1>5, ConfirmedKept

LEMMA ShipmentStep ==
  ASSUME HistoryInv, ConfirmedInv, ConsumersOK, ConsumersOK', [FulfilmentNext]_allVars
  PROVE  ShipmentNeedsConfirmation'
  <1> SUFFICES ASSUME NEW o \in Order, auto'[o] > 0
               PROVE  "confirmed" \in Visited(o)'
    BY DEF ShipmentNeedsConfirmation
  <1>1. auto[o] > 0 \/ \E k \in Replica : InsertShipment(k) /\ task[k] = o
    <2>1. CASE auto' = auto
      BY <2>1
    <2>2. CASE \E k \in Replica : InsertShipment(k)
      BY <2>2 DEF InsertShipment, ConsumersOK
    <2>3. CASE Next /\ Route
      BY <2>1, <2>3 DEF Route
    <2>4. CASE UNCHANGED allVars
      BY <2>1, <2>4 DEF allVars, logistics
    <2>5. CASE \/ \E k \in Replica : TakeEvent(k) \/ FindByOrderID(k) \/ PickCarrier(k) \/ Restart(k)
               \/ \E p \in Order : PostShipment(p) \/ ReserveForOrder(p) \/ HandleOrderCancelled(p)
      BY <2>1, <2>5 DEF TakeEvent, FindByOrderID, PickCarrier, Restart, PostShipment,
         ReserveForOrder, HandleOrderCancelled, logistics
    <2> QED
      BY <2>2, <2>3, <2>4, <2>5 DEF FulfilmentNext, Others, Consume
  <1>2. "confirmed" \in Visited(o)
    BY <1>1 DEF ConfirmedInv, ShipmentNeedsConfirmation, TaskIsHistory, InsertShipment
  <1> QED
    BY <1>2, ConfirmedKept

LEMMA ConfirmedInvariant ==
  FulfilmentSpec => [](HistoryInv /\ ConsumersOK /\ ConfirmedInv)
  <1>1. FulfilmentInit => HistoryInv /\ ConsumersOK /\ ConfirmedInv
    BY HistoryInit, ConsumersInit, ConfirmedInit DEF FulfilmentInit
  <1>2. ASSUME HistoryInv, ConsumersOK, ConfirmedInv, [FulfilmentNext]_allVars
        PROVE  HistoryInv' /\ ConsumersOK' /\ ConfirmedInv'
    <2>1. HistoryInv'
      BY <1>2, FulfilmentStep, HistoryNext
    <2>2. ConsumersOK'
      BY <1>2, ConsumersStep DEF ConfirmedInv
    <2>3. AnnouncedIsHistory'
      BY <1>2, FulfilmentStep, AnnouncedStep DEF ConfirmedInv
    <2> QED
      BY <1>2, <2>1, <2>2, <2>3, PendingStep, TaskStep, ShipmentStep DEF ConfirmedInv
  <1> QED
    BY <1>1, <1>2, PTL DEF FulfilmentSpec

\* Whatever fails, however many replicas share the subscription and whatever bulk
\* calls announce: a shipment is created only for an order that was confirmed.
THEOREM ShipmentsNeedConfirmation == FulfilmentSpec => []ShipmentNeedsConfirmation
  <1>1. ConfirmedInv => ShipmentNeedsConfirmation
    BY DEF ConfirmedInv
  <1> QED
    BY <1>1, ConfirmedInvariant, PTL

\* The consumers and what they hold keep their types: replicas pass on orders,
\* statuses and counts and nothing else.
THEOREM ConsumersTypeCorrect == FulfilmentSpec => []ConsumersOK
  BY ConfirmedInvariant, PTL


-----------------------------------------------------------------------------
(* One replica, one shipment.                                              *)

\* The replica is about to create a shipment only for an order without one.
LookupHolds ==
    \A k \in Replica : at[k] \in {"carrier", "insert"} => auto[task[k]] = 0
LEMMA LookupStep ==
  ASSUME ~ConsumerFails, NEW only, Replica = {only}, ConsumersOK, LookupHolds,
         AutoShipmentOnce, [FulfilmentNext]_allVars
  PROVE  LookupHolds' /\ AutoShipmentOnce'
  <1>0. only \in Replica /\ \A k \in Replica : k = only
    OBVIOUS
  <1>1. CASE UNCHANGED <<at, task, auto>>
    BY <1>1 DEF LookupHolds, AutoShipmentOnce
  <1>2. CASE TakeEvent(only)
    <2>1. at'[only] \notin {"carrier", "insert"} /\ auto' = auto
      BY <1>0, <1>2 DEF TakeEvent, ConsumersOK
    <2> QED
      BY <1>0, <2>1 DEF LookupHolds, AutoShipmentOnce
  <1>3. CASE FindByOrderID(only)
    <2>1. UNCHANGED <<task, auto>> /\ task[only] \in Order
      BY <1>0, <1>3 DEF FindByOrderID, ConsumersOK
    <2>2. at'[only] = "carrier" => ~(auto[task[only]] + manual[task[only]] > 0)
      BY <1>0, <1>3 DEF FindByOrderID, ConsumersOK
    <2>3. auto[task[only]] \in Nat /\ manual[task[only]] \in Nat
      BY <2>1 DEF ConsumersOK
    <2>4. at'[only] \in {"idle", "carrier"}
      BY <1>0, <1>3 DEF FindByOrderID, ConsumersOK
    <2>5. at'[only] = "carrier" => auto[task[only]] = 0
      BY <2>2, <2>3
    <2> QED
      BY <1>0, <2>1, <2>4, <2>5 DEF LookupHolds, AutoShipmentOnce
  <1>4. CASE PickCarrier(only)
    <2>1. UNCHANGED <<task, auto>> /\ at[only] = "carrier"
      BY <1>4 DEF PickCarrier
    <2> QED
      BY <1>0, <2>1 DEF LookupHolds, AutoShipmentOnce
  <1>5. CASE InsertShipment(only)
    <2>1. /\ at[only] = "insert" /\ at'[only] = "idle"
          /\ auto' = [auto EXCEPT ![task[only]] = @ + 1]
      BY <1>0, <1>5 DEF InsertShipment, ConsumersOK
    <2>2. auto[task[only]] = 0 /\ task[only] \in Order
      BY <1>0, <2>1 DEF LookupHolds, ConsumersOK
    <2>3. \A o \in Order : auto'[o] = auto[o] \/ auto'[o] = 1
      BY <2>1, <2>2 DEF ConsumersOK
    <2> QED
      BY <1>0, <2>1, <2>3 DEF LookupHolds, AutoShipmentOnce
  <1>6. CASE Next /\ Route
    BY <1>1, <1>6 DEF Route
  <1>7. CASE UNCHANGED allVars
    BY <1>1, <1>7 DEF allVars, logistics
  <1>8. CASE \E o \in Order : PostShipment(o) \/ ReserveForOrder(o) \/ HandleOrderCancelled(o)
    BY <1>1, <1>8 DEF PostShipment, ReserveForOrder, HandleOrderCancelled, logistics
  <1>9. \A k \in Replica : ~Restart(k)
    BY DEF Restart
  <1> QED
    BY <1>0, <1>2, <1>3, <1>4, <1>5, <1>6, <1>7, <1>8, <1>9 DEF FulfilmentNext, Others, Consume

\* One replica whose lookups do not fail creates at most one shipment per order,
\* however often the order is confirmed, by whichever endpoint, and whatever the
\* API adds between its lookup and its INSERT.
THEOREM AutoShipmentsAreSingle ==
  ASSUME ~ConsumerFails, NEW only, Replica = {only}
  PROVE  FulfilmentSpec => []AutoShipmentOnce
  <1>1. FulfilmentInit => LookupHolds /\ AutoShipmentOnce
    BY DEF FulfilmentInit, LookupHolds, AutoShipmentOnce
  <1>2. ASSUME ConsumersOK, LookupHolds, AutoShipmentOnce, [FulfilmentNext]_allVars
        PROVE  LookupHolds' /\ AutoShipmentOnce'
    BY <1>2, LookupStep
  <1> QED
    BY <1>1, <1>2, ConsumersTypeCorrect, PTL DEF FulfilmentSpec

=============================================================================
