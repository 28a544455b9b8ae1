------------------------- MODULE OrderServiceProofs -------------------------
(***************************************************************************)
(* Proofs about OrderService, for every set of orders and of requests.     *)
(***************************************************************************)
EXTENDS OrderService, TLAPS

-----------------------------------------------------------------------------
(* Type correctness.                                                       *)

Label == {"idle"} \cup InFlight \cup Answered

LEMMA NoJobType == NoJob \in Job
  BY OrderAssumption DEF NoJob, Job, Ops, Status

LEMMA NoBatchType == NoBatch \in BulkLocals
  BY DEF NoBatch, BulkLocals

LEMMA AllowedType == \A s : Allowed(s) \subseteq Status
  BY DEF Allowed, Status

LEMMA InitType == Init => TypeOK
  BY NoJobType, NoBatchType DEF Init, TypeOK

\* The helpers that write the tables, the label and the event.
LEMMA WriteType ==
  ASSUME TypeOK, NEW o \in Order, NEW to \in Status, Write(o, to)
  PROVE  /\ status' \in [Order -> Status \cup {None}]
         /\ moves' \in [Order -> SUBSET ((Status \cup {None}) \X Status)]
  <1>1. <<status[o], to>> \in (Status \cup {None}) \X Status
    BY DEF TypeOK
  <1> QED
    BY <1>1 DEF TypeOK, Write

LEMMA GotoType ==
  ASSUME TypeOK, NEW r \in Request, NEW label \in Label, Goto(r, label)
  PROVE  pc' \in [Request -> Label]
  BY DEF TypeOK, Goto, Label

LEMMA EventOfType ==
  ASSUME TypeOK, NEW r \in Request
  PROVE  EventOf(r) \in Event
  <1>1. job[r].seen \in Status \cup {None} /\ job[r].to \in Status \cup {None}
    BY DEF TypeOK, Job
  <1>2. "pending" \in Status \cup {None}
    BY DEF Status
  <1>3. CASE job[r].op = "create"
    BY <1>2, <1>3 DEF EventOf, Event
  <1>4. CASE job[r].op = "cancel"
    BY <1>4 DEF EventOf, Event
  <1>5. CASE job[r].op # "create" /\ job[r].op # "cancel"
    BY <1>1, <1>5 DEF EventOf, Event
  <1> QED
    BY <1>3, <1>4, <1>5

\* One lemma an action: each step of a handler keeps every variable in its type.
LEMMA CreateOrderType ==
  ASSUME TypeOK, NEW r \in Request, NEW o \in Order, CreateOrder(r, o)
  PROVE  TypeOK'
  <1>0. "publish" \in Label /\ "not_found" \in Label
    BY DEF Label, InFlight, Answered
  <1>1. [op |-> "create", order |-> o, to |-> "pending", seen |-> None] \in Job
    BY DEF Job, Ops, Status
  <1>2. job' \in [Request -> Job]
    BY <1>1 DEF TypeOK, CreateOrder
  <1>3. pc' \in [Request -> Label]
    BY <1>0, GotoType DEF CreateOrder
  <1>4. "pending" \in Status
    BY DEF Status
  <1>5. /\ status' \in [Order -> Status \cup {None}]
        /\ moves' \in [Order -> SUBSET ((Status \cup {None}) \X Status)]
    BY <1>4, WriteType DEF CreateOrder, TypeOK
  <1> QED
    BY <1>2, <1>3, <1>5 DEF TypeOK, CreateOrder, Label

LEMMA ReadAndCheckType ==
  ASSUME TypeOK, NEW r \in Request, NEW o \in Order, NEW to \in Status,
         NEW op \in Ops, ReadAndCheck(r, op, o, to)
  PROVE  TypeOK'
  <1>0. {"not_found", "invalid", "cas"} \subseteq Label
    BY DEF Label, InFlight, Answered
  <1>1. [op |-> op, order |-> o, to |-> to, seen |-> status[o]] \in Job
    BY DEF TypeOK, Job
  <1>2. job' \in [Request -> Job]
    BY <1>1 DEF TypeOK, ReadAndCheck, ExpectedCurrent
  <1>3. pc' \in [Request -> Label]
    BY <1>0, GotoType DEF ReadAndCheck
  <1> QED
    BY <1>2, <1>3 DEF TypeOK, ReadAndCheck, ExpectedCurrent, table, Label

LEMMA CompareAndSetType ==
  ASSUME TypeOK, NEW r \in Request, CompareAndSet(r)
  PROVE  TypeOK'
  <1>0. {"items", "reread"} \subseteq Label
    BY DEF Label, InFlight, Answered
  <1>1. job[r].order \in Order /\ job[r].to \in Status
    BY DEF TypeOK, Job
  <1>2. pc' \in [Request -> Label]
    BY <1>0, GotoType DEF CompareAndSet
  <1>3. /\ status' \in [Order -> Status \cup {None}]
        /\ moves' \in [Order -> SUBSET ((Status \cup {None}) \X Status)]
    BY <1>1, WriteType DEF CompareAndSet, TypeOK, table
  <1>4. reason' \in [Order -> BOOLEAN]
    BY <1>1 DEF CompareAndSet, TypeOK, table
  <1> QED
    BY <1>2, <1>3, <1>4 DEF TypeOK, CompareAndSet, Label

LEMMA PublishType ==
  ASSUME TypeOK, NEW r \in Request, Publish(r)
  PROVE  TypeOK'
  <1>0. "ok" \in Label
    BY DEF Label, Answered
  <1>1. job[r].order \in Order
    BY DEF TypeOK, Job
  <1>2. Append(feed[job[r].order], EventOf(r)) \in Seq(Event)
    BY <1>1, EventOfType DEF TypeOK
  <1>3. feed' \in [Order -> Seq(Event)]
    BY <1>1, <1>2 DEF TypeOK, Publish
  <1>4. pc' \in [Request -> Label]
    BY <1>0, GotoType DEF Publish
  <1> QED
    BY <1>3, <1>4 DEF TypeOK, Publish, table, Label

LEMMA BulkUpdateStatusType ==
  ASSUME TypeOK, NEW r \in Request, NEW ids \in Batch, NEW to \in Target,
         NEW mode \in {"dry", "plain", "note"}, BulkUpdateStatus(r, ids, to, mode)
  PROVE  TypeOK'
  <1>0. "bulk_load" \in Label
    BY DEF Label, InFlight
  <1>1. /\ job[r] \in Job /\ to \in Status
        /\ job' = [job EXCEPT ![r] = [job[r] EXCEPT !.op = "bulk", !.to = to]]
    BY TargetAssumption DEF TypeOK, BulkUpdateStatus, Job
  <1>2. [job[r] EXCEPT !.op = "bulk", !.to = to] \in Job
    BY <1>1 DEF Job, Ops
  <1>3. ids \in Seq(Order)
    BY BatchAssumption
  <1>4. [NoBatch EXCEPT !.ids = ids, !.mode = mode] \in BulkLocals
    BY <1>3, NoBatchType DEF BulkLocals
  <1>5. pc' \in [Request -> Label]
    BY <1>0, GotoType DEF BulkUpdateStatus
  <1>6. job' \in [Request -> Job] /\ batch' \in [Request -> BulkLocals]
    BY <1>1, <1>2, <1>4 DEF TypeOK, BulkUpdateStatus
  <1>7. UNCHANGED <<status, reason, moves, feed, trail>>
    BY DEF BulkUpdateStatus, table
  <1>8. pc' \in [Request -> {"idle"} \cup InFlight \cup Answered]
    BY <1>5 DEF Label
  <1>9. /\ status' \in [Order -> Status \cup {None}] /\ reason' \in [Order -> BOOLEAN]
        /\ feed' \in [Order -> Seq(Event)]
        /\ trail' \in [Request -> {"none", "success", "partial", "failed"}]
        /\ moves' \in [Order -> SUBSET ((Status \cup {None}) \X Status)]
    BY <1>7 DEF TypeOK
  <1> QED
    BY <1>6, <1>8, <1>9 DEF TypeOK

LEMMA BulkLoadType ==
  ASSUME TypeOK, NEW r \in Request, BulkLoad(r)
  PROVE  TypeOK'
  <1>0. {"bulk", "load_error"} \subseteq Label
    BY DEF Label, InFlight, Answered
  <1>1. [batch[r] EXCEPT !.snap = status] \in BulkLocals
    BY DEF TypeOK, BulkLocals
  <1>2. batch' \in [Request -> BulkLocals]
    BY <1>1 DEF TypeOK, BulkLoad
  <1>3. pc' \in [Request -> Label]
    BY <1>0, GotoType DEF BulkLoad
  <1> QED
    BY <1>2, <1>3 DEF TypeOK, BulkLoad, table, Label

LEMMA BulkItemType ==
  ASSUME TypeOK, NEW r \in Request, BulkItem(r)
  PROVE  TypeOK'
  <1> DEFINE b == batch[r]
             o == Head(b.ids)
  <1>1. /\ b \in BulkLocals /\ b.ids \in Seq(Order) /\ b.ids # <<>>
        /\ b.done \in Seq(Order) /\ b.mode \in {"dry", "plain", "note"}
    BY DEF TypeOK, BulkItem, BulkLocals
  <1>2. o \in Order /\ Tail(b.ids) \in Seq(Order) /\ Append(b.done, o) \in Seq(Order)
    BY <1>1
  <1>3. /\ [b EXCEPT !.ids = Tail(b.ids), !.failed = TRUE] \in BulkLocals
        /\ [b EXCEPT !.ids = Tail(b.ids), !.some = TRUE,
                     !.done = Append(b.done, o)] \in BulkLocals
    BY <1>1, <1>2 DEF BulkLocals
  <1>4. batch' \in [Request -> BulkLocals]
    BY <1>3 DEF TypeOK, BulkItem
  <1>5. job[r].to \in Status
    BY DEF TypeOK, Job
  <1>6. /\ status' \in [Order -> Status \cup {None}]
        /\ moves' \in [Order -> SUBSET ((Status \cup {None}) \X Status)]
    BY <1>2, <1>5, WriteType DEF BulkItem, TypeOK, table
  <1>7. reason' \in [Order -> BOOLEAN]
    BY <1>2 DEF BulkItem, TypeOK, table
  <1> QED
    BY <1>4, <1>6, <1>7 DEF TypeOK, BulkItem

LEMMA BulkRereadType ==
  ASSUME TypeOK, NEW r \in Request, BulkReread(r)
  PROVE  TypeOK'
  <1> DEFINE b == batch[r]
  <1>0. {"ok", "bulk_publish", "bulk_reread"} \subseteq Label
    BY DEF Label, InFlight, Answered
  <1>1. /\ b \in BulkLocals /\ b.done \in Seq(Order)
        /\ NoBatch.snap \in [Order -> Status \cup {None}]
    BY NoBatchType DEF TypeOK, BulkLocals
  <1>2. b.done # <<>> => Head(b.done) \in Order /\ Tail(b.done) \in Seq(Order)
    BY <1>1
  <1>3. /\ [b EXCEPT !.snap = NoBatch.snap, !.done = <<>>] \in BulkLocals
        /\ b.done # <<>> => [b EXCEPT !.done = Tail(b.done)] \in BulkLocals
    <2> HIDE DEF b
    <2>1. <<>> \in Seq(Order)
      OBVIOUS
    <2> QED
      BY <1>1, <1>2, <2>1 DEF BulkLocals
  <1>4. batch' \in [Request -> BulkLocals]
    BY <1>3 DEF TypeOK, BulkReread
  <1>5. b.done # <<>> => [job[r] EXCEPT !.order = Head(b.done),
                            !.seen = status[Head(b.done)]] \in Job
    BY <1>2 DEF TypeOK, Job
  <1>6. job' \in [Request -> Job]
    BY <1>5 DEF TypeOK, BulkReread
  <1>7. pc' \in [Request -> Label]
    BY <1>0, GotoType DEF BulkReread
  <1> QED
    BY <1>4, <1>6, <1>7 DEF TypeOK, BulkReread, table, Label

LEMMA BulkPublishType ==
  ASSUME TypeOK, NEW r \in Request, BulkPublish(r)
  PROVE  TypeOK'
  <1> DEFINE b == batch[r]
  <1>0. "bulk_reread" \in Label
    BY DEF Label, InFlight
  <1>1. /\ job[r].order \in Order /\ job[r].seen \in Status \cup {None}
        /\ b.snap[job[r].order] \in Status \cup {None}
    BY DEF TypeOK, Job, BulkLocals
  <1>2. [type |-> "status_changed", from |-> b.snap[job[r].order],
         to |-> job[r].seen] \in Event
    BY <1>1 DEF Event
  <1>3. feed' \in [Order -> Seq(Event)]
    <2>1. Append(feed[job[r].order], [type |-> "status_changed",
             from |-> b.snap[job[r].order], to |-> job[r].seen]) \in Seq(Event)
      BY <1>1, <1>2 DEF TypeOK
    <2> QED
      BY <1>1, <2>1 DEF TypeOK, BulkPublish
  <1>4. b \in BulkLocals /\ b.done \in Seq(Order) /\ b.done # <<>>
    BY DEF TypeOK, BulkLocals, BulkPublish
  <1>5. [b EXCEPT !.done = Tail(b.done)] \in BulkLocals
    <2> HIDE DEF b
    <2>1. Tail(b.done) \in Seq(Order)
      BY <1>4
    <2> QED
      BY <1>4, <2>1 DEF BulkLocals
  <1>6. batch' \in [Request -> BulkLocals]
    BY <1>5 DEF TypeOK, BulkPublish
  <1>7. pc' \in [Request -> Label]
    BY <1>0, GotoType DEF BulkPublish
  <1> QED
    BY <1>3, <1>6, <1>7 DEF TypeOK, BulkPublish, table, Label

LEMMA LocalStepType ==
  ASSUME TypeOK, NEW r \in Request,
         ExplainMiss(r) \/ LoadItems(r) \/ Abort(r) \/ WriteAudit(r)
  PROVE  TypeOK'
  <1>0. {"conflict", "error", "publish"} \subseteq Label
    BY DEF Label, InFlight, Answered
  <1>1. CASE ExplainMiss(r) \/ LoadItems(r) \/ Abort(r)
    <2>1. pc' \in [Request -> Label]
      BY <1>0, <1>1, GotoType DEF ExplainMiss, LoadItems, Abort
    <2> QED
      BY <1>1, <2>1 DEF TypeOK, ExplainMiss, LoadItems, Abort, table, Label
  <1>2. CASE WriteAudit(r)
    <2>1. AuditResult(r) \in {"none", "success", "partial", "failed"}
      BY DEF AuditResult
    <2> QED
      BY <1>2, <2>1 DEF TypeOK, WriteAudit, table, handlers
  <1> QED
    BY <1>1, <1>2

LEMMA SingleNextType == TypeOK /\ [SingleNext]_vars => TypeOK'
  <1> SUFFICES ASSUME TypeOK, [SingleNext]_vars PROVE TypeOK'
    OBVIOUS
  <1>1. CASE UNCHANGED vars
    BY <1>1 DEF TypeOK, vars
  <1>2. ASSUME NEW r \in Request, NEW o \in Order, CreateOrder(r, o)
        PROVE  TypeOK'
    BY <1>2, CreateOrderType
  <1>3. ASSUME NEW r \in Request, NEW o \in Order, CancelOrder(r, o)
        PROVE  TypeOK'
    <2>1. "cancelled" \in Status /\ "cancel" \in Ops
      BY DEF Status, Ops
    <2> QED
      BY <1>3, <2>1, ReadAndCheckType DEF CancelOrder
  <1>4. ASSUME NEW r \in Request, NEW o \in Order, NEW to \in Target,
               UpdateOrderStatus(r, o, to)
        PROVE  TypeOK'
    <2>1. to \in Status /\ "update" \in Ops
      BY TargetAssumption DEF Ops
    <2> QED
      BY <1>4, <2>1, ReadAndCheckType DEF UpdateOrderStatus
  <1>5. ASSUME NEW r \in Request, SingleStep(r) \/ WriteAudit(r) \/ Abort(r)
        PROVE  TypeOK'
    BY <1>5, CompareAndSetType, PublishType, LocalStepType DEF SingleStep
  <1> QED
    BY <1>1, <1>2, <1>3, <1>4, <1>5 DEF SingleNext

LEMMA BulkNextType == TypeOK /\ BulkNext => TypeOK'
  <1> SUFFICES ASSUME TypeOK, BulkNext PROVE TypeOK'
    OBVIOUS
  <1>1. ASSUME NEW r \in Request, NEW ids \in Batch, NEW to \in Target,
               NEW mode \in {"dry", "plain", "note"},
               BulkUpdateStatus(r, ids, to, mode)
        PROVE  TypeOK'
    BY <1>1, BulkUpdateStatusType
  <1>2. ASSUME NEW r \in Request, BulkStep(r)
        PROVE  TypeOK'
    BY <1>2, BulkLoadType, BulkItemType, BulkRereadType, BulkPublishType DEF BulkStep
  <1> QED
    BY <1>1, <1>2 DEF BulkNext

LEMMA NextType == TypeOK /\ [Next]_vars => TypeOK'
  BY SingleNextType, BulkNextType DEF Next

\* The tables, the handlers' locals, the events and the audit rows stay in their
\* types, with the bulk endpoint in use: in particular every status that a
\* handler writes is one of the eight, and no bulk loop reads past its list.
THEOREM TypeCorrect == Spec => []TypeOK
  <1>1. Init => TypeOK
    BY InitType
  <1>2. TypeOK /\ [Next]_vars => TypeOK'
    BY NextType
  <1> QED
    BY <1>1, <1>2, PTL DEF Spec

-----------------------------------------------------------------------------
(* No order skips a stage, and no conflict is spurious, although the bulk  *)
(* endpoint writes from a snapshot that may be stale.  The invariant says  *)
(* why: whatever a handler has read was a status of the order at the time, *)
(* and the history keeps it.                                               *)

LEMMA UpstreamStep ==
  ASSUME NEW from \in Status, NEW to \in Allowed(from)
  PROVE  Upstream(to) \subseteq Upstream(from) \cup {from}
  BY DEF Allowed, Upstream, Status

LEMMA AllowedNone == Allowed(None) = {} /\ None \notin Status
  BY DEF Allowed, None, Status

\* The row's status is the last of its history.
RowInHistory ==
    \A o \in Order : IF status[o] = None THEN moves[o] = {}
                                         ELSE status[o] \in Visited(o)

\* What a compare-and-set handler holds: a transition of the table from a status
\* the order had, which it still has or has left since.
ReadInHistory ==
    \A r \in Request : pc[r] \in {"cas", "reread", "conflict"} =>
        LET o == job[r].order IN
        /\ job[r].seen \in Visited(o)
        /\ job[r].to \in Allowed(job[r].seen)
        /\ status[o] = job[r].seen \/ \E m \in moves[o] : m[1] = job[r].seen

\* What a bulk handler holds: statuses its orders had.
SnapshotInHistory ==
    \A r \in Request, o \in Order :
        batch[r].snap[o] # None => batch[r].snap[o] \in Visited(o)

HistoryInv ==
    /\ TypeOK
    /\ RowInHistory
    /\ NoSkippedStage
    /\ ReadInHistory
    /\ SnapshotInHistory
    /\ ConflictIsReal

\* A write keeps the history, adds at most the status written, and leaves a
\* move out of the status it overwrites.
LEMMA WriteHistory ==
  ASSUME TypeOK, RowInHistory, NEW o \in Order, NEW to \in Status, Write(o, to)
  PROVE  /\ \A p \in Order : moves[p] \subseteq moves'[p] /\ Visited(p) \subseteq Visited(p)'
         /\ \A p \in Order \ {o} : status'[p] = status[p] /\ moves'[p] = moves[p]
         /\ Visited(o)' = Visited(o) \cup {to}
         /\ status'[o] = to
         /\ status[o] # to => \E m \in moves'[o] : m[1] = status[o]
  <1>1. to # None
    BY AllowedNone
  <1>2. \A p \in Order \ {o} : status'[p] = status[p] /\ moves'[p] = moves[p]
    BY DEF TypeOK, Write
  <1>3. status'[o] = to
    BY DEF TypeOK, Write
  <1>4. CASE status[o] = to
    <2>1. moves'[o] = moves[o]
      BY <1>4 DEF TypeOK, Write
    <2>2. to \in Visited(o)
      BY <1>1, <1>4 DEF RowInHistory
    <2> QED
      BY <1>2, <1>3, <1>4, <2>1, <2>2 DEF Visited
  <1>5. CASE status[o] # to
    <2>1. moves'[o] = moves[o] \cup {<<status[o], to>>}
      BY <1>5 DEF TypeOK, Write
    <2>2. Visited(o)' = Visited(o) \cup {<<status[o], to>>[2]}
      BY <2>1 DEF Visited
    <2>3. <<status[o], to>> \in moves'[o] /\ <<status[o], to>>[1] = status[o]
      BY <2>1
    <2>4. \A p \in Order : moves[p] \subseteq moves'[p]
      BY <1>2, <2>1
    <2>5. \A p \in Order : Visited(p) \subseteq Visited(p)'
      BY <2>4 DEF Visited
    <2> QED
      BY <1>2, <1>3, <2>2, <2>3, <2>4, <2>5
  <1> QED
    BY <1>4, <1>5

\* The table part of the invariant is kept by a write of "pending" or of a
\* status that the table allows from one the order has had.
LEMMA WriteKeepsHistory ==
  ASSUME HistoryInv, NEW o \in Order, NEW to \in Status, Write(o, to),
         to = "pending" \/ \E from \in Visited(o) : to \in Allowed(from)
  PROVE  RowInHistory' /\ NoSkippedStage'
  <1>0. TypeOK /\ RowInHistory
    BY DEF HistoryInv
  <1>1. RowInHistory'
    BY <1>0, WriteHistory, AllowedNone DEF RowInHistory, Visited
  <1>2. ASSUME NEW p \in Order, NEW s \in Visited(p)'
        PROVE  Upstream(s) \subseteq Visited(p)'
    <2>1. CASE s \in Visited(p)
      BY <1>0, <2>1, WriteHistory DEF HistoryInv, NoSkippedStage
    <2>2. CASE s \notin Visited(p)
      <3>1. p = o /\ s = to
        BY <1>0, <2>2, WriteHistory DEF Visited
      <3>2. CASE to = "pending"
        BY <3>1, <3>2 DEF Upstream
      <3>3. CASE \E from \in Visited(o) : to \in Allowed(from)
        <4>1. PICK from \in Visited(o) : to \in Allowed(from)
          BY <3>3
        <4>2. from \in Status
          BY <1>0 DEF TypeOK, Visited
        <4>3. Upstream(from) \subseteq Visited(o)
          BY <4>1 DEF HistoryInv, NoSkippedStage
        <4> QED
          BY <1>0, <3>1, <4>1, <4>2, <4>3, UpstreamStep, WriteHistory
      <3> QED
        BY <3>2, <3>3
    <2> QED
      BY <2>1, <2>2
  <1> QED
    BY <1>1, <1>2 DEF NoSkippedStage

\* What request q has read stays in the history whatever is written.
ReadOf(q) ==
    /\ job[q].seen \in Visited(job[q].order)
    /\ job[q].to \in Allowed(job[q].seen)
    /\ \/ status[job[q].order] = job[q].seen
       \/ \E m \in moves[job[q].order] : m[1] = job[q].seen

TableStep ==
    \/ UNCHANGED <<status, moves>>
    \/ \E o \in Order, to \in Status : Write(o, to)

LEMMA ReadKept ==
  ASSUME HistoryInv, TableStep, NEW q \in Request, ReadOf(q), job'[q] = job[q]
  PROVE  ReadOf(q)'
  <1>0. TypeOK /\ RowInHistory
    BY DEF HistoryInv
  <1>1. PICK o \in Order : o = job[q].order
    BY <1>0 DEF TypeOK, Job
  <1>2. PICK seen : seen = job[q].seen
    OBVIOUS
  <1>3. /\ seen \in Visited(o) /\ job[q].to \in Allowed(seen)
        /\ status[o] = seen \/ \E m \in moves[o] : m[1] = seen
    BY <1>1, <1>2 DEF ReadOf
  <1>4. /\ seen \in Visited(o)'
        /\ status'[o] = seen \/ \E m \in moves'[o] : m[1] = seen
    <2>1. CASE UNCHANGED <<status, moves>>
      BY <1>3, <2>1 DEF Visited
    <2>2. CASE \E p \in Order, to \in Status : Write(p, to)
      <3>1. PICK p \in Order, to \in Status : Write(p, to)
        BY <2>2
      <3>2. Visited(o) \subseteq Visited(o)' /\ moves[o] \subseteq moves'[o]
        BY <1>0, <3>1, WriteHistory
      <3>3. CASE p # o
        BY <1>0, <1>3, <3>1, <3>2, <3>3, WriteHistory
      <3>4. CASE p = o
        BY <1>0, <1>3, <3>1, <3>2, <3>4, WriteHistory
      <3> QED
        BY <3>3, <3>4
    <2> QED
      BY <2>1, <2>2 DEF TableStep
  <1> QED
    BY <1>1, <1>2, <1>3, <1>4 DEF ReadOf, Visited

LEMMA SnapshotKept ==
  ASSUME HistoryInv, TableStep, NEW q \in Request, NEW o \in Order,
         batch'[q].snap[o] \in {None, batch[q].snap[o], status[o]}
  PROVE  batch'[q].snap[o] # None => batch'[q].snap[o] \in Visited(o)'
  <1>0. TypeOK /\ RowInHistory /\ SnapshotInHistory
    BY DEF HistoryInv
  <1>1. Visited(o) \subseteq Visited(o)'
    <2>1. CASE UNCHANGED <<status, moves>>
      BY <2>1 DEF Visited
    <2>2. CASE \E p \in Order, to \in Status : Write(p, to)
      BY <1>0, <2>2, WriteHistory
    <2> QED
      BY <2>1, <2>2 DEF TableStep
  <1> QED
    BY <1>0, <1>1 DEF RowInHistory, SnapshotInHistory

\* The locals part of the invariant, for a step of request r: the others keep
\* what they read, and r's own read is justified.
LEMMA LocalsKept ==
  ASSUME HistoryInv, TypeOK', TableStep, NEW r \in Request,
         \A q \in Request \ {r} :
            pc'[q] = pc[q] /\ job'[q] = job[q] /\ batch'[q] = batch[q],
         pc'[r] \in {"cas", "reread", "conflict"} => ReadOf(r)',
         pc'[r] = "conflict" => \E m \in moves'[job'[r].order] : m[1] = job'[r].seen,
         \A o \in Order : batch'[r].snap[o] \in {None, batch[r].snap[o], status[o]}
  PROVE  ReadInHistory' /\ SnapshotInHistory' /\ ConflictIsReal'
  <1>1. ASSUME NEW q \in Request, pc'[q] \in {"cas", "reread", "conflict"}
        PROVE  ReadOf(q)'
    <2>1. CASE q = r
      BY <1>1, <2>1
    <2>2. CASE q # r
      <3>1. ReadOf(q) /\ job'[q] = job[q]
        BY <1>1, <2>2 DEF HistoryInv, ReadInHistory, ReadOf
      <3> QED
        BY <3>1, ReadKept
    <2> QED
      BY <2>1, <2>2
  <1>2. ReadInHistory'
    BY <1>1 DEF ReadInHistory, ReadOf, Visited
  <1>3. SnapshotInHistory'
    BY SnapshotKept DEF SnapshotInHistory
  <1>4. ConflictIsReal'
    <2> SUFFICES ASSUME NEW q \in Request, pc'[q] = "conflict"
                 PROVE  \E m \in moves'[job'[q].order] : m[1] = job'[q].seen
      BY DEF ConflictIsReal
    <2>1. CASE q = r
      BY <2>1
    <2>2. CASE q # r
      <3>1. /\ pc[q] = "conflict" /\ job'[q] = job[q] /\ job[q].order \in Order
            /\ \E m \in moves[job[q].order] : m[1] = job[q].seen
        BY <2>2 DEF HistoryInv, ConflictIsReal, TypeOK, Job
      <3>2. moves[job[q].order] \subseteq moves'[job[q].order]
        <4>1. CASE UNCHANGED <<status, moves>>
          BY <4>1
        <4>2. CASE \E p \in Order, to \in Status : Write(p, to)
          BY <3>1, <4>2, WriteHistory DEF HistoryInv
        <4> QED
          BY <4>1, <4>2 DEF TableStep
      <3> QED
        BY <3>1, <3>2
    <2> QED
      BY <2>1, <2>2
  <1> QED
    BY <1>2, <1>3, <1>4

LEMMA HistoryInit == Init => HistoryInv
  <1> SUFFICES ASSUME Init PROVE HistoryInv
    OBVIOUS
  <1>1. \A o \in Order : Visited(o) = {}
    BY DEF Init, Visited
  <1> QED
    BY <1>1, InitType DEF Init, HistoryInv, RowInHistory, NoSkippedStage,
       ReadInHistory, SnapshotInHistory, ConflictIsReal, NoBatch

\* A step that leaves the rows alone keeps what the history says of them.
LEMMA SameRows ==
  ASSUME HistoryInv, UNCHANGED <<status, moves>>
  PROVE  RowInHistory' /\ NoSkippedStage'
  BY DEF HistoryInv, RowInHistory, NoSkippedStage, Visited

LEMMA CreateOrderHistory ==
  ASSUME HistoryInv, TypeOK', NEW r \in Request, NEW o \in Order, CreateOrder(r, o)
  PROVE  HistoryInv'
  <1>0. TypeOK /\ "pending" \in Status
    BY DEF HistoryInv, Status
  <1>1. TableStep
    BY <1>0 DEF CreateOrder, TableStep
  <1>2. RowInHistory' /\ NoSkippedStage'
    BY <1>0, WriteKeepsHistory, SameRows DEF CreateOrder
  <1>3. ReadInHistory' /\ SnapshotInHistory' /\ ConflictIsReal'
    <2>1. pc'[r] \notin {"cas", "reread", "conflict"}
      BY <1>0 DEF CreateOrder, Goto, TypeOK
    <2>2. \A q \in Request \ {r} : pc'[q] = pc[q] /\ job'[q] = job[q] /\ batch'[q] = batch[q]
      BY <1>0 DEF CreateOrder, Goto, TypeOK
    <2>3. batch' = batch
      BY DEF CreateOrder
    <2> QED
      BY <1>1, <2>1, <2>2, <2>3, LocalsKept
  <1> QED
    BY <1>2, <1>3 DEF HistoryInv

LEMMA ReadAndCheckHistory ==
  ASSUME HistoryInv, TypeOK', NEW r \in Request, NEW o \in Order, NEW to, NEW op,
         ReadAndCheck(r, op, o, to)
  PROVE  HistoryInv'
  <1>0. TypeOK /\ UNCHANGED <<status, moves>> /\ batch' = batch
    BY DEF HistoryInv, ReadAndCheck, table
  <1>1. RowInHistory' /\ NoSkippedStage'
    BY <1>0, SameRows
  <1>2. \A q \in Request \ {r} : pc'[q] = pc[q] /\ job'[q] = job[q] /\ batch'[q] = batch[q]
    BY <1>0 DEF ReadAndCheck, Goto, TypeOK
  <1>3. pc'[r] # "conflict"
    BY <1>0 DEF ReadAndCheck, Goto, TypeOK
  <1>4. ASSUME pc'[r] \in {"cas", "reread", "conflict"} PROVE ReadOf(r)'
    <2>1. /\ to \in Allowed(status[o])
          /\ job'[r] = [op |-> op, order |-> o, to |-> to, seen |-> status[o]]
      BY <1>0, <1>4 DEF ReadAndCheck, ExpectedCurrent, Goto, TypeOK, CanTransition
    <2>2. status[o] \in Visited(o)
      BY <2>1, AllowedNone DEF HistoryInv, RowInHistory
    <2> QED
      BY <1>0, <2>1, <2>2 DEF ReadOf, Visited
  <1>5. ReadInHistory' /\ SnapshotInHistory' /\ ConflictIsReal'
    BY <1>0, <1>2, <1>3, <1>4, LocalsKept DEF TableStep
  <1> QED
    BY <1>1, <1>5 DEF HistoryInv

LEMMA CompareAndSetHistory ==
  ASSUME HistoryInv, TypeOK', NEW r \in Request, CompareAndSet(r)
  PROVE  HistoryInv'
  <1>0. /\ TypeOK /\ job' = job /\ batch' = batch
        /\ job[r].order \in Order /\ job[r].to \in Status
    BY DEF HistoryInv, CompareAndSet, TypeOK, Job
  <1>1. ReadOf(r)
    BY DEF HistoryInv, ReadInHistory, ReadOf, CompareAndSet
  <1>2. TableStep
    BY <1>0 DEF CompareAndSet, TableStep, table
  <1>3. RowInHistory' /\ NoSkippedStage'
    <2>1. CASE UNCHANGED table
      BY <2>1, SameRows DEF table
    <2>2. CASE Write(job[r].order, job[r].to)
      BY <1>0, <1>1, <2>2, WriteKeepsHistory DEF ReadOf
    <2> QED
      BY <2>1, <2>2 DEF CompareAndSet
  <1>4. \A q \in Request \ {r} : pc'[q] = pc[q] /\ job'[q] = job[q] /\ batch'[q] = batch[q]
    BY <1>0 DEF CompareAndSet, Goto, TypeOK
  <1>5. pc'[r] # "conflict"
    BY <1>0 DEF CompareAndSet, Goto, TypeOK
  <1>6. ReadOf(r)'
    BY <1>0, <1>1, <1>2, ReadKept
  <1>7. ReadInHistory' /\ SnapshotInHistory' /\ ConflictIsReal'
    BY <1>0, <1>2, <1>4, <1>5, <1>6, LocalsKept
  <1> QED
    BY <1>3, <1>7 DEF HistoryInv

\* The steps that touch neither the rows nor what anybody has read of them.
LEMMA QuietHistory ==
  ASSUME HistoryInv, TypeOK', NEW r \in Request,
         UNCHANGED <<status, moves>>,
         \A q \in Request \ {r} :
            pc'[q] = pc[q] /\ job'[q] = job[q] /\ batch'[q] = batch[q],
         \A o \in Order : batch'[r].snap[o] \in {None, batch[r].snap[o], status[o]},
         pc'[r] \notin {"cas", "reread", "conflict"}
  PROVE  HistoryInv'
  <1>1. RowInHistory' /\ NoSkippedStage'
    BY SameRows
  <1>2. ReadInHistory' /\ SnapshotInHistory' /\ ConflictIsReal'
    BY LocalsKept DEF TableStep
  <1> QED
    BY <1>1, <1>2 DEF HistoryInv

LEMMA ExplainMissHistory ==
  ASSUME HistoryInv, TypeOK', NEW r \in Request, ExplainMiss(r)
  PROVE  HistoryInv'
  <1>0. TypeOK /\ UNCHANGED <<status, moves>> /\ job' = job /\ batch' = batch
    BY DEF HistoryInv, ExplainMiss, table
  <1>1. ReadOf(r)
    BY DEF HistoryInv, ReadInHistory, ReadOf, ExplainMiss
  <1>2. \A q \in Request \ {r} : pc'[q] = pc[q] /\ job'[q] = job[q] /\ batch'[q] = batch[q]
    BY <1>0 DEF ExplainMiss, Goto, TypeOK
  <1>3. pc'[r] = "conflict" => \E m \in moves'[job'[r].order] : m[1] = job'[r].seen
    BY <1>0, <1>1 DEF ExplainMiss, Goto, TypeOK, ReadOf
  <1>4. ReadOf(r)'
    BY <1>0, <1>1 DEF ReadOf, Visited
  <1>5. ReadInHistory' /\ SnapshotInHistory' /\ ConflictIsReal'
    BY <1>0, <1>2, <1>3, <1>4, LocalsKept DEF TableStep
  <1> QED
    BY <1>0, <1>5, SameRows DEF HistoryInv

LEMMA BulkItemHistory ==
  ASSUME HistoryInv, TypeOK', NEW r \in Request, BulkItem(r)
  PROVE  HistoryInv'
  <1> DEFINE b == batch[r]
             o == Head(b.ids)
  <1>0. /\ TypeOK /\ job' = job /\ pc' = pc /\ job[r].to \in Status
        /\ b.ids \in Seq(Order) /\ b.ids # <<>> /\ b \in BulkLocals
    BY DEF HistoryInv, BulkItem, TypeOK, Job, BulkLocals
  <1>1. o \in Order
    BY <1>0
  <1>2. \/ UNCHANGED <<status, moves>>
        \/ Write(o, job[r].to) /\ job[r].to \in Allowed(b.snap[o])
    BY DEF BulkItem, BulkItemAllowed, CanTransition, table
  <1>3. TableStep
    BY <1>0, <1>1, <1>2 DEF TableStep
  <1>4. RowInHistory' /\ NoSkippedStage'
    <2>1. CASE UNCHANGED <<status, moves>>
      BY <2>1, SameRows
    <2>2. CASE Write(o, job[r].to) /\ job[r].to \in Allowed(b.snap[o])
      <3>1. b.snap[o] \in Visited(o)
        BY <1>1, <2>2, AllowedNone DEF HistoryInv, SnapshotInHistory
      <3> HIDE DEF o, b
      <3> QED
        BY <1>0, <1>1, <2>2, <3>1, WriteKeepsHistory
    <2> QED
      BY <1>2, <2>1, <2>2
  <1>5. \A q \in Request \ {r} : pc'[q] = pc[q] /\ job'[q] = job[q] /\ batch'[q] = batch[q]
    BY <1>0 DEF BulkItem, TypeOK
  <1>6. batch'[r].snap = batch[r].snap
    <2>1. batch'[r] \in {[b EXCEPT !.ids = Tail(b.ids), !.failed = TRUE],
                         [b EXCEPT !.ids = Tail(b.ids), !.some = TRUE,
                                   !.done = Append(b.done, o)]}
      BY <1>0 DEF BulkItem, TypeOK
    <2> HIDE DEF b, o
    <2>2. batch'[r].snap = b.snap
      BY <1>0, <2>1 DEF BulkLocals
    <2> QED
      BY <2>2 DEF b
  <1>7. pc'[r] = "bulk"
    BY <1>0 DEF BulkItem
  <1>8. ReadInHistory' /\ SnapshotInHistory' /\ ConflictIsReal'
    BY <1>3, <1>5, <1>6, <1>7, LocalsKept
  <1> QED
    BY <1>4, <1>8 DEF HistoryInv

LEMMA BulkQuietHistory ==
  ASSUME HistoryInv, TypeOK', NEW r \in Request,
         \/ \E ids \in Batch, to \in Target, mode \in {"dry", "plain", "note"} :
               BulkUpdateStatus(r, ids, to, mode)
         \/ BulkLoad(r) \/ BulkReread(r) \/ BulkPublish(r)
  PROVE  HistoryInv'
  <1>0. TypeOK /\ UNCHANGED <<status, moves>> /\ batch[r] \in BulkLocals
    BY DEF HistoryInv, TypeOK, BulkUpdateStatus, BulkLoad, BulkReread, BulkPublish, table
  <1>1. \A q \in Request \ {r} : pc'[q] = pc[q] /\ job'[q] = job[q] /\ batch'[q] = batch[q]
    BY <1>0 DEF BulkUpdateStatus, BulkLoad, BulkReread, BulkPublish, Goto, TypeOK
  <1>2. pc'[r] \notin {"cas", "reread", "conflict"}
    BY <1>0 DEF BulkUpdateStatus, BulkLoad, BulkReread, BulkPublish, Goto, TypeOK
  <1>3. batch'[r].snap \in {batch[r].snap, NoBatch.snap, status}
    <2>1. CASE \E ids \in Batch, to \in Target, mode \in {"dry", "plain", "note"} :
                  BulkUpdateStatus(r, ids, to, mode)
      <3>1. PICK ids \in Batch, mode \in {"dry", "plain", "note"} :
               batch'[r] = [NoBatch EXCEPT !.ids = ids, !.mode = mode]
        BY <1>0, <2>1 DEF BulkUpdateStatus, TypeOK
      <3>2. [NoBatch EXCEPT !.ids = ids, !.mode = mode].snap = NoBatch.snap
        BY NoBatchType DEF BulkLocals
      <3> QED
        BY <3>1, <3>2
    <2>2. CASE BulkLoad(r)
      <3> DEFINE b == batch[r]
      <3>1. batch'[r] \in {b, [b EXCEPT !.snap = status]}
        BY <1>0, <2>2 DEF BulkLoad, TypeOK
      <3> HIDE DEF b
      <3>2. b \in BulkLocals => batch'[r].snap \in {b.snap, status}
        BY <3>1 DEF BulkLocals
      <3> QED
        BY <1>0, <3>2 DEF b
    <2>3. CASE BulkReread(r)
      <3> DEFINE b == batch[r]
      <3>1. batch'[r] \in {b, [b EXCEPT !.snap = NoBatch.snap, !.done = <<>>],
                           [b EXCEPT !.done = Tail(b.done)]}
        BY <1>0, <2>3 DEF BulkReread, TypeOK
      <3> HIDE DEF b
      <3>2. b \in BulkLocals => batch'[r].snap \in {b.snap, NoBatch.snap}
        BY <3>1 DEF BulkLocals
      <3> QED
        BY <1>0, <3>2 DEF b
    <2>4. CASE BulkPublish(r)
      BY <1>0, <2>4 DEF BulkPublish, TypeOK, BulkLocals
    <2> QED
      BY <2>1, <2>2, <2>3, <2>4, Zenon
  <1>4. \A o \in Order : batch'[r].snap[o] \in {None, batch[r].snap[o], status[o]}
    BY <1>3 DEF NoBatch
  <1> QED
    BY <1>0, <1>1, <1>2, <1>4, QuietHistory

LEMMA SingleQuietHistory ==
  ASSUME HistoryInv, TypeOK', NEW r \in Request,
         LoadItems(r) \/ Publish(r) \/ WriteAudit(r) \/ Abort(r)
  PROVE  HistoryInv'
  <1>0. TypeOK /\ UNCHANGED <<status, moves, job, batch>>
    BY DEF HistoryInv, LoadItems, Publish, WriteAudit, Abort, table, handlers
  <1>1. CASE WriteAudit(r)
    BY <1>0, <1>1 DEF WriteAudit, handlers, HistoryInv, RowInHistory, NoSkippedStage,
       ReadInHistory, SnapshotInHistory, ConflictIsReal, Visited
  <1>2. CASE LoadItems(r) \/ Publish(r) \/ Abort(r)
    <2>1. \A q \in Request \ {r} : pc'[q] = pc[q] /\ job'[q] = job[q] /\ batch'[q] = batch[q]
      BY <1>0, <1>2 DEF LoadItems, Publish, Abort, Goto, TypeOK
    <2>2. pc'[r] \notin {"cas", "reread", "conflict"}
      BY <1>0, <1>2 DEF LoadItems, Publish, Abort, Goto, TypeOK
    <2> QED
      BY <1>0, <2>1, <2>2, QuietHistory
  <1> QED
    BY <1>1, <1>2

LEMMA HistoryNext == HistoryInv /\ [Next]_vars => HistoryInv'
  <1> SUFFICES ASSUME HistoryInv, [Next]_vars PROVE HistoryInv'
    OBVIOUS
  <1>0. TypeOK'
    BY NextType DEF HistoryInv
  <1>1. CASE UNCHANGED vars
    BY <1>0, <1>1 DEF vars, HistoryInv, RowInHistory, NoSkippedStage, ReadInHistory,
       SnapshotInHistory, ConflictIsReal, Visited
  <1>2. CASE SingleNext
    BY <1>0, <1>2, CreateOrderHistory, ReadAndCheckHistory, CompareAndSetHistory,
       ExplainMissHistory, SingleQuietHistory
       DEF SingleNext, SingleStep, CancelOrder, UpdateOrderStatus
  <1>3. CASE BulkNext
    BY <1>0, <1>3, BulkItemHistory, BulkQuietHistory DEF BulkNext, BulkStep
  <1> QED
    BY <1>1, <1>2, <1>3 DEF Next

\* With the bulk endpoint in use and any number of concurrent requests, no order
\* has a status without having had every status that must come before it.
THEOREM StagesNeverSkipped == Spec => []NoSkippedStage
  <1>1. HistoryInv => NoSkippedStage
    BY DEF HistoryInv
  <1> QED
    BY <1>1, HistoryInit, HistoryNext, PTL DEF Spec

\* A 409 concurrent_update is answered only when somebody else's write really
\* took the order out of the status the request had read.
THEOREM ConflictsAreReal == Spec => []ConflictIsReal
  <1>1. HistoryInv => ConflictIsReal
    BY DEF HistoryInv
  <1> QED
    BY <1>1, HistoryInit, HistoryNext, PTL DEF Spec

-----------------------------------------------------------------------------
(* Without the bulk endpoint the compare and set keeps the row on the      *)
(* table, and lets one cancellation through.                               *)

\* Request r has cancelled its order and not yet said so.
Holds(r) == pc[r] \in {"items", "publish"} /\ job[r].op = "cancel"

\* What a handler under way stands for.
HandlerInv ==
    \A r \in Request :
        /\ pc[r] \in {"cas", "reread", "items", "publish"} =>
              job[r].op \in {"create", "update", "cancel"}
        /\ pc[r] = "cas" => /\ job[r].to \in Allowed(job[r].seen)
                            /\ job[r].op = "cancel" => job[r].to = "cancelled"
        /\ pc[r] \in {"items", "publish"} /\ job[r].op = "update" =>
              <<job[r].seen, job[r].to>> \in moves[job[r].order]

SaysCancelled(o) == \E i \in DOMAIN feed[o] : feed[o][i].type = "cancelled"

CancelInv ==
    /\ \A r \in Request : Holds(r) =>
          /\ status[job[r].order] = "cancelled"
          /\ ~SaysCancelled(job[r].order)
          /\ \A q \in Request \ {r} : Holds(q) => job[q].order # job[r].order
    /\ \A o \in Order : SaysCancelled(o) => status[o] = "cancelled"

SingleInv ==
    /\ TypeOK
    /\ TableRespected
    /\ HandlerInv
    /\ CancelInv
    /\ EventsAreMoves
    /\ CancelledOnce

LEMMA SingleInit == Init => SingleInv
  <1> SUFFICES ASSUME Init PROVE SingleInv
    OBVIOUS
  <1>1. \A o \in Order : DOMAIN feed[o] = {}
    BY DEF Init
  <1> QED
    BY <1>1, InitType DEF Init, SingleInv, TableRespected, HandlerInv, CancelInv, Holds,
       SaysCancelled, EventsAreMoves, CancelledOnce

LEMMA AllowedFacts ==
  /\ \A s : s \notin Allowed(s)
  /\ Allowed("cancelled") = {}
  /\ Allowed(None) = {}
  BY DEF Allowed, None

\* The domain of a feed with one more event.
LEMMA AppendEvent ==
  ASSUME NEW s \in Seq(Event), NEW e \in Event, NEW i \in DOMAIN Append(s, e)
  PROVE  \/ i \in DOMAIN s /\ Append(s, e)[i] = s[i]
         \/ i = Len(s) + 1 /\ i \notin DOMAIN s /\ Append(s, e)[i] = e
  OBVIOUS

\* A step of request r that changes nothing but its label, to one that holds
\* nothing, or to "publish" from "items".
LEMMA QuietSingle ==
  ASSUME SingleInv, TypeOK', NEW r \in Request,
         UNCHANGED <<status, moves, feed>>,
         \A q \in Request \ {r} : pc'[q] = pc[q] /\ job'[q] = job[q],
         \/ pc'[r] \in {"idle"} \cup Answered
         \/ pc'[r] = "reread" /\ pc[r] = "cas" /\ job'[r] = job[r]
         \/ pc'[r] = "publish" /\ pc[r] = "items" /\ job'[r] = job[r]
         \/ /\ pc'[r] = "cas"
            /\ job'[r].op \in {"update", "cancel"}
            /\ job'[r].to \in Allowed(job'[r].seen)
            /\ job'[r].op = "cancel" => job'[r].to = "cancelled"
  PROVE  SingleInv'
  <1>1. TableRespected' /\ EventsAreMoves' /\ CancelledOnce'
    BY DEF SingleInv, TableRespected, EventsAreMoves, CancelledOnce
  <1>2. HandlerInv'
    BY DEF SingleInv, HandlerInv, Answered
  <1>3. Holds(r)' => Holds(r) /\ job'[r] = job[r]
    BY DEF Holds, Answered
  <1>4. \A q \in Request : Holds(q)' => Holds(q) /\ job'[q] = job[q]
    BY <1>3 DEF Holds
  <1>5. CancelInv'
    BY <1>4 DEF SingleInv, CancelInv, SaysCancelled
  <1> QED
    BY <1>1, <1>2, <1>5 DEF SingleInv

LEMMA ReadAndCheckSingle ==
  ASSUME SingleInv, TypeOK', NEW r \in Request, NEW o \in Order, NEW to,
         NEW op \in {"update", "cancel"}, op = "cancel" => to = "cancelled",
         ReadAndCheck(r, op, o, to)
  PROVE  SingleInv'
  <1>0. TypeOK /\ UNCHANGED <<status, moves, feed>>
    BY DEF SingleInv, ReadAndCheck, table
  <1>1. \A q \in Request \ {r} : pc'[q] = pc[q] /\ job'[q] = job[q]
    BY <1>0 DEF ReadAndCheck, Goto, TypeOK
  <1>2. CASE CanTransition(status[o], to) /\ pc'[r] = "cas"
    <2>1. job'[r] = [op |-> op, order |-> o, to |-> to, seen |-> status[o]]
      BY <1>0, <1>2 DEF ReadAndCheck, ExpectedCurrent, Goto, TypeOK
    <2> QED
      BY <1>0, <1>1, <1>2, <2>1, QuietSingle DEF CanTransition
  <1>3. CASE pc'[r] \in {"not_found", "invalid"}
    BY <1>0, <1>1, <1>3, QuietSingle DEF Answered
  <1> QED
    BY <1>0, <1>2, <1>3 DEF ReadAndCheck, ExpectedCurrent, Goto, TypeOK

\* What a write along the table does to the invariant, whoever makes it.
LEMMA WriteSingle ==
  ASSUME SingleInv, NEW o \in Order, NEW to \in Status, Write(o, to),
         status[o] # to, UNCHANGED feed,
         <<status[o], to>> = <<None, "pending">> \/ to \in Allowed(status[o])
  PROVE  /\ TableRespected' /\ EventsAreMoves' /\ CancelledOnce'
         /\ <<status[o], to>> \in moves'[o]
         /\ \A p \in Order : moves[p] \subseteq moves'[p]
         /\ status'[o] = to
         /\ \A p \in Order \ {o} : status'[p] = status[p]
         /\ status[o] # "cancelled"
  <1>1. moves' = [moves EXCEPT ![o] = @ \cup {<<status[o], to>>}] /\ TypeOK
    BY DEF Write, SingleInv
  <1>2. \A p \in Order : moves'[p] = IF p = o THEN moves[o] \cup {<<status[o], to>>} ELSE moves[p]
    BY <1>1 DEF TypeOK
  <1>3. TableRespected'
    BY <1>2 DEF SingleInv, TableRespected
  <1>4. EventsAreMoves' /\ CancelledOnce'
    BY <1>2 DEF SingleInv, EventsAreMoves, CancelledOnce
  <1>5. status[o] # "cancelled"
    BY AllowedFacts DEF None
  <1> QED
    BY <1>1, <1>2, <1>3, <1>4, <1>5 DEF Write, TypeOK

\* A request that takes no step keeps what its handler stands for, as long as
\* no move is taken back.
LEMMA OthersKeepHandler ==
  ASSUME HandlerInv, TypeOK, NEW r \in Request,
         \A q \in Request \ {r} : pc'[q] = pc[q] /\ job'[q] = job[q],
         \A p \in Order : moves[p] \subseteq moves'[p],
         /\ pc'[r] \in {"cas", "reread", "items", "publish"} =>
               job'[r].op \in {"create", "update", "cancel"}
         /\ pc'[r] # "cas"
         /\ pc'[r] \in {"items", "publish"} /\ job'[r].op = "update" =>
               <<job'[r].seen, job'[r].to>> \in moves'[job'[r].order]
  PROVE  HandlerInv'
  <1> SUFFICES ASSUME NEW q \in Request
      PROVE  /\ pc'[q] \in {"cas", "reread", "items", "publish"} =>
                   job'[q].op \in {"create", "update", "cancel"}
             /\ pc'[q] = "cas" => /\ job'[q].to \in Allowed(job'[q].seen)
                                  /\ job'[q].op = "cancel" => job'[q].to = "cancelled"
             /\ pc'[q] \in {"items", "publish"} /\ job'[q].op = "update" =>
                   <<job'[q].seen, job'[q].to>> \in moves'[job'[q].order]
    BY DEF HandlerInv
  <1>1. CASE q = r
    BY <1>1
  <1>2. CASE q # r
    <2>1. pc'[q] = pc[q] /\ job'[q] = job[q]
      BY <1>2
    <2>2. /\ pc[q] \in {"cas", "reread", "items", "publish"} =>
                job[q].op \in {"create", "update", "cancel"}
          /\ pc[q] = "cas" => /\ job[q].to \in Allowed(job[q].seen)
                              /\ job[q].op = "cancel" => job[q].to = "cancelled"
          /\ pc[q] \in {"items", "publish"} /\ job[q].op = "update" =>
                <<job[q].seen, job[q].to>> \in moves[job[q].order]
      BY DEF HandlerInv
    <2>3. job[q] \in Job
      BY DEF TypeOK
    <2>4. pc[q] \in {"items", "publish"} => moves[job[q].order] \subseteq moves'[job[q].order]
      <3>1. job[q].order \in Order
        BY <2>3 DEF Job
      <3> QED
        BY <3>1
    <2> QED
      BY <2>1, <2>2, <2>4
  <1> QED
    BY <1>1, <1>2

LEMMA CreateOrderSingle ==
  ASSUME SingleInv, TypeOK', NEW r \in Request, NEW o \in Order, CreateOrder(r, o)
  PROVE  SingleInv'
  <1>0. TypeOK /\ UNCHANGED feed /\ "pending" \in Status /\ None # "pending"
    BY DEF SingleInv, CreateOrder, Status, None
  <1>1. \A q \in Request \ {r} : pc'[q] = pc[q] /\ job'[q] = job[q]
    BY <1>0 DEF CreateOrder, Goto, TypeOK
  <1>2. CASE pc'[r] = "not_found" /\ UNCHANGED <<status, moves, job>>
    BY <1>0, <1>1, <1>2, QuietSingle DEF Answered
  <1>3. CASE Write(o, "pending") /\ pc'[r] = "publish" /\ job'[r].op = "create"
    <2>1. status[o] = None
      BY DEF CreateOrder
    <2>2. /\ TableRespected' /\ EventsAreMoves' /\ CancelledOnce'
          /\ \A p \in Order : moves[p] \subseteq moves'[p]
          /\ status'[o] = "pending"
          /\ \A p \in Order \ {o} : status'[p] = status[p]
          /\ status[o] # "cancelled"
      BY <1>0, <1>3, <2>1, WriteSingle
    <2>3. HandlerInv'
      BY <1>0, <1>1, <1>3, <2>2, OthersKeepHandler DEF SingleInv
    <2>4. ~Holds(r)' /\ \A q \in Request \ {r} : Holds(q)' => Holds(q) /\ job'[q] = job[q]
      BY <1>1, <1>3 DEF Holds
    <2>5. ASSUME NEW q \in Request, Holds(q)'
          PROVE  /\ status'[job'[q].order] = "cancelled"
                 /\ ~SaysCancelled(job'[q].order)
                 /\ \A p \in Request \ {q} : Holds(p)' => job'[p].order # job'[q].order
      <3>1. q # r /\ Holds(q) /\ job'[q] = job[q] /\ job[q].order \in Order
        BY <1>0, <2>4, <2>5 DEF TypeOK, Job
      <3>2. \A p \in Request : Holds(p)' => Holds(p) /\ job'[p] = job[p]
        BY <2>4
      <3>3. status'[job[q].order] = "cancelled"
        BY <2>2, <3>1 DEF SingleInv, CancelInv
      <3> QED
        BY <3>1, <3>2, <3>3 DEF SingleInv, CancelInv
    <2>6. ASSUME NEW p \in Order, SaysCancelled(p)
          PROVE  status'[p] = "cancelled"
      BY <2>2, <2>6 DEF SingleInv, CancelInv
    <2>7. CancelInv'
      BY <1>0, <2>5, <2>6 DEF CancelInv, SaysCancelled
    <2> QED
      BY <2>2, <2>3, <2>7 DEF SingleInv
  <1> QED
    BY <1>0, <1>2, <1>3 DEF CreateOrder, Goto, TypeOK

LEMMA CompareAndSetSingle ==
  ASSUME SingleInv, TypeOK', NEW r \in Request, CompareAndSet(r)
  PROVE  SingleInv'
  <1> DEFINE o == job[r].order
             to == job[r].to
  <1>0. /\ TypeOK /\ UNCHANGED feed /\ job' = job /\ pc[r] = "cas"
        /\ o \in Order /\ to \in Status
        /\ to \in Allowed(job[r].seen)
        /\ job[r].op = "cancel" => to = "cancelled"
        /\ job[r].op \in {"create", "update", "cancel"}
    BY DEF SingleInv, HandlerInv, CompareAndSet, TypeOK, Job
  <1>1. \A q \in Request \ {r} : pc'[q] = pc[q] /\ job'[q] = job[q]
    BY <1>0 DEF CompareAndSet, Goto, TypeOK
  <1>2. CASE pc'[r] = "reread" /\ UNCHANGED <<status, moves>>
    BY <1>0, <1>1, <1>2, QuietSingle
  <1>3. CASE status[o] = job[r].seen /\ Write(o, to) /\ pc'[r] = "items"
    <2>1. status[o] # to
      BY <1>0, <1>3, AllowedFacts
    <2>2. /\ TableRespected' /\ EventsAreMoves' /\ CancelledOnce'
          /\ <<status[o], to>> \in moves'[o]
          /\ \A p \in Order : moves[p] \subseteq moves'[p]
          /\ status'[o] = to
          /\ \A p \in Order \ {o} : status'[p] = status[p]
          /\ status[o] # "cancelled"
      <3> HIDE DEF o, to
      <3> QED
        BY <1>0, <1>3, <2>1, WriteSingle
    <2>3. HandlerInv'
      <3>1. pc'[r] = "items" /\ job'[r] = job[r]
        BY <1>0, <1>3
      <3>2. /\ pc'[r] # "cas"
            /\ job'[r].op \in {"create", "update", "cancel"}
            /\ job'[r].op = "update" =>
                  <<job'[r].seen, job'[r].to>> \in moves'[job'[r].order]
        BY <1>0, <1>3, <2>2, <3>1
      <3> HIDE DEF o, to
      <3> QED
        BY <1>0, <1>1, <2>2, <3>1, <3>2, OthersKeepHandler DEF SingleInv
    <2>4. \A q \in Request \ {r} : Holds(q)' <=> Holds(q)
      BY <1>1 DEF Holds
    <2>5. \A q \in Request \ {r} : Holds(q) => job[q].order # o
      BY <2>2 DEF SingleInv, CancelInv
    <2>6. ~SaysCancelled(o) /\ \A p \in Order : SaysCancelled(p)' <=> SaysCancelled(p)
      BY <1>0, <2>2 DEF SingleInv, CancelInv, SaysCancelled
    <2>7. ASSUME NEW q \in Request, Holds(q)'
          PROVE  /\ status'[job[q].order] = "cancelled"
                 /\ ~SaysCancelled(job[q].order)
                 /\ \A p \in Request \ {q} : Holds(p)' => job[p].order # job[q].order
      <3>1. CASE q = r
        BY <1>0, <2>2, <2>4, <2>5, <2>6, <2>7, <3>1 DEF Holds
      <3>2. CASE q # r
        BY <1>0, <2>2, <2>4, <2>5, <2>7, <3>2 DEF SingleInv, CancelInv, TypeOK, Job
      <3> QED
        BY <3>1, <3>2
    <2>8. ASSUME NEW p \in Order, SaysCancelled(p)
          PROVE  status'[p] = "cancelled"
      BY <2>2, <2>6, <2>8 DEF SingleInv, CancelInv
    <2>9. CancelInv'
      BY <1>0, <2>6, <2>7, <2>8 DEF CancelInv, SaysCancelled
    <2> QED
      BY <2>2, <2>3, <2>9 DEF SingleInv
  <1> QED
    BY <1>0, <1>2, <1>3 DEF CompareAndSet, RowMatches, Goto, TypeOK, table

LEMMA PublishSingle ==
  ASSUME SingleInv, TypeOK', NEW r \in Request, Publish(r)
  PROVE  SingleInv'
  <1>0. /\ TypeOK /\ UNCHANGED <<status, moves, job>> /\ pc[r] = "publish"
        /\ pc'[r] = "ok" /\ job[r].op \in {"create", "update", "cancel"}
        /\ \A q \in Request \ {r} : pc'[q] = pc[q] /\ job'[q] = job[q]
    BY DEF SingleInv, HandlerInv, Publish, Goto, TypeOK, table
  <1>1. CASE UNCHANGED feed
    BY <1>0, <1>1, QuietSingle DEF Answered
  <1>2. CASE feed' = [feed EXCEPT ![job[r].order] = Append(@, EventOf(r))]
    <2>1. PICK o \in Order : o = job[r].order
      BY <1>0 DEF TypeOK, Job
    <2>2. PICK e \in Event : e = EventOf(r)
      BY <1>0, EventOfType
    <2>3. feed[o] \in Seq(Event) /\ feed'[o] = Append(feed[o], e)
          /\ \A p \in Order \ {o} : feed'[p] = feed[p]
      BY <1>0, <1>2, <2>1, <2>2 DEF TypeOK
    <2>4. /\ e.type = "cancelled" => Holds(r)
          /\ e.type = "status_changed" => <<e.from, e.to>> \in moves[o]
      <3>1. CASE job[r].op = "create"
        BY <2>2, <3>1 DEF EventOf
      <3>2. CASE job[r].op = "update"
        BY <1>0, <2>1, <2>2, <3>2 DEF EventOf, SingleInv, HandlerInv
      <3>3. CASE job[r].op = "cancel"
        BY <1>0, <2>2, <3>3 DEF EventOf, Holds
      <3> QED
        BY <1>0, <3>1, <3>2, <3>3
    <2>5. TableRespected' /\ HandlerInv'
      BY <1>0 DEF SingleInv, TableRespected, HandlerInv
    <2>6. EventsAreMoves'
      <3> SUFFICES ASSUME NEW p \in Order, NEW i \in DOMAIN feed'[p],
                          feed'[p][i].type = "status_changed"
                   PROVE  <<feed'[p][i].from, feed'[p][i].to>> \in moves[p]
        BY <1>0 DEF EventsAreMoves
      <3>1. CASE p = o
        <4>1. \/ i \in DOMAIN feed[o] /\ feed'[o][i] = feed[o][i]
              \/ feed'[o][i] = e
          BY <2>3, <3>1, AppendEvent
        <4> QED
          BY <2>4, <3>1, <4>1 DEF SingleInv, EventsAreMoves
      <3>2. CASE p # o
        BY <2>3, <3>2 DEF SingleInv, EventsAreMoves
      <3> QED
        BY <3>1, <3>2
    <2>7. SaysCancelled(o)' => SaysCancelled(o) \/ e.type = "cancelled"
      BY <2>3, AppendEvent DEF SaysCancelled
    <2>8. \A p \in Order \ {o} : SaysCancelled(p)' <=> SaysCancelled(p)
      BY <2>3 DEF SaysCancelled
    <2>9. CancelledOnce'
      <3> SUFFICES ASSUME NEW p \in Order, NEW i \in DOMAIN feed'[p],
                          NEW j \in DOMAIN feed'[p],
                          feed'[p][i].type = "cancelled", feed'[p][j].type = "cancelled"
                   PROVE  i = j
        BY DEF CancelledOnce
      <3>1. CASE p # o
        BY <2>3, <3>1 DEF SingleInv, CancelledOnce
      <3>2. CASE p = o /\ e.type # "cancelled"
        <4>0. \A n \in DOMAIN feed'[o] :
                 (n \in DOMAIN feed[o] /\ feed'[o][n] = feed[o][n]) \/ feed'[o][n] = e
          BY <2>3, AppendEvent
        <4>1. /\ i \in DOMAIN feed[o] /\ feed'[o][i] = feed[o][i]
              /\ j \in DOMAIN feed[o] /\ feed'[o][j] = feed[o][j]
          BY <3>2, <4>0
        <4>2. CancelledOnce
          BY DEF SingleInv
        <4> QED
          BY <3>2, <4>1, <4>2 DEF CancelledOnce
      <3>3. CASE p = o /\ e.type = "cancelled"
        <4>1. ~SaysCancelled(o)
          BY <2>1, <2>4, <3>3 DEF SingleInv, CancelInv
        <4> QED
          BY <2>3, <3>3, <4>1, AppendEvent DEF SaysCancelled
      <3> QED
        BY <3>1, <3>2, <3>3
    <2>10. ~Holds(r)' /\ \A q \in Request \ {r} : Holds(q)' => Holds(q)
      BY <1>0 DEF Holds
    <2>11. ASSUME NEW q \in Request, Holds(q)'
           PROVE  /\ status[job[q].order] = "cancelled"
                  /\ ~SaysCancelled(job[q].order)
                  /\ job[q].order = o => e.type # "cancelled"
                  /\ \A p \in Request \ {q} : Holds(p)' => job[p].order # job[q].order
      BY <2>1, <2>4, <2>10, <2>11 DEF SingleInv, CancelInv
    <2>12. ASSUME NEW p \in Order, SaysCancelled(p)'
           PROVE  status[p] = "cancelled"
      <3>1. e.type = "cancelled" => status[o] = "cancelled"
        BY <2>1, <2>4 DEF SingleInv, CancelInv
      <3> QED
        BY <2>7, <2>8, <2>12, <3>1 DEF SingleInv, CancelInv
    <2>13. ASSUME NEW q \in Request, Holds(q)'
           PROVE  ~(\E i \in DOMAIN feed'[job[q].order] :
                       feed'[job[q].order][i].type = "cancelled")
      <3>1. PICK p \in Order : p = job[q].order
        BY <1>0 DEF TypeOK, Job
      <3>2. ~SaysCancelled(p)'
        BY <2>7, <2>8, <2>11, <2>13, <3>1
      <3> QED
        BY <3>1, <3>2 DEF SaysCancelled
    <2>14. CancelInv'
      BY <1>0, <2>11, <2>12, <2>13 DEF CancelInv, SaysCancelled
    <2> QED
      BY <2>5, <2>6, <2>9, <2>14 DEF SingleInv
  <1> QED
    BY <1>1, <1>2 DEF Publish

LEMMA OtherSingle ==
  ASSUME SingleInv, TypeOK', NEW r \in Request,
         ExplainMiss(r) \/ LoadItems(r) \/ WriteAudit(r) \/ Abort(r)
  PROVE  SingleInv'
  <1>0. TypeOK /\ UNCHANGED <<status, moves, feed, job>>
    BY DEF SingleInv, ExplainMiss, LoadItems, WriteAudit, Abort, table, handlers
  <1>1. CASE WriteAudit(r)
    <2>1. UNCHANGED <<status, moves, feed, pc, job>>
      BY <1>1 DEF WriteAudit, table, handlers
    <2> QED
      BY <2>1 DEF SingleInv, TableRespected, HandlerInv, CancelInv, Holds, SaysCancelled,
         EventsAreMoves, CancelledOnce
  <1>2. CASE ExplainMiss(r) \/ LoadItems(r) \/ Abort(r)
    <2>1. \A q \in Request \ {r} : pc'[q] = pc[q] /\ job'[q] = job[q]
      BY <1>0, <1>2 DEF ExplainMiss, LoadItems, Abort, Goto, TypeOK
    <2>2. /\ job'[r] = job[r]
          /\ pc'[r] \in Answered \/ (pc'[r] = "publish" /\ pc[r] = "items")
      BY <1>0, <1>2 DEF ExplainMiss, LoadItems, Abort, Goto, TypeOK, Answered
    <2> QED
      BY <1>0, <2>1, <2>2, QuietSingle
  <1> QED
    BY <1>1, <1>2

LEMMA SingleStepInv == SingleInv /\ [SingleNext]_vars => SingleInv'
  <1> SUFFICES ASSUME SingleInv, [SingleNext]_vars PROVE SingleInv'
    OBVIOUS
  <1>0. TypeOK'
    BY SingleNextType DEF SingleInv
  <1>1. CASE UNCHANGED vars
    BY <1>0, <1>1 DEF vars, SingleInv, TableRespected, HandlerInv, CancelInv, Holds,
       SaysCancelled, EventsAreMoves, CancelledOnce
  <1>2. ASSUME NEW r \in Request, NEW o \in Order,
               CreateOrder(r, o) \/ CancelOrder(r, o)
                  \/ \E to \in Target : UpdateOrderStatus(r, o, to)
        PROVE  SingleInv'
    BY <1>0, <1>2, CreateOrderSingle, ReadAndCheckSingle DEF CancelOrder, UpdateOrderStatus
  <1>3. ASSUME NEW r \in Request, SingleStep(r) \/ WriteAudit(r) \/ Abort(r)
        PROVE  SingleInv'
    BY <1>0, <1>3, CompareAndSetSingle, PublishSingle, OtherSingle DEF SingleStep
  <1> QED
    BY <1>1, <1>2, <1>3 DEF SingleNext

LEMMA SingleInvariant == SingleSpec => []SingleInv
  BY SingleInit, SingleStepInv, PTL DEF SingleSpec

\* However the handlers of create, status and cancel requests interleave, fail
\* and race, the status column moves only along the transition table.
THEOREM TableIsRespected == SingleSpec => []TableRespected
  <1>1. SingleInv => TableRespected
    BY DEF SingleInv
  <1> QED
    BY <1>1, SingleInvariant, PTL

\* At most one order.cancelled event goes out per order: of any number of racing
\* cancellations one wins the compare and set, and no cancelled order leaves.
THEOREM CancellationIsSaidOnce == SingleSpec => []CancelledOnce
  <1>1. SingleInv => CancelledOnce
    BY DEF SingleInv
  <1> QED
    BY <1>1, SingleInvariant, PTL

\* Every order.status_changed event reports a committed move of its order, with
\* the status that move started from.
THEOREM EventsReportMoves == SingleSpec => []EventsAreMoves
  <1>1. SingleInv => EventsAreMoves
    BY DEF SingleInv
  <1> QED
    BY <1>1, SingleInvariant, PTL

\* The column, seen alone, behaves as the abstract lifecycle: each statement of
\* a handler is a placement, one entry of the table, or a stutter.
THEOREM LifecycleImplemented == SingleSpec => ImplementsLifecycle
  <1>1. Init => Lifecycle!Init
    BY DEF Init, Lifecycle!Init, Lifecycle!None, None
  <1>2. SingleInv /\ [SingleNext]_vars => [Lifecycle!Next]_status
    <2> SUFFICES ASSUME SingleInv, [SingleNext]_vars, status' # status
                 PROVE  Lifecycle!Next
      OBVIOUS
    <2>1. CASE \E r \in Request, o \in Order : CreateOrder(r, o)
      BY <2>1 DEF CreateOrder, Write, Lifecycle!Next, Lifecycle!Place, Lifecycle!None, None
    <2>2. CASE \E r \in Request : CompareAndSet(r)
      <3>1. PICK r \in Request : CompareAndSet(r)
        BY <2>2
      <3>2. PICK o \in Order, to \in Status : o = job[r].order /\ to = job[r].to
        BY DEF SingleInv, TypeOK, Job
      <3>3. pc[r] = "cas" /\ status[o] = job[r].seen
            /\ status' = [status EXCEPT ![o] = to]
        BY <3>1, <3>2 DEF CompareAndSet, RowMatches, Write, table
      <3>4. to \in Allowed(status[o])
        BY <3>2, <3>3 DEF SingleInv, HandlerInv
      <3>5. Lifecycle!Move(o, to)
        BY <3>3, <3>4 DEF Lifecycle!Move, Lifecycle!Allowed, Allowed
      <3> QED
        BY <3>5 DEF Lifecycle!Next, Lifecycle!Status, Status
    <2>3. CASE \E r \in Request : ExplainMiss(r) \/ LoadItems(r) \/ Publish(r)
                  \/ WriteAudit(r) \/ Abort(r)
                  \/ \E o \in Order : CancelOrder(r, o)
                        \/ \E to \in Target : UpdateOrderStatus(r, o, to)
      BY <2>3 DEF ExplainMiss, LoadItems, Publish, WriteAudit, Abort, CancelOrder,
         UpdateOrderStatus, ReadAndCheck, ExpectedCurrent, table
    <2>4. UNCHANGED vars => FALSE
      BY DEF vars
    <2> QED
      BY <2>1, <2>2, <2>3, <2>4 DEF SingleNext, SingleStep
  <1> QED
    BY <1>1, <1>2, SingleInvariant, PTL DEF SingleSpec, ImplementsLifecycle, Lifecycle!Spec
-----------------------------------------------------------------------------
(* What a cancellation leaves behind.                                      *)

\* The steps of one request.
StepOf(r) ==
    \/ \E o \in Order :
          CreateOrder(r, o) \/ CancelOrder(r, o) \/ \E to \in Target : UpdateOrderStatus(r, o, to)
    \/ SingleStep(r) \/ WriteAudit(r) \/ Abort(r)

LEMMA OneRequest == SingleNext <=> \E r \in Request : StepOf(r)
  BY DEF SingleNext, StepOf

LEMMA OthersWait ==
  ASSUME TypeOK, NEW r \in Request, StepOf(r)
  PROVE  \A q \in Request \ {r} : pc'[q] = pc[q] /\ job'[q] = job[q] /\ trail'[q] = trail[q]
  BY DEF StepOf, SingleStep, CreateOrder, CancelOrder, UpdateOrderStatus, ReadAndCheck,
     CompareAndSet, ExplainMiss, LoadItems, Publish, WriteAudit, Abort, Goto, TypeOK,
     handlers

\* Only a publication adds to the feed, and only one event.
LEMMA FeedOnlyByPublish ==
  ASSUME NEW r \in Request, StepOf(r)
  PROVE  \/ feed' = feed
         \/ Publish(r) /\ feed' = [feed EXCEPT ![job[r].order] = Append(@, EventOf(r))]
  BY DEF StepOf, SingleStep, CreateOrder, CancelOrder, UpdateOrderStatus, ReadAndCheck,
     CompareAndSet, ExplainMiss, LoadItems, Publish, WriteAudit, Abort

\* A handler that holds a cancellation got it from its compare and set.
LEMMA HoldsSince ==
  ASSUME SingleInv, NEW r \in Request, StepOf(r), NEW q \in Request, Holds(q)'
  PROVE  /\ job'[q] = job[q]
         /\ \/ Holds(q)
            \/ q = r /\ CompareAndSet(r) /\ pc'[r] = "items" /\ job[r].op = "cancel"
  <1>0. TypeOK
    BY DEF SingleInv
  <1>1. CASE q # r
    BY <1>0, <1>1, OthersWait DEF Holds
  <1>2. CASE q = r
    <2>1. pc'[r] \in {"items", "publish"} /\ job'[r].op = "cancel"
      BY <1>2 DEF Holds
    <2>2. CASE \E o \in Order : CreateOrder(r, o)
      BY <1>0, <2>1, <2>2 DEF CreateOrder, Goto, TypeOK
    <2>3. CASE \E o \in Order : \E to, op : ReadAndCheck(r, op, o, to)
      BY <1>0, <2>1, <2>3 DEF ReadAndCheck, Goto, TypeOK
    <2>4. CASE CompareAndSet(r)
      BY <1>0, <1>2, <2>1, <2>4 DEF CompareAndSet, Goto, TypeOK
    <2>5. CASE LoadItems(r)
      BY <1>0, <1>2, <2>1, <2>5 DEF LoadItems, Holds
    <2>6. CASE ExplainMiss(r) \/ Publish(r) \/ Abort(r)
      BY <1>0, <2>1, <2>6 DEF ExplainMiss, Publish, Abort, Goto, TypeOK
    <2>7. CASE WriteAudit(r)
      BY <1>2, <2>1, <2>7 DEF WriteAudit, handlers, Holds
    <2> QED
      BY <2>2, <2>3, <2>4, <2>5, <2>6, <2>7
         DEF StepOf, SingleStep, CancelOrder, UpdateOrderStatus
  <1> QED
    BY <1>1, <1>2

\* No handler takes an order out of cancelled.
LEMMA CancelledStays ==
  ASSUME SingleInv, SingleInv', SingleNext, NEW o \in Order, status[o] = "cancelled"
  PROVE  status'[o] = "cancelled"
  <1>1. \/ status' = status
        \/ \E p \in Order : Write(p, "pending")
        \/ \E r \in Request : Write(job[r].order, job[r].to)
    BY DEF SingleNext, SingleStep, CreateOrder, CancelOrder, UpdateOrderStatus, ReadAndCheck,
       CompareAndSet, ExplainMiss, LoadItems, Publish, WriteAudit, Abort, table
  <1>2. ASSUME NEW p \in Order, NEW to, Write(p, to)
        PROVE  status'[o] = "cancelled"
    <2>1. CASE p # o \/ to = "cancelled"
      BY <1>2, <2>1 DEF Write, SingleInv, TypeOK
    <2>2. CASE p = o /\ to # "cancelled"
      <3>1. <<"cancelled", to>> \in moves'[o]
        BY <1>2, <2>2 DEF Write, SingleInv, TypeOK
      <3>2. <<"cancelled", to>> = <<None, "pending">> \/ to \in Allowed("cancelled")
        BY <3>1 DEF SingleInv, TableRespected
      <3> QED
        BY <3>2, AllowedFacts DEF None
    <2> QED
      BY <2>1, <2>2
  <1>3. \A r \in Request : job[r].order \in Order
    BY DEF SingleInv, TypeOK, Job
  <1> QED
    BY <1>1, <1>2, <1>3

\* The reason is on record from the compare and set of a cancellation on, and
\* by nobody else's doing.
ReasonInv ==
    /\ \A o \in Order : reason[o] => status[o] = "cancelled"
    /\ \A r \in Request : Holds(r) => reason[job[r].order]
    /\ \A o \in Order : SaysCancelled(o) => reason[o]

LEMMA ReasonColumn ==
  ASSUME SingleInv, SingleInv', NEW r \in Request, StepOf(r)
  PROVE  /\ \A o \in Order : reason[o] => reason'[o]
         /\ \A o \in Order : reason'[o] => reason[o] \/ status'[o] = "cancelled"
         /\ CompareAndSet(r) /\ pc'[r] = "items" /\ job[r].op = "cancel" =>
               reason'[job[r].order]
  <1>0. TypeOK
    BY DEF SingleInv
  <1>1. CASE ~CompareAndSet(r)
    BY <1>1 DEF StepOf, SingleStep, CreateOrder, CancelOrder, UpdateOrderStatus, ReadAndCheck,
       ExplainMiss, LoadItems, Publish, WriteAudit, Abort, table
  <1>2. CASE CompareAndSet(r)
    <2>1. PICK o \in Order : o = job[r].order
      BY <1>0 DEF TypeOK, Job
    <2>2. job[r].op = "cancel" => job[r].to = "cancelled"
      BY <1>2 DEF CompareAndSet, SingleInv, HandlerInv
    <2>3. CASE UNCHANGED table /\ pc'[r] = "reread"
      BY <2>3 DEF table
    <2>4. CASE Write(o, job[r].to) /\ reason' = IF job[r].op = "cancel"
                            THEN [reason EXCEPT ![o] = TRUE] ELSE reason
      <3>1. status'[o] = job[r].to
        BY <1>0, <2>4 DEF Write, TypeOK
      <3>2. CASE job[r].op = "cancel"
        BY <1>0, <2>1, <2>2, <2>4, <3>1, <3>2 DEF TypeOK
      <3>3. CASE job[r].op # "cancel"
        BY <2>4, <3>3
      <3> QED
        BY <3>2, <3>3
    <2> QED
      BY <1>0, <1>2, <2>1, <2>3, <2>4 DEF CompareAndSet, Goto, TypeOK
  <1> QED
    BY <1>1, <1>2

LEMMA SaidBefore ==
  ASSUME SingleInv, NEW r \in Request, StepOf(r), NEW o \in Order, SaysCancelled(o)'
  PROVE  SaysCancelled(o) \/ (Holds(r) /\ job[r].order = o)
  <1>0. TypeOK
    BY DEF SingleInv
  <1>1. CASE feed' = feed
    BY <1>1 DEF SaysCancelled
  <1>2. CASE Publish(r) /\ feed' = [feed EXCEPT ![job[r].order] = Append(@, EventOf(r))]
    <2>1. PICK e \in Event : e = EventOf(r)
      BY <1>0, EventOfType
    <2>2. CASE job[r].order # o
      BY <1>0, <1>2, <2>2 DEF TypeOK, SaysCancelled
    <2>3. CASE job[r].order = o
      <3>1. feed'[o] = Append(feed[o], e) /\ feed[o] \in Seq(Event)
        BY <1>0, <1>2, <2>1, <2>3 DEF TypeOK
      <3>2. SaysCancelled(o) \/ e.type = "cancelled"
        BY <3>1, AppendEvent DEF SaysCancelled
      <3>3. e.type = "cancelled" => job[r].op = "cancel"
        BY <2>1 DEF EventOf
      <3> QED
        BY <1>2, <2>3, <3>2, <3>3 DEF Holds, Publish
    <2> QED
      BY <2>2, <2>3
  <1> QED
    BY <1>1, <1>2, FeedOnlyByPublish

LEMMA ReasonStep ==
  ASSUME SingleInv, SingleInv', ReasonInv, [SingleNext]_vars
  PROVE  ReasonInv'
  <1>0. TypeOK
    BY DEF SingleInv
  <1>1. CASE UNCHANGED vars
    BY <1>1 DEF vars, ReasonInv, Holds, SaysCancelled
  <1>2. CASE SingleNext
    <2>1. PICK r \in Request : StepOf(r)
      BY <1>2, OneRequest
    <2>2. ASSUME NEW o \in Order, reason'[o]
          PROVE  status'[o] = "cancelled"
      BY <1>2, <2>1, <2>2, ReasonColumn, CancelledStays DEF ReasonInv
    <2>3. ASSUME NEW q \in Request, Holds(q)'
          PROVE  reason'[job'[q].order]
      <3>1. job[q].order \in Order
        BY <1>0 DEF TypeOK, Job
      <3> QED
        BY <2>1, <2>3, <3>1, HoldsSince, ReasonColumn DEF ReasonInv
    <2>4. ASSUME NEW o \in Order, SaysCancelled(o)'
          PROVE  reason'[o]
      BY <2>1, <2>4, SaidBefore, ReasonColumn DEF ReasonInv
    <2> QED
      BY <2>2, <2>3, <2>4 DEF ReasonInv
  <1> QED
    BY <1>1, <1>2

LEMMA ReasonInit == Init => ReasonInv
  <1> SUFFICES ASSUME Init PROVE ReasonInv
    OBVIOUS
  <1>1. \A o \in Order : DOMAIN feed[o] = {} /\ ~reason[o]
    BY DEF Init
  <1>2. \A r \in Request : ~Holds(r)
    BY DEF Init, Holds
  <1> QED
    BY <1>1, <1>2 DEF ReasonInv, SaysCancelled

LEMMA ReasonInvariant == SingleSpec => []ReasonInv
  BY ReasonInit, ReasonStep, SingleInvariant, PTL DEF SingleSpec

\* However cancellations race with each other and with other moves, a reason is
\* on record of cancelled orders only, and no order.cancelled goes out before
\* one is.
THEOREM CancellationsHaveReasons == SingleSpec => []CancelledForAReason
  <1>1. ReasonInv => CancelledForAReason
    BY DEF ReasonInv, CancelledForAReason, SaysCancelled
  <1> QED
    BY <1>1, ReasonInvariant, PTL

-----------------------------------------------------------------------------
(* Nothing moves silently, as long as nothing fails.                       *)

\* A handler past its write, or at its end.
Wrote == {"items", "publish", "ok"}

\* An event about o that reports move m.
Reports(o, m) ==
    \E i \in DOMAIN feed[o] :
        \/ feed[o][i].type = "created"   /\ m[1] = None
        \/ feed[o][i].type = "cancelled" /\ m[2] = "cancelled"
        \/ <<feed[o][i].from, feed[o][i].to>> = m

\* Request r made move m of o, and has reported it if it is over.
Accounts(r, o, m) ==
    /\ job[r].order = o /\ <<job[r].seen, job[r].to>> = m
    /\ pc[r] \in Wrote
    /\ pc[r] = "ok" => Reports(o, m)

\* What a handler was called for, from its start to its end.
JobsKept ==
    \A r \in Request :
        /\ job[r].op # "bulk"
        /\ job[r].op = "create" => job[r].seen = None
        /\ job[r].op = "cancel" => job[r].to = "cancelled"
        /\ trail[r] \in {"none", "success"}

AccountInv ==
    /\ JobsKept
    /\ \A o \in Order : \A m \in moves[o] : \E r \in Request : Accounts(r, o, m)

LEMMA AccountInit == Init => AccountInv
  <1> SUFFICES ASSUME Init PROVE AccountInv
    OBVIOUS
  <1>1. \A o \in Order : moves[o] = {}
    BY DEF Init
  <1>2. JobsKept
    BY DEF Init, NoJob, JobsKept
  <1> QED
    BY <1>1, <1>2 DEF AccountInv

LEMMA JobsStep ==
  ASSUME SingleInv, JobsKept, NEW r \in Request, StepOf(r)
  PROVE  JobsKept'
  <1>0. TypeOK
    BY DEF SingleInv
  <1>1. ASSUME NEW q \in Request \ {r}
        PROVE  job'[q] = job[q] /\ trail'[q] = trail[q]
    BY <1>0, OthersWait
  <1>2. \/ job'[r] = job[r]
        \/ job'[r].op = "create" /\ job'[r].seen = None
        \/ job'[r].op = "update"
        \/ job'[r].op = "cancel" /\ job'[r].to = "cancelled"
    <2>1. CASE \E o \in Order : CreateOrder(r, o)
      BY <1>0, <2>1 DEF CreateOrder, TypeOK
    <2>2. CASE \E o \in Order : CancelOrder(r, o)
      BY <1>0, <2>2 DEF CancelOrder, ReadAndCheck, TypeOK
    <2>3. CASE \E o \in Order, to \in Target : UpdateOrderStatus(r, o, to)
      BY <1>0, <2>3 DEF UpdateOrderStatus, ReadAndCheck, TypeOK
    <2>4. CASE SingleStep(r) \/ WriteAudit(r) \/ Abort(r)
      BY <2>4 DEF SingleStep, CompareAndSet, ExplainMiss, LoadItems, Publish, WriteAudit, Abort,
         handlers
    <2> QED
      BY <2>1, <2>2, <2>3, <2>4 DEF StepOf
  <1>3. trail'[r] \in {trail[r], "success"}
    <2>1. CASE WriteAudit(r)
      BY <1>0, <2>1 DEF WriteAudit, AuditResult, JobsKept, TypeOK
    <2>2. CASE ~WriteAudit(r)
      BY <2>2 DEF StepOf, SingleStep, CreateOrder, CancelOrder, UpdateOrderStatus, ReadAndCheck,
         CompareAndSet, ExplainMiss, LoadItems, Publish, Abort
    <2> QED
      BY <2>1, <2>2
  <1>4. ASSUME NEW q \in Request
        PROVE  /\ job'[q].op # "bulk"
               /\ job'[q].op = "create" => job'[q].seen = None
               /\ job'[q].op = "cancel" => job'[q].to = "cancelled"
               /\ trail'[q] \in {"none", "success"}
    <2>1. CASE q # r
      BY <1>1, <2>1 DEF JobsKept
    <2>2. CASE q = r
      BY <1>2, <1>3, <2>2 DEF JobsKept
    <2> QED
      BY <2>1, <2>2
  <1> QED
    BY <1>4 DEF JobsKept

\* Events are not taken back.
LEMMA ReportsStay ==
  ASSUME TypeOK, NEW r \in Request, StepOf(r), NEW o \in Order, NEW m, Reports(o, m)
  PROVE  Reports(o, m)'
  <1>1. CASE feed' = feed
    BY <1>1 DEF Reports
  <1>2. CASE Publish(r) /\ feed' = [feed EXCEPT ![job[r].order] = Append(@, EventOf(r))]
    <2>1. PICK e \in Event : e = EventOf(r)
      BY EventOfType
    <2>2. feed[o] \in Seq(Event) /\ feed'[o] \in {feed[o], Append(feed[o], e)}
      BY <1>2, <2>1 DEF TypeOK
    <2>3. \A i \in DOMAIN feed[o] : i \in DOMAIN feed'[o] /\ feed'[o][i] = feed[o][i]
      BY <2>2
    <2> QED
      BY <2>3 DEF Reports
  <1> QED
    BY <1>1, <1>2, FeedOnlyByPublish

\* A handler that has written stays so, and reports when it answers.
LEMMA AccountsStay ==
  ASSUME ~MayFail, SingleInv, JobsKept, NEW r \in Request, StepOf(r),
         NEW q \in Request, NEW o \in Order, NEW m \in moves[o], Accounts(q, o, m)
  PROVE  Accounts(q, o, m)'
  <1>0. TypeOK
    BY DEF SingleInv
  <1>1. CASE q # r
    <2>1. pc'[q] = pc[q] /\ job'[q] = job[q]
      BY <1>0, <1>1, OthersWait
    <2> QED
      BY <1>0, <2>1, ReportsStay DEF Accounts
  <1>2. CASE q = r
    <2>1. pc[r] \in Wrote
      BY <1>2 DEF Accounts
    <2>2. LoadItems(r) \/ Publish(r) \/ WriteAudit(r)
      BY <2>1 DEF StepOf, SingleStep, CreateOrder, CancelOrder, UpdateOrderStatus, ReadAndCheck,
         CompareAndSet, ExplainMiss, Abort, Wrote
    <2>3. job' = job
      BY <2>2 DEF LoadItems, Publish, WriteAudit, handlers
    <2>4. CASE LoadItems(r)
      BY <1>0, <1>2, <2>3, <2>4 DEF LoadItems, Goto, TypeOK, Accounts, Wrote
    <2>5. CASE WriteAudit(r)
      BY <1>0, <1>2, <2>3, <2>5, ReportsStay DEF WriteAudit, handlers, Accounts
    <2>6. CASE Publish(r)
      <3>1. PICK e \in Event : e = EventOf(r)
        BY <1>0, EventOfType
      <3>2. feed[o] \in Seq(Event) /\ feed'[o] = Append(feed[o], e)
        BY <1>0, <1>2, <2>6, <3>1 DEF Publish, TypeOK, Accounts
      <3>3. Len(feed[o]) + 1 \in DOMAIN feed'[o] /\ feed'[o][Len(feed[o]) + 1] = e
        BY <3>2
      <3>4. job[r].op \in {"create", "update", "cancel"} /\ <<job[r].seen, job[r].to>> = m
        BY <1>2, <2>6 DEF Publish, SingleInv, HandlerInv, Accounts
      <3>5. \/ e.type = "created" /\ m[1] = None
            \/ e.type = "cancelled" /\ m[2] = "cancelled"
            \/ <<e.from, e.to>> = m
        BY <3>1, <3>4 DEF EventOf, JobsKept
      <3>6. Reports(o, m)'
        BY <3>3, <3>5 DEF Reports
      <3> QED
        BY <1>0, <1>2, <2>3, <2>6, <3>6 DEF Publish, Goto, TypeOK, Accounts, Wrote
    <2> QED
      BY <2>2, <2>4, <2>5, <2>6
  <1> QED
    BY <1>1, <1>2

\* Who makes a move is on the way to reporting it.
LEMMA MovesHaveMakers ==
  ASSUME SingleInv, NEW r \in Request, StepOf(r), NEW o \in Order,
         NEW m \in moves'[o], m \notin moves[o]
  PROVE  Accounts(r, o, m)'
  <1>0. TypeOK
    BY DEF SingleInv
  <1>1. CASE CreateOrder(r, o)
    <2>1. /\ m = <<None, "pending">> /\ pc'[r] = "publish"
          /\ job'[r] = [op |-> "create", order |-> o, to |-> "pending", seen |-> None]
      BY <1>0, <1>1 DEF CreateOrder, Write, Goto, TypeOK
    <2> QED
      BY <2>1 DEF Accounts, Wrote
  <1>2. CASE CompareAndSet(r)
    <2>1. PICK p \in Order : p = job[r].order
      BY <1>0 DEF TypeOK, Job
    <2>2. CASE UNCHANGED table
      BY <2>2 DEF table
    <2>3. CASE /\ status[p] = job[r].seen /\ Write(p, job[r].to) /\ pc'[r] = "items"
               /\ job' = job
      <3>1. o = p /\ m = <<status[p], job[r].to>>
        BY <1>0, <2>3 DEF Write, TypeOK
      <3> QED
        BY <2>1, <2>3, <3>1 DEF Accounts, Wrote
    <2> QED
      BY <1>0, <1>2, <2>1, <2>2, <2>3 DEF CompareAndSet, RowMatches, Goto, TypeOK
  <1>3. CASE \E p \in Order \ {o} : CreateOrder(r, p)
    BY <1>0, <1>3 DEF CreateOrder, Write, TypeOK
  <1>4. CASE moves' = moves
    BY <1>4
  <1> QED
    BY <1>1, <1>2, <1>3, <1>4 DEF StepOf, SingleStep, CancelOrder, UpdateOrderStatus, ReadAndCheck,
       ExplainMiss, LoadItems, Publish, WriteAudit, Abort, table

LEMMA AccountStep ==
  ASSUME ~MayFail, SingleInv, AccountInv, [SingleNext]_vars
  PROVE  AccountInv'
  <1>1. CASE UNCHANGED vars
    BY <1>1 DEF vars, AccountInv, JobsKept, Accounts, Reports
  <1>2. CASE SingleNext
    <2>1. PICK r \in Request : StepOf(r)
      BY <1>2, OneRequest
    <2>2. JobsKept'
      BY <2>1, JobsStep DEF AccountInv
    <2>3. ASSUME NEW o \in Order, NEW m \in moves'[o]
          PROVE  \E q \in Request : Accounts(q, o, m)'
      <3>1. CASE m \in moves[o]
        BY <2>1, <3>1, AccountsStay DEF AccountInv
      <3>2. CASE m \notin moves[o]
        BY <2>1, <3>2, MovesHaveMakers
      <3> QED
        BY <3>1, <3>2
    <2> QED
      BY <2>2, <2>3 DEF AccountInv
  <1> QED
    BY <1>1, <1>2

\* Where no statement and no publication fails, each move of an order whose
\* requests are over has a request with an audit row and an event that reports
\* it, with any number of requests racing.
THEOREM MovesAreAccountedFor ==
  ASSUME ~MayFail
  PROVE  SingleSpec => []EveryMoveAccountedFor
  <1>1. AccountInv /\ SingleInv => EveryMoveAccountedFor
    <2> SUFFICES ASSUME AccountInv, SingleInv, NEW o \in Order, Settled(o), NEW m \in moves[o]
                 PROVE  \E r \in Request :
                           /\ job[r].order = o /\ <<job[r].seen, job[r].to>> = m
                           /\ trail[r] = "success"
                           /\ Reports(o, m)
      BY DEF EveryMoveAccountedFor, Reports
    <2>1. PICK r \in Request : Accounts(r, o, m)
      BY DEF AccountInv
    <2>2. pc[r] = "ok" /\ trail[r] # "none"
      BY <2>1 DEF Accounts, Wrote, Settled, Answered
    <2> QED
      BY <2>1, <2>2 DEF Accounts, AccountInv, JobsKept
  <1>2. Init => AccountInv
    BY AccountInit
  <1>3. SingleInv /\ AccountInv /\ [SingleNext]_vars => AccountInv'
    BY AccountStep
  <1> QED
    BY <1>1, <1>2, <1>3, SingleInvariant, PTL DEF SingleSpec

=============================================================================
