---------------------------- MODULE OrderService ----------------------------
(***************************************************************************)
(* The order service (services/order-service): the handlers that write     *)
(* orders.orders, run concurrently by net/http, each as the statements it  *)
(* sends to PostgreSQL one after the other and the events it publishes.    *)
(*                                                                         *)
(* Every element of Request is one HTTP request: it starts idle, runs one  *)
(* handler and ends with an answer.  A statement is one step; whatever     *)
(* other requests do between two statements of a handler is interleaved.   *)
(* A request can be aborted before each statement (cancelled context, lost *)
(* connection, crashed process) when MayFail is TRUE.                      *)
(***************************************************************************)
EXTENDS OrderStatus, Naturals, Sequences

CONSTANTS
    Order,      \* order ids
    Request,    \* HTTP requests, each used once
    Target,     \* the statuses requests ask for (all of them: Status)
    Batch,      \* the order_ids lists a bulk request may carry
    MayFail     \* whether statements and publications can fail

ASSUME OrderAssumption  == Order # {}
ASSUME TargetAssumption == Target \subseteq Status
ASSUME BatchAssumption == Batch \subseteq Seq(Order) \ {<<>>}
ASSUME FailAssumption  == MayFail \in BOOLEAN

VARIABLES
    status,     \* status[o]: orders.orders.status, None before the INSERT
    reason,     \* reason[o]: cancel_reason is set
    pc,         \* pc[r]: where the handler of r is, or its answer
    job,        \* job[r]: the arguments and locals of the handler of r
    batch,      \* batch[r]: the further locals of a bulk handler
    feed,       \* feed[o]: the events about o, in the order NATS took them
    trail,      \* trail[r]: result_status of r's row in audit.action_log
    moves       \* moves[o]: every <<old, new>> the column went through (history)

table    == <<status, reason, moves>>
handlers == <<pc, job, batch>>
vars     == <<status, reason, pc, job, batch, feed, trail, moves>>

-----------------------------------------------------------------------------
Answered == {"ok", "not_found", "invalid", "conflict", "error", "load_error"}
InFlight == {"cas", "reread", "items", "publish", "bulk_load", "bulk",
             "bulk_reread", "bulk_publish"}
Ops      == {"none", "create", "update", "cancel", "bulk"}

Event ==
    [type : {"created", "status_changed", "cancelled"},
     from : Status \cup {None}, to : Status \cup {None}]

Job ==
    [op : Ops, order : Order, to : Status, seen : Status \cup {None}]

BulkLocals ==
    [ids  : Seq(Order),                       \* still to process
     snap : [Order -> Status \cup {None}],    \* currentStatus
     mode : {"dry", "plain", "note"},         \* dry_run, or whether a note came
     done : Seq(Order),                       \* Successes still to announce
     some : BOOLEAN, failed : BOOLEAN]        \* any success, any failure

TypeOK ==
    /\ status \in [Order -> Status \cup {None}]
    /\ reason \in [Order -> BOOLEAN]
    /\ pc \in [Request -> {"idle"} \cup InFlight \cup Answered]
    /\ job \in [Request -> Job]
    /\ batch \in [Request -> BulkLocals]
    /\ feed \in [Order -> Seq(Event)]
    /\ trail \in [Request -> {"none", "success", "partial", "failed"}]
    /\ moves \in [Order -> SUBSET ((Status \cup {None}) \X Status)]

NoBatch ==
    [ids |-> <<>>, snap |-> [o \in Order |-> None], mode |-> "plain",
     done |-> <<>>, some |-> FALSE, failed |-> FALSE]

NoJob ==
    [op |-> "none", order |-> CHOOSE o \in Order : TRUE, to |-> "pending",
     seen |-> None]

Init ==
    /\ status = [o \in Order |-> None]
    /\ reason = [o \in Order |-> FALSE]
    /\ pc     = [r \in Request |-> "idle"]
    /\ job    = [r \in Request |-> NoJob]
    /\ batch  = [r \in Request |-> NoBatch]
    /\ feed   = [o \in Order |-> <<>>]
    /\ trail  = [r \in Request |-> "none"]
    /\ moves  = [o \in Order |-> {}]

Goto(r, label) == pc' = [pc EXCEPT ![r] = label]

\* An UPDATE or INSERT that leaves row o in status `to'.
Write(o, to) ==
    /\ status' = [status EXCEPT ![o] = to]
    /\ moves'  = [moves EXCEPT ![o] =
                    IF status[o] = to THEN @ ELSE @ \cup {<<status[o], to>>}]

-----------------------------------------------------------------------------
(* POST /orders.  The product check and the row have no common transaction *)
(* and the id is fresh: what matters is that the row starts as pending.    *)

CreateOrder(r, o) ==
    /\ pc[r] = "idle"
    /\ status[o] = None
    /\ \/ /\ Write(o, "pending")
          /\ Goto(r, "publish")
          /\ job' = [job EXCEPT ![r] = [op |-> "create", order |-> o,
                                        to |-> "pending", seen |-> None]]
       \/ /\ Goto(r, "not_found")         \* ErrProductNotFound
          /\ UNCHANGED <<status, moves, job>>
    /\ UNCHANGED <<reason, batch, feed, trail>>

-----------------------------------------------------------------------------
(* PUT /orders/{id}/status and POST /orders/{id}/cancel: read, check the   *)
(* table, compare and set, read the items, publish, audit.                 *)

\* The new status handed to the UPDATE as the expected one.
ExpectedCurrent_Swapped(o, to) == to

\* What the UPDATE will expect to find: the status just read.
ExpectedCurrent(o, to) == status[o]

\* GetOrderByID, then CanTransition on what was read.
ReadAndCheck(r, op, o, to) ==
    /\ pc[r] = "idle"
    /\ \/ /\ status[o] = None
          /\ Goto(r, "not_found")
          /\ UNCHANGED job
       \/ /\ status[o] # None /\ ~CanTransition(status[o], to)
          /\ Goto(r, "invalid")
          /\ UNCHANGED job
       \/ /\ CanTransition(status[o], to)
          /\ Goto(r, "cas")
          /\ job' = [job EXCEPT ![r] = [op |-> op, order |-> o, to |-> to,
                                        seen |-> ExpectedCurrent(o, to)]]
    /\ UNCHANGED <<table, batch, feed, trail>>

UpdateOrderStatus(r, o, to) == ReadAndCheck(r, "update", o, to)

CancelOrder(r, o) == ReadAndCheck(r, "cancel", o, "cancelled")

\* The UPDATE without "AND status = $4".
RowMatches_ById(o, expected) == status[o] # None

RowMatches(o, expected) == status[o] = expected

CompareAndSet(r) ==
    LET o == job[r].order IN
    /\ pc[r] = "cas"
    /\ \/ /\ RowMatches(o, job[r].seen)
          /\ Write(o, job[r].to)
          /\ reason' = IF job[r].op = "cancel"
                       THEN [reason EXCEPT ![o] = TRUE] ELSE reason
          /\ Goto(r, "items")
       \/ /\ ~RowMatches(o, job[r].seen)
          /\ Goto(r, "reread")
          /\ UNCHANGED table
    /\ UNCHANGED <<job, batch, feed, trail>>

\* No row came back: the row is read again to tell a conflict from a failure.
\* If it has meanwhile returned to the expected status the answer is an error.
ExplainMiss(r) ==
    /\ pc[r] = "reread"
    /\ Goto(r, IF status[job[r].order] # job[r].seen THEN "conflict" ELSE "error")
    /\ UNCHANGED <<table, job, batch, feed, trail>>

\* The handler answers as soon as the row is written.
LoadItems_AnswersEarly(r) ==
    /\ pc[r] = "items"
    /\ Goto(r, "ok")
    /\ UNCHANGED <<table, job, batch, feed, trail>>

\* getOrderItems after the UPDATE has committed (its failure is Abort).
LoadItems(r) ==
    /\ pc[r] = "items"
    /\ Goto(r, "publish")
    /\ UNCHANGED <<table, job, batch, feed, trail>>

\* The event says what the caller asked for instead of what the row was.
EventOf_SwappedStatuses(r) ==
    [type |-> "status_changed", from |-> job[r].to, to |-> job[r].seen]

EventOf(r) ==
    CASE job[r].op = "create" ->
            [type |-> "created", from |-> None, to |-> "pending"]
      [] job[r].op = "cancel" ->
            [type |-> "cancelled", from |-> None, to |-> None]
      [] OTHER ->
            [type |-> "status_changed", from |-> job[r].seen, to |-> job[r].to]

\* A failed publication is logged and the request still answers with success.
Publish(r) ==
    /\ pc[r] = "publish"
    /\ \/ feed' = [feed EXCEPT ![job[r].order] = Append(@, EventOf(r))]
       \/ MayFail /\ UNCHANGED feed
    /\ Goto(r, "ok")
    /\ UNCHANGED <<table, job, batch, trail>>

-----------------------------------------------------------------------------
(* POST /orders/bulk-status: one SELECT for all ids, a check of every id   *)
(* against that snapshot, one unconditional UPDATE per id, and then one    *)
(* more read and one event per success.                                    *)

BulkUpdateStatus(r, ids, to, mode) ==
    /\ pc[r] = "idle"
    /\ job' = [job EXCEPT ![r].op = "bulk", ![r].to = to]
    /\ batch' = [batch EXCEPT ![r] = [NoBatch EXCEPT !.ids = ids, !.mode = mode]]
    /\ Goto(r, "bulk_load")
    /\ UNCHANGED <<table, feed, trail>>

BulkLoad(r) ==
    /\ pc[r] = "bulk_load"
    /\ \/ /\ batch' = [batch EXCEPT ![r].snap = status]
          /\ Goto(r, "bulk")
       \/ /\ MayFail
          /\ Goto(r, "load_error")
          /\ UNCHANGED batch
    /\ UNCHANGED <<table, job, feed, trail>>

\* Items written without looking the transition up.
BulkItemAllowed_Unchecked(r, o) == batch[r].snap[o] # None

\* The check of one id against the snapshot; an id without a row has None there.
BulkItemAllowed(r, o) == CanTransition(batch[r].snap[o], job[r].to)

BulkItem(r) ==
    LET b == batch[r]
        o == Head(b.ids)
        Failure == /\ batch' = [batch EXCEPT ![r] = [b EXCEPT !.ids = Tail(b.ids),
                                                              !.failed = TRUE]]
                   /\ UNCHANGED table
        Success == batch' = [batch EXCEPT ![r] = [b EXCEPT !.ids = Tail(b.ids),
                                          !.some = TRUE, !.done = Append(b.done, o)]]
    IN
    /\ pc[r] = "bulk"
    /\ b.ids # <<>>
    /\ \/ /\ ~BulkItemAllowed(r, o) \/ (MayFail /\ b.mode # "dry")   \* or execErr
          /\ Failure
       \/ /\ BulkItemAllowed(r, o)
          /\ b.mode = "dry"
          /\ Success
          /\ UNCHANGED table
       \/ /\ BulkItemAllowed(r, o)
          /\ b.mode # "dry"
          /\ Success
          /\ Write(o, job[r].to)
          /\ reason' = [reason EXCEPT ![o] = @ \/ b.mode = "note"]
    /\ UNCHANGED <<pc, job, feed, trail>>

\* The service's loop over Successes: read the row again ...
BulkReread(r) ==
    LET b == batch[r] IN
    /\ \/ pc[r] = "bulk" /\ b.ids = <<>>
       \/ pc[r] = "bulk_reread"
    /\ \/ /\ b.mode = "dry" \/ b.done = <<>>
          /\ Goto(r, "ok")
          /\ batch' = [batch EXCEPT ![r] = [b EXCEPT !.snap = NoBatch.snap, !.done = <<>>]]
          /\ UNCHANGED job
       \/ /\ b.mode # "dry" /\ b.done # <<>>
          /\ job' = [job EXCEPT ![r].order = Head(b.done),
                                ![r].seen = status[Head(b.done)]]
          /\ Goto(r, "bulk_publish")
          /\ UNCHANGED batch
       \/ /\ MayFail /\ b.mode # "dry" /\ b.done # <<>>              \* getErr: no event
          /\ batch' = [batch EXCEPT ![r].done = Tail(b.done)]
          /\ Goto(r, "bulk_reread")
          /\ UNCHANGED job
    /\ UNCHANGED <<table, feed, trail>>

\* ... and publish it with the status the snapshot had as previous_status.
BulkPublish(r) ==
    LET o == job[r].order IN
    /\ pc[r] = "bulk_publish"
    /\ batch[r].done # <<>>
    /\ \/ feed' = [feed EXCEPT ![o] = Append(@, [type |-> "status_changed",
                                   from |-> batch[r].snap[o], to |-> job[r].seen])]
       \/ MayFail /\ UNCHANGED feed
    /\ batch' = [batch EXCEPT ![r].done = Tail(@)]
    /\ Goto(r, "bulk_reread")
    /\ UNCHANGED <<table, job, trail>>

-----------------------------------------------------------------------------
\* The answer of the request in place of the outcome of the action.
AuditResult_Answer(r) == pc[r]

\* result_status of the row a request leaves in the audit log.
AuditResult(r) ==
    IF job[r].op # "bulk" THEN "success"
    ELSE IF ~batch[r].some THEN "failed"
    ELSE IF batch[r].failed THEN "partial" ELSE "success"

\* The goroutine of audit.Log, which outlives the request and may be lost.
WriteAudit(r) ==
    /\ trail[r] = "none"
    /\ \/ pc[r] = "ok" /\ batch[r].mode # "dry"
       \/ pc[r] = "load_error"                 \* a failed bulk SELECT is logged too
    /\ trail' = [trail EXCEPT ![r] = AuditResult(r)]
    /\ UNCHANGED <<table, handlers, feed>>

\* The request ends between two statements; what it wrote stays written.
Abort(r) ==
    /\ MayFail
    /\ pc[r] \in InFlight
    /\ Goto(r, "error")
    /\ UNCHANGED <<table, job, batch, feed, trail>>

-----------------------------------------------------------------------------
\* The handlers that guard their UPDATE with the status they read.
SingleStep(r) ==
    CompareAndSet(r) \/ ExplainMiss(r) \/ LoadItems(r) \/ Publish(r)

SingleNext ==
    \E r \in Request :
        \/ \E o \in Order :
              \/ CreateOrder(r, o)
              \/ CancelOrder(r, o)
              \/ \E to \in Target : UpdateOrderStatus(r, o, to)
        \/ SingleStep(r)
        \/ WriteAudit(r)
        \/ Abort(r)

\* The handler that does not.
BulkStep(r) ==
    BulkLoad(r) \/ BulkItem(r) \/ BulkReread(r) \/ BulkPublish(r)

BulkNext ==
    \E r \in Request :
        \/ \E ids \in Batch, to \in Target, mode \in {"dry", "plain", "note"} :
              BulkUpdateStatus(r, ids, to, mode)
        \/ BulkStep(r)

Next == SingleNext \/ BulkNext

\* The service, and the service while nobody calls the bulk endpoint.
Spec       == Init /\ [][Next]_vars
SingleSpec == Init /\ [][SingleNext]_vars

-----------------------------------------------------------------------------
(* Properties.                                                             *)

\* The statuses order o has had.
Visited(o) == {m[2] : m \in moves[o]}

\* Holds with the bulk endpoint: however its stale writes interleave with the
\* other handlers, no order has a status without having had every status that
\* must precede it (a completed order was once delivered, shipped, ...).
NoSkippedStage ==
    \A o \in Order : \A s \in Visited(o) : Upstream(s) \subseteq Visited(o)

\* Holds with the bulk endpoint: a request is answered 409 concurrent_update
\* only when the order really left the status the request had read.
ConflictIsReal ==
    \A r \in Request :
        pc[r] = "conflict" => \E m \in moves[job[r].order] : m[1] = job[r].seen

\* The status column moves only along validTransitions.  Holds for the handlers
\* that compare and set; the bulk endpoint breaks it.
TableRespected ==
    \A o \in Order : \A m \in moves[o] :
        m = <<None, "pending">> \/ m[2] \in Allowed(m[1])

\* Without the bulk endpoint the service implements the abstract lifecycle:
\* concurrent handlers never place an order twice or take a step off the table.
Lifecycle == INSTANCE OrderLifecycle
ImplementsLifecycle == Lifecycle!Spec

\* Without the bulk endpoint at most one order.cancelled goes out per order, so
\* a consumer that acts on it acts once, even when cancellations race.
CancelledOnce ==
    \A o \in Order : \A i, j \in DOMAIN feed[o] :
        feed[o][i].type = "cancelled" /\ feed[o][j].type = "cancelled" => i = j

\* Without the bulk endpoint every order.status_changed reports a change that
\* was committed, with the status it was committed from.
EventsAreMoves ==
    \A o \in Order : \A i \in DOMAIN feed[o] :
        feed[o][i].type = "status_changed" =>
            <<feed[o][i].from, feed[o][i].to>> \in moves[o]

\* Every request about o has been answered and its audit row is written.
Settled(o) ==
    \A r \in Request : job[r].order = o /\ pc[r] # "idle" =>
        pc[r] \in Answered /\ (pc[r] = "ok" => trail[r] # "none")

\* Without failures and bulk calls nothing moves silently: once the requests
\* about an order are over, each of its moves has an audited request and an
\* event that reports it.
EveryMoveAccountedFor ==
    \A o \in Order : Settled(o) => \A m \in moves[o] : \E r \in Request :
        /\ job[r].order = o /\ <<job[r].seen, job[r].to>> = m
        /\ trail[r] = "success"
        /\ \E i \in DOMAIN feed[o] :
              \/ feed[o][i].type = "created"   /\ m[1] = None
              \/ feed[o][i].type = "cancelled" /\ m[2] = "cancelled"
              \/ <<feed[o][i].from, feed[o][i].to>> = m

\* Without the bulk endpoint a reason is on record of cancelled orders only, and
\* no order.cancelled goes out without one, however cancellations race with
\* other moves.  (The status endpoint cancels with neither.)
CancelledForAReason ==
    \A o \in Order :
        /\ reason[o] => status[o] = "cancelled"
        /\ \A i \in DOMAIN feed[o] : feed[o][i].type = "cancelled" => reason[o]
=============================================================================
