--------------------------- MODULE ShipmentService ---------------------------
(***************************************************************************)
(* The handlers of the logistics service that work on an existing shipment *)
(* (services/logistics-service/internal), run concurrently by net/http:    *)
(* status and bulk status, redirect, hold, attempt, delivery, the contacts *)
(* of recipient and sender, the estimated delivery and free events.        *)
(*                                                                         *)
(* Each handler is a path of statements.  It reads the row, decides, and   *)
(* then writes by id alone: nothing but the single statement is atomic.    *)
(* Contacts are modelled by who wrote each field last.                     *)
(***************************************************************************)
EXTENDS ShipmentStatus, Naturals, FiniteSets, Sequences, FiniteSetsExt

CONSTANTS
    Shipment,   \* shipment ids
    Request,    \* HTTP requests, each used once
    Call,       \* the endpoints that are called (all of them: Endpoint)
    Target,     \* the statuses requests ask for (all of them: Status)
    Batch,      \* the updates lists a bulk request may carry
    Patch,      \* the sets of contact fields a request may provide
    Place,      \* the fields a redirect must provide: street and city
    Seed,       \* the shipments there are at the start, and what they have been through
    Past,       \* requests that came before
    Field,      \* the fields of a contact
    Sender      \* who wrote the contacts at first

Endpoint == {"status", "bulk", "redirect", "hold", "attempt", "delivery",
             "recipient", "sender", "reschedule", "event"}

\* The JSON columns of a shipment, written whole.
Column == {"recipient", "sender"}

ASSUME CallAssumption   == Call \subseteq Endpoint
ASSUME TargetAssumption == Target \subseteq Status
ASSUME BatchAssumption  == Batch \subseteq Seq(Shipment \X Status) \ {<<>>}
ASSUME PatchAssumption  == Patch \subseteq SUBSET Field /\ Place \subseteq Field
ASSUME SenderAssumption == Sender \notin Request
ASSUME PastAssumption   == Past \cap Request = {}
ASSUME ShipmentAssumption == Shipment # {}

\* A seed is a row whose statuses follow one another on the table, with its
\* attempts and their numbers, which may repeat.
ASSUME SeedAssumption ==
    \A seed \in Seed :
        /\ IsFiniteSet(seed.tries) /\ seed.tries \subseteq Past \X {1, 2}
        /\ seed.tries # {} => "delivery_attempted" \in seed.visited
        /\ \A t \in seed.tries : t[2] = 1 \/ \E u \in seed.tries : u[2] = 1
        /\ seed.status \in seed.visited /\ seed.visited \subseteq Status
        /\ \A to \in seed.visited :
              to = "label_created" \/ \E from \in seed.visited : CanTransition(from, to)
        /\ seed.visited \subseteq NotUnderWay \/ "picked_up" \in seed.visited

VARIABLES
    status,     \* status[s]: logistics.shipment.status
    attempts,   \* attempts[s]: logistics.shipment.delivery_attempts
    tries,      \* tries[s]: rows <<request, attempt_number>> of delivery_attempt
    contact,    \* contact[s][c][f]: who wrote field f of the JSON column c
    timeline,   \* timeline[s]: rows of shipment_event, as types and requests
    published,  \* published[s]: events about s, as subjects, statuses, requests
    pc,         \* pc[r]: the next statement of r
    job,        \* job[r]: the arguments of r
    seen,       \* seen[r]: current.Status, as the service read it
    copy,       \* copy[r]: the contact JSON r is about to write
    number,     \* number[r]: the attempt number r computed
    writes,     \* writes[s]: the status writes so far (history)
    failed,     \* the requests of which a statement or publication failed (history)
    seed        \* seed[s]: what s started with (history)

table  == <<status, attempts, tries, contact, writes>>
locals == <<seen, copy, number, seed>>
vars   == <<table, timeline, published, pc, job, failed, locals>>

-----------------------------------------------------------------------------
(* The paths of the handlers.                                              *)

Path ==
    [status     |-> <<"read", "write", "event", "publish", "milestone", "done">>,
     bulk       |-> <<"read", "write", "event", "publish", "milestone", "done">>,
     redirect   |-> <<"read", "load", "write", "event", "done">>,
     hold       |-> <<"write", "event", "done">>,
     attempt    |-> <<"read", "check", "number", "insert", "tell", "write", "event", "done">>,
     delivery   |-> <<"read", "write", "event", "milestone", "done">>,
     recipient  |-> <<"load", "write", "event", "done">>,
     sender     |-> <<"load", "write", "event", "done">>,
     reschedule |-> <<"write", "event", "done">>,
     event      |-> <<"event", "done">>]

InFlight == {"read", "load", "check", "number", "insert", "tell", "write",
             "event", "publish", "milestone"}

Row ==
    [by : Request,
     type : Status \cup {"recipient_updated", "sender_updated", "rescheduled", "note"}]

Announcement ==
    [by : Request, to : Status,
     subject : {"status_changed"} \cup UNION {Milestone(to) : to \in Status}]

TypeOK ==
    /\ status \in [Shipment -> Status] /\ attempts \in [Shipment -> Nat]
    /\ tries \in [Shipment -> SUBSET ((Request \cup Past) \X Nat)]
    /\ contact \in [Shipment -> [Column -> [Field -> Request \cup {Sender}]]]
    /\ timeline \in [Shipment -> SUBSET Row]
    /\ published \in [Shipment -> SUBSET Announcement]
    /\ pc \in [Request -> {"idle", "done"} \cup InFlight]
    /\ job \in [Request -> [op : Endpoint, items : Seq(Shipment \X Status), patch : SUBSET Field]]
    /\ seen \in [Request -> Status] /\ number \in [Request -> Nat]
    /\ copy \in [Request -> [Field -> Request \cup {Sender}]]
    /\ writes \in [Shipment -> SUBSET [by : Request, to : Status]]
    /\ failed \subseteq Request /\ seed \in [Shipment -> Seed]

Init ==
    /\ seed \in [Shipment -> Seed]
    /\ status    = [s \in Shipment |-> seed[s].status]
    /\ attempts  = [s \in Shipment |-> Cardinality(seed[s].tries)]
    /\ tries     = [s \in Shipment |-> seed[s].tries]
    /\ contact   = [s \in Shipment |-> [c \in Column |-> [f \in Field |-> Sender]]]
    /\ timeline  = [s \in Shipment |-> {}]
    /\ published = [s \in Shipment |-> {}]
    /\ pc     = [r \in Request |-> "idle"]
    /\ job    = [r \in Request |-> [op |-> "hold", items |-> <<>>, patch |-> {}]]
    /\ seen   = [r \in Request |-> "created"]
    /\ copy   = [r \in Request |-> [f \in Field |-> Sender]]
    /\ number = [r \in Request |-> 0]
    /\ writes = [s \in Shipment |-> {}]
    /\ failed = {}

Goto(r, label) == pc' = [pc EXCEPT ![r] = label]

\* The statement after the one r is at.
Following(r) ==
    LET path == Path[job[r].op]
        i    == CHOOSE i \in DOMAIN path : path[i] = pc[r]
    IN path[i + 1]

\* The handler is through with an item, in whatever way, and takes the next.
NextItem(r) ==
    /\ job' = [job EXCEPT ![r].items = Tail(@)]
    /\ Goto(r, IF Len(job[r].items) > 1 THEN "read" ELSE "done")

Proceed(r) ==
    IF Following(r) = "done" THEN NextItem(r)
    ELSE Goto(r, Following(r)) /\ UNCHANGED job

Fails(r) == failed' = failed \cup {r}

\* What r works on, and the status it wants there.
ShipOf(r) == Head(job[r].items)[1]
Wanted(r) == Head(job[r].items)[2]

-----------------------------------------------------------------------------
(* The handlers validate their bodies and begin.                           *)

Begin(r, op, items, patch) ==
    /\ op \in Call
    /\ pc[r] = "idle"
    /\ job' = [job EXCEPT ![r] = [op |-> op, items |-> items, patch |-> patch]]
    /\ Goto(r, Path[op][1])
    /\ UNCHANGED <<table, timeline, published, failed, locals>>

UpdateShipmentStatus(r, s, to) == Begin(r, "status", <<<<s, to>>>>, {})
BulkUpdateStatus(r, items)     == Begin(r, "bulk", items, {})
Redirect(r, s, patch)          == Begin(r, "redirect", <<<<s, "redirected">>>>, patch \cup Place)

\* A status the table does not know; the column has no CHECK.
HoldForPickup_Typo(r, s)       == Begin(r, "hold", <<<<s, "held_for_pickup">>>>, {})

HoldForPickup(r, s)            == Begin(r, "hold", <<<<s, "held_at_office">>>>, {})
RecordAttempt(r, s)            == Begin(r, "attempt", <<<<s, "delivery_attempted">>>>, {})
RecordDelivery(r, s)           == Begin(r, "delivery", <<<<s, "delivered">>>>, {})
UpdateRecipient(r, s, patch)   == Begin(r, "recipient", <<<<s, "created">>>>, patch)
UpdateSender(r, s, patch)      == Begin(r, "sender", <<<<s, "created">>>>, patch)
Reschedule(r, s)               == Begin(r, "reschedule", <<<<s, "created">>>>, {})
AddEvent(r, s)                 == Begin(r, "event", <<<<s, "created">>>>, {})

-----------------------------------------------------------------------------
(* Reading and deciding.                                                   *)

\* An attempt is refused later, by the storage; a delivery only if it is final.
Acceptable(r, current) ==
    CASE job[r].op \in {"status", "bulk"}       -> CanTransition(current, Wanted(r))
      [] job[r].op \in {"redirect", "delivery"} -> ~IsTerminal(current)
      [] OTHER                                  -> TRUE

\* GetShipmentByID and the check of the handler on what it returned.
ReadShipment(r) ==
    /\ pc[r] = "read"
    /\ seen' = [seen EXCEPT ![r] = status[ShipOf(r)]]
    /\ IF Acceptable(r, status[ShipOf(r)]) THEN Proceed(r) ELSE NextItem(r)
    /\ UNCHANGED <<table, timeline, published, failed, copy, number, seed>>

\* mergeAddress, mergeAddressFromStruct.
Merged(r, old) == [f \in Field |-> IF f \in job[r].patch THEN r ELSE old[f]]

\* The contact r reads and writes back.
ColumnOf(r) == IF job[r].op = "sender" THEN "sender" ELSE "recipient"

\* The second read of RedirectAddress, the only one of UpdateRecipient and of
\* UpdateSender.
LoadContact(r) ==
    /\ pc[r] = "load"
    /\ copy' = [copy EXCEPT ![r] = Merged(r, contact[ShipOf(r)][ColumnOf(r)])]
    /\ Proceed(r)
    /\ UNCHANGED <<table, timeline, published, failed, seen, number, seed>>

\* RecordDeliveryAttempt reads the row once more and refuses a final one.
CheckAttempt(r) ==
    /\ pc[r] = "check"
    /\ IF IsTerminal(status[ShipOf(r)]) THEN NextItem(r) ELSE Proceed(r)
    /\ UNCHANGED <<table, timeline, published, failed, locals>>

Numbers(s) == {t[2] : t \in tries[s]}

\* COUNT(*) + 1 in place of MAX + 1.
NextNumber_Count(s) == Cardinality(tries[s]) + 1

\* COALESCE(MAX(attempt_number),0) + 1, outside of the transaction.
NextNumber(s) == Max(Numbers(s) \cup {0}) + 1

NumberAttempt(r) ==
    /\ pc[r] = "number"
    /\ number' = [number EXCEPT ![r] = NextNumber(ShipOf(r))]
    /\ Proceed(r)
    /\ UNCHANGED <<table, timeline, published, failed, seen, copy, seed>>

-----------------------------------------------------------------------------
(* Writing.                                                                *)

\* Two statements without a transaction: the second may be missing.
InsertAttempt_NoTransaction(r) ==
    /\ pc[r] = "insert"
    /\ tries' = [tries EXCEPT ![ShipOf(r)] = @ \cup {<<r, number[r]>>}]
    /\ \/ attempts' = [attempts EXCEPT ![ShipOf(r)] = @ + 1] /\ Proceed(r)
       \/ UNCHANGED attempts /\ NextItem(r)
    /\ UNCHANGED <<status, contact, writes, timeline, published, failed, locals>>

\* The transaction: the attempt's row and the counter of the shipment.
InsertAttempt(r) ==
    /\ pc[r] = "insert"
    /\ tries' = [tries EXCEPT ![ShipOf(r)] = @ \cup {<<r, number[r]>>}]
    /\ attempts' = [attempts EXCEPT ![ShipOf(r)] = @ + 1]
    /\ Proceed(r)
    /\ UNCHANGED <<status, contact, writes, timeline, published, failed, locals>>

\* Attempts that leave the status alone until the third.
Verdict_Silent(r) ==
    IF number[r] >= 3 THEN {"returned_to_sender"} ELSE {}

\* What the end of RecordAttempt decides: nothing if the shipment was seen in
\* delivery_attempted before this attempt.
Verdict(r) ==
    IF number[r] >= 3 THEN {"returned_to_sender"}
    ELSE IF seen[r] # "delivery_attempted" THEN {"delivery_attempted"}
    ELSE {}

\* The statuses the UPDATE of r sets: one or none.
NewStatus(r) ==
    CASE job[r].op = "attempt"                               -> Verdict(r)
      [] job[r].op \in {"recipient", "sender", "reschedule"} -> {}
      [] OTHER                                               -> {Wanted(r)}

SetStatus(r, s) ==
    /\ status' = [status EXCEPT ![s] = IF NewStatus(r) = {} THEN @
                                       ELSE CHOOSE to \in NewStatus(r) : TRUE]
    /\ writes' = [writes EXCEPT ![s] = @ \cup {[by |-> r, to |-> to] : to \in NewStatus(r)}]

\* The UPDATE ... WHERE id = $n of every handler.
WriteShipment(r) ==
    LET s == ShipOf(r) IN
    /\ pc[r] = "write"
    /\ \/ /\ SetStatus(r, s)
          /\ contact' = IF job[r].op \in {"redirect", "recipient", "sender"}
                        THEN [contact EXCEPT ![s][ColumnOf(r)] = copy[r]] ELSE contact
          /\ UNCHANGED failed
       \/ /\ job[r].op = "attempt"                    \* the error is dropped
          /\ Fails(r)
          /\ UNCHANGED <<status, writes, contact>>
    /\ Proceed(r)
    /\ UNCHANGED <<attempts, tries, timeline, published, locals>>

-----------------------------------------------------------------------------
(* Telling.                                                                *)

\* The event types of the timeline row that goes with the write, if any.
EventType(r) ==
    CASE job[r].op = "attempt"    -> IF number[r] >= 3 THEN {"returned_to_sender"} ELSE {}
      [] job[r].op = "recipient"  -> {"recipient_updated"}
      [] job[r].op = "sender"     -> {"sender_updated"}
      [] job[r].op = "reschedule" -> {"rescheduled"}
      [] job[r].op = "event"      -> {"note"}           \* whatever type the client names
      [] OTHER                    -> {Wanted(r)}

\* RecordEvent of the storage, whose error every caller but AddEvent drops.
AddRows(r, types) ==
    \/ /\ timeline' = [timeline EXCEPT ![ShipOf(r)] =
                           @ \cup {[by |-> r, type |-> type] : type \in types}]
       /\ UNCHANGED failed
    \/ Fails(r) /\ UNCHANGED timeline

\* The attempt's own row goes to the timeline before the verdict.
TellAttempt(r) ==
    /\ pc[r] = "tell"
    /\ AddRows(r, {"delivery_attempted"})
    /\ Proceed(r)
    /\ UNCHANGED <<table, published, locals>>

\* The timeline row of a hold goes missing.
RecordEvent_NotHeld(r) ==
    /\ pc[r] = "event"
    /\ AddRows(r, EventType(r) \ {"held_at_office"})
    /\ Proceed(r)
    /\ UNCHANGED <<table, published, locals>>

RecordEvent(r) ==
    /\ pc[r] = "event"
    /\ AddRows(r, EventType(r))
    /\ Proceed(r)
    /\ UNCHANGED <<table, published, locals>>

Announce(r, subjects) ==
    \/ /\ published' = [published EXCEPT ![ShipOf(r)] = @ \cup
              {[by |-> r, to |-> Wanted(r), subject |-> subject] : subject \in subjects}]
       /\ UNCHANGED failed
    \/ Fails(r) /\ UNCHANGED published

PublishStatusChanged(r) ==
    /\ pc[r] = "publish"
    /\ Announce(r, {"status_changed"})
    /\ Proceed(r)
    /\ UNCHANGED <<table, timeline, locals>>

\* A milestone is published only with a status change from elsewhere.
PublishMilestone_StatusOnly(r) ==
    /\ pc[r] = "milestone"
    /\ Announce(r, IF job[r].op = "delivery" THEN {} ELSE Milestone(Wanted(r)))
    /\ Proceed(r)
    /\ UNCHANGED <<table, timeline, locals>>

PublishMilestone(r) ==
    /\ pc[r] = "milestone"
    /\ Announce(r, Milestone(Wanted(r)))
    /\ Proceed(r)
    /\ UNCHANGED <<table, timeline, locals>>

\* A statement fails, or the request or the process ends: what is committed
\* stays.  A bulk request goes on with its next item if it still runs.
Abort(r) ==
    /\ pc[r] \in InFlight
    /\ Fails(r)
    /\ \/ NextItem(r)
       \/ Goto(r, "done") /\ UNCHANGED job
    /\ UNCHANGED <<table, timeline, published, locals>>

-----------------------------------------------------------------------------
Step(r) ==
    \/ ReadShipment(r) \/ LoadContact(r) \/ CheckAttempt(r) \/ NumberAttempt(r)
    \/ InsertAttempt(r) \/ TellAttempt(r) \/ WriteShipment(r) \/ RecordEvent(r)
    \/ PublishStatusChanged(r) \/ PublishMilestone(r)

Start(r) ==
    \/ \E s \in Shipment :
          \/ \E to \in Target : UpdateShipmentStatus(r, s, to)
          \/ HoldForPickup(r, s) \/ RecordAttempt(r, s) \/ RecordDelivery(r, s)
          \/ Reschedule(r, s) \/ AddEvent(r, s)
          \/ \E patch \in Patch :
                Redirect(r, s, patch) \/ UpdateRecipient(r, s, patch) \/ UpdateSender(r, s, patch)
    \/ \E items \in Batch : BulkUpdateStatus(r, items)

Next == \E r \in Request : Start(r) \/ Step(r) \/ Abort(r)

Spec == Init /\ [][Next]_vars

-----------------------------------------------------------------------------
(* Properties.                                                             *)

\* The statuses s has had, and the requests that went through without a failure.
Visited(s) == seed[s].visited \cup {w.to : w \in writes[s]}
Succeeded  == {r \in Request : pc[r] = "done"} \ failed

\* The service implements the record: however the unguarded writes interleave
\* and wherever handlers die, a status without an endpoint of its own follows one
\* the shipment has had, attempts are counted, and their numbers leave no gap.
Record == INSTANCE ShipmentRecord WITH
    visited <- [s \in Shipment |-> Visited(s)],
    numbers <- [s \in Shipment |-> Numbers(s)]
ImplementsRecord == Record!Spec

\* While only the status endpoints are called, single and bulk, no shipment is
\* on its way, delivered or returned that no courier has picked up.
PickedUpFirst ==
    \A s \in Shipment :
        \/ Visited(s) \subseteq NotUnderWay
        \/ "picked_up" \in Visited(s)
        \/ \E w \in writes[s] : job[w.by].op \notin {"status", "bulk"}

\* The timeline tells of every status that a request set and survived, and of
\* every contact it changed, whichever endpoint it called and whatever became of
\* the others.
TimelineComplete ==
    \A s \in Shipment :
        /\ \A w \in writes[s] : w.by \in Succeeded =>
              \E row \in timeline[s] : row.by = w.by /\ row.type = w.to
        /\ \A c \in Column, f \in Field : contact[s][c][f] \in Succeeded =>
              \E row \in timeline[s] : row.by = contact[s][c][f]

\* Each request that delivered a shipment and survived has announced it, by
\* whichever of the endpoints.
DeliveriesAnnounced ==
    \A s \in Shipment : \A w \in writes[s] : w.to = "delivered" /\ w.by \in Succeeded =>
        \E e \in published[s] : e.by = w.by /\ e.subject = "delivered"

\* delivery_attempts and the rows it counts never part, although attempts race
\* and numbers repeat.  One that was recorded without failures shows in the
\* status, and one with number 3 sends the shipment back, whatever the stale reads
\* were.
AttemptsShow ==
    \A s \in Shipment :
        /\ attempts[s] = Cardinality(tries[s])
        /\ \A t \in tries[s] : t[1] \in Succeeded =>
              /\ Visited(s) \cap {"delivery_attempted", "returned_to_sender"} # {}
              /\ t[2] >= 3 => "returned_to_sender" \in Visited(s)

\* docs/mcp-tools.md: "only provided fields change".  Does not hold when two
\* patches read the same recipient.
OnlyProvidedFieldsChange ==
    [][\A s \in Shipment, c \in Column, f \in Field : contact'[s][c][f] # contact[s][c][f]
            => \E r \in Request : f \in job[r].patch /\ contact'[s][c][f] = r
                                  /\ pc[r] = "write"]_vars

\* What a statement writes about s.
Writes(s) == writes'[s] \ writes[s]

\* docs/mcp-tools.md of a redirect: "Refused if delivered/returned/cancelled"; and
\* storage.go: "cannot record attempt for shipment in terminal status".  Neither
\* writes over a final status.  Does not hold: each refuses what it read first, and
\* a shipment that is delivered after that becomes redirected, or delivery_attempted.
FinalLeftAlone ==
    [][\A s \in Shipment : \A w \in Writes(s) :
           job[w.by].op \in {"redirect", "attempt"} => ~IsTerminal(status[s])]_vars
=============================================================================
