------------------------ MODULE ShipmentServiceProofs ------------------------
(***************************************************************************)
(* Proofs about the logistics service's shipments for every set of         *)
(* shipments, requests, statuses and patches.  Nothing but a statement is  *)
(* atomic, so the argument is about what a request still knows after       *)
(* others have written: the status it read is one the shipment has had     *)
(* (ReadIsHistory), the number it computed leaves no gap (NumbersFollow),  *)
(* and what it wrote is told, or it is on its way to tell it, or it failed *)
(* (StatusesTold, ContactsTold, DeliveriesTold).                           *)
(***************************************************************************)
EXTENDS ShipmentService, FiniteSetTheorems, TLAPS

\* The statements of a handler, and the one that comes next.
Statements(op) ==
    CASE op \in {"status", "bulk"} -> {"read", "write", "event", "publish", "milestone"}
      [] op = "redirect"           -> {"read", "load", "write", "event"}
      [] op = "attempt"            -> {"read", "check", "number", "insert", "tell", "write", "event"}
      [] op = "delivery"           -> {"read", "write", "event", "milestone"}
      [] op \in {"recipient", "sender"} -> {"load", "write", "event"}
      [] op \in {"hold", "reschedule"}  -> {"write", "event"}
      [] OTHER                     -> {"event"}

After(op, at) ==
    CASE at = "read" /\ op = "redirect" -> "load"
      [] at = "read" /\ op = "attempt"  -> "check"
      [] at = "read" /\ op \notin {"redirect", "attempt"} -> "write"
      [] at = "load"   -> "write"
      [] at = "check"  -> "number"
      [] at = "number" -> "insert"
      [] at = "insert" -> "tell"
      [] at = "tell"   -> "write"
      [] at = "write"  -> "event"
      [] at = "event" /\ op \in {"status", "bulk"} -> "publish"
      [] at = "event" /\ op = "delivery" -> "milestone"
      [] at = "publish" -> "milestone"
      [] OTHER -> "done"

\* A status that the endpoint has of its own.
OwnStatus ==
    [redirect |-> "redirected", hold |-> "held_at_office",
     attempt |-> "delivery_attempted", delivery |-> "delivered"]

ContactOps == {"redirect", "recipient", "sender"}

\* A request under way has an item, the only one unless it is a bulk request,
\* and is at a statement of its handler.
OnPath ==
    \A r \in Request : pc[r] \in InFlight =>
        /\ job[r].items # <<>>
        /\ job[r].op # "bulk" => Len(job[r].items) = 1
        /\ pc[r] \in Statements(job[r].op)
        /\ job[r].op \in DOMAIN OwnStatus => Wanted(r) = OwnStatus[job[r].op]

\* The row a request read had the status it saw, and has it in its history still.
ReadIsHistory ==
    /\ \A s \in Shipment : status[s] \in Visited(s)
    /\ \A r \in Request :
          /\ job[r].op = "attempt" /\ pc[r] \in {"check", "number", "insert", "tell", "write"}
                => seen[r] \in Visited(ShipOf(r))
          /\ job[r].op \in {"status", "bulk"} /\ pc[r] = "write"
                => seen[r] \in Visited(ShipOf(r)) /\ CanTransition(seen[r], Wanted(r))

\* The numbers given so far, and the one a request is about to use, leave no gap.
NumbersFollow ==
    /\ \A s \in Shipment : IsFiniteSet(tries[s]) /\ attempts[s] = Cardinality(tries[s])
    /\ \A s \in Shipment : \E k \in 0..attempts[s] : Numbers(s) = 1..k
    /\ \A r \in Request : pc[r] = "insert" =>
          number[r] \in Nat \ {0} /\ (number[r] = 1 \/ number[r] - 1 \in Numbers(ShipOf(r)))

\* An attempt has one row, and shows in the status once its handler has written.
Recorded(s, n) ==
    /\ Visited(s) \cap {"delivery_attempted", "returned_to_sender"} # {}
    /\ n >= 3 => "returned_to_sender" \in Visited(s)

AttemptsRecorded ==
    \A s \in Shipment : \A t \in tries[s] : t[1] \in Request =>
        /\ job[t[1]].op = "attempt" /\ t[2] = number[t[1]]
        /\ \/ pc[t[1]] \in {"tell", "write"} /\ ShipOf(t[1]) = s
           \/ pc[t[1]] \in {"event", "done"} /\ (t[1] \in failed \/ Recorded(s, t[2]))

Told(s, r, type) == [by |-> r, type |-> type] \in timeline[s]

\* A status that was set is told, is about to be, or its request failed.
StatusesTold ==
    /\ \A s \in Shipment : \A w \in writes[s] :
          /\ pc[w.by] # "idle"
          /\ \/ w.by \in failed
             \/ Told(s, w.by, w.to)
             \/ pc[w.by] = "event" /\ ShipOf(w.by) = s /\ w.to \in EventType(w.by)
    /\ \A r \in Request : job[r].op = "attempt" /\ pc[r] \in {"write", "event"} =>
          r \in failed \/ Told(ShipOf(r), r, "delivery_attempted")

\* So is a contact, also the one a request has read and will write back.
Accounted(s, r) ==
    \/ r = Sender
    \/ r \in failed
    \/ \E row \in timeline[s] : row.by = r
    \/ pc[r] = "event" /\ ShipOf(r) = s /\ job[r].op \in ContactOps

ContactsTold ==
    /\ \A s \in Shipment, c \in Column, f \in Field : Accounted(s, contact[s][c][f])
    /\ \A r \in Request : pc[r] = "write" /\ job[r].op \in ContactOps =>
          \A f \in Field : copy[r][f] = r \/ Accounted(ShipOf(r), copy[r][f])

\* So is a delivery.
DeliveriesTold ==
    \A s \in Shipment : \A w \in writes[s] : w.to = "delivered" =>
        \/ w.by \in failed
        \/ \E e \in published[s] : e.by = w.by /\ e.subject = "delivered"
        \/ /\ pc[w.by] \in {"event", "publish", "milestone"} /\ ShipOf(w.by) = s
           /\ job[w.by].op \in {"status", "bulk", "delivery"} /\ Wanted(w.by) = "delivered"

ShipInv ==
    /\ TypeOK
    /\ OnPath
    /\ ReadIsHistory
    /\ NumbersFollow
    /\ AttemptsRecorded
    /\ StatusesTold
    /\ ContactsTold
    /\ DeliveriesTold
    /\ PickedUpFirst

-----------------------------------------------------------------------------
\* Lemmas on the paths: where a request goes from each of its statements.

LEMMA PlaceInPath ==
  ASSUME NEW path, NEW at, NEW k \in DOMAIN path, path[k] = at,
         \A i \in DOMAIN path : path[i] = at => i = k
  PROVE  (CHOOSE i \in DOMAIN path : path[i] = at) = k
  OBVIOUS

LEMMA Follows ==
  ASSUME NEW r \in Request, job[r].op \in Endpoint, pc[r] \in Statements(job[r].op)
  PROVE  Following(r) = After(job[r].op, pc[r])
  <1> DEFINE op == job[r].op
             at == pc[r]
             path == Path[op]
  <1>1. ASSUME NEW k \in DOMAIN path, path[k] = at,
               \A i \in DOMAIN path : path[i] = at => i = k
        PROVE  Following(r) = path[k + 1]
    BY <1>1, PlaceInPath DEF Following
  <1>2. CASE op \in {"status", "bulk"}
    <2>1. path = <<"read", "write", "event", "publish", "milestone", "done">>
      BY <1>2 DEF Path
    <2>2. at \in {"read", "write", "event", "publish", "milestone"}
      BY <1>2 DEF Statements
    <2> QED
      BY <1>1, <1>2, <2>1, <2>2 DEF After
  <1>3. CASE op = "redirect"
    <2>1. path = <<"read", "load", "write", "event", "done">>
      BY <1>3 DEF Path
    <2>2. at \in {"read", "load", "write", "event"}
      BY <1>3 DEF Statements
    <2>3. CASE at = "read"
      BY <1>1, <1>3, <2>1, <2>3 DEF After
    <2>4. CASE at = "load"
      BY <1>1, <1>3, <2>1, <2>4 DEF After
    <2>5. CASE at = "write"
      BY <1>1, <1>3, <2>1, <2>5 DEF After
    <2>6. CASE at = "event"
      BY <1>1, <1>3, <2>1, <2>6 DEF After
    <2> QED
      BY <2>2, <2>3, <2>4, <2>5, <2>6
  <1>4. CASE op = "attempt"
    <2>1. path = <<"read", "check", "number", "insert", "tell", "write", "event", "done">>
      BY <1>4 DEF Path
    <2>2. at \in {"read", "check", "number", "insert", "tell", "write", "event"}
      BY <1>4 DEF Statements
    <2> QED
      BY <1>1, <1>4, <2>1, <2>2 DEF After
  <1>5. CASE op = "delivery"
    <2>1. path = <<"read", "write", "event", "milestone", "done">>
      BY <1>5 DEF Path
    <2>2. at \in {"read", "write", "event", "milestone"}
      BY <1>5 DEF Statements
    <2> QED
      BY <1>1, <1>5, <2>1, <2>2 DEF After
  <1>6. CASE op \in {"recipient", "sender"}
    <2>1. path = <<"load", "write", "event", "done">>
      BY <1>6 DEF Path
    <2>2. at \in {"load", "write", "event"}
      BY <1>6 DEF Statements
    <2> QED
      BY <1>1, <1>6, <2>1, <2>2 DEF After
  <1>7. CASE op \in {"hold", "reschedule"}
    <2>1. path = <<"write", "event", "done">>
      BY <1>7 DEF Path
    <2>2. at \in {"write", "event"}
      BY <1>7 DEF Statements
    <2> QED
      BY <1>1, <1>7, <2>1, <2>2 DEF After
  <1>8. CASE op = "event"
    <2>1. path = <<"event", "done">>
      BY <1>8 DEF Path
    <2>2. at = "event"
      BY <1>8 DEF Statements
    <2> QED
      BY <1>1, <1>8, <2>1, <2>2 DEF After
  <1> QED
    BY <1>2, <1>3, <1>4, <1>5, <1>6, <1>7, <1>8 DEF Endpoint

LEMMA Begins ==
  ASSUME NEW op \in Endpoint
  PROVE  Path[op][1] \in Statements(op) /\ Path[op][1] \in InFlight
  BY DEF Endpoint, Path, Statements, InFlight

LEMMA AfterStays ==
  ASSUME NEW op \in Endpoint, NEW at \in Statements(op), After(op, at) # "done"
  PROVE  After(op, at) \in Statements(op) /\ After(op, at) \in InFlight
  BY DEF Endpoint, Statements, After, InFlight

\* What a request under way works on.
LEMMA AtWork ==
  ASSUME TypeOK, OnPath, NEW r \in Request, pc[r] \in InFlight
  PROVE  /\ ShipOf(r) \in Shipment /\ Wanted(r) \in Status
         /\ job[r].op \in Endpoint /\ pc[r] \in Statements(job[r].op)
         /\ job[r].items \in Seq(Shipment \X Status) /\ Len(job[r].items) > 0
         /\ job[r].patch \subseteq Field
  <1>1. job[r] \in [op : Endpoint, items : Seq(Shipment \X Status), patch : SUBSET Field]
    BY DEF TypeOK
  <1>2. Len(job[r].items) > 0
    BY <1>1 DEF OnPath
  <1>3. Head(job[r].items) \in Shipment \X Status
    BY <1>1, <1>2
  <1> QED
    BY <1>1, <1>2, <1>3 DEF OnPath, ShipOf, Wanted

\* The control of a request goes to its next statement, or it is through with
\* the item; the others stay where they are.
Onward(r) ==
    \/ /\ pc'[r] = After(job[r].op, pc[r]) /\ pc'[r] # "done"
       /\ job' = job
    \/ /\ pc'[r] \in {"read", "done"}
       /\ job[r].op # "bulk" => pc'[r] = "done"

Moved(r) ==
    /\ \A q \in Request \ {r} : pc'[q] = pc[q] /\ job'[q] = job[q]
    /\ job'[r].op = job[r].op /\ job'[r].patch = job[r].patch
    /\ Onward(r)
    /\ pc' \in [Request -> {"idle", "done"} \cup InFlight]
    /\ job' \in [Request -> [op : Endpoint, items : Seq(Shipment \X Status), patch : SUBSET Field]]
    /\ OnPath'

LEMMA ItemDone ==
  ASSUME TypeOK, OnPath, NEW r \in Request, pc[r] \in InFlight, NextItem(r)
  PROVE  Moved(r) /\ pc'[r] \in {"read", "done"} /\ (job[r].op # "bulk" => pc'[r] = "done")
  <1> DEFINE Jobs == [op : Endpoint, items : Seq(Shipment \X Status), patch : SUBSET Field]
             rest == Tail(job[r].items)
  <1>1. job[r] \in Jobs /\ job \in [Request -> Jobs]
        /\ pc \in [Request -> {"idle", "done"} \cup InFlight]
    BY DEF TypeOK
  <1>2. Len(job[r].items) > 0 /\ job[r].op \in Endpoint /\ pc[r] \in Statements(job[r].op)
    BY AtWork
  <1>3. rest \in Seq(Shipment \X Status) /\ Len(rest) = Len(job[r].items) - 1
    BY <1>1, <1>2
  <1>4. job' = [job EXCEPT ![r] = [job[r] EXCEPT !.items = rest]]
    BY DEF NextItem
  <1>5. job' \in [Request -> Jobs] /\ job'[r].items = rest
        /\ job'[r].op = job[r].op /\ job'[r].patch = job[r].patch
        /\ \A q \in Request \ {r} : job'[q] = job[q]
    BY <1>1, <1>3, <1>4
  <1>6. /\ pc' = [pc EXCEPT ![r] = IF Len(job[r].items) > 1 THEN "read" ELSE "done"]
        /\ pc' \in [Request -> {"idle", "done"} \cup InFlight]
    BY <1>1 DEF NextItem, Goto, InFlight
  <1>7. pc'[r] \in {"read", "done"} /\ (job[r].op # "bulk" => pc'[r] = "done")
    <2> DEFINE items == job[r].items
               more == Len(items) > 1
    <2>1. job[r].op # "bulk" => Len(items) = 1
      BY DEF OnPath
    <2>2. Len(items) = 1 => ~more
      <3> HIDE DEF items
      <3> QED
        OBVIOUS
    <2> HIDE DEF Jobs, rest, more
    <2>3. pc'[r] = IF more THEN "read" ELSE "done"
      BY <1>1, <1>6 DEF more
    <2> QED
      BY <2>1, <2>2, <2>3
  <1>8. OnPath'
    <2> SUFFICES ASSUME NEW q \in Request, pc'[q] \in InFlight
                 PROVE  /\ job'[q].items # <<>>
                        /\ job'[q].op # "bulk" => Len(job'[q].items) = 1
                        /\ pc'[q] \in Statements(job'[q].op)
                        /\ job'[q].op \in DOMAIN OwnStatus => Wanted(q)' = OwnStatus[job'[q].op]
      BY DEF OnPath
    <2>1. CASE q # r
      BY <1>1, <1>5, <1>6, <2>1 DEF OnPath, Wanted
    <2>2. CASE q = r
      <3>1. pc'[r] = "read" /\ job[r].op = "bulk" /\ Len(rest) > 0
        BY <1>1, <1>2, <1>3, <1>6, <1>7, <2>2 DEF InFlight
      <3>2. rest # <<>>
        <4> HIDE DEF rest
        <4> QED
          BY <1>3, <3>1
      <3>4. job'[q].op = "bulk" /\ job'[q].items = rest
        BY <1>5, <2>2, <3>1
      <3>3. pc'[q] \in Statements("bulk") /\ "bulk" \notin DOMAIN OwnStatus
        BY <2>2, <3>1 DEF Statements, OwnStatus
      <3> QED
        BY <3>2, <3>3, <3>4
    <2> QED
      BY <2>1, <2>2
  <1> QED
    BY <1>1, <1>5, <1>6, <1>7, <1>8 DEF Moved, Onward

LEMMA Proceeds ==
  ASSUME TypeOK, OnPath, NEW r \in Request, pc[r] \in InFlight, Proceed(r)
  PROVE  /\ Moved(r)
         /\ \/ pc'[r] = After(job[r].op, pc[r]) /\ pc'[r] # "done" /\ job' = job
            \/ /\ After(job[r].op, pc[r]) = "done"
               /\ pc'[r] \in {"read", "done"} /\ (job[r].op # "bulk" => pc'[r] = "done")
  <1>1. job[r].op \in Endpoint /\ pc[r] \in Statements(job[r].op)
    BY AtWork
  <1>2. Following(r) = After(job[r].op, pc[r])
    BY <1>1, Follows
  <1>3. CASE After(job[r].op, pc[r]) = "done"
    BY <1>2, <1>3, ItemDone DEF Proceed
  <1>4. CASE After(job[r].op, pc[r]) # "done"
    <2>1. pc' = [pc EXCEPT ![r] = After(job[r].op, pc[r])] /\ job' = job
      BY <1>2, <1>4 DEF Proceed, Goto
    <2>2. After(job[r].op, pc[r]) \in Statements(job[r].op) \cap InFlight
      BY <1>1, <1>4, AfterStays
    <2>3. pc' \in [Request -> {"idle", "done"} \cup InFlight] /\ pc'[r] = After(job[r].op, pc[r])
      BY <2>1, <2>2 DEF TypeOK
    <2>4. OnPath'
      BY <2>1, <2>2 DEF OnPath, Wanted, TypeOK
    <2> QED
      BY <1>4, <2>1, <2>3, <2>4 DEF Moved, Onward, TypeOK
  <1> QED
    BY <1>3, <1>4

LEMMA Dies ==
  ASSUME TypeOK, OnPath, NEW r \in Request, pc[r] \in InFlight,
         Goto(r, "done"), UNCHANGED job
  PROVE  Moved(r) /\ pc'[r] = "done"
  <1>1. pc' = [pc EXCEPT ![r] = "done"] /\ pc'[r] = "done"
    BY DEF Goto, TypeOK
  <1>2. OnPath'
    BY <1>1 DEF OnPath, Wanted, TypeOK, InFlight
  <1> QED
    BY <1>1, <1>2 DEF Moved, Onward, TypeOK

-----------------------------------------------------------------------------
\* What a step of one request leaves alone: the others, and what has happened.

Alone(r) ==
    /\ \A q \in Request \ {r} :
          /\ pc'[q] = pc[q] /\ job'[q] = job[q]
          /\ seen'[q] = seen[q] /\ copy'[q] = copy[q] /\ number'[q] = number[q]
    /\ failed \subseteq failed' /\ seed' = seed
    /\ \A s \in Shipment :
          /\ tries[s] \subseteq tries'[s] /\ writes[s] \subseteq writes'[s]
          /\ timeline[s] \subseteq timeline'[s] /\ published[s] \subseteq published'[s]

\* The status of the endpoint, if it has one.
Fits(op, to) == op \in DOMAIN OwnStatus => to = OwnStatus[op]

LEMMA EndpointsFit ==
  /\ "status" \in Endpoint /\ \A to : Fits("status", to)
  /\ "redirect" \in Endpoint /\ Fits("redirect", "redirected")
  /\ "hold" \in Endpoint /\ Fits("hold", "held_at_office")
  /\ "attempt" \in Endpoint /\ Fits("attempt", "delivery_attempted")
  /\ "delivery" \in Endpoint /\ Fits("delivery", "delivered")
  /\ "recipient" \in Endpoint /\ Fits("recipient", "created")
  /\ "sender" \in Endpoint /\ Fits("sender", "created")
  /\ "reschedule" \in Endpoint /\ Fits("reschedule", "created")
  /\ "event" \in Endpoint /\ Fits("event", "created")
  /\ {"redirected", "held_at_office", "delivery_attempted", "delivered", "created"} \subseteq Status
  BY DEF Endpoint, Fits, OwnStatus, Status

\* A handler has validated its body: a list of at least one item, the only one
\* unless the request is a bulk one.
Valid(op, items, patch) ==
    /\ op \in Endpoint /\ patch \subseteq Field
    /\ items \in Seq(Shipment \X Status) /\ items # <<>>
    /\ op # "bulk" => Len(items) = 1
    /\ Fits(op, Head(items)[2])

LEMMA StartIsValid ==
  ASSUME NEW r \in Request, Start(r)
  PROVE  \E op, items, patch : Valid(op, items, patch) /\ Begin(r, op, items, patch)
  <1> DEFINE Goal == \E op, items, patch : Valid(op, items, patch) /\ Begin(r, op, items, patch)
  <1>1. ASSUME NEW s \in Shipment, NEW to \in Status, NEW op \in Endpoint,
               NEW patch \in SUBSET Field, op # "bulk",
               Fits(op, to),
               Begin(r, op, <<<<s, to>>>>, patch)
        PROVE  Goal
    <2>1. <<<<s, to>>>> \in Seq(Shipment \X Status) /\ Len(<<<<s, to>>>>) = 1
      OBVIOUS
    <2>2. Head(<<<<s, to>>>>)[2] = to
      OBVIOUS
    <2> QED
      BY <1>1, <2>1, <2>2 DEF Valid
  <1> HIDE DEF Goal
  <1>2. {} \in SUBSET Field
    OBVIOUS
  <1>3. Target \subseteq Status /\ Place \in SUBSET Field /\ Patch \subseteq SUBSET Field
    BY TargetAssumption, PatchAssumption
  <1>4. ASSUME NEW s \in Shipment, NEW to \in Target, UpdateShipmentStatus(r, s, to)
        PROVE  Goal
    BY <1>1, <1>2, <1>3, <1>4, EndpointsFit DEF UpdateShipmentStatus
  <1>5. ASSUME NEW s \in Shipment, HoldForPickup(r, s) PROVE Goal
    BY <1>1, <1>2, <1>5, EndpointsFit DEF HoldForPickup
  <1>6. ASSUME NEW s \in Shipment, RecordAttempt(r, s) PROVE Goal
    BY <1>1, <1>2, <1>6, EndpointsFit DEF RecordAttempt
  <1>7. ASSUME NEW s \in Shipment, RecordDelivery(r, s) PROVE Goal
    BY <1>1, <1>2, <1>7, EndpointsFit DEF RecordDelivery
  <1>8. ASSUME NEW s \in Shipment, Reschedule(r, s) PROVE Goal
    BY <1>1, <1>2, <1>8, EndpointsFit DEF Reschedule
  <1>9. ASSUME NEW s \in Shipment, AddEvent(r, s) PROVE Goal
    BY <1>1, <1>2, <1>9, EndpointsFit DEF AddEvent
  <1>10. ASSUME NEW s \in Shipment, NEW patch \in Patch, Redirect(r, s, patch) PROVE Goal
    <2>1. patch \cup Place \in SUBSET Field
      BY <1>3
    <2> QED
      BY <1>1, <1>10, <2>1, EndpointsFit DEF Redirect
  <1>11. ASSUME NEW s \in Shipment, NEW patch \in Patch, UpdateRecipient(r, s, patch) PROVE Goal
    BY <1>1, <1>3, <1>11, EndpointsFit DEF UpdateRecipient
  <1>12. ASSUME NEW s \in Shipment, NEW patch \in Patch, UpdateSender(r, s, patch) PROVE Goal
    BY <1>1, <1>3, <1>12, EndpointsFit DEF UpdateSender
  <1>13. ASSUME NEW items \in Batch, BulkUpdateStatus(r, items) PROVE Goal
    <2>1. Valid("bulk", items, {})
      BY BatchAssumption DEF Valid, Endpoint, Fits, OwnStatus
    <2> QED
      BY <1>13, <2>1 DEF BulkUpdateStatus, Goal
  <1> QED
    BY <1>4, <1>5, <1>6, <1>7, <1>8, <1>9, <1>10, <1>11, <1>12, <1>13 DEF Start, Goal

\* A request begins, and nothing else happens.
Begun(r) ==
    /\ pc[r] = "idle"
    /\ pc'[r] \in InFlight /\ pc'[r] \in {"read", "load", "write", "event"}
    /\ pc'[r] = "load" => job'[r].op \in {"recipient", "sender"}
    /\ pc'[r] = "write" => job'[r].op \in {"hold", "reschedule"}
    /\ pc'[r] = "event" => job'[r].op = "event"
    /\ UNCHANGED <<table, timeline, published, failed, locals>>

LEMMA StartStep ==
  ASSUME TypeOK, OnPath, NEW r \in Request, Start(r)
  PROVE  TypeOK' /\ OnPath' /\ Alone(r) /\ Begun(r)
  <1>1. PICK op, items, patch : Valid(op, items, patch) /\ Begin(r, op, items, patch)
    BY StartIsValid
  <1> DEFINE new == [op |-> op, items |-> items, patch |-> patch]
  <1>2. /\ pc[r] = "idle"
        /\ job' = [job EXCEPT ![r] = new]
        /\ pc' = [pc EXCEPT ![r] = Path[op][1]]
        /\ UNCHANGED <<table, timeline, published, failed, locals>>
    BY <1>1 DEF Begin, Goto
  <1>3. Path[op][1] \in Statements(op) /\ Path[op][1] \in InFlight
    BY <1>1, Begins DEF Valid
  <1>4. new \in [op : Endpoint, items : Seq(Shipment \X Status), patch : SUBSET Field]
    BY <1>1 DEF Valid
  <1>5. job'[r] = new /\ pc'[r] = Path[op][1]
        /\ \A q \in Request \ {r} : pc'[q] = pc[q] /\ job'[q] = job[q]
    BY <1>2 DEF TypeOK
  <1>6. TypeOK'
    <2>1. job' \in [Request -> [op : Endpoint, items : Seq(Shipment \X Status), patch : SUBSET Field]]
      BY <1>2, <1>4 DEF TypeOK
    <2>2. pc' \in [Request -> {"idle", "done"} \cup InFlight]
      BY <1>2, <1>3 DEF TypeOK
    <2> QED
      BY <1>2, <2>1, <2>2 DEF TypeOK, table, locals
  <1>7. OnPath'
    <2> SUFFICES ASSUME NEW q \in Request, pc'[q] \in InFlight
                 PROVE  /\ job'[q].items # <<>>
                        /\ job'[q].op # "bulk" => Len(job'[q].items) = 1
                        /\ pc'[q] \in Statements(job'[q].op)
                        /\ job'[q].op \in DOMAIN OwnStatus => Wanted(q)' = OwnStatus[job'[q].op]
      BY DEF OnPath
    <2>1. CASE q # r
      BY <1>5, <2>1 DEF OnPath, Wanted
    <2>2. CASE q = r
      BY <1>1, <1>3, <1>5, <2>2 DEF Valid, Wanted, Fits
    <2> QED
      BY <2>1, <2>2
  <1>8. Begun(r)
    <2>1. op \in Endpoint /\ job'[r].op = op
      BY <1>1, <1>5 DEF Valid
    <2>2. Path[op][1] \in {"read", "load", "write", "event"}
          /\ (Path[op][1] = "load" => op \in {"recipient", "sender"})
          /\ (Path[op][1] = "write" => op \in {"hold", "reschedule"})
          /\ (Path[op][1] = "event" => op = "event")
      BY <2>1 DEF Endpoint, Path
    <2> QED
      BY <1>2, <1>3, <1>5, <2>1, <2>2 DEF Begun
  <1> QED
    BY <1>2, <1>5, <1>6, <1>7, <1>8 DEF Alone, table, locals

-----------------------------------------------------------------------------
\* The steps of a request under way.

LEMMA NumberIsNext ==
  ASSUME NumbersFollow, NEW s \in Shipment, NEW k \in Nat, Numbers(s) = 1..k
  PROVE  NextNumber(s) = k + 1
  <1> DEFINE S == (1..k) \cup {0}
  <1>1. Max(S) = k
    <2>1. k \in S /\ \A y \in S : k >= y
      OBVIOUS
    <2>2. Max(S) \in S /\ \A y \in S : Max(S) >= y
      BY <2>1 DEF Max
    <2>3. S \subseteq Nat
      OBVIOUS
    <2> HIDE DEF S
    <2>4. Max(S) >= k /\ k >= Max(S) /\ Max(S) \in Nat
      BY <2>1, <2>2, <2>3
    <2> QED
      BY <2>4
  <1> QED
    BY <1>1 DEF NextNumber

LEMMA VerdictIsStatus ==
  ASSUME TypeOK, OnPath, NEW r \in Request, pc[r] \in InFlight
  PROVE  /\ NewStatus(r) \subseteq Status
         /\ NewStatus(r) = {} \/ \E to \in Status : NewStatus(r) = {to}
         /\ EventType(r) \subseteq Status \cup
                {"recipient_updated", "sender_updated", "rescheduled", "note"}
         /\ \A to : to \in NewStatus(r) => (CHOOSE x \in NewStatus(r) : TRUE) = to
  <1>1. Wanted(r) \in Status /\ job[r].op \in Endpoint
    BY AtWork
  <1>2. {"returned_to_sender", "delivery_attempted"} \subseteq Status
    BY DEF Status
  <1>3. NewStatus(r) = {} \/ \E to \in Status : NewStatus(r) = {to}
    BY <1>1, <1>2 DEF NewStatus, Verdict
  <1>4. EventType(r) \subseteq Status \cup
            {"recipient_updated", "sender_updated", "rescheduled", "note"}
    BY <1>1, <1>2 DEF EventType
  <1> QED
    BY <1>3, <1>4

LEMMA StepMoves ==
  ASSUME TypeOK, OnPath, NEW r \in Request, Step(r) \/ Abort(r)
  PROVE  pc[r] \in InFlight /\ Moved(r)
  <1>1. ASSUME Proceed(r) \/ NextItem(r), pc[r] \in InFlight PROVE Moved(r)
    BY <1>1, Proceeds, ItemDone
  <1>2. CASE Abort(r)
    BY <1>1, <1>2, Dies DEF Abort
  <1>3. ASSUME Step(r) PROVE (Proceed(r) \/ NextItem(r)) /\ pc[r] \in InFlight
    BY <1>3 DEF Step, ReadShipment, LoadContact, CheckAttempt, NumberAttempt, InsertAttempt,
                TellAttempt, WriteShipment, RecordEvent, PublishStatusChanged,
                PublishMilestone, InFlight
  <1> QED
    BY <1>1, <1>2, <1>3

LEMMA StepTypes ==
  ASSUME TypeOK, OnPath, NumbersFollow, NEW r \in Request, Step(r) \/ Abort(r)
  PROVE  TypeOK' /\ OnPath' /\ Alone(r)
  <1>1. pc[r] \in InFlight /\ Moved(r)
    BY StepMoves
  <1>2. /\ OnPath'
        /\ \A q \in Request \ {r} : pc'[q] = pc[q] /\ job'[q] = job[q]
        /\ pc' \in [Request -> {"idle", "done"} \cup InFlight]
        /\ job' \in [Request -> [op : Endpoint, items : Seq(Shipment \X Status), patch : SUBSET Field]]
    BY <1>1 DEF Moved
  <1>3. ShipOf(r) \in Shipment /\ Wanted(r) \in Status /\ job[r].patch \subseteq Field
        /\ job[r].op \in Endpoint
    BY <1>1, AtWork
  <1>4. CASE ReadShipment(r)
    BY <1>2, <1>3, <1>4 DEF ReadShipment, TypeOK, Alone, table
  <1>5. CASE LoadContact(r)
    <2>1. Merged(r, contact[ShipOf(r)][ColumnOf(r)]) \in [Field -> Request \cup {Sender}]
      BY <1>3 DEF Merged, ColumnOf, Column, TypeOK
    <2> QED
      BY <1>2, <1>5, <2>1 DEF LoadContact, TypeOK, Alone, table
  <1>6. CASE CheckAttempt(r)
    BY <1>2, <1>6 DEF CheckAttempt, TypeOK, Alone, table, locals
  <1>7. CASE NumberAttempt(r)
    <2>1. NextNumber(ShipOf(r)) \in Nat
      BY <1>3, NumberIsNext DEF NumbersFollow, TypeOK
    <2> QED
      BY <1>2, <1>7, <2>1 DEF NumberAttempt, TypeOK, Alone, table
  <1>8. CASE InsertAttempt(r)
    <2>1. tries' \in [Shipment -> SUBSET ((Request \cup Past) \X Nat)]
      BY <1>3, <1>8 DEF InsertAttempt, TypeOK
    <2>2. attempts' \in [Shipment -> Nat]
      BY <1>3, <1>8 DEF InsertAttempt, TypeOK
    <2>3. \A s \in Shipment : tries[s] \subseteq tries'[s]
      BY <1>3, <1>8 DEF InsertAttempt, TypeOK
    <2> QED
      BY <1>2, <1>8, <2>1, <2>2, <2>3 DEF InsertAttempt, TypeOK, Alone, locals
  <1>9. ASSUME NEW types \in SUBSET (Status \cup {"recipient_updated", "sender_updated",
                                                   "rescheduled", "note"}),
               AddRows(r, types)
        PROVE  /\ timeline' \in [Shipment -> SUBSET Row] /\ failed' \subseteq Request
               /\ failed \subseteq failed'
               /\ \A s \in Shipment : timeline[s] \subseteq timeline'[s]
    <2>1. {[by |-> r, type |-> type] : type \in types} \subseteq Row
      BY DEF Row
    <2> QED
      BY <1>3, <1>9, <2>1 DEF AddRows, Fails, TypeOK
  <1>10. CASE TellAttempt(r)
    <2>1. {"delivery_attempted"} \subseteq Status
      BY DEF Status
    <2> QED
      BY <1>2, <1>9, <1>10, <2>1 DEF TellAttempt, TypeOK, Alone, table, locals
  <1>11. CASE RecordEvent(r)
    BY <1>1, <1>2, <1>9, <1>11, VerdictIsStatus DEF RecordEvent, TypeOK, Alone, table, locals
  <1>12. CASE WriteShipment(r)
    <2>1. ASSUME SetStatus(r, ShipOf(r))
          PROVE  /\ writes' \in [Shipment -> SUBSET [by : Request, to : Status]]
                 /\ status' \in [Shipment -> Status]
                 /\ \A s \in Shipment : writes[s] \subseteq writes'[s]
      <3> DEFINE more == {[by |-> r, to |-> to] : to \in NewStatus(r)}
      <3>1. more \subseteq [by : Request, to : Status]
        BY <1>1, VerdictIsStatus
      <3>2. /\ writes' \in [Shipment -> SUBSET [by : Request, to : Status]]
            /\ \A s \in Shipment : writes[s] \subseteq writes'[s]
        <4>1. writes' = [writes EXCEPT ![ShipOf(r)] = @ \cup more]
          BY <2>1 DEF SetStatus
        <4> HIDE DEF more
        <4> QED
          BY <1>3, <3>1, <4>1 DEF TypeOK
      <3>3. status' \in [Shipment -> Status]
        <4>1. NewStatus(r) # {} => (CHOOSE to \in NewStatus(r) : TRUE) \in Status
          BY <1>1, VerdictIsStatus
        <4> QED
          BY <1>3, <2>1, <4>1 DEF SetStatus, TypeOK
      <3> QED
        BY <3>2, <3>3
    <2>2. /\ writes' \in [Shipment -> SUBSET [by : Request, to : Status]]
          /\ status' \in [Shipment -> Status]
          /\ \A s \in Shipment : writes[s] \subseteq writes'[s]
      <3>1. CASE SetStatus(r, ShipOf(r))
        BY <2>1, <3>1
      <3>2. CASE UNCHANGED <<status, writes, contact>>
        BY <3>2 DEF TypeOK
      <3> QED
        BY <1>12, <3>1, <3>2 DEF WriteShipment
    <2>3. contact' \in [Shipment -> [Column -> [Field -> Request \cup {Sender}]]]
      <3> DEFINE s == ShipOf(r)
                 c == ColumnOf(r)
      <3>1. c \in Column /\ copy[r] \in [Field -> Request \cup {Sender}]
        BY DEF ColumnOf, Column, TypeOK
      <3>2. [contact[s] EXCEPT ![c] = copy[r]] \in [Column -> [Field -> Request \cup {Sender}]]
        BY <1>3, <3>1 DEF TypeOK
      <3>3. contact' = contact \/ contact' = [contact EXCEPT ![s] = [contact[s] EXCEPT ![c] = copy[r]]]
        BY <1>12 DEF WriteShipment
      <3> QED
        BY <1>3, <3>2, <3>3 DEF TypeOK
    <2>4. failed' \subseteq Request /\ failed \subseteq failed'
      BY <1>12 DEF WriteShipment, Fails, TypeOK
    <2> QED
      BY <1>2, <1>12, <2>2, <2>3, <2>4 DEF WriteShipment, TypeOK, Alone, locals
  <1>13. ASSUME NEW subjects \in SUBSET ({"status_changed"} \cup Milestone(Wanted(r))),
                Announce(r, subjects)
         PROVE  /\ published' \in [Shipment -> SUBSET Announcement] /\ failed' \subseteq Request
                /\ failed \subseteq failed'
                /\ \A s \in Shipment : published[s] \subseteq published'[s]
    <2>1. {[by |-> r, to |-> Wanted(r), subject |-> subject] : subject \in subjects}
              \subseteq Announcement
      BY <1>3 DEF Announcement
    <2> QED
      BY <1>3, <1>13, <2>1 DEF Announce, Fails, TypeOK
  <1>14. CASE PublishStatusChanged(r)
    BY <1>2, <1>13, <1>14 DEF PublishStatusChanged, TypeOK, Alone, table, locals
  <1>15. CASE PublishMilestone(r)
    BY <1>2, <1>13, <1>15 DEF PublishMilestone, TypeOK, Alone, table, locals
  <1>16. CASE Abort(r)
    BY <1>2, <1>16 DEF Abort, Fails, TypeOK, Alone, table, locals
  <1> QED
    BY <1>4, <1>5, <1>6, <1>7, <1>8, <1>10, <1>11, <1>12, <1>14, <1>15, <1>16 DEF Step

\* Which step changes what.
Frames(r) ==
    /\ ReadShipment(r) \/ UNCHANGED seen
    /\ NumberAttempt(r) \/ UNCHANGED number
    /\ LoadContact(r) \/ UNCHANGED copy
    /\ WriteShipment(r) \/ UNCHANGED <<status, writes, contact>>
    /\ InsertAttempt(r) \/ UNCHANGED <<tries, attempts>>
    /\ TellAttempt(r) \/ RecordEvent(r) \/ UNCHANGED timeline
    /\ PublishStatusChanged(r) \/ PublishMilestone(r) \/ UNCHANGED published

\* The statement is the one the request is at.
AtStatement(r) ==
    /\ pc[r] = "read"      => ReadShipment(r)
    /\ pc[r] = "load"      => LoadContact(r)
    /\ pc[r] = "check"     => CheckAttempt(r)
    /\ pc[r] = "number"    => NumberAttempt(r)
    /\ pc[r] = "insert"    => InsertAttempt(r)
    /\ pc[r] = "tell"      => TellAttempt(r)
    /\ pc[r] = "write"     => WriteShipment(r)
    /\ pc[r] = "event"     => RecordEvent(r)
    /\ pc[r] = "publish"   => PublishStatusChanged(r)
    /\ pc[r] = "milestone" => PublishMilestone(r)

\* A request under way takes a step; one that dies is marked.
Going(r) ==
    /\ pc[r] \in InFlight /\ Moved(r) /\ Frames(r)
    /\ AtStatement(r) \/ (r \in failed' /\ pc'[r] \in {"read", "done"})

LEMMA StepFrames ==
  ASSUME TypeOK, OnPath, NEW r \in Request, Step(r) \/ Abort(r)
  PROVE  Going(r)
  <1>1. pc[r] \in InFlight /\ Moved(r)
    BY StepMoves
  <1>2. Step(r) => Frames(r)
    BY DEF Step, Frames, ReadShipment, LoadContact, CheckAttempt, NumberAttempt, InsertAttempt,
           TellAttempt, WriteShipment, RecordEvent, PublishStatusChanged,
           PublishMilestone, table, locals
  <1>4. Step(r) => AtStatement(r)
    BY DEF Step, AtStatement, ReadShipment, LoadContact, CheckAttempt, NumberAttempt,
           InsertAttempt, TellAttempt, WriteShipment, RecordEvent, PublishStatusChanged,
           PublishMilestone
  <1>3. ASSUME Abort(r) PROVE Frames(r) /\ r \in failed' /\ pc'[r] \in {"read", "done"}
    BY <1>1, <1>3, ItemDone, Dies DEF Abort, Fails, Frames, table, locals
  <1> QED
    BY <1>1, <1>2, <1>3, <1>4 DEF Going

LEMMA NextCases ==
  ASSUME TypeOK, OnPath, NumbersFollow, Next
  PROVE  \E r \in Request : TypeOK' /\ OnPath' /\ Alone(r) /\ (Begun(r) \/ Going(r))
  BY StartStep, StepTypes, StepFrames DEF Next

LEMMA HistoryGrows ==
  ASSUME NEW r \in Request, Alone(r), NEW s \in Shipment
  PROVE  Visited(s) \subseteq Visited(s)' /\ Numbers(s) \subseteq Numbers(s)'
  BY DEF Alone, Visited, Numbers

\* What a write does, row by row.
LEMMA WriteEffect ==
  ASSUME TypeOK, OnPath, NEW r \in Request, pc[r] \in InFlight, WriteShipment(r)
  PROVE  LET t == ShipOf(r) IN
         /\ t \in Shipment
         /\ \A s \in Shipment \ {t} :
               status'[s] = status[s] /\ writes'[s] = writes[s] /\ contact'[s] = contact[s]
         /\ \A w \in writes'[t] \ writes[t] : w.by = r /\ w.to \in NewStatus(r)
         /\ \A c \in Column, f \in Field :
               \/ contact'[t][c][f] = contact[t][c][f]
               \/ job[r].op \in ContactOps /\ contact'[t][c][f] = copy[r][f]
         /\ \/ /\ failed' = failed \cup {r} /\ job[r].op = "attempt"
               /\ status'[t] = status[t] /\ writes'[t] = writes[t]
            \/ /\ failed' = failed
               /\ writes'[t] = writes[t] \cup {[by |-> r, to |-> to] : to \in NewStatus(r)}
               /\ NewStatus(r) = {} => status'[t] = status[t]
               /\ NewStatus(r) # {} => status'[t] \in NewStatus(r)
  <1> DEFINE t == ShipOf(r)
  <1>1. t \in Shipment
    BY AtWork
  <1>2. NewStatus(r) # {} => (CHOOSE to \in NewStatus(r) : TRUE) \in NewStatus(r)
    OBVIOUS
  <1>3. CASE UNCHANGED <<status, writes, contact>> /\ job[r].op = "attempt" /\ Fails(r)
    BY <1>1, <1>3 DEF Fails
  <1>4. CASE /\ SetStatus(r, t)
             /\ contact' = IF job[r].op \in {"redirect", "recipient", "sender"}
                           THEN [contact EXCEPT ![t][ColumnOf(r)] = copy[r]] ELSE contact
             /\ UNCHANGED failed
    <2>1. /\ \A s \in Shipment \ {t} : status'[s] = status[s] /\ writes'[s] = writes[s]
          /\ writes'[t] = writes[t] \cup {[by |-> r, to |-> to] : to \in NewStatus(r)}
          /\ NewStatus(r) = {} => status'[t] = status[t]
          /\ NewStatus(r) # {} => status'[t] \in NewStatus(r)
      BY <1>1, <1>2, <1>4 DEF SetStatus, TypeOK
    <2>2. /\ \A s \in Shipment \ {t} : contact'[s] = contact[s]
          /\ \A c \in Column, f \in Field :
               \/ contact'[t][c][f] = contact[t][c][f]
               \/ job[r].op \in ContactOps /\ contact'[t][c][f] = copy[r][f]
      BY <1>1, <1>4 DEF TypeOK, ContactOps
    <2>3. \A w \in writes'[t] \ writes[t] : w.by = r /\ w.to \in NewStatus(r)
      BY <2>1
    <2> QED
      BY <1>1, <1>4, <2>1, <2>2, <2>3
  <1> QED
    BY <1>3, <1>4 DEF WriteShipment

LEMMA ReadIsHistoryStep ==
  ASSUME ShipInv, TypeOK', NEW r \in Request, Alone(r), Begun(r) \/ Going(r)
  PROVE  ReadIsHistory'
  <1>1. ASSUME NEW s \in Shipment PROVE status'[s] \in Visited(s)'
    <2>1. status[s] \in Visited(s) /\ Visited(s) \subseteq Visited(s)'
      BY HistoryGrows DEF ShipInv, ReadIsHistory
    <2>2. CASE WriteShipment(r) /\ pc[r] \in InFlight
      <3>1. CASE s # ShipOf(r) \/ status'[s] = status[s]
        BY <2>1, <2>2, <3>1, WriteEffect DEF ShipInv
      <3>2. CASE s = ShipOf(r) /\ status'[s] # status[s]
        <4>1. PICK to \in NewStatus(r) : to = status'[s]
          BY <2>2, <3>2, WriteEffect DEF ShipInv
        <4>2. [by |-> r, to |-> to] \in writes'[s]
          BY <2>2, <3>2, <4>1, WriteEffect DEF ShipInv
        <4> QED
          BY <4>1, <4>2 DEF Visited
      <3> QED
        BY <3>1, <3>2
    <2> QED
      BY <2>1, <2>2 DEF Begun, Going, Frames, table
  <1>2. ASSUME NEW q \in Request
        PROVE  /\ job'[q].op = "attempt" /\ pc'[q] \in {"check", "number", "insert", "tell", "write"}
                      => seen'[q] \in Visited(ShipOf(q))'
               /\ job'[q].op \in {"status", "bulk"} /\ pc'[q] = "write"
                      => seen'[q] \in Visited(ShipOf(q))' /\ CanTransition(seen'[q], Wanted(q)')
    <2>1. CASE q # r
      <3>1. job'[q] = job[q] /\ pc'[q] = pc[q] /\ seen'[q] = seen[q]
            /\ ShipOf(q)' = ShipOf(q) /\ Wanted(q)' = Wanted(q)
        BY <2>1 DEF Alone, ShipOf, Wanted
      <3>2. pc[q] \in InFlight => Visited(ShipOf(q)) \subseteq Visited(ShipOf(q))'
        BY <3>1, AtWork, HistoryGrows DEF ShipInv, Visited
      <3> QED
        BY <3>1, <3>2 DEF ShipInv, ReadIsHistory, InFlight
    <2>2. CASE q = r /\ Begun(r)
      BY <2>2 DEF Begun
    <2>3. CASE q = r /\ Going(r) /\ job' = job /\ pc'[r] = After(job[r].op, pc[r])
      <3>1. ShipOf(r)' = ShipOf(r) /\ Wanted(r)' = Wanted(r) /\ ShipOf(r) \in Shipment
            /\ pc[r] \in Statements(job[r].op)
        BY <2>3, AtWork DEF ShipInv, Going, ShipOf, Wanted
      <3>2. Visited(ShipOf(r)) \subseteq Visited(ShipOf(r))'
        BY <3>1, HistoryGrows DEF Visited
      <3>3. CASE ReadShipment(r)
        <4>1. seen'[r] = status[ShipOf(r)] /\ status[ShipOf(r)] \in Visited(ShipOf(r))
          BY <3>1, <3>3 DEF ReadShipment, ShipInv, TypeOK, ReadIsHistory
        <4>2. ~Acceptable(r, status[ShipOf(r)]) => pc'[r] \in {"read", "done"}
          BY <2>3, <3>3, ItemDone DEF ReadShipment, ShipInv, Going
        <4>3. job[r].op \in {"status", "bulk"} /\ pc'[r] = "write"
                  => CanTransition(status[ShipOf(r)], Wanted(r))
          BY <4>2 DEF Acceptable
        <4> QED
          BY <2>3, <3>1, <3>2, <4>1, <4>3
      <3>4. CASE ~ReadShipment(r)
        <4>1. UNCHANGED seen /\ pc[r] # "read"
          <5>1. After(job[r].op, "read") \notin {"read", "done"}
            BY DEF After
          <5> QED
            BY <2>3, <3>4, <5>1 DEF Going, Frames, AtStatement
        <4>2. job[r].op = "attempt" /\ pc'[r] \in {"check", "number", "insert", "tell", "write"}
                  => pc[r] \in {"check", "number", "insert", "tell"}
          BY <2>3, <3>1, <4>1 DEF After, Statements
        <4>3. job[r].op \in {"status", "bulk"} => pc'[r] # "write"
          BY <2>3, <3>1, <4>1 DEF After, Statements
        <4> QED
          BY <2>3, <3>1, <3>2, <4>1, <4>2, <4>3 DEF ShipInv, ReadIsHistory
      <3> QED
        BY <3>3, <3>4
    <2> QED
      BY <2>1, <2>2, <2>3 DEF Going, Moved, Onward
  <1> QED
    BY <1>1, <1>2 DEF ReadIsHistory

\* Where an attempt is, statement by statement.
LEMMA AttemptPath ==
  ASSUME TypeOK, OnPath, NEW r \in Request, Going(r), job[r].op = "attempt"
  PROVE  /\ job'[r].op = "attempt"
         /\ \/ r \in failed' /\ pc'[r] = "done"
            \/ pc[r] \in {"read", "check"} /\ pc'[r] = "done"
            \/ pc[r] = "event" /\ pc'[r] = "done"
            \/ job' = job /\ pc'[r] = After("attempt", pc[r]) /\ AtStatement(r)
         /\ pc[r] \in Statements("attempt")
  <1>1. pc[r] \in Statements("attempt")
    BY AtWork DEF Going
  <1>2. ASSUME AtStatement(r), pc[r] \notin {"read", "check", "event"}
        PROVE  job' = job /\ pc'[r] = After("attempt", pc[r])
    <2>1. Proceed(r)
      BY <1>1, <1>2 DEF AtStatement, Statements, NumberAttempt, InsertAttempt, TellAttempt, WriteShipment
    <2>2. After("attempt", pc[r]) # "done"
      BY <1>1, <1>2 DEF After, Statements
    <2> QED
      BY <2>1, <2>2, Proceeds DEF Going
  <1>3. After("attempt", pc[r]) # "read" /\ (After("attempt", pc[r]) = "done" <=> pc[r] = "event")
    BY <1>1 DEF After, Statements
  <1>4. job'[r].op = "attempt" /\ Onward(r)
    BY DEF Going, Moved
  <1>5. CASE job' = job /\ pc'[r] = After("attempt", pc[r])
    BY <1>1, <1>3, <1>4, <1>5 DEF Going
  <1>6. CASE pc'[r] = "done"
    <2>1. CASE AtStatement(r)
      BY <1>1, <1>2, <1>4, <1>6, <2>1
    <2>2. CASE r \in failed'
      BY <1>1, <1>4, <1>6, <2>2
    <2> QED
      BY <2>1, <2>2 DEF Going
  <1> QED
    BY <1>4, <1>5, <1>6 DEF Onward

LEMMA SecondsOfOneMore ==
  ASSUME NEW S, NEW a, NEW b
  PROVE  {x[2] : x \in S \cup {<<a, b>>}} = {x[2] : x \in S} \cup {b}
  <1>1. <<a, b>>[2] = b
    OBVIOUS
  <1>2. ASSUME NEW c PROVE {x[2] : x \in S \cup {c}} = {x[2] : x \in S} \cup {c[2]}
    OBVIOUS
  <1> QED
    BY <1>1, <1>2

LEMMA NumbersFollowStep ==
  ASSUME ShipInv, TypeOK', NEW r \in Request, Alone(r), Begun(r) \/ Going(r)
  PROVE  NumbersFollow'
  <1> DEFINE t == ShipOf(r)
  <1>1. CASE InsertAttempt(r) /\ Going(r)
    <2>1. t \in Shipment /\ job[r].op = "attempt" /\ pc[r] = "insert"
      BY <1>1, AtWork DEF ShipInv, InsertAttempt, Going, Statements
    <2>2. tries' = [tries EXCEPT ![t] = @ \cup {<<r, number[r]>>}]
          /\ attempts' = [attempts EXCEPT ![t] = @ + 1]
      BY <1>1 DEF InsertAttempt
    <2>3. <<r, number[r]>> \notin tries[t]
      BY <2>1 DEF ShipInv, AttemptsRecorded
    <2>4. ASSUME NEW s \in Shipment
          PROVE  IsFiniteSet(tries'[s]) /\ attempts'[s] = Cardinality(tries'[s])
      <3>1. IsFiniteSet(tries[s]) /\ attempts[s] = Cardinality(tries[s])
        BY DEF ShipInv, NumbersFollow
      <3>2. CASE s = t
        <4>1. tries'[s] = tries[s] \cup {<<r, number[r]>>} /\ attempts'[s] = attempts[s] + 1
          BY <2>2, <3>2 DEF ShipInv, TypeOK
        <4>2. tries[s] \cup {<<r, number[r]>>} = tries'[s] /\ <<r, number[r]>> \notin tries[s]
          BY <2>3, <3>2, <4>1
        <4>3. /\ IsFiniteSet(tries[s] \cup {<<r, number[r]>>})
              /\ Cardinality(tries[s] \cup {<<r, number[r]>>}) = Cardinality(tries[s]) + 1
          BY <3>1, <4>2, FS_AddElement
        <4> QED
          BY <3>1, <4>1, <4>2, <4>3
      <3>3. CASE s # t
        BY <2>2, <3>1, <3>3 DEF ShipInv, TypeOK
      <3> QED
        BY <3>2, <3>3
    <2>5. ASSUME NEW s \in Shipment
          PROVE  \E k \in 0..attempts'[s] : Numbers(s)' = 1..k
      <3>1. PICK k \in 0..attempts[s] : Numbers(s) = 1..k
        BY DEF ShipInv, NumbersFollow
      <3>2. CASE s = t
        <4>1. Numbers(s)' = Numbers(s) \cup {number[r]} /\ attempts'[s] = attempts[s] + 1
              /\ attempts[s] \in Nat
          <5>1. tries'[s] = tries[s] \cup {<<r, number[r]>>} /\ attempts'[s] = attempts[s] + 1
                /\ attempts[s] \in Nat
            BY <2>2, <3>2 DEF ShipInv, TypeOK
          <5>2. {x[2] : x \in tries[s] \cup {<<r, number[r]>>}}
                    = {x[2] : x \in tries[s]} \cup {number[r]}
            BY SecondsOfOneMore
          <5> QED
            BY <5>1, <5>2 DEF Numbers
        <4>2. number[r] \in 1..(k + 1)
          <5>1. number[r] \in Nat \ {0} /\ (number[r] = 1 \/ number[r] - 1 \in Numbers(s))
            BY <2>1, <3>2 DEF ShipInv, NumbersFollow
          <5> QED
            BY <3>1, <4>1, <5>1
        <4>3. CASE number[r] \in 1..k
          <5>1. Numbers(s)' = 1..k /\ k \in 0..attempts'[s]
            BY <3>1, <4>1, <4>3
          <5> QED
            BY <5>1
        <4>4. CASE number[r] = k + 1
          <5>1. (1..k) \cup {k + 1} = 1..(k + 1)
            BY <3>1, <4>1
          <5> QED
            BY <3>1, <4>1, <4>4, <5>1
        <4> QED
          BY <3>1, <4>1, <4>2, <4>3, <4>4
      <3>3. CASE s # t
        <4>1. Numbers(s)' = Numbers(s) /\ attempts'[s] = attempts[s]
          BY <2>2, <3>3 DEF ShipInv, TypeOK, Numbers
        <4> QED
          BY <3>1, <4>1
      <3> QED
        BY <3>2, <3>3
    <2>6. ASSUME NEW q \in Request, pc'[q] = "insert"
          PROVE  q # r
      BY <1>1, <2>1, <2>6, AttemptPath DEF ShipInv, Going, After
    <2>7. ASSUME NEW q \in Request, pc'[q] = "insert"
          PROVE  /\ number'[q] \in Nat \ {0}
                 /\ number'[q] = 1 \/ number'[q] - 1 \in Numbers(ShipOf(q))'
      <3>1. q # r /\ pc[q] = "insert" /\ number'[q] = number[q] /\ ShipOf(q)' = ShipOf(q)
            /\ ShipOf(q) \in Shipment
        BY <2>6, <2>7, AtWork DEF Alone, ShipOf, ShipInv, InFlight
      <3>2. Numbers(ShipOf(q)) \subseteq Numbers(ShipOf(q))'
        BY <3>1, HistoryGrows DEF Numbers
      <3> QED
        BY <3>1, <3>2 DEF ShipInv, NumbersFollow
    <2> QED
      BY <2>4, <2>5, <2>7 DEF NumbersFollow
  <1>2. CASE UNCHANGED <<tries, attempts>>
    <2>1. \A s \in Shipment : Numbers(s)' = Numbers(s)
      BY <1>2 DEF Numbers
    <2>2. ASSUME NEW q \in Request, pc'[q] = "insert"
          PROVE  /\ number'[q] \in Nat \ {0}
                 /\ number'[q] = 1 \/ number'[q] - 1 \in Numbers(ShipOf(q))'
      <3>1. CASE q # r
        <4>1. pc[q] = "insert" /\ number'[q] = number[q] /\ ShipOf(q)' = ShipOf(q)
          BY <2>2, <3>1 DEF Alone, ShipOf
        <4> QED
          BY <1>2, <4>1 DEF ShipInv, NumbersFollow, Numbers
      <3>2. CASE q = r
        <4>1. Going(r) /\ job'[r].op = "attempt"
          BY <2>2, <3>2 DEF Begun, Going, Moved, OnPath, Statements, TypeOK, Endpoint, InFlight
        <4>2. pc[r] = "number" /\ job' = job /\ NumberAttempt(r)
          BY <2>2, <3>2, <4>1, AttemptPath DEF ShipInv, After, Statements, AtStatement, Going, Moved
        <4>3. ShipOf(r) \in Shipment /\ ShipOf(r)' = ShipOf(r) /\ number'[r] = NextNumber(ShipOf(r))
          BY <4>1, <4>2, AtWork DEF ShipInv, TypeOK, ShipOf, NumberAttempt, InFlight
        <4>4. PICK k \in Nat : Numbers(ShipOf(r)) = 1..k
          BY <4>3 DEF ShipInv, NumbersFollow, TypeOK
        <4>5. number'[r] = k + 1
          BY <4>3, <4>4, NumberIsNext DEF ShipInv
        <4>6. Numbers(ShipOf(r))' = 1..k
          BY <1>2, <4>3, <4>4 DEF Numbers
        <4> QED
          BY <3>2, <4>5, <4>6
      <3> QED
        BY <3>1, <3>2
    <2> QED
      BY <1>2, <2>1, <2>2 DEF NumbersFollow, ShipInv
  <1> QED
    BY <1>1, <1>2 DEF Begun, Going, Frames, table

\* The verdict on an attempt shows in the status, whatever was read before.
LEMMA VerdictShows ==
  ASSUME ShipInv, TypeOK', NEW r \in Request, Alone(r), pc[r] = "write", pc[r] \in InFlight,
         job[r].op = "attempt", WriteShipment(r), r \notin failed',
         NEW s \in Shipment, s = ShipOf(r)
  PROVE  Recorded(s, number[r])'
  <1>1. writes'[s] = writes[s] \cup {[by |-> r, to |-> to] : to \in NewStatus(r)}
    BY WriteEffect DEF ShipInv
  <1>2. NewStatus(r) = Verdict(r)
    BY DEF NewStatus
  <1>3. \A to \in Verdict(r) : to \in Visited(s)'
    <2>1. ASSUME NEW to \in Verdict(r) PROVE to \in Visited(s)'
      <3>1. [by |-> r, to |-> to] \in writes'[s]
        BY <1>1, <1>2
      <3> QED
        BY <3>1 DEF Visited
    <2> QED
      BY <2>1
  <1>4. seen[r] \in Visited(s)'
    BY HistoryGrows DEF ShipInv, ReadIsHistory
  <1>5. number'[r] = number[r] /\ number[r] \in Nat
    BY DEF WriteShipment, locals, ShipInv, TypeOK
  <1>6. CASE number[r] >= 3
    <2>1. "returned_to_sender" \in Visited(s)'
      BY <1>3, <1>6 DEF Verdict
    <2> QED
      BY <1>5, <2>1 DEF Recorded
  <1>7. CASE ~(number[r] >= 3)
    <2>1. "delivery_attempted" \in Visited(s)'
      BY <1>3, <1>4, <1>7 DEF Verdict
    <2> QED
      BY <1>5, <1>7, <2>1 DEF Recorded
  <1> QED
    BY <1>6, <1>7

LEMMA AttemptsRecordedStep ==
  ASSUME ShipInv, TypeOK', NEW r \in Request, Alone(r), Begun(r) \/ Going(r)
  PROVE  AttemptsRecorded'
  <1> SUFFICES ASSUME NEW s \in Shipment, NEW x \in tries'[s], x[1] \in Request
               PROVE  /\ job'[x[1]].op = "attempt" /\ x[2] = number'[x[1]]
                      /\ \/ pc'[x[1]] \in {"tell", "write"} /\ ShipOf(x[1])' = s
                         \/ /\ pc'[x[1]] \in {"event", "done"}
                            /\ x[1] \in failed' \/ Recorded(s, x[2])'
    BY DEF AttemptsRecorded
  <1>1. ASSUME Recorded(s, x[2]) PROVE Recorded(s, x[2])'
    BY <1>1, HistoryGrows DEF Recorded
  <1>2. CASE x \in tries[s] /\ x[1] # r
    <2>1. /\ pc'[x[1]] = pc[x[1]] /\ job'[x[1]] = job[x[1]] /\ number'[x[1]] = number[x[1]]
          /\ ShipOf(x[1])' = ShipOf(x[1]) /\ failed \subseteq failed'
      BY <1>2 DEF Alone, ShipOf
    <2> QED
      BY <1>1, <1>2, <2>1 DEF ShipInv, AttemptsRecorded
  <1>3. CASE x \in tries[s] /\ x[1] = r
    <2>1. /\ job[r].op = "attempt" /\ x[2] = number[r]
          /\ \/ pc[r] \in {"tell", "write"} /\ ShipOf(r) = s
             \/ pc[r] \in {"event", "done"} /\ (r \in failed \/ Recorded(s, x[2]))
      BY <1>3 DEF ShipInv, AttemptsRecorded
    <2>2. Going(r) /\ pc[r] \in {"tell", "write", "event"}
      BY <2>1 DEF Begun, Going, InFlight
    <2>3. failed \subseteq failed' /\ number' = number
      BY <2>2 DEF Alone, Going, Frames, NumberAttempt
    <2>4. CASE r \in failed' /\ pc'[r] = "done"
      BY <1>3, <2>1, <2>2, <2>3, <2>4, AttemptPath DEF ShipInv
    <2>5. CASE pc[r] = "event" /\ pc'[r] = "done"
      BY <1>1, <1>3, <2>1, <2>2, <2>3, <2>5, AttemptPath DEF ShipInv
    <2>6. CASE job' = job /\ pc'[r] = After("attempt", pc[r]) /\ AtStatement(r)
      <3>1. ShipOf(r)' = ShipOf(r)
        BY <2>6 DEF ShipOf
      <3>2. CASE pc[r] = "tell"
        BY <1>3, <2>1, <2>3, <2>6, <3>1, <3>2 DEF After
      <3>3. CASE pc[r] = "write"
        <4>1. r \in failed' \/ Recorded(s, number[r])'
          BY <2>1, <2>2, <2>6, <3>3, VerdictShows DEF AtStatement, Going
        <4>2. Recorded(s, number[r])' => Recorded(s, x[2])'
          BY <2>1, <2>3
        <4> QED
          BY <1>3, <2>1, <2>3, <2>6, <3>3, <4>1, <4>2 DEF After
      <3>4. CASE pc[r] = "event"
        BY <1>1, <1>3, <2>1, <2>3, <2>6, <3>4 DEF After
      <3> QED
        BY <2>2, <3>2, <3>3, <3>4
    <2> QED
      BY <2>1, <2>2, <2>4, <2>5, <2>6, AttemptPath DEF ShipInv
  <1>4. CASE x \notin tries[s]
    <2>1. InsertAttempt(r) /\ Going(r)
      BY <1>4 DEF Begun, Going, Frames, table
    <2>2. s = ShipOf(r) /\ x = <<r, number[r]>>
      BY <1>4, <2>1 DEF InsertAttempt, ShipInv, TypeOK
    <2>3. pc[r] = "insert" /\ job[r].op = "attempt"
      BY <2>1, AtWork DEF ShipInv, InsertAttempt, Going, Statements
    <2>4. number' = number
      BY <2>1 DEF InsertAttempt, locals
    <2>5. pc'[r] = "tell" /\ job' = job
      BY <2>1, <2>3, Proceeds DEF ShipInv, Going, InsertAttempt, After
    <2> QED
      BY <2>2, <2>3, <2>4, <2>5 DEF ShipOf
  <1> QED
    BY <1>2, <1>3, <1>4

LEMMA PickedUpFirstStep ==
  ASSUME ShipInv, TypeOK', NEW r \in Request, Alone(r), Begun(r) \/ Going(r)
  PROVE  PickedUpFirst'
  <1> SUFFICES ASSUME NEW s \in Shipment,
                      \A w \in writes'[s] : job'[w.by].op \in {"status", "bulk"}
               PROVE  \/ Visited(s)' \subseteq NotUnderWay
                      \/ "picked_up" \in Visited(s)'
    BY DEF PickedUpFirst, ShipInv, TypeOK
  <1>1. \A w \in writes[s] : job[w.by].op \in {"status", "bulk"}
    <2> SUFFICES ASSUME NEW w \in writes[s] PROVE job[w.by].op = job'[w.by].op /\ w \in writes'[s]
      OBVIOUS
    <2>1. w.by \in Request /\ pc[w.by] # "idle" /\ w \in writes'[s]
      BY DEF ShipInv, TypeOK, StatusesTold, Alone
    <2> QED
      BY <2>1 DEF Alone, Begun, Going, Moved
  <1>2. Visited(s) \subseteq NotUnderWay \/ "picked_up" \in Visited(s)
    BY <1>1 DEF ShipInv, PickedUpFirst
  <1>3. CASE UNCHANGED writes
    BY <1>2, <1>3 DEF Visited, Alone
  <1>4. CASE WriteShipment(r) /\ Going(r) /\ s = ShipOf(r)
    <2>1. \A w \in writes'[s] \ writes[s] : w.by = r /\ w.to \in NewStatus(r)
      BY <1>4, WriteEffect DEF ShipInv, Going
    <2>2. CASE writes'[s] \subseteq writes[s]
      BY <1>2, <2>2 DEF Visited, Alone
    <2>3. CASE job[r].op \in {"status", "bulk"}
      <3>1. NewStatus(r) = {Wanted(r)} /\ pc[r] = "write"
        BY <1>4, <2>3 DEF NewStatus, WriteShipment
      <3>2. seen[r] \in Visited(s) /\ CanTransition(seen[r], Wanted(r))
        BY <1>4, <2>3, <3>1 DEF ShipInv, ReadIsHistory
      <3>3. Visited(s)' \subseteq Visited(s) \cup {Wanted(r)}
        BY <2>1, <3>1 DEF Visited, Alone
      <3>4. CASE "picked_up" \in Visited(s)
        BY <3>4, HistoryGrows
      <3>5. CASE Visited(s) \subseteq NotUnderWay /\ "picked_up" \notin Visited(s)
        <4>1. Wanted(r) \in NotUnderWay
          BY <3>2, <3>5 DEF CanTransition, Allowed, NotUnderWay
        <4> QED
          BY <3>3, <3>5, <4>1
      <3> QED
        BY <1>2, <3>4, <3>5
    <2>4. writes'[s] \subseteq writes[s] \/ job[r].op \in {"status", "bulk"}
      BY <1>4, <2>1 DEF Going, Moved
    <2> QED
      BY <2>2, <2>3, <2>4
  <1>5. CASE WriteShipment(r) /\ Going(r) /\ s # ShipOf(r)
    <2>1. writes'[s] = writes[s]
      BY <1>5, WriteEffect DEF ShipInv, Going
    <2> QED
      BY <1>2, <2>1 DEF Visited, Alone
  <1> QED
    BY <1>3, <1>4, <1>5 DEF Begun, Going, Frames, table

\* A row that was to be added is there, or the request is marked.
LEMMA RowsAdded ==
  ASSUME TypeOK, OnPath, NEW r \in Request, pc[r] \in InFlight, NEW types, NEW type \in types,
         AddRows(r, types), NEW s \in Shipment, s = ShipOf(r)
  PROVE  r \in failed' \/ Told(s, r, type)'
  <1>1. CASE Fails(r)
    BY <1>1 DEF Fails
  <1>2. CASE timeline' = [timeline EXCEPT ![ShipOf(r)] =
                              @ \cup {[by |-> r, type |-> x] : x \in types}]
    <2>1. timeline'[s] = timeline[s] \cup {[by |-> r, type |-> x] : x \in types}
      BY <1>2 DEF TypeOK
    <2> QED
      BY <2>1 DEF Told
  <1> QED
    BY <1>1, <1>2 DEF AddRows

\* Who has written goes on to the event.
LEMMA WriteGoesOn ==
  ASSUME TypeOK, OnPath, NEW r \in Request, Going(r), WriteShipment(r)
  PROVE  pc[r] = "write" /\ pc'[r] = "event" /\ job' = job /\ ShipOf(r)' = ShipOf(r)
         /\ Wanted(r)' = Wanted(r) /\ number' = number
         /\ pc[r] \in Statements(job[r].op) /\ job[r].op \in Endpoint
  <1>1. pc[r] = "write" /\ Proceed(r) /\ number' = number
    BY DEF WriteShipment, locals
  <1>2. After(job[r].op, pc[r]) = "event"
    BY <1>1 DEF After
  <1>3. pc'[r] = "event" /\ job' = job
    BY <1>1, <1>2, Proceeds DEF Going
  <1> QED
    BY <1>1, <1>3, AtWork DEF ShipOf, Wanted, Going

LEMMA GoingIsNotIdle ==
  ASSUME TypeOK, OnPath, NEW r \in Request, Going(r)
  PROVE  pc'[r] # "idle"
  <1>1. job[r].op \in Endpoint /\ pc[r] \in Statements(job[r].op)
    BY AtWork DEF Going
  <1>2. After(job[r].op, pc[r]) # "idle"
    BY <1>1 DEF After
  <1> QED
    BY <1>2 DEF Going, Moved, Onward

LEMMA StatusesToldStep ==
  ASSUME ShipInv, TypeOK', NEW r \in Request, Alone(r), Begun(r) \/ Going(r)
  PROVE  StatusesTold'
  <1>1. ASSUME NEW s \in Shipment, NEW q, NEW type, Told(s, q, type) PROVE Told(s, q, type)'
    BY <1>1 DEF Told, Alone
  <1>2. ASSUME NEW s \in Shipment, NEW w \in writes'[s]
        PROVE  /\ pc'[w.by] # "idle"
               /\ \/ w.by \in failed'
                  \/ Told(s, w.by, w.to)'
                  \/ pc'[w.by] = "event" /\ ShipOf(w.by)' = s /\ w.to \in EventType(w.by)'
    <2>1. w.by \in Request
      BY DEF TypeOK
    <2>2. CASE w \in writes[s] /\ w.by # r
      <3>1. /\ pc'[w.by] = pc[w.by] /\ failed \subseteq failed'
            /\ ShipOf(w.by)' = ShipOf(w.by) /\ EventType(w.by)' = EventType(w.by)
        BY <2>1, <2>2 DEF Alone, ShipOf, EventType, Wanted
      <3> QED
        BY <1>1, <2>2, <3>1 DEF ShipInv, StatusesTold
    <2>3. CASE w \in writes[s] /\ w.by = r
      <3>1. Going(r) /\ pc'[r] # "idle" /\ failed \subseteq failed'
        BY <2>3, GoingIsNotIdle DEF ShipInv, StatusesTold, Begun, Alone
      <3>2. CASE pc[r] = "event" /\ ShipOf(r) = s /\ w.to \in EventType(r)
        <4>1. r \in failed' \/ Told(s, r, w.to)'
          BY <3>1, <3>2, RowsAdded DEF Going, AtStatement, RecordEvent, ShipInv
        <4> QED
          BY <2>3, <3>1, <4>1
      <3> QED
        BY <1>1, <2>3, <3>1, <3>2 DEF ShipInv, StatusesTold
    <2>4. CASE w \notin writes[s]
      <3>1. WriteShipment(r) /\ Going(r)
        BY <2>4 DEF Begun, Going, Frames, table
      <3>2. s = ShipOf(r) /\ w.by = r /\ w.to \in NewStatus(r)
        BY <2>4, <3>1, WriteEffect DEF ShipInv, Going
      <3>3. pc[r] = "write" /\ pc'[r] = "event" /\ ShipOf(r)' = s
            /\ EventType(r)' = EventType(r) /\ pc[r] \in Statements(job[r].op)
        BY <3>1, <3>2, WriteGoesOn DEF ShipInv, EventType
      <3>4. CASE job[r].op = "attempt" /\ w.to = "delivery_attempted"
        <4>1. r \in failed \/ Told(s, r, "delivery_attempted")
          BY <3>2, <3>3, <3>4 DEF ShipInv, StatusesTold
        <4> QED
          BY <1>1, <3>2, <3>3, <3>4, <4>1 DEF Alone
      <3>5. CASE job[r].op # "attempt" \/ w.to # "delivery_attempted"
        <4>1. w.to \in EventType(r)
          BY <3>2, <3>3, <3>5 DEF NewStatus, Verdict, EventType, Statements
        <4> QED
          BY <3>2, <3>3, <4>1
      <3> QED
        BY <3>4, <3>5
    <2> QED
      BY <2>2, <2>3, <2>4
  <1>3. ASSUME NEW q \in Request, job'[q].op = "attempt", pc'[q] \in {"write", "event"}
        PROVE  q \in failed' \/ Told(ShipOf(q), q, "delivery_attempted")'
    <2>1. CASE q # r
      <3>1. job[q].op = "attempt" /\ pc[q] \in {"write", "event"} /\ ShipOf(q)' = ShipOf(q)
            /\ ShipOf(q) \in Shipment
        BY <1>3, <2>1, AtWork DEF Alone, ShipOf, ShipInv, InFlight
      <3>2. q \in failed \/ Told(ShipOf(q), q, "delivery_attempted")
        BY <3>1 DEF ShipInv, StatusesTold
      <3> QED
        BY <1>1, <3>1, <3>2 DEF Alone, Told
    <2>2. CASE q = r
      <3>1. Going(r) /\ job[r].op = "attempt"
        BY <1>3, <2>2 DEF Begun, Going, Moved
      <3>2. job' = job /\ pc'[r] = After("attempt", pc[r]) /\ AtStatement(r)
            /\ pc[r] \in Statements("attempt")
        BY <1>3, <2>2, <3>1, AttemptPath DEF ShipInv
      <3>3. pc[r] \in {"tell", "write"}
        BY <1>3, <2>2, <3>2 DEF After, Statements
      <3>4. ShipOf(r)' = ShipOf(r) /\ ShipOf(r) \in Shipment
        BY <3>1, <3>2, AtWork DEF ShipOf, ShipInv, Going
      <3>5. CASE pc[r] = "tell"
        <4>1. AddRows(r, {"delivery_attempted"})
          BY <3>2, <3>5 DEF AtStatement, TellAttempt
        <4>2. ASSUME NEW s \in Shipment, s = ShipOf(r)
              PROVE  r \in failed' \/ Told(s, r, "delivery_attempted")'
          BY <3>1, <4>1, <4>2, RowsAdded DEF Going, ShipInv
        <4> QED
          BY <2>2, <3>4, <4>2 DEF Told
      <3>6. CASE pc[r] = "write"
        <4>1. r \in failed \/ Told(ShipOf(r), r, "delivery_attempted")
          BY <3>1, <3>6 DEF ShipInv, StatusesTold
        <4> QED
          BY <2>2, <3>4, <4>1 DEF Alone, Told
      <3> QED
        BY <3>3, <3>5, <3>6
    <2> QED
      BY <2>1, <2>2
  <1> QED
    BY <1>2, <1>3 DEF StatusesTold

LEMMA AccountedStays ==
  ASSUME ShipInv, TypeOK', NEW r \in Request, Alone(r), Begun(r) \/ Going(r),
         NEW s \in Shipment, NEW q \in Request \cup {Sender}, Accounted(s, q)
  PROVE  Accounted(s, q)'
  <1>1. CASE q = Sender \/ q \in failed \/ \E row \in timeline[s] : row.by = q
    BY <1>1 DEF Accounted, Alone
  <1>2. CASE q \in Request /\ q # r /\ pc[q] = "event" /\ ShipOf(q) = s /\ job[q].op \in ContactOps
    BY <1>2 DEF Accounted, Alone, ShipOf
  <1>3. CASE q = r /\ pc[r] = "event" /\ ShipOf(r) = s /\ job[r].op \in ContactOps
    <2>1. Going(r)
      BY <1>3 DEF Begun
    <2>2. CASE r \in failed'
      BY <1>3, <2>2 DEF Accounted
    <2>3. CASE RecordEvent(r)
      <3>1. PICK type : type \in EventType(r)
        BY <1>3 DEF EventType, ContactOps
      <3>2. r \in failed' \/ Told(s, r, type)'
        BY <1>3, <2>1, <2>3, <3>1, RowsAdded DEF ShipInv, Going, RecordEvent
      <3>3. Told(s, r, type)' => \E row \in timeline'[s] : row.by = r
        BY DEF Told
      <3> QED
        BY <1>3, <3>2, <3>3 DEF Accounted
    <2> QED
      BY <1>3, <2>1, <2>2, <2>3 DEF Going, AtStatement
  <1> QED
    BY <1>1, <1>2, <1>3 DEF Accounted

LEMMA ContactsToldStep ==
  ASSUME ShipInv, TypeOK', NEW r \in Request, Alone(r), Begun(r) \/ Going(r)
  PROVE  ContactsTold'
  <1>1. ASSUME NEW s \in Shipment, NEW c \in Column, NEW f \in Field
        PROVE  Accounted(s, contact[s][c][f])'
    <2>1. contact[s][c][f] \in Request \cup {Sender} /\ Accounted(s, contact[s][c][f])
      BY DEF ShipInv, TypeOK, ContactsTold
    <2>2. ASSUME contact'[s][c][f] = contact[s][c][f] PROVE Accounted(s, contact[s][c][f])'
      <3>1. PICK q \in Request \cup {Sender} : q = contact[s][c][f]
        BY <2>1
      <3>2. Accounted(s, q)'
        BY <2>1, <3>1, AccountedStays
      <3> QED
        BY <2>2, <3>1, <3>2 DEF Accounted
    <2>3. CASE contact'[s][c][f] # contact[s][c][f]
      <3>1. WriteShipment(r) /\ Going(r)
        BY <2>3 DEF Begun, Going, Frames, table
      <3>2. s = ShipOf(r) /\ job[r].op \in ContactOps /\ contact'[s][c][f] = copy[r][f]
        BY <2>3, <3>1, WriteEffect DEF ShipInv, Going
      <3>3. pc[r] = "write" /\ pc'[r] = "event" /\ job' = job /\ ShipOf(r)' = s
        BY <3>1, <3>2, WriteGoesOn DEF ShipInv
      <3>4. PICK q \in Request \cup {Sender} : q = copy[r][f]
        BY DEF ShipInv, TypeOK
      <3>5. q = r \/ Accounted(s, q)
        BY <3>2, <3>3, <3>4 DEF ShipInv, ContactsTold
      <3>6. Accounted(s, r)'
        BY <3>2, <3>3 DEF Accounted
      <3>7. Accounted(s, q)'
        BY <3>5, <3>6, AccountedStays
      <3> QED
        BY <3>2, <3>4, <3>7 DEF Accounted
    <2> QED
      BY <2>2, <2>3
  <1>2. ASSUME NEW q \in Request, pc'[q] = "write", job'[q].op \in ContactOps, NEW f \in Field
        PROVE  copy'[q][f] = q \/ Accounted(ShipOf(q), copy[q][f])'
    <2>1. CASE q # r
      <3>1. pc[q] = "write" /\ job[q].op \in ContactOps /\ copy'[q] = copy[q]
            /\ ShipOf(q)' = ShipOf(q) /\ ShipOf(q) \in Shipment
        BY <1>2, <2>1, AtWork DEF Alone, ShipOf, ShipInv, InFlight
      <3>2. PICK p \in Request \cup {Sender} : p = copy[q][f]
        BY DEF ShipInv, TypeOK
      <3>3. PICK s \in Shipment : s = ShipOf(q)
        BY <3>1
      <3>4. p = q \/ Accounted(s, p)
        BY <3>1, <3>2, <3>3 DEF ShipInv, ContactsTold
      <3>5. p = q \/ Accounted(s, p)'
        BY <3>4, AccountedStays
      <3> QED
        BY <3>1, <3>2, <3>3, <3>5 DEF Accounted
    <2>2. CASE q = r
      <3>1. Going(r) /\ job' = job /\ pc'[r] = After(job[r].op, pc[r])
            /\ pc[r] \in Statements(job[r].op) /\ ShipOf(r) \in Shipment
        BY <1>2, <2>2, AtWork DEF Begun, Going, Moved, Onward, ContactOps, ShipInv
      <3>2. pc[r] = "load"
        BY <1>2, <2>2, <3>1 DEF After, Statements, ContactOps
      <3>3. LoadContact(r)
        BY <1>2, <2>2, <3>1, <3>2 DEF Going, AtStatement
      <3>4. PICK s \in Shipment : s = ShipOf(r)
        BY <3>1
      <3>5. copy'[r][f] = r \/ copy'[r][f] = contact[s][ColumnOf(r)][f]
        BY <3>3, <3>4 DEF LoadContact, Merged, ShipInv, TypeOK
      <3>6. ColumnOf(r) \in Column
        BY DEF ColumnOf, Column
      <3>7. PICK p \in Request \cup {Sender} : p = contact[s][ColumnOf(r)][f]
        BY <3>6 DEF ShipInv, TypeOK
      <3>8. Accounted(s, p)'
        BY <3>6, <3>7, AccountedStays DEF ShipInv, ContactsTold
      <3>9. ShipOf(r)' = s
        BY <3>1, <3>4 DEF ShipOf
      <3> QED
        BY <2>2, <3>5, <3>7, <3>8, <3>9 DEF Accounted
    <2> QED
      BY <2>1, <2>2
  <1> QED
    BY <1>1, <1>2 DEF ContactsTold

LEMMA DeliveriesToldStep ==
  ASSUME ShipInv, TypeOK', NEW r \in Request, Alone(r), Begun(r) \/ Going(r)
  PROVE  DeliveriesTold'
  <1> DEFINE Announced(s, q) == \E e \in published[s] : e.by = q /\ e.subject = "delivered"
             Pending(s, q) == /\ pc[q] \in {"event", "publish", "milestone"} /\ ShipOf(q) = s
                              /\ job[q].op \in {"status", "bulk", "delivery"}
                              /\ Wanted(q) = "delivered"
  <1> SUFFICES ASSUME NEW s \in Shipment, NEW w \in writes'[s], w.to = "delivered"
               PROVE  w.by \in failed' \/ Announced(s, w.by)' \/ Pending(s, w.by)'
    BY DEF DeliveriesTold
  <1>1. w.by \in Request /\ failed \subseteq failed'
    BY DEF TypeOK, Alone
  <1>2. Announced(s, w.by) => Announced(s, w.by)'
    BY DEF Alone
  <1>3. CASE w \in writes[s] /\ w.by # r
    <2>1. w.by \in failed \/ Announced(s, w.by) \/ Pending(s, w.by)
      BY <1>3 DEF ShipInv, DeliveriesTold
    <2>2. Pending(s, w.by) => Pending(s, w.by)'
      BY <1>1, <1>3 DEF Alone, ShipOf, Wanted
    <2> QED
      BY <1>1, <1>2, <2>1, <2>2
  <1>4. CASE w \in writes[s] /\ w.by = r
    <2>1. r \in failed \/ Announced(s, r) \/ Pending(s, r)
      BY <1>4 DEF ShipInv, DeliveriesTold
    <2>2. CASE Pending(s, r) /\ r \notin failed'
      <3>1. Going(r) /\ AtStatement(r)
        <4>1. pc[r] # "idle"
          BY <2>2
        <4> QED
          BY <2>2, <4>1 DEF Begun, Going
      <3>2. CASE pc[r] \in {"event", "publish"}
        <4>1. Proceed(r)
          BY <3>1, <3>2 DEF AtStatement, RecordEvent, PublishStatusChanged
        <4>2. After(job[r].op, pc[r]) \in {"publish", "milestone"}
          BY <2>2, <3>2 DEF After
        <4>3. pc'[r] \in {"publish", "milestone"} /\ job' = job
          BY <3>1, <4>1, <4>2, Proceeds DEF ShipInv, Going
        <4> QED
          BY <1>4, <2>2, <4>3 DEF ShipOf, Wanted
      <3>3. CASE pc[r] = "milestone"
        <4>1. Announce(r, {"delivered"})
          BY <2>2, <3>1, <3>3 DEF AtStatement, PublishMilestone, Milestone
        <4>2. published' = [published EXCEPT ![s] = @ \cup
                  {[by |-> r, to |-> Wanted(r), subject |-> x] : x \in {"delivered"}}]
          BY <2>2, <4>1 DEF Announce, Fails
        <4>3. [by |-> r, to |-> Wanted(r), subject |-> "delivered"] \in published'[s]
          BY <4>2 DEF ShipInv, TypeOK
        <4> QED
          BY <1>4, <4>3
      <3> QED
        BY <2>2, <3>2, <3>3
    <2> QED
      BY <1>1, <1>2, <1>4, <2>1, <2>2
  <1>5. CASE w \notin writes[s]
    <2>1. WriteShipment(r) /\ Going(r)
      BY <1>5 DEF Begun, Going, Frames, table
    <2>2. s = ShipOf(r) /\ w.by = r /\ "delivered" \in NewStatus(r)
      BY <1>5, <2>1, WriteEffect DEF ShipInv, Going
    <2>3. /\ pc[r] = "write" /\ pc'[r] = "event" /\ job' = job /\ ShipOf(r)' = s
          /\ Wanted(r)' = Wanted(r) /\ pc[r] \in Statements(job[r].op) /\ job[r].op \in Endpoint
      BY <2>1, <2>2, WriteGoesOn DEF ShipInv
    <2>4. Wanted(r) = "delivered" /\ job[r].op \notin {"attempt", "recipient", "sender", "reschedule"}
      BY <2>2 DEF NewStatus, Verdict
    <2>5. job[r].op \notin {"redirect", "hold", "event"}
      BY <2>1, <2>3, <2>4 DEF ShipInv, OnPath, OwnStatus, Statements, Going
    <2>6. job[r].op \in {"status", "bulk", "delivery"}
      BY <2>3, <2>4, <2>5 DEF Endpoint
    <2> QED
      BY <2>2, <2>3, <2>4, <2>6
  <1> QED
    BY <1>3, <1>4, <1>5

-----------------------------------------------------------------------------
\* The seeds, and the invariant.

LEMMA TwoElements ==
  ASSUME NEW a, NEW b, a # b
  PROVE  IsFiniteSet({a} \cup {b}) /\ Cardinality({a} \cup {b}) = 2
  <1> DEFINE S == {a}
  <1>1. IsFiniteSet(S) /\ Cardinality(S) = 1 /\ b \notin S
    BY FS_Singleton
  <1> HIDE DEF S
  <1>2. IsFiniteSet(S \cup {b}) /\ Cardinality(S \cup {b}) = Cardinality(S) + 1
    BY <1>1, FS_AddElement
  <1> QED
    BY <1>1, <1>2 DEF S

\* The attempts a shipment starts with: their numbers are 1..k for some k that is
\* at most their number.
LEMMA SeedNumbers ==
  ASSUME NEW row \in Seed
  PROVE  /\ Cardinality(row.tries) \in Nat
         /\ \E k \in 0..Cardinality(row.tries) : {t[2] : t \in row.tries} = 1..k
  <1> DEFINE T == row.tries
             N == {t[2] : t \in T}
             n == Cardinality(T)
  <1>1. IsFiniteSet(T) /\ T \subseteq Past \X {1, 2}
        /\ \A t \in T : t[2] = 1 \/ \E u \in T : u[2] = 1
    BY SeedAssumption
  <1>2. n \in Nat
    BY <1>1, FS_CardinalityType
  <1>3. N \subseteq {1, 2} /\ (T # {} => 1 \in N)
    BY <1>1
  <1> HIDE DEF T, n
  <1>4. CASE T = {}
    <2>1. N = 1..0
      BY <1>4
    <2> QED
      BY <1>2, <2>1 DEF T, n
  <1>5. CASE T # {} /\ 2 \notin N
    <2>1. N = 1..1
      BY <1>3, <1>5
    <2>2. n # 0
      BY <1>1, <1>5, FS_EmptySet DEF n
    <2>3. 1 \in 0..n
      BY <1>2, <2>2
    <2> QED
      BY <1>2, <2>1, <2>3 DEF T, n
  <1>6. CASE 2 \in N
    <2>1. PICK t \in T, u \in T : t[2] = 1 /\ u[2] = 2
      BY <1>3, <1>6
    <2>2. N = 1..2
      BY <1>3, <2>1
    <2>3. t # u
      BY <2>1
    <2>5. IsFiniteSet({t} \cup {u}) /\ Cardinality({t} \cup {u}) = 2
      BY <2>3, TwoElements
    <2>6. {t} \cup {u} \subseteq T
      BY <2>1
    <2>7. 2 <= n
      BY <1>1, <2>5, <2>6, FS_Subset DEF n
    <2>8. 2 \in 0..n
      BY <1>2, <2>7
    <2> QED
      BY <1>2, <2>2, <2>8 DEF T, n
  <1> QED
    BY <1>3, <1>4, <1>5, <1>6

LEMMA ShipInit == Init => ShipInv
  <1> SUFFICES ASSUME Init PROVE ShipInv
    OBVIOUS
  <1>1. ASSUME NEW s \in Shipment
        PROVE  /\ status[s] \in seed[s].visited /\ seed[s].visited \subseteq Status
               /\ tries[s] = seed[s].tries /\ attempts[s] = Cardinality(tries[s])
               /\ IsFiniteSet(tries[s]) /\ tries[s] \subseteq Past \X {1, 2}
               /\ attempts[s] \in Nat /\ \E k \in 0..attempts[s] : Numbers(s) = 1..k
               /\ seed[s].visited \subseteq NotUnderWay \/ "picked_up" \in seed[s].visited
    <2>1. seed[s] \in Seed /\ status[s] = seed[s].status /\ tries[s] = seed[s].tries
          /\ attempts[s] = Cardinality(seed[s].tries)
      BY DEF Init
    <2> QED
      BY <2>1, SeedAssumption, SeedNumbers DEF Numbers
  <1>2. TypeOK
    <2>1. status \in [Shipment -> Status] /\ attempts \in [Shipment -> Nat]
      BY <1>1 DEF Init
    <2>2. tries \in [Shipment -> SUBSET ((Request \cup Past) \X Nat)]
      <3>1. \A s \in Shipment : tries[s] \in SUBSET ((Request \cup Past) \X Nat)
        BY <1>1
      <3> QED
        BY <3>1 DEF Init
    <2>3. [op |-> "hold", items |-> <<>>, patch |-> {}]
              \in [op : Endpoint, items : Seq(Shipment \X Status), patch : SUBSET Field]
      BY DEF Endpoint
    <2>4. "created" \in Status
      BY DEF Status
    <2> QED
      BY <2>1, <2>2, <2>3, <2>4 DEF Init, TypeOK
  <1>3. \A r \in Request : pc[r] = "idle" /\ job[r].op = "hold"
    BY DEF Init
  <1>4. \A s \in Shipment : writes[s] = {}
    BY DEF Init
  <1>5. OnPath /\ StatusesTold /\ DeliveriesTold
    BY <1>3, <1>4 DEF OnPath, StatusesTold, DeliveriesTold, InFlight
  <1>6. ReadIsHistory
    BY <1>1, <1>3 DEF ReadIsHistory, Visited
  <1>7. NumbersFollow
    BY <1>1, <1>3 DEF NumbersFollow
  <1>8. AttemptsRecorded
    BY <1>1, PastAssumption DEF AttemptsRecorded
  <1>9. ContactsTold
    BY <1>3 DEF Init, ContactsTold, Accounted
  <1>10. PickedUpFirst
    BY <1>1, <1>4 DEF PickedUpFirst, Visited
  <1> QED
    BY <1>2, <1>5, <1>6, <1>7, <1>8, <1>9, <1>10 DEF ShipInv

LEMMA ShipStep == ShipInv /\ [Next]_vars => ShipInv'
  <1> SUFFICES ASSUME ShipInv, [Next]_vars PROVE ShipInv'
    OBVIOUS
  <1>1. CASE Next
    <2>1. PICK r \in Request : TypeOK' /\ OnPath' /\ Alone(r) /\ (Begun(r) \/ Going(r))
      BY <1>1, NextCases DEF ShipInv
    <2> QED
      BY <2>1, ReadIsHistoryStep, NumbersFollowStep, AttemptsRecordedStep, StatusesToldStep,
         ContactsToldStep, DeliveriesToldStep, PickedUpFirstStep DEF ShipInv
  <1>2. CASE UNCHANGED vars
    <2>1. UNCHANGED <<status, attempts, tries, contact, writes, timeline, published, pc, job,
                      failed, seen, copy, number, seed>>
      BY <1>2 DEF vars, table, locals
    <2>2. TypeOK' /\ OnPath' /\ NumbersFollow'
      BY <2>1 DEF ShipInv, TypeOK, OnPath, NumbersFollow, Wanted, ShipOf, Numbers
    <2>3. ReadIsHistory' /\ PickedUpFirst' /\ AttemptsRecorded'
      BY <2>1 DEF ShipInv, ReadIsHistory, PickedUpFirst, AttemptsRecorded, Recorded, Visited,
                  Wanted, ShipOf
    <2>4. StatusesTold'
      BY <2>1 DEF ShipInv, StatusesTold, Told, EventType, Wanted, ShipOf
    <2>5. ContactsTold'
      BY <2>1 DEF ShipInv, ContactsTold, Accounted, ShipOf
    <2>6. DeliveriesTold'
      BY <2>1 DEF ShipInv, DeliveriesTold, Wanted, ShipOf
    <2> QED
      BY <2>2, <2>3, <2>4, <2>5, <2>6 DEF ShipInv
  <1> QED
    BY <1>1, <1>2

LEMMA ShipInvariant == Spec => []ShipInv
  BY ShipInit, ShipStep, PTL DEF Spec

-----------------------------------------------------------------------------
(* The theorems.                                                           *)

\* Rows, timelines, events and the locals of the handlers stay in their types for
\* every batch and any number of requests: in particular every status a handler
\* writes is one of the fifteen, and no handler reads past its items.
THEOREM TypesAreKept == Spec => []TypeOK
  <1>1. ShipInv => TypeOK
    BY DEF ShipInv
  <1> QED
    BY <1>1, ShipInvariant, PTL

\* While only the status endpoints are called, no parcel is under way that no
\* courier has picked up, although every write rests on a read that may be stale.
THEOREM PickUpComesFirst == Spec => []PickedUpFirst
  <1>1. ShipInv => PickedUpFirst
    BY DEF ShipInv
  <1> QED
    BY <1>1, ShipInvariant, PTL

\* The counter of a shipment is the number of its attempts whatever handlers race
\* or die, and an attempt that was recorded without failures shows in the status.
THEOREM AttemptsAreShown == Spec => []AttemptsShow
  <1>1. ShipInv => AttemptsShow
    <2> SUFFICES ASSUME ShipInv, NEW s \in Shipment
                 PROVE  /\ attempts[s] = Cardinality(tries[s])
                        /\ \A t \in tries[s] : t[1] \in Succeeded => Recorded(s, t[2])
      BY DEF AttemptsShow, Recorded
    <2>1. attempts[s] = Cardinality(tries[s])
      BY DEF ShipInv, NumbersFollow
    <2>2. ASSUME NEW t \in tries[s], t[1] \in Succeeded PROVE Recorded(s, t[2])
      BY <2>2 DEF ShipInv, AttemptsRecorded, Succeeded
    <2> QED
      BY <2>1, <2>2
  <1> QED
    BY <1>1, ShipInvariant, PTL

\* The timeline has a row for every status and every contact that a request set
\* and survived, even when the contact is one that a later request wrote back.
THEOREM TimelineIsComplete == Spec => []TimelineComplete
  <1>1. ShipInv => TimelineComplete
    <2> SUFFICES ASSUME ShipInv, NEW s \in Shipment
                 PROVE  /\ \A w \in writes[s] : w.by \in Succeeded =>
                              \E row \in timeline[s] : row.by = w.by /\ row.type = w.to
                        /\ \A c \in Column, f \in Field : contact[s][c][f] \in Succeeded =>
                              \E row \in timeline[s] : row.by = contact[s][c][f]
      BY DEF TimelineComplete
    <2>1. ASSUME NEW w \in writes[s], w.by \in Succeeded
          PROVE  \E row \in timeline[s] : row.by = w.by /\ row.type = w.to
      <3>1. Told(s, w.by, w.to)
        BY <2>1 DEF ShipInv, StatusesTold, Succeeded
      <3> QED
        BY <3>1 DEF Told
    <2>2. ASSUME NEW c \in Column, NEW f \in Field, contact[s][c][f] \in Succeeded
          PROVE  \E row \in timeline[s] : row.by = contact[s][c][f]
      BY <2>2, SenderAssumption DEF ShipInv, ContactsTold, Accounted, Succeeded
    <2> QED
      BY <2>1, <2>2
  <1> QED
    BY <1>1, ShipInvariant, PTL

\* Every request that delivered a shipment and survived has said so.
THEOREM DeliveriesAreAnnounced == Spec => []DeliveriesAnnounced
  <1>1. ShipInv => DeliveriesAnnounced
    BY DEF ShipInv, DeliveriesTold, DeliveriesAnnounced, Succeeded
  <1> QED
    BY <1>1, ShipInvariant, PTL

-----------------------------------------------------------------------------
\* The refinement: a step that writes a status or an attempt is a step of the
\* record, every other one leaves the record alone.

\* A status that was written has an endpoint of its own or follows one the
\* shipment has had.
LEMMA WriteIsMove ==
  ASSUME ShipInv, NEW r \in Request, Going(r), WriteShipment(r), NEW to \in NewStatus(r),
         NEW s \in Shipment, s = ShipOf(r)
  PROVE  to \in Status /\ (to \in Record!Direct \/ \E from \in Visited(s) : CanTransition(from, to))
  <1>1. /\ pc[r] = "write" /\ pc[r] \in Statements(job[r].op) /\ job[r].op \in Endpoint
    BY WriteGoesOn DEF ShipInv
  <1>2. to \in Status
    BY VerdictIsStatus DEF ShipInv, Going
  <1>3. CASE job[r].op = "attempt"
    BY <1>2, <1>3 DEF NewStatus, Verdict, Record!Direct
  <1>4. CASE job[r].op \in {"status", "bulk"}
    BY <1>1, <1>2, <1>4 DEF NewStatus, ShipInv, ReadIsHistory
  <1>5. CASE job[r].op \in {"redirect", "hold", "delivery"}
    <2>1. to = OwnStatus[job[r].op]
      BY <1>5 DEF NewStatus, ShipInv, OnPath, OwnStatus, Going
    <2> QED
      BY <1>2, <1>5, <2>1 DEF OwnStatus, Record!Direct
  <1>6. job[r].op \notin {"recipient", "sender", "reschedule", "event"}
    BY <1>1 DEF NewStatus, Statements
  <1> QED
    BY <1>1, <1>3, <1>4, <1>5, <1>6 DEF Endpoint

LEMMA RecordStep ==
  ASSUME ShipInv, ShipInv', NEW r \in Request, Alone(r), Begun(r) \/ Going(r)
  PROVE  Record!Next \/ UNCHANGED <<status, [s \in Shipment |-> Visited(s)], attempts,
                                    [s \in Shipment |-> Numbers(s)]>>
  <1>1. CASE UNCHANGED <<status, writes, tries, attempts>>
    BY <1>1 DEF Alone, Visited, Numbers
  <1>2. CASE WriteShipment(r) /\ Going(r)
    <2>1. PICK s \in Shipment : s = ShipOf(r)
      BY <1>2, AtWork DEF ShipInv, Going
    <2>2. UNCHANGED <<attempts, tries, seed>>
      BY <1>2 DEF WriteShipment, locals
    <2>3. \A x \in Shipment \ {s} : status'[x] = status[x] /\ writes'[x] = writes[x]
      BY <1>2, <2>1, WriteEffect DEF ShipInv, Going
    <2>4. CASE status'[s] = status[s] /\ writes'[s] = writes[s]
      <3>1. status' = status /\ writes' = writes
        BY <2>3, <2>4 DEF ShipInv, TypeOK
      <3> QED
        BY <2>2, <3>1 DEF Visited, Numbers
    <2>5. CASE /\ NewStatus(r) # {} /\ status'[s] \in NewStatus(r)
               /\ writes'[s] = writes[s] \cup {[by |-> r, to |-> to] : to \in NewStatus(r)}
      <3>1. PICK to \in NewStatus(r) : status'[s] = to /\ NewStatus(r) = {to}
        BY <1>2, <2>5, VerdictIsStatus DEF ShipInv, Going
      <3>2. to \in Status /\ (to \in Record!Direct \/ \E from \in Visited(s) : CanTransition(from, to))
        BY <1>2, <2>1, WriteIsMove
      <3>3. Visited(s)' = Visited(s) \cup {to}
        <4>1. writes'[s] = writes[s] \cup {[by |-> r, to |-> to]}
          BY <2>5, <3>1
        <4>2. \A w \in writes'[s] : w \in writes[s] \/ w.to = to
          BY <4>1
        <4>3. [by |-> r, to |-> to].to = to /\ [by |-> r, to |-> to] \in writes'[s]
          BY <4>1
        <4>4. to \in {w.to : w \in writes'[s]}
          BY <4>3
        <4> QED
          BY <2>2, <4>1, <4>2, <4>4 DEF Visited
      <3>4. \A x \in Shipment \ {s} : Visited(x)' = Visited(x)
        BY <2>2, <2>3 DEF Visited
      <3>5. status' = [status EXCEPT ![s] = to]
        BY <2>3, <3>1 DEF ShipInv, TypeOK
      <3>6. [x \in Shipment |-> Visited(x)']
                = [[x \in Shipment |-> Visited(x)] EXCEPT ![s] = @ \cup {to}]
        BY <3>3, <3>4
      <3>7. \A from : CanTransition(from, to) <=> Record!CanTransition(from, to)
        BY DEF CanTransition, Allowed, Record!CanTransition, Record!Allowed
      <3>8. Record!Move(s, to)
        BY <2>2, <3>2, <3>5, <3>6, <3>7 DEF Record!Move, Numbers
      <3>9. to \in Record!Status
        BY <3>2 DEF Status, Record!Status
      <3> QED
        BY <3>8, <3>9 DEF Record!Next
    <2> QED
      BY <1>2, <2>1, <2>4, <2>5, WriteEffect DEF ShipInv, Going
  <1>3. CASE InsertAttempt(r) /\ Going(r)
    <2>1. PICK s \in Shipment : s = ShipOf(r)
      BY <1>3, AtWork DEF ShipInv, Going
    <2>2. UNCHANGED <<status, writes, seed>> /\ pc[r] = "insert"
          /\ attempts' = [attempts EXCEPT ![s] = @ + 1]
          /\ tries' = [tries EXCEPT ![s] = @ \cup {<<r, number[r]>>}]
      BY <1>3, <2>1 DEF InsertAttempt, locals
    <2>3. \A x \in Shipment : Numbers(x)' = IF x = s THEN Numbers(x) \cup {number[r]} ELSE Numbers(x)
      <3>1. Numbers(s)' = Numbers(s) \cup {number[r]}
        <4>1. tries'[s] = tries[s] \cup {<<r, number[r]>>}
          BY <2>2 DEF ShipInv, TypeOK
        <4>2. {t[2] : t \in tries[s] \cup {<<r, number[r]>>}}
                  = {t[2] : t \in tries[s]} \cup {number[r]}
          BY SecondsOfOneMore
        <4> QED
          BY <4>1, <4>2 DEF Numbers
      <3>2. \A x \in Shipment \ {s} : Numbers(x)' = Numbers(x)
        BY <2>2 DEF Numbers, ShipInv, TypeOK
      <3> QED
        BY <3>1, <3>2
    <2>4. [x \in Shipment |-> Numbers(x)']
              = [[x \in Shipment |-> Numbers(x)] EXCEPT ![s] = @ \cup {number[r]}]
      BY <2>3
    <2>5. number[r] = 1 \/ number[r] - 1 \in Numbers(s)
      BY <2>1, <2>2 DEF ShipInv, NumbersFollow
    <2>6. number[r] \in 1..(attempts[s] + 1)
      <3>1. PICK k \in 0..attempts[s] : Numbers(s) = 1..k
        BY DEF ShipInv, NumbersFollow
      <3>2. number[r] \in Nat \ {0} /\ attempts[s] \in Nat
        BY <2>1, <2>2 DEF ShipInv, NumbersFollow, TypeOK
      <3> QED
        BY <2>5, <3>1, <3>2
    <2>7. Record!Attempt(s, number[r])
      BY <2>2, <2>4, <2>5 DEF Record!Attempt, Visited
    <2> QED
      BY <2>6, <2>7 DEF Record!Next
  <1> QED
    BY <1>1, <1>2, <1>3 DEF Begun, Going, Frames, table, WriteShipment, InsertAttempt

\* The handlers, which guard none of their writes, implement the record: a status
\* without an endpoint of its own follows one the shipment has had, every attempt
\* counts once, and no attempt number is skipped.
THEOREM RecordImplemented == Spec => ImplementsRecord
  <1>1. Init => Record!Init
    <2> SUFFICES ASSUME Init PROVE Record!Init
      OBVIOUS
    <2>1. /\ seed \in [Shipment -> Seed]
          /\ status = [s \in Shipment |-> seed[s].status]
          /\ attempts = [s \in Shipment |-> Cardinality(seed[s].tries)]
      BY DEF Init
    <2>2. [s \in Shipment |-> Visited(s)] = [s \in Shipment |-> seed[s].visited]
      BY DEF Init, Visited
    <2>3. [s \in Shipment |-> Numbers(s)] = [s \in Shipment |-> {t[2] : t \in seed[s].tries}]
      BY DEF Init, Numbers
    <2>4. \A S : Record!Cardinality(S) = Cardinality(S)
      BY DEF Record!Cardinality, Cardinality
    <2> QED
      BY <2>1, <2>2, <2>3, <2>4 DEF Record!Init
  <1>2. ShipInv /\ [Next]_vars
            => [Record!Next]_<<status, [s \in Shipment |-> Visited(s)], attempts,
                               [s \in Shipment |-> Numbers(s)]>>
    <2> SUFFICES ASSUME ShipInv, [Next]_vars
                 PROVE  Record!Next \/ UNCHANGED <<status, [s \in Shipment |-> Visited(s)], attempts,
                                                   [s \in Shipment |-> Numbers(s)]>>
      OBVIOUS
    <2>1. CASE Next
      <3>1. PICK r \in Request : Alone(r) /\ (Begun(r) \/ Going(r))
        BY <2>1, NextCases DEF ShipInv
      <3>2. ShipInv'
        BY ShipStep
      <3> QED
        BY <3>1, <3>2, RecordStep
    <2>2. CASE UNCHANGED vars
      BY <2>2 DEF vars, table, locals, Visited, Numbers
    <2> QED
      BY <2>1, <2>2
  <1> QED
    BY <1>1, <1>2, ShipInvariant, PTL DEF Spec, ImplementsRecord, Record!Spec

=============================================================================
