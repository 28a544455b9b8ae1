------------------------ MODULE InventoryStockProofs ------------------------
(***************************************************************************)
(* Proofs about the inventory service's stock for every set of rows,       *)
(* requests and quantities.  The argument: between its lock and its commit *)
(* a transaction alone holds its row (Exclusive), so what it checked still *)
(* holds when it writes; every commit is then one move of the account.     *)
(***************************************************************************)
EXTENDS InventoryStock, TLAPS

Locked == {"update", "movement", "commit"}

\* The transactions under way.
Exclusive ==
    /\ \A r \in Request : pc[r] \in Locked => lock[job[r].row] = r
    /\ \A s \in Row : lock[s] # Free => job[lock[s]].row = s /\ pc[lock[s]] \in Locked

\* What a handler knows at each of its statements.
Progress ==
    \A r \in Request :
        /\ pc[r] \in Locked \cup {"publish"} => job[r].op \in Types
        /\ pc[r] \in Locked => job[r].amount \in Amount
        /\ pc[r] = "lock" => job[r].amount \in IF job[r].op \in Types
                                               THEN Amount ELSE Threshold
        /\ pc[r] = "update" => copy[r] = row[job[r].row]
        /\ pc[r] \in {"movement", "commit"} =>
              LET st == row[job[r].row] IN
              /\ Permitted(st, job[r].op, job[r].amount)
              /\ copy[r] = Applied(st, job[r].op, job[r].amount)
              /\ InRange(copy[r])

RowsSound == \A s \in Row : RowCheck(row[s])

StockInv ==
    /\ TypeOK
    /\ Exclusive
    /\ Progress
    /\ RowsSound
    /\ ChecksNeverFire

-----------------------------------------------------------------------------
\* Lemmas on the arithmetic of one row.

LEMMA AmountIsPositive == \A n \in Amount : n \in Nat /\ n > 0
  BY AmountAssumption

\* The fields of a row after a move.
LEMMA AppliedFields ==
  ASSUME NEW st \in StockRecord, NEW type \in Types, NEW n \in Nat
  PROVE  LET new == Applied(st, type, n) IN
         /\ new = [quantity |-> new.quantity, reserved |-> new.reserved, min |-> st.min]
         /\ new.quantity = CASE type \in {"inbound", "adjustment"} -> st.quantity + n
                             [] type = "outbound"                  -> st.quantity - n
                             [] OTHER                              -> st.quantity
         /\ new.reserved = CASE type = "reserve" -> st.reserved + n
                             [] type = "release" -> st.reserved - n
                             [] OTHER            -> st.reserved
  <1> DEFINE a == CASE type \in {"inbound", "adjustment"} -> st.quantity + n
                    [] type = "outbound"                  -> st.quantity - n
                    [] OTHER                              -> st.quantity
             b == CASE type = "reserve" -> st.reserved + n
                    [] type = "release" -> st.reserved - n
                    [] OTHER            -> st.reserved
  <1>1. Applied(st, type, n) = [st EXCEPT !.quantity = a, !.reserved = b]
    BY DEF Applied
  <1>2. [st EXCEPT !.quantity = a, !.reserved = b]
            = [quantity |-> a, reserved |-> b, min |-> st.min]
    <2> HIDE DEF a, b
    <2>1. st = [quantity |-> st.quantity, reserved |-> st.reserved, min |-> st.min]
      BY DEF StockRecord
    <2>2. DOMAIN st = {"quantity", "reserved", "min"}
      BY <2>1
    <2>3. [st EXCEPT !.quantity = a, !.reserved = b]
              = [f \in {"quantity", "reserved", "min"} |->
                    IF f = "reserved" THEN b ELSE IF f = "quantity" THEN a ELSE st[f]]
      BY <2>1, <2>2
    <2> QED
      BY <2>3
  <1> QED
    BY <1>1, <1>2

\* A permitted move keeps the CHECK constraints; only the width can stop it.
LEMMA PermittedIsSound ==
  ASSUME NEW st \in StockRecord, RowCheck(st), NEW type \in Types, NEW n \in Amount,
         Permitted(st, type, n)
  PROVE  /\ RowCheck(Applied(st, type, n))
         /\ InRange(Applied(st, type, n)) => Applied(st, type, n) \in StockRecord
  <1> DEFINE new == Applied(st, type, n)
  <1>1. /\ n \in Nat /\ n > 0 /\ MaxInt \in Nat
        /\ st.quantity \in Nat /\ st.reserved \in Nat /\ st.min \in Nat
        /\ st.reserved <= st.quantity
    BY AmountIsPositive, MaxIntAssumption DEF StockRecord, RowCheck
  <1>2. new = [quantity |-> new.quantity, reserved |-> new.reserved, min |-> st.min]
    BY <1>1, AppliedFields
  <1>3. /\ new.quantity = CASE type \in {"inbound", "adjustment"} -> st.quantity + n
                            [] type = "outbound"                  -> st.quantity - n
                            [] OTHER                              -> st.quantity
        /\ new.reserved = CASE type = "reserve" -> st.reserved + n
                            [] type = "release" -> st.reserved - n
                            [] OTHER            -> st.reserved
    BY <1>1, AppliedFields
  <1>4. new.quantity \in Nat /\ new.reserved \in Nat /\ new.reserved <= new.quantity
    <2> HIDE DEF new
    <2> QED
      BY <1>1, <1>3 DEF Permitted, Available, Types
  <1>5. RowCheck(new)
    BY <1>4 DEF RowCheck
  <1>6. InRange(new) => new \in StockRecord
    <2> HIDE DEF new
    <2> QED
      BY <1>1, <1>2, <1>4 DEF InRange, StockRecord
  <1> QED
    BY <1>5, <1>6

\* The threshold plays no part in the constraints.
LEMMA MinIsFree ==
  ASSUME NEW st \in StockRecord, NEW n \in Nat
  PROVE  /\ [st EXCEPT !.min = n] \in StockRecord
         /\ RowCheck([st EXCEPT !.min = n]) <=> RowCheck(st)
  BY DEF StockRecord, RowCheck

LEMMA SomeRow == NoJob \in [op : Ops, row : Row, amount : Nat]
  BY RowAssumption DEF NoJob, Ops

LEMMA StockInit == Init => StockInv
  <1> SUFFICES ASSUME Init PROVE StockInv
    OBVIOUS
  <1>1. \A s \in Row : row[s] \in StockRecord /\ RowCheck(row[s])
    BY SeedAssumption DEF Init
  <1>2. row \in [Row -> StockRecord]
    BY <1>1 DEF Init
  <1>3. [quantity |-> 0, reserved |-> 0, min |-> 0] \in StockRecord
    BY MaxIntAssumption DEF StockRecord
  <1>4. TypeOK
    BY <1>2, <1>3, SomeRow DEF Init, TypeOK
  <1> QED
    BY <1>1, <1>4 DEF Init, StockInv, Exclusive, Progress, RowsSound, ChecksNeverFire, Locked

-----------------------------------------------------------------------------
\* Every step keeps the invariant.

\* A request begins: it is given a job and nothing else happens.
LEMMA BeginStep ==
  ASSUME StockInv, NEW r \in Request, NEW s \in Row, NEW op \in Ops,
         NEW n \in IF op \in Types THEN Amount ELSE Threshold,
         pc[r] = "idle",
         job' = [job EXCEPT ![r] = [op |-> op, row |-> s, amount |-> n]],
         Goto(r, "lock"), NothingWritten, UNCHANGED <<lock, copy, told, seed>>
  PROVE  StockInv'
  <1>1. n \in Nat
    BY AmountIsPositive, ThresholdAssumption
  <1>2. TypeOK'
    BY <1>1 DEF StockInv, TypeOK, Goto, NothingWritten, InFlight
  <1>3. /\ pc'[r] = "lock" /\ job'[r] = [op |-> op, row |-> s, amount |-> n]
        /\ \A q \in Request \ {r} : pc'[q] = pc[q] /\ job'[q] = job[q]
    BY DEF StockInv, TypeOK, Goto
  <1>4. Exclusive'
    <2>1. ASSUME NEW t \in Row, lock[t] = r
          PROVE  FALSE
      <3>1. lock[t] # Free
        BY <2>1, FreeAssumption
      <3>2. pc[r] \in Locked
        BY <2>1, <3>1 DEF StockInv, Exclusive
      <3> QED
        BY <3>2 DEF Locked
    <2>2. ASSUME NEW q \in Request, pc'[q] \in Locked
          PROVE  lock[job'[q].row] = q
      BY <1>3, <2>2 DEF StockInv, Exclusive, Locked
    <2>3. ASSUME NEW t \in Row, lock[t] # Free
          PROVE  job'[lock[t]].row = t /\ pc'[lock[t]] \in Locked
      <3>1. lock[t] \in Request \ {r}
        BY <2>1, <2>3 DEF StockInv, TypeOK
      <3> QED
        BY <1>3, <2>3, <3>1 DEF StockInv, Exclusive
    <2> QED
      BY <2>2, <2>3 DEF Exclusive
  <1>5. Progress'
    BY <1>3 DEF StockInv, Progress, Locked, NothingWritten
  <1>6. RowsSound' /\ ChecksNeverFire'
    BY <1>3 DEF StockInv, RowsSound, ChecksNeverFire, NothingWritten
  <1> QED
    BY <1>2, <1>4, <1>5, <1>6 DEF StockInv

\* A step of r's transaction, or after it, that writes no row: r keeps its job
\* and either holds its row to the end or gives it back and is done.
LEMMA QuietStep ==
  ASSUME StockInv, TypeOK', NEW r \in Request,
         UNCHANGED <<row, job>>, pc[r] # "idle",
         \A q \in Request \ {r} : pc'[q] = pc[q] /\ copy'[q] = copy[q],
         pc'[r] # "check_violation",
         \/ pc'[r] \in {"ok", "refused", "error", "low"} /\ Rollback(r)
         \/ pc'[r] \in Locked /\ lock' = [lock EXCEPT ![job[r].row] = r]
                             /\ lock[job[r].row] \in {r, Free},
         pc'[r] = "update" => copy'[r] = row[job[r].row],
         pc'[r] \in Locked => job[r].op \in Types /\ job[r].amount \in Amount,
         pc'[r] \in {"movement", "commit"} =>
            LET st == row[job[r].row] IN
            /\ Permitted(st, job[r].op, job[r].amount)
            /\ copy'[r] = Applied(st, job[r].op, job[r].amount)
            /\ InRange(copy'[r])
  PROVE  StockInv'
  <1>0. TypeOK /\ \A q \in Request : job[q].row \in Row
    BY DEF StockInv, TypeOK
  <1>1. RowsSound' /\ ChecksNeverFire'
    BY DEF StockInv, RowsSound, ChecksNeverFire
  <1>2. Progress'
    BY DEF StockInv, Progress, Locked
  <1>3. CASE pc'[r] \in {"ok", "refused", "error", "low"} /\ Rollback(r)
    <2>1. \A s \in Row : lock'[s] = IF lock[s] = r THEN Free ELSE lock[s]
      BY <1>3 DEF Rollback
    <2>2. ASSUME NEW q \in Request, pc'[q] \in Locked
          PROVE  lock'[job[q].row] = q
      <3>1. q # r
        BY <1>3, <2>2 DEF Locked
      <3> QED
        BY <1>0, <2>1, <2>2, <3>1 DEF StockInv, Exclusive
    <2>3. ASSUME NEW t \in Row, lock'[t] # Free
          PROVE  job[lock'[t]].row = t /\ pc'[lock'[t]] \in Locked
      <3>1. lock'[t] = lock[t] /\ lock[t] \in Request \ {r}
        BY <1>0, <2>1, <2>3 DEF TypeOK
      <3> QED
        BY <2>3, <3>1 DEF StockInv, Exclusive
    <2>4. Exclusive'
      BY <2>2, <2>3 DEF Exclusive
    <2> QED
      BY <1>1, <1>2, <2>4 DEF StockInv
  <1>4. CASE pc'[r] \in Locked /\ lock' = [lock EXCEPT ![job[r].row] = r]
             /\ lock[job[r].row] \in {r, Free}
    <2>1. \A s \in Row : lock'[s] = IF s = job[r].row THEN r ELSE lock[s]
      BY <1>0, <1>4 DEF TypeOK
    <2>2. ASSUME NEW q \in Request, pc'[q] \in Locked
          PROVE  lock'[job[q].row] = q
      <3>1. CASE q = r
        BY <1>0, <2>1, <3>1
      <3>2. CASE q # r
        <4>1. lock[job[q].row] = q
          BY <2>2, <3>2 DEF StockInv, Exclusive
        <4> QED
          BY <1>0, <1>4, <2>1, <3>2, <4>1, FreeAssumption
      <3> QED
        BY <3>1, <3>2
    <2>3. ASSUME NEW t \in Row, lock'[t] # Free
          PROVE  job[lock'[t]].row = t /\ pc'[lock'[t]] \in Locked
      <3>1. CASE t = job[r].row
        BY <1>4, <2>1, <3>1
      <3>2. CASE t # job[r].row
        <4>1. lock'[t] = lock[t] /\ lock[t] \in Request
          BY <1>0, <2>1, <2>3, <3>2 DEF TypeOK
        <4>2. job[lock[t]].row = t /\ pc[lock[t]] \in Locked
          BY <2>3, <4>1 DEF StockInv, Exclusive
        <4> QED
          BY <3>2, <4>1, <4>2
      <3> QED
        BY <3>1, <3>2
    <2>4. Exclusive'
      BY <2>2, <2>3 DEF Exclusive
    <2> QED
      BY <1>1, <1>2, <2>4 DEF StockInv
  <1> QED
    BY <1>3, <1>4

\* A transaction commits, or a threshold is set: r makes st the content of a row
\* nobody else holds.
LEMMA WriteStep ==
  ASSUME StockInv, TypeOK', NEW r \in Request, NEW st \in StockRecord, RowCheck(st),
         row' = [row EXCEPT ![job[r].row] = st], UNCHANGED job,
         lock[job[r].row] \in {r, Free},
         lock' = [lock EXCEPT ![job[r].row] = Free],
         pc[r] # "idle", pc'[r] \in {"publish", "low"},
         pc'[r] = "publish" => job[r].op \in Types,
         \A q \in Request \ {r} : pc'[q] = pc[q] /\ copy'[q] = copy[q]
  PROVE  StockInv'
  <1>0. TypeOK /\ \A q \in Request : job[q].row \in Row
    BY DEF StockInv, TypeOK
  <1>1. \A t \in Row : /\ row'[t] = IF t = job[r].row THEN st ELSE row[t]
                       /\ lock'[t] = IF t = job[r].row THEN Free ELSE lock[t]
    BY <1>0 DEF TypeOK
  <1>2. RowsSound' /\ ChecksNeverFire'
    BY <1>1 DEF StockInv, RowsSound, ChecksNeverFire
  <1>3. ASSUME NEW q \in Request \ {r}, pc[q] \in Locked
        PROVE  job[q].row # job[r].row /\ lock[job[q].row] = q
    BY <1>3, FreeAssumption DEF StockInv, Exclusive
  <1>4. Progress'
    BY <1>0, <1>1, <1>3 DEF StockInv, Progress, Locked
  <1>5. Exclusive'
    <2>1. ASSUME NEW q \in Request, pc'[q] \in Locked
          PROVE  lock'[job[q].row] = q
      <3>1. q # r
        BY <2>1 DEF Locked
      <3> QED
        BY <1>0, <1>1, <1>3, <2>1, <3>1
    <2>2. ASSUME NEW t \in Row, lock'[t] # Free
          PROVE  job[lock'[t]].row = t /\ pc'[lock'[t]] \in Locked
      <3>1. t # job[r].row /\ lock'[t] = lock[t] /\ lock[t] \in Request
        BY <1>0, <1>1, <2>2 DEF TypeOK
      <3>2. job[lock[t]].row = t /\ pc[lock[t]] \in Locked
        BY <2>2, <3>1 DEF StockInv, Exclusive
      <3> QED
        BY <3>1, <3>2
    <2> QED
      BY <2>1, <2>2 DEF Exclusive
  <1> QED
    BY <1>2, <1>4, <1>5 DEF StockInv

\* The types, action by action.
LEMMA RollbackType ==
  ASSUME TypeOK, NEW r \in Request, Rollback(r)
  PROVE  lock' \in [Row -> Request \cup {Free}]
  BY DEF TypeOK, Rollback

LEMMA WrittenType ==
  ASSUME TypeOK, NEW r \in Request, NEW st \in StockRecord, Written(r, st)
  PROVE  /\ row' \in [Row -> StockRecord]
         /\ version' \in [Row -> Nat] /\ stamp' \in [Request -> Nat]
         /\ lowFrom' \in [Row -> Nat]
  <1>1. job[r].row \in Row /\ version[job[r].row] + 1 \in Nat
    BY DEF TypeOK
  <1> QED
    BY <1>1 DEF TypeOK, Written

LEMMA TellType ==
  ASSUME TypeOK, NEW r \in Request, TellLow(r)
  PROVE  told' \in [Row -> SUBSET Event]
  <1>1. PICK sent \in BOOLEAN : told' = [told EXCEPT ![job[r].row] =
                                       @ \cup {[version |-> stamp[r], sent |-> sent]}]
    BY FailAssumption DEF TellLow
  <1>2. job[r].row \in Row /\ [version |-> stamp[r], sent |-> sent] \in Event
    BY DEF TypeOK, Event
  <1> QED
    BY <1>1, <1>2 DEF TypeOK

LEMMA LockRowStep ==
  ASSUME StockInv, NEW r \in Request, LockRow(r)
  PROVE  StockInv'
  <1>1. TypeOK'
    BY DEF StockInv, TypeOK, LockRow, Goto, NothingWritten, InFlight
  <1>2. /\ pc'[r] = "update" /\ copy'[r] = row[job[r].row] /\ UNCHANGED <<row, job>>
        /\ \A q \in Request \ {r} : pc'[q] = pc[q] /\ copy'[q] = copy[q]
        /\ job[r].amount \in Amount
    BY DEF StockInv, TypeOK, Progress, LockRow, Goto, NothingWritten
  <1> QED
    BY <1>1, <1>2, QuietStep DEF LockRow, Locked

LEMMA EndStep ==
  ASSUME StockInv, NEW r \in Request, Refuse(r) \/ Abort(r)
  PROVE  StockInv'
  <1>1. TypeOK'
    BY RollbackType DEF StockInv, TypeOK, Refuse, Abort, Goto, NothingWritten, Answered
  <1>2. /\ pc'[r] \in {"refused", "error"} /\ Rollback(r) /\ UNCHANGED <<row, job>>
        /\ \A q \in Request \ {r} : pc'[q] = pc[q] /\ copy'[q] = copy[q]
        /\ pc[r] # "idle"
    BY DEF StockInv, TypeOK, Refuse, Abort, Goto, NothingWritten, InFlight
  <1> QED
    BY <1>1, <1>2, QuietStep DEF Locked

LEMMA UpdateRowStep ==
  ASSUME StockInv, NEW r \in Request, UpdateRow(r)
  PROVE  StockInv'
  <1>1. PICK s \in Row : s = job[r].row
    BY DEF StockInv, TypeOK
  <1>2. PICK n \in Amount, type \in Types : n = job[r].amount /\ type = job[r].op
    BY DEF StockInv, Progress, UpdateRow, Locked
  <1>3. PICK new : new = Applied(row[s], type, n)
    OBVIOUS
  <1>4. /\ copy[r] = row[s] /\ Permitted(row[s], type, n) /\ lock[s] = r
        /\ row[s] \in StockRecord /\ RowCheck(row[s])
    BY <1>1, <1>2 DEF StockInv, TypeOK, Exclusive, Progress, RowsSound, UpdateRow, Locked
  <1>5. RowCheck(new) /\ (InRange(new) => new \in StockRecord)
    BY <1>3, <1>4, PermittedIsSound
  <1>6. CASE InRange(new)
    <2>1. /\ lock' = [lock EXCEPT ![s] = r] /\ copy' = [copy EXCEPT ![r] = new]
          /\ Goto(r, "movement") /\ UNCHANGED <<row, job>>
          /\ UNCHANGED <<ledger, version, stamp, lowFrom, told, seed>>
      BY <1>1, <1>2, <1>3, <1>5, <1>6 DEF UpdateRow, NothingWritten
    <2>2. TypeOK'
      BY <1>5, <1>6, <2>1 DEF StockInv, TypeOK, Goto, InFlight
    <2>3. /\ pc'[r] = "movement" /\ copy'[r] = new
          /\ \A q \in Request \ {r} : pc'[q] = pc[q] /\ copy'[q] = copy[q]
      BY <2>1 DEF StockInv, TypeOK, Goto
    <2> QED
      BY <1>1, <1>2, <1>3, <1>4, <1>6, <2>1, <2>2, <2>3, QuietStep DEF Locked, UpdateRow
  <1>7. CASE ~InRange(new)
    <2>1. /\ Rollback(r) /\ Goto(r, "error") /\ UNCHANGED <<row, job, copy>>
          /\ UNCHANGED <<ledger, version, stamp, lowFrom, told, seed>>
      BY <1>1, <1>2, <1>3, <1>7 DEF UpdateRow, NothingWritten
    <2>2. TypeOK'
      BY <2>1, RollbackType DEF StockInv, TypeOK, Goto, Answered
    <2>3. /\ pc'[r] = "error" /\ pc[r] # "idle"
          /\ \A q \in Request \ {r} : pc'[q] = pc[q] /\ copy'[q] = copy[q]
      BY <2>1 DEF StockInv, TypeOK, Goto, UpdateRow
    <2> QED
      BY <2>1, <2>2, <2>3, QuietStep DEF Locked
  <1> QED
    BY <1>6, <1>7

LEMMA InsertMovementStep ==
  ASSUME StockInv, NEW r \in Request, InsertMovement(r)
  PROVE  StockInv'
  <1>1. TypeOK'
    BY DEF StockInv, TypeOK, InsertMovement, Goto, NothingWritten, InFlight
  <1>2. /\ pc'[r] = "commit" /\ UNCHANGED <<row, job, copy, lock>> /\ pc[r] = "movement"
        /\ \A q \in Request \ {r} : pc'[q] = pc[q] /\ copy'[q] = copy[q]
    BY DEF StockInv, TypeOK, InsertMovement, Goto, NothingWritten
  <1>3. lock[job[r].row] = r /\ job[r].row \in Row
    BY <1>2 DEF StockInv, Exclusive, TypeOK, Locked
  <1>4. lock' = [lock EXCEPT ![job[r].row] = r]
    BY <1>2, <1>3 DEF StockInv, TypeOK
  <1>5. /\ job[r].op \in Types /\ job[r].amount \in Amount
        /\ Permitted(row[job[r].row], job[r].op, job[r].amount)
        /\ copy'[r] = Applied(row[job[r].row], job[r].op, job[r].amount)
        /\ InRange(copy'[r])
    BY <1>2 DEF StockInv, Progress, Locked
  <1> QED
    BY <1>1, <1>2, <1>3, <1>4, <1>5, QuietStep DEF Locked

LEMMA CommitStep ==
  ASSUME StockInv, NEW r \in Request, Commit(r)
  PROVE  StockInv'
  <1>1. PICK st \in StockRecord : st = copy[r]
    BY DEF StockInv, TypeOK
  <1>2. /\ pc[r] = "commit" /\ job[r].row \in Row /\ job[r].op \in Types
        /\ job[r].amount \in Amount /\ lock[job[r].row] = r
    BY DEF StockInv, TypeOK, Exclusive, Progress, Locked, Commit
  <1>3. RowCheck(st)
    BY <1>1, <1>2, PermittedIsSound DEF StockInv, TypeOK, Progress, RowsSound
  <1>4. TypeOK'
    <2>1. /\ row' \in [Row -> StockRecord]
          /\ version' \in [Row -> Nat] /\ stamp' \in [Request -> Nat]
          /\ lowFrom' \in [Row -> Nat]
      BY <1>1, WrittenType DEF StockInv, Commit
    <2>2. ledger' \in [Row -> [Types -> Nat]]
      BY <1>2, AmountIsPositive DEF StockInv, TypeOK, Commit
    <2> QED
      BY <2>1, <2>2 DEF StockInv, TypeOK, Commit, Goto, InFlight
  <1>5. /\ pc'[r] = "publish" /\ row' = [row EXCEPT ![job[r].row] = st] /\ UNCHANGED job
        /\ lock' = [lock EXCEPT ![job[r].row] = Free]
        /\ \A q \in Request \ {r} : pc'[q] = pc[q] /\ copy'[q] = copy[q]
    BY <1>1 DEF StockInv, TypeOK, Commit, Written, Goto
  <1> QED
    BY <1>2, <1>3, <1>4, <1>5, WriteStep

LEMMA SetThresholdStep ==
  ASSUME StockInv, NEW r \in Request, SetThreshold(r)
  PROVE  StockInv'
  <1>1. PICK s \in Row : s = job[r].row
    BY DEF StockInv, TypeOK
  <1>2. PICK n \in Nat : n = job[r].amount
    BY DEF StockInv, TypeOK
  <1>3. PICK st : st = [row[s] EXCEPT !.min = n]
    OBVIOUS
  <1>4. st \in StockRecord /\ RowCheck(st)
    BY <1>3, MinIsFree DEF StockInv, TypeOK, RowsSound
  <1>5. Written(r, st) /\ pc[r] = "lock" /\ lock[s] = Free /\ Goto(r, "low")
        /\ UNCHANGED <<ledger, lock, job, told, seed>>
        /\ copy' = [copy EXCEPT ![r] = row'[s]]
    BY <1>1, <1>2, <1>3 DEF SetThreshold
  <1>6. row' = [row EXCEPT ![s] = st] /\ row'[s] = st
    BY <1>1, <1>5 DEF Written, StockInv, TypeOK
  <1>7. TypeOK'
    <2>1. /\ row' \in [Row -> StockRecord]
          /\ version' \in [Row -> Nat] /\ stamp' \in [Request -> Nat]
          /\ lowFrom' \in [Row -> Nat]
      BY <1>4, <1>5, WrittenType DEF StockInv
    <2> QED
      BY <1>4, <1>5, <1>6, <2>1 DEF StockInv, TypeOK, Goto, InFlight
  <1>8. /\ pc'[r] = "low" /\ lock' = [lock EXCEPT ![s] = Free]
        /\ \A q \in Request \ {r} : pc'[q] = pc[q] /\ copy'[q] = copy[q]
    BY <1>5 DEF StockInv, TypeOK, Goto
  <1> QED
    BY <1>1, <1>4, <1>5, <1>6, <1>7, <1>8, WriteStep

LEMMA TellStep ==
  ASSUME StockInv, NEW r \in Request, PublishStockChanged(r) \/ CheckLowStock(r)
  PROVE  StockInv'
  <1>1. told' \in [Row -> SUBSET Event]
    BY TellType DEF StockInv, TypeOK, PublishStockChanged, CheckLowStock
  <1>2. TypeOK'
    BY <1>1 DEF StockInv, TypeOK, PublishStockChanged, CheckLowStock, Goto, NothingWritten,
       InFlight, Answered
  <1>3. /\ pc'[r] \in {"ok", "low"} /\ UNCHANGED <<row, job, lock, copy>>
        /\ pc[r] \notin Locked \cup {"idle"}
        /\ \A q \in Request \ {r} : pc'[q] = pc[q] /\ copy'[q] = copy[q]
    BY DEF StockInv, TypeOK, PublishStockChanged, CheckLowStock, Goto, NothingWritten, Locked
  <1>4. Rollback(r)
    <2>1. ASSUME NEW s \in Row, lock[s] = r PROVE FALSE
      BY <1>3, <2>1, FreeAssumption DEF StockInv, Exclusive
    <2> QED
      BY <1>3, <2>1 DEF Rollback, StockInv, TypeOK
  <1> QED
    BY <1>2, <1>3, <1>4, QuietStep DEF Locked

LEMMA StockNext == StockInv /\ [Next]_vars => StockInv'
  <1> SUFFICES ASSUME StockInv, [Next]_vars PROVE StockInv'
    OBVIOUS
  <1>1. CASE UNCHANGED vars
    BY <1>1 DEF vars, StockInv, TypeOK, Exclusive, Progress, RowsSound, ChecksNeverFire
  <1>2. ASSUME NEW r \in Request, NEW s \in Row, NEW n \in Amount,
               \/ ReserveStock(r, s, n) \/ ReleaseStock(r, s, n)
               \/ \E type \in Types : AdjustStock(r, s, type, n)
        PROVE  StockInv'
    BY <1>2, BeginStep DEF ReserveStock, ReleaseStock, AdjustStock, Types, Ops
  <1>3. ASSUME NEW r \in Request, NEW s \in Row, NEW n \in Threshold,
               UpdateMinThreshold(r, s, n)
        PROVE  StockInv'
    <2>1. "threshold" \in Ops /\ "threshold" \notin Types
      BY DEF Ops, Types
    <2> QED
      BY <1>3, <2>1, BeginStep DEF UpdateMinThreshold
  <1>4. ASSUME NEW r \in Request, Step(r) \/ Abort(r)
        PROVE  StockInv'
    BY <1>4, LockRowStep, EndStep, UpdateRowStep, InsertMovementStep, CommitStep,
       SetThresholdStep, TellStep DEF Step
  <1> QED
    BY <1>1, <1>2, <1>3, <1>4 DEF Next

LEMMA StockInvariant == Spec => []StockInv
  BY StockInit, StockNext, PTL DEF Spec

-----------------------------------------------------------------------------
\* Rows, locks, handlers' locals and events keep their types: in particular no
\* committed row leaves the width of its columns.
THEOREM TypeCorrect == Spec => []TypeOK
  <1>1. StockInv => TypeOK
    BY DEF StockInv
  <1> QED
    BY <1>1, StockInvariant, PTL

\* However many reservations, releases and adjustments race, the checks made on
\* the locked row suffice: no statement is ever refused by a CHECK constraint.
THEOREM ChecksSuffice == Spec => []ChecksNeverFire
  <1>1. StockInv => ChecksNeverFire
    BY DEF StockInv
  <1> QED
    BY <1>1, StockInvariant, PTL

-----------------------------------------------------------------------------
\* Only two steps write a row.

LEMMA WhoWrites ==
  ASSUME [Next]_vars
  PROVE  /\ UNCHANGED seed
         /\ \/ \E r \in Request : Commit(r)
            \/ \E r \in Request : SetThreshold(r)
            \/ UNCHANGED <<row, ledger, version, stamp, lowFrom>>
  <1>1. CASE UNCHANGED vars
    BY <1>1 DEF vars
  <1>2. ASSUME NEW r \in Request,
               \/ \E s \in Row :
                     \/ \E n \in Amount :
                           \/ ReserveStock(r, s, n) \/ ReleaseStock(r, s, n)
                           \/ \E type \in Types : AdjustStock(r, s, type, n)
                     \/ \E n \in Threshold : UpdateMinThreshold(r, s, n)
        PROVE  UNCHANGED seed /\ NothingWritten
    BY <1>2 DEF ReserveStock, ReleaseStock, AdjustStock, UpdateMinThreshold
  <1>3. ASSUME NEW r \in Request,
               \/ LockRow(r) \/ Refuse(r) \/ UpdateRow(r) \/ InsertMovement(r)
               \/ PublishStockChanged(r) \/ CheckLowStock(r) \/ Abort(r)
        PROVE  UNCHANGED seed /\ NothingWritten
    BY <1>3 DEF LockRow, Refuse, UpdateRow, InsertMovement, PublishStockChanged,
       CheckLowStock, Abort
  <1>4. \A r \in Request : Commit(r) \/ SetThreshold(r) => UNCHANGED seed
    BY DEF Commit, SetThreshold
  <1> QED
    BY <1>1, <1>2, <1>3, <1>4 DEF Next, Step, NothingWritten

\* What a commit does, in terms of the account.
LEMMA CommitIsMove ==
  ASSUME StockInv, NEW r \in Request, Commit(r)
  PROVE  \E s \in Row, type \in Types, n \in Amount :
            /\ s = job[r].row
            /\ row[s] \in StockRecord /\ RowCheck(row[s])
            /\ Permitted(row[s], type, n)
            /\ InRange(Applied(row[s], type, n))
            /\ row' = [row EXCEPT ![s] = Applied(row[s], type, n)]
            /\ ledger' = [ledger EXCEPT ![s][type] = @ + n]
  <1>1. /\ pc[r] = "commit" /\ job[r].row \in Row /\ job[r].op \in Types
        /\ job[r].amount \in Amount
    BY DEF StockInv, TypeOK, Progress, Locked, Commit
  <1>2. /\ Permitted(row[job[r].row], job[r].op, job[r].amount)
        /\ copy[r] = Applied(row[job[r].row], job[r].op, job[r].amount)
        /\ InRange(copy[r])
    BY <1>1 DEF StockInv, Progress
  <1>3. row[job[r].row] \in StockRecord /\ RowCheck(row[job[r].row])
    BY <1>1 DEF StockInv, TypeOK, RowsSound
  <1> QED
    BY <1>1, <1>2, <1>3 DEF Commit, Written

LEMMA LedgerNext == StockInv /\ LedgerBalances /\ [Next]_vars => LedgerBalances'
  <1> SUFFICES ASSUME StockInv, LedgerBalances, [Next]_vars PROVE LedgerBalances'
    OBVIOUS
  <1>0. UNCHANGED seed
    BY WhoWrites
  <1>1. CASE UNCHANGED <<row, ledger, version, stamp, lowFrom>>
    BY <1>0, <1>1 DEF LedgerBalances
  <1>2. CASE \E r \in Request : SetThreshold(r)
    <2>1. PICK r \in Request : SetThreshold(r)
      BY <1>2
    <2>2. PICK s \in Row : s = job[r].row
      BY DEF StockInv, TypeOK
    <2>3. row' = [row EXCEPT ![s] = [row[s] EXCEPT !.min = job[r].amount]] /\ ledger' = ledger
      BY <2>1, <2>2 DEF SetThreshold, Written
    <2>4. \A t \in Row : row'[t].quantity = row[t].quantity /\ row'[t].reserved = row[t].reserved
      BY <2>3 DEF StockInv, TypeOK, StockRecord
    <2> QED
      BY <1>0, <2>3, <2>4 DEF LedgerBalances
  <1>3. CASE \E r \in Request : Commit(r)
    <2>1. PICK s \in Row, type \in Types, n \in Amount :
             /\ row' = [row EXCEPT ![s] = Applied(row[s], type, n)]
             /\ ledger' = [ledger EXCEPT ![s][type] = @ + n]
      BY <1>3, CommitIsMove
    <2>2. \A t \in Row \ {s} : row'[t] = row[t] /\ ledger'[t] = ledger[t]
      BY <2>1 DEF StockInv, TypeOK
    <2>3a. PICK st \in StockRecord : st = row[s]
      BY DEF StockInv, TypeOK
    <2>3b. PICK new : new = Applied(st, type, n) /\ row'[s] = new
      BY <2>1, <2>3a DEF StockInv, TypeOK
    <2>3. st = row[s] /\ new = Applied(st, type, n) /\ row'[s] = new
      BY <2>3a, <2>3b
    <2>4. n \in Nat
      BY AmountIsPositive
    <2>5. /\ new.quantity = CASE type \in {"inbound", "adjustment"} -> st.quantity + n
                              [] type = "outbound"                  -> st.quantity - n
                              [] OTHER                              -> st.quantity
          /\ new.reserved = CASE type = "reserve" -> st.reserved + n
                              [] type = "release" -> st.reserved - n
                              [] OTHER            -> st.reserved
      BY <2>3, <2>4, AppliedFields
    <2>6. \A t \in Types : /\ ledger[s][t] \in Nat
                           /\ ledger'[s][t] = IF t = type THEN ledger[s][t] + n ELSE ledger[s][t]
      BY <2>1 DEF StockInv, TypeOK
    <2>7. /\ st.quantity = seed[s].quantity + ledger[s]["inbound"]
                             + ledger[s]["adjustment"] - ledger[s]["outbound"]
          /\ st.reserved = seed[s].reserved + ledger[s]["reserve"] - ledger[s]["release"]
      BY <2>3 DEF LedgerBalances
    <2>8. seed[s].quantity \in Nat /\ seed[s].reserved \in Nat
      BY MaxIntAssumption DEF StockInv, TypeOK, StockRecord
    <2>9. /\ new.quantity = seed[s].quantity + ledger'[s]["inbound"]
                             + ledger'[s]["adjustment"] - ledger'[s]["outbound"]
          /\ new.reserved = seed[s].reserved + ledger'[s]["reserve"] - ledger'[s]["release"]
      BY <2>4, <2>5, <2>6, <2>7, <2>8 DEF Types
    <2> QED
      BY <1>0, <2>2, <2>3, <2>9 DEF LedgerBalances
  <1> QED
    BY <1>1, <1>2, <1>3, WhoWrites

\* The movements log accounts for every unit on hand and every unit reserved,
\* for any number of racing and aborted transactions.
THEOREM LedgerAlwaysBalances == Spec => []LedgerBalances
  <1>1. Init => LedgerBalances
    <2> SUFFICES ASSUME Init PROVE LedgerBalances
      OBVIOUS
    <2>1. \A s \in Row : seed[s] = row[s] /\ row[s].quantity \in Int /\ row[s].reserved \in Int
      BY StockInit, MaxIntAssumption DEF Init, StockInv, TypeOK, StockRecord
    <2> QED
      BY <2>1 DEF Init, LedgerBalances, Types
  <1> QED
    BY <1>1, StockInvariant, LedgerNext, PTL DEF Spec

\* Refinement: the committed rows and the movements behave as the atomic account.
THEOREM AccountImplemented == Spec => ImplementsAccount
  <1>1. Init => Account!Init
    BY DEF Init, Account!Init, Account!Types, Types
  <1>2. StockInv /\ [Next]_vars => [Account!Next]_<<row, ledger>>
    <2> SUFFICES ASSUME StockInv, [Next]_vars, <<row, ledger>>' # <<row, ledger>>
                 PROVE  Account!Next
      OBVIOUS
    <2>1. CASE \E r \in Request : Commit(r)
      <3>1. PICK s \in Row, type \in Types, n \in Amount :
               /\ Permitted(row[s], type, n)
               /\ InRange(Applied(row[s], type, n))
               /\ row' = [row EXCEPT ![s] = Applied(row[s], type, n)]
               /\ ledger' = [ledger EXCEPT ![s][type] = @ + n]
        BY <2>1, CommitIsMove
      <3>2. Account!Applied(row[s], type, n) = Applied(row[s], type, n)
        BY DEF Account!Applied, Applied
      <3>3. Account!Permitted(row[s], type, n)
        BY <3>1 DEF Account!Permitted, Permitted, Account!Available, Available
      <3>4. Account!InRange(Applied(row[s], type, n))
        BY <3>1 DEF Account!InRange, InRange
      <3>5. Account!Move(s, type, n)
        BY <3>1, <3>2, <3>3, <3>4 DEF Account!Move
      <3> QED
        BY <3>5 DEF Account!Next, Account!Types, Types
    <2>2. CASE \E r \in Request : SetThreshold(r)
      <3>1. PICK r \in Request : SetThreshold(r)
        BY <2>2
      <3>2. job[r].row \in Row /\ job[r].amount \in Threshold
        BY <3>1 DEF StockInv, TypeOK, Progress, SetThreshold, Types
      <3>3. Account!SetMin(job[r].row, job[r].amount)
        BY <3>1, <3>2 DEF SetThreshold, Written, Account!SetMin, StockInv, TypeOK
      <3> QED
        BY <3>2, <3>3 DEF Account!Next
    <2> QED
      BY <2>1, <2>2, WhoWrites
  <1> QED
    BY <1>1, <1>2, StockInvariant, PTL DEF Spec, ImplementsAccount, Account!Spec

-----------------------------------------------------------------------------
(* A low period is announced: the write that starts it leaves a handler    *)
(* that will say so, and does unless it is cut off.                        *)

\* Request r has still to announce that row s is low.
WillSay(r, s) ==
    /\ job[r].row = s /\ stamp[r] >= lowFrom[s] /\ IsLow(copy[r])
    /\ pc[r] = "low" \/ (pc[r] = "publish" /\ job[r].op # "release")

Said(s) ==
    \/ \E e \in told[s] : e.version >= lowFrom[s] /\ e.sent
    \/ \E r \in Request : CutOff(r, s) \/ Unsent(r, s)

LowInv ==
    \A s \in Row : lowFrom[s] > 0 =>
        IsLow(row[s]) /\ (Said(s) \/ \E r \in Request : WillSay(r, s))

\* A step of one request that writes no row and keeps what it has to say.
LEMMA QuietLow ==
  ASSUME LowInv, NothingWritten, NEW r \in Request, pc[r] \notin {"error", "ok"},
         \A s \in Row : told[s] \subseteq told'[s],
         \A q \in Request \ {r} : pc'[q] = pc[q] /\ copy'[q] = copy[q] /\ job'[q] = job[q],
         \A s \in Row : WillSay(r, s) => WillSay(r, s)' \/ Said(s)'
  PROVE  LowInv'
  <1> SUFFICES ASSUME NEW s \in Row, lowFrom[s] > 0
               PROVE  IsLow(row[s]) /\ (Said(s)' \/ \E q \in Request : WillSay(q, s)')
    BY DEF LowInv, NothingWritten
  <1>1. IsLow(row[s]) /\ (Said(s) \/ \E q \in Request : WillSay(q, s))
    BY DEF LowInv
  <1>2. ASSUME Said(s) PROVE Said(s)'
    <2>1. ASSUME NEW q \in Request, CutOff(q, s) PROVE CutOff(q, s)'
      BY <2>1 DEF CutOff, NothingWritten
    <2>2. ASSUME NEW q \in Request, Unsent(q, s) PROVE Unsent(q, s)'
      BY <2>2 DEF Unsent, NothingWritten
    <2> QED
      BY <1>2, <2>1, <2>2 DEF Said, NothingWritten
  <1>3. ASSUME NEW q \in Request, WillSay(q, s), q # r PROVE WillSay(q, s)'
    BY <1>3 DEF WillSay, NothingWritten
  <1> QED
    BY <1>1, <1>2, <1>3

\* A write by a request that then announces what it wrote if it made it low.
LEMMA WriteLow ==
  ASSUME StockInv, LowInv, NEW r \in Request, NEW st \in StockRecord, Written(r, st),
         UNCHANGED <<job, told>>, pc[r] \notin {"publish", "low", "error", "ok"},
         \A q \in Request \ {r} : pc'[q] = pc[q] /\ copy'[q] = copy[q],
         copy'[r] = st,
         IsLow(st) /\ ~IsLow(row[job[r].row]) =>
            pc'[r] = "low" \/ (pc'[r] = "publish" /\ job[r].op # "release")
  PROVE  LowInv'
  <1>1. PICK t \in Row : t = job[r].row
    BY DEF StockInv, TypeOK
  <1>2. /\ \A s \in Row : row'[s] = IF s = t THEN st ELSE row[s]
        /\ \A s \in Row \ {t} : lowFrom'[s] = lowFrom[s]
        /\ lowFrom'[t] = IF ~IsLow(st) THEN 0
                         ELSE IF IsLow(row[t]) THEN lowFrom[t] ELSE version[t] + 1
        /\ stamp'[r] = version[t] + 1 /\ version[t] + 1 \in Nat
        /\ \A q \in Request \ {r} : stamp'[q] = stamp[q]
    BY <1>1 DEF Written, StockInv, TypeOK
  <1>3. \A s \in Row, q \in Request : WillSay(q, s) => q # r
    BY DEF WillSay
  <1>4. ASSUME NEW s \in Row, lowFrom'[s] > 0, lowFrom'[s] = lowFrom[s]
        PROVE  Said(s)' \/ \E q \in Request : WillSay(q, s)'
    <2>1. Said(s) \/ \E q \in Request : WillSay(q, s)
      BY <1>4 DEF LowInv
    <2>2. ASSUME Said(s) PROVE Said(s)'
      <3>1. ASSUME NEW q \in Request, CutOff(q, s) PROVE CutOff(q, s)'
        BY <1>2, <1>4, <3>1 DEF CutOff
      <3>2. ASSUME NEW q \in Request, Unsent(q, s) PROVE Unsent(q, s)'
        BY <1>2, <1>4, <3>2 DEF Unsent
      <3> QED
        BY <1>4, <2>2, <3>1, <3>2 DEF Said
    <2>3. ASSUME NEW q \in Request, WillSay(q, s) PROVE WillSay(q, s)'
      BY <1>2, <1>3, <1>4, <2>3 DEF WillSay
    <2> QED
      BY <2>1, <2>2, <2>3
  <1>5. CASE lowFrom'[t] = version[t] + 1 /\ IsLow(st) /\ ~IsLow(row[t])
    <2>1. WillSay(r, t)'
      BY <1>1, <1>2, <1>5 DEF WillSay
    <2> QED
      BY <1>2, <1>4, <1>5, <2>1 DEF LowInv
  <1>6. CASE lowFrom'[t] = lowFrom[t] /\ IsLow(st)
    BY <1>2, <1>4, <1>6 DEF LowInv
  <1>7. CASE lowFrom'[t] = 0
    BY <1>2, <1>4, <1>7 DEF LowInv
  <1> QED
    BY <1>2, <1>5, <1>6, <1>7

\* A release cannot make a row low that was not.
LEMMA ReleaseRaises ==
  ASSUME NEW st \in StockRecord, NEW n \in Amount, Permitted(st, "release", n),
         IsLow(Applied(st, "release", n))
  PROVE  IsLow(st)
  <1> DEFINE new == Applied(st, "release", n)
  <1>1. n \in Nat /\ n > 0 /\ MaxInt \in Nat /\ "release" \in Types
    BY AmountIsPositive, MaxIntAssumption DEF Types
  <1>2. /\ new = [quantity |-> new.quantity, reserved |-> new.reserved, min |-> st.min]
        /\ new.quantity = st.quantity /\ new.reserved = st.reserved - n
    BY <1>1, AppliedFields
  <1>3. new.min = st.min /\ Available(new) = Available(st) + n
    <2> HIDE DEF new
    <2> QED
      BY <1>1, <1>2 DEF Available, StockRecord
  <1> QED
    BY <1>1, <1>3 DEF IsLow, Available, StockRecord

LEMMA LowNext ==
  ASSUME StockInv, LowInv, [Next]_vars
  PROVE  LowInv'
  <1>1. CASE UNCHANGED vars
    BY <1>1 DEF vars, LowInv, Said, WillSay, CutOff, Unsent
  <1>2. ASSUME NEW r \in Request, NEW s \in Row,
               \/ \E n \in Amount :
                     \/ ReserveStock(r, s, n) \/ ReleaseStock(r, s, n)
                     \/ \E type \in Types : AdjustStock(r, s, type, n)
               \/ \E n \in Threshold : UpdateMinThreshold(r, s, n)
        PROVE  LowInv'
    <2>1. /\ NothingWritten /\ UNCHANGED <<copy, told>> /\ pc[r] = "idle"
          /\ \A q \in Request \ {r} : pc'[q] = pc[q] /\ job'[q] = job[q]
      BY <1>2 DEF ReserveStock, ReleaseStock, AdjustStock, UpdateMinThreshold, Goto,
         StockInv, TypeOK
    <2>2. \A t \in Row : ~WillSay(r, t)
      BY <2>1 DEF WillSay
    <2> QED
      BY <2>1, <2>2, QuietLow
  <1>3. ASSUME NEW r \in Request,
               LockRow(r) \/ Refuse(r) \/ UpdateRow(r) \/ InsertMovement(r)
        PROVE  LowInv'
    <2>1. /\ NothingWritten /\ UNCHANGED <<told, job>>
          /\ pc[r] \notin {"publish", "low", "error", "ok"}
          /\ \A q \in Request \ {r} : pc'[q] = pc[q] /\ copy'[q] = copy[q]
      BY <1>3 DEF LockRow, Refuse, UpdateRow, InsertMovement, Goto, StockInv, TypeOK
    <2>2. \A t \in Row : ~WillSay(r, t)
      BY <2>1 DEF WillSay
    <2> QED
      BY <2>1, <2>2, QuietLow
  <1>4. ASSUME NEW r \in Request, Commit(r)
        PROVE  LowInv'
    <2>1. /\ pc[r] = "commit" /\ job[r].row \in Row /\ job[r].amount \in Amount
          /\ row[job[r].row] \in StockRecord /\ copy[r] \in StockRecord
      BY <1>4 DEF StockInv, TypeOK, Progress, Locked, Commit
    <2>2. /\ Permitted(row[job[r].row], job[r].op, job[r].amount)
          /\ copy[r] = Applied(row[job[r].row], job[r].op, job[r].amount)
      BY <2>1 DEF StockInv, Progress
    <2>3. IsLow(copy[r]) /\ ~IsLow(row[job[r].row]) => job[r].op # "release"
      BY <2>1, <2>2, ReleaseRaises
    <2>4. /\ Written(r, copy[r]) /\ UNCHANGED <<job, told, copy>> /\ pc'[r] = "publish"
          /\ \A q \in Request \ {r} : pc'[q] = pc[q]
      BY <1>4 DEF Commit, Goto, StockInv, TypeOK
    <2> QED
      BY <2>1, <2>3, <2>4, WriteLow
  <1>5. ASSUME NEW r \in Request, SetThreshold(r)
        PROVE  LowInv'
    <2>1. PICK s \in Row, n \in Nat : s = job[r].row /\ n = job[r].amount
      BY DEF StockInv, TypeOK
    <2>2. PICK st \in StockRecord : st = [row[s] EXCEPT !.min = n]
      BY <2>1, MinIsFree DEF StockInv, TypeOK
    <2>3. /\ Written(r, st) /\ UNCHANGED <<job, told>> /\ pc'[r] = "low" /\ pc[r] = "lock"
          /\ copy' = [copy EXCEPT ![r] = row'[s]]
          /\ \A q \in Request \ {r} : pc'[q] = pc[q]
      BY <1>5, <2>1, <2>2 DEF SetThreshold, Goto, StockInv, TypeOK
    <2>4. row'[s] = st
      BY <2>1, <2>3 DEF Written, StockInv, TypeOK
    <2>5. copy'[r] = st /\ \A q \in Request \ {r} : copy'[q] = copy[q]
      BY <2>3, <2>4 DEF StockInv, TypeOK
    <2> QED
      BY <2>3, <2>5, WriteLow
  <1>6. ASSUME NEW r \in Request, PublishStockChanged(r)
        PROVE  LowInv'
    <2>0. \A s \in Row : told[s] \subseteq told'[s]
      BY <1>6 DEF PublishStockChanged
    <2>1. /\ NothingWritten /\ UNCHANGED <<job, copy>> /\ pc[r] = "publish"
          /\ pc'[r] = IF job[r].op = "release" THEN "ok" ELSE "low"
          /\ \A q \in Request \ {r} : pc'[q] = pc[q]
      <3>1. pc' = [pc EXCEPT ![r] = IF job[r].op = "release" THEN "ok" ELSE "low"]
        BY <1>6 DEF PublishStockChanged, Goto
      <3>2. pc \in [Request -> {"idle"} \cup InFlight \cup Answered]
        BY DEF StockInv, TypeOK
      <3>3. NothingWritten /\ UNCHANGED <<job, copy>> /\ pc[r] = "publish"
        BY <1>6 DEF PublishStockChanged
      <3> QED
        BY <3>1, <3>2, <3>3
    <2>2. \A s \in Row : WillSay(r, s) => WillSay(r, s)'
      BY <2>1 DEF WillSay, NothingWritten
    <2> QED
      BY <2>0, <2>1, <2>2, QuietLow
  <1>7. ASSUME NEW r \in Request, CheckLowStock(r)
        PROVE  LowInv'
    <2>1. /\ NothingWritten /\ UNCHANGED <<job, copy>> /\ pc[r] = "low" /\ pc'[r] = "ok"
          /\ \A q \in Request \ {r} : pc'[q] = pc[q]
      BY <1>7 DEF CheckLowStock, Goto, StockInv, TypeOK
    <2>3. \A s \in Row : told[s] \subseteq told'[s]
      <3>1. CASE UNCHANGED told
        BY <3>1
      <3>2. CASE TellLow(r)
        BY <3>2 DEF TellLow, StockInv, TypeOK
      <3> QED
        BY <1>7, <3>1, <3>2 DEF CheckLowStock
    <2>2. ASSUME NEW s \in Row, WillSay(r, s) PROVE Said(s)'
      <3>1. PICK sent \in BOOLEAN :
                told' = [told EXCEPT ![s] = @ \cup {[version |-> stamp[r], sent |-> sent]}]
        BY <1>7, <2>2, FailAssumption DEF WillSay, CheckLowStock, TellLow
      <3>2. [version |-> stamp[r], sent |-> sent] \in told'[s]
        BY <3>1 DEF StockInv, TypeOK
      <3>3. stamp[r] >= lowFrom'[s] /\ stamp'[r] = stamp[r] /\ job'[r].row = s
        BY <2>1, <2>2 DEF WillSay, NothingWritten
      <3>4. CASE sent
        <4>1. \E e \in told'[s] : e.version >= lowFrom'[s] /\ e.sent
          BY <3>2, <3>3, <3>4
        <4> QED
          BY <4>1 DEF Said
      <3>5. CASE ~sent
        <4>1. Unsent(r, s)'
          BY <2>1, <3>2, <3>3, <3>5 DEF Unsent, NothingWritten
        <4> QED
          BY <4>1 DEF Said
      <3> QED
        BY <3>4, <3>5
    <2> QED
      BY <2>1, <2>2, <2>3, QuietLow
  <1>8. ASSUME NEW r \in Request, Abort(r)
        PROVE  LowInv'
    <2>1. /\ NothingWritten /\ UNCHANGED <<job, copy, told>>
          /\ pc[r] \notin {"error", "ok"} /\ pc'[r] = "error"
          /\ \A q \in Request \ {r} : pc'[q] = pc[q]
      BY <1>8 DEF Abort, InFlight, Goto, StockInv, TypeOK
    <2>2. ASSUME NEW s \in Row, WillSay(r, s) PROVE Said(s)'
      <3>1. CutOff(r, s)'
        BY <2>1, <2>2 DEF WillSay, CutOff, NothingWritten
      <3> QED
        BY <3>1 DEF Said
    <2> QED
      BY <2>1, <2>2, QuietLow
  <1> QED
    BY <1>1, <1>2, <1>3, <1>4, <1>5, <1>6, <1>7, <1>8 DEF Next, Step

\* Every low period that a write starts has its low_stock event by the time the
\* handlers that wrote the row are done, though a release that leaves the row low
\* says nothing; what leaves it untold is a handler cut off after its commit, or a
\* publication that NATS did not take.
THEOREM LowPeriodsAnnounced == Spec => []LowPeriodAnnounced
  <1>1. Init => LowInv
    BY DEF Init, LowInv
  <1>2. LowInv => LowPeriodAnnounced
    BY DEF LowInv, LowPeriodAnnounced, WillSay, Said
  <1>3. StockInv /\ LowInv /\ [Next]_vars => LowInv'
    BY LowNext
  <1> QED
    BY <1>1, <1>2, <1>3, StockInvariant, PTL DEF Spec
=============================================================================
