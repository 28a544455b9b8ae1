--------------------------- MODULE InventoryStock ---------------------------
(***************************************************************************)
(* The stock half of the inventory service: concurrent requests, each a    *)
(* PostgreSQL transaction of four statements on one row (lock, update,     *)
(* movement, commit) followed by the events it publishes.                  *)
(*                                                                         *)
(* The database is modelled by what the code relies on: SELECT ... FOR     *)
(* UPDATE and UPDATE wait for the row lock and hold it to the end of the   *)
(* transaction, an UPDATE works on the last committed row, a row that      *)
(* breaks a CHECK is refused, and nothing of a transaction is visible      *)
(* before its commit.  Rows are neither created nor deleted by the service.*)
(***************************************************************************)
EXTENDS StockRow

CONSTANTS
    Row,        \* (product, warehouse) pairs with a stock row
    Request,    \* HTTP requests, each used once
    Seed,       \* the contents rows start with
    Free,       \* the holder of a lock that nobody holds
    MayFail     \* whether statements can fail and requests be cut off

ASSUME SeedAssumption ==
    Seed \subseteq {st \in StockRecord : RowCheck(st)}
ASSUME RowAssumption  == Row # {}
ASSUME FreeAssumption == Free \notin Request
ASSUME FailAssumption == MayFail \in BOOLEAN

VARIABLES
    row,        \* row[s]: the committed row
    ledger,     \* ledger[s][t]: total quantity of committed movements of type t
    lock,       \* lock[s]: the request whose transaction holds the row
    pc,         \* pc[r]: the next statement of r, or its answer
    job,        \* job[r]: what r asked for
    copy,       \* copy[r]: the handler's st, as the last statement returned it
    told,       \* told[s]: the low_stock events about row s, and whether NATS took them
    version,    \* version[s]: writes to row s so far (history, cf. updated_at)
    stamp,      \* stamp[r]: the version r's write made (history)
    lowFrom,    \* lowFrom[s]: the write since which s is low, 0 if none (history)
    seed        \* seed[s]: what row s started with (history)

vars == <<row, ledger, lock, pc, job, copy, told, version, stamp, lowFrom, seed>>

-----------------------------------------------------------------------------
Answered == {"ok", "refused", "error", "check_violation"}
InFlight == {"lock", "update", "movement", "commit", "publish", "low"}
Ops      == Types \cup {"threshold"}

Event == [version : Nat, sent : BOOLEAN]

TypeOK ==
    /\ row \in [Row -> StockRecord]
    /\ ledger \in [Row -> [Types -> Nat]]
    /\ lock \in [Row -> Request \cup {Free}]
    /\ pc \in [Request -> {"idle"} \cup InFlight \cup Answered]
    /\ job \in [Request -> [op : Ops, row : Row, amount : Nat]]
    /\ copy \in [Request -> StockRecord]
    /\ told \in [Row -> SUBSET Event]
    /\ version \in [Row -> Nat] /\ stamp \in [Request -> Nat]
    /\ lowFrom \in [Row -> Nat]
    /\ seed \in [Row -> StockRecord]

NoJob == [op |-> "threshold", row |-> CHOOSE s \in Row : TRUE, amount |-> 0]

Init ==
    /\ row \in [Row -> Seed]
    /\ ledger  = [s \in Row |-> [t \in Types |-> 0]]
    /\ lock    = [s \in Row |-> Free]
    /\ pc      = [r \in Request |-> "idle"]
    /\ job     = [r \in Request |-> NoJob]
    /\ copy    = [r \in Request |-> [quantity |-> 0, reserved |-> 0, min |-> 0]]
    /\ told    = [s \in Row |-> {}]
    /\ version = [s \in Row |-> 0]
    /\ stamp   = [r \in Request |-> 0]
    /\ lowFrom = [s \in Row |-> 0]
    /\ seed    = row

Goto(r, label) == pc' = [pc EXCEPT ![r] = label]

\* Request r's transaction or single statement makes st the committed row.
Written(r, st) ==
    LET s == job[r].row IN
    /\ row' = [row EXCEPT ![s] = st]
    /\ version' = [version EXCEPT ![s] = @ + 1]
    /\ stamp' = [stamp EXCEPT ![r] = version[s] + 1]
    /\ lowFrom' = [lowFrom EXCEPT ![s] = IF ~IsLow(st) THEN 0
                                         ELSE IF IsLow(row[s]) THEN @
                                         ELSE version[s] + 1]

NothingWritten == UNCHANGED <<row, ledger, version, stamp, lowFrom>>

\* The deferred tx.Rollback: the row is free again, what was done is forgotten.
Rollback(r) ==
    lock' = [s \in Row |-> IF lock[s] = r THEN Free ELSE lock[s]]

-----------------------------------------------------------------------------
(* The handlers validate the quantity, the type and the threshold, and     *)
(* begin.                                                                  *)

ReserveStock(r, s, n) ==
    /\ pc[r] = "idle"
    /\ job' = [job EXCEPT ![r] = [op |-> "reserve", row |-> s, amount |-> n]]
    /\ Goto(r, "lock")
    /\ NothingWritten
    /\ UNCHANGED <<lock, copy, told, seed>>

ReleaseStock(r, s, n) ==
    /\ pc[r] = "idle"
    /\ job' = [job EXCEPT ![r] = [op |-> "release", row |-> s, amount |-> n]]
    /\ Goto(r, "lock")
    /\ NothingWritten
    /\ UNCHANGED <<lock, copy, told, seed>>

AdjustStock(r, s, type, n) ==
    /\ pc[r] = "idle"
    /\ type \in {"inbound", "outbound", "adjustment"}
    /\ job' = [job EXCEPT ![r] = [op |-> type, row |-> s, amount |-> n]]
    /\ Goto(r, "lock")
    /\ NothingWritten
    /\ UNCHANGED <<lock, copy, told, seed>>

UpdateMinThreshold(r, s, n) ==
    /\ pc[r] = "idle"
    /\ job' = [job EXCEPT ![r] = [op |-> "threshold", row |-> s, amount |-> n]]
    /\ Goto(r, "lock")
    /\ NothingWritten
    /\ UNCHANGED <<lock, copy, told, seed>>

-----------------------------------------------------------------------------
(* The transaction of ReserveStock, ReleaseStock and AdjustStock.          *)

\* The SELECT without FOR UPDATE: it waits for nobody and locks nothing.
LockRow_PlainSelect(r) ==
    /\ pc[r] = "lock" /\ job[r].op \in Types
    /\ copy' = [copy EXCEPT ![r] = row[job[r].row]]
    /\ Goto(r, "update")
    /\ NothingWritten
    /\ UNCHANGED <<job, lock, told, seed>>

LockRow(r) ==
    /\ pc[r] = "lock" /\ job[r].op \in Types
    /\ lock[job[r].row] = Free
    /\ lock' = [lock EXCEPT ![job[r].row] = r]
    /\ copy' = [copy EXCEPT ![r] = row[job[r].row]]
    /\ Goto(r, "update")
    /\ NothingWritten
    /\ UNCHANGED <<job, told, seed>>

\* An early return that leaves the transaction open.
Refuse_StaysOpen(r) ==
    /\ pc[r] = "update"
    /\ ~Permitted(copy[r], job[r].op, job[r].amount)
    /\ Goto(r, "refused")
    /\ NothingWritten
    /\ UNCHANGED <<job, lock, copy, told, seed>>

\* ErrInsufficientStock, ErrNothingToRelease, ErrReleaseExceedsReserved.
Refuse(r) ==
    /\ pc[r] = "update"
    /\ ~Permitted(copy[r], job[r].op, job[r].amount)
    /\ Rollback(r)
    /\ Goto(r, "refused")
    /\ NothingWritten
    /\ UNCHANGED <<job, copy, told, seed>>

\* The UPDATE ... RETURNING: on the committed row, under the row lock.
UpdateRow(r) ==
    LET s   == job[r].row
        new == Applied(row[s], job[r].op, job[r].amount)
    IN
    /\ pc[r] = "update"
    /\ Permitted(copy[r], job[r].op, job[r].amount)
    /\ lock[s] \in {r, Free}
    /\ \/ /\ InRange(new) /\ RowCheck(new)
          /\ lock' = [lock EXCEPT ![s] = r]
          /\ copy' = [copy EXCEPT ![r] = new]
          /\ Goto(r, "movement")
       \/ /\ ~(InRange(new) /\ RowCheck(new))
          /\ Rollback(r)
          /\ Goto(r, IF InRange(new) THEN "check_violation" ELSE "error")
          /\ UNCHANGED copy
    /\ NothingWritten
    /\ UNCHANGED <<job, told, seed>>

\* The movement is in the transaction: Commit makes it count.
InsertMovement(r) ==
    /\ pc[r] = "movement"
    /\ Goto(r, "commit")
    /\ NothingWritten
    /\ UNCHANGED <<job, lock, copy, told, seed>>

\* The movement is inserted in the branch of inbound and outbound only.
Commit_ForgetsAdjustments(r) ==
    /\ pc[r] = "commit"
    /\ Written(r, copy[r])
    /\ ledger' = IF job[r].op = "adjustment" THEN ledger
                 ELSE [ledger EXCEPT ![job[r].row][job[r].op] = @ + job[r].amount]
    /\ lock' = [lock EXCEPT ![job[r].row] = Free]
    /\ Goto(r, "publish")
    /\ UNCHANGED <<job, copy, told, seed>>

Commit(r) ==
    /\ pc[r] = "commit"
    /\ Written(r, copy[r])
    /\ ledger' = [ledger EXCEPT ![job[r].row][job[r].op] = @ + job[r].amount]
    /\ lock' = [lock EXCEPT ![job[r].row] = Free]
    /\ Goto(r, "publish")
    /\ UNCHANGED <<job, copy, told, seed>>

-----------------------------------------------------------------------------
\* A threshold that is stored and not looked at.
SetThreshold_Silent(r) ==
    /\ pc[r] = "lock" /\ job[r].op = "threshold"
    /\ lock[job[r].row] = Free
    /\ Written(r, [row[job[r].row] EXCEPT !.min = job[r].amount])
    /\ copy' = [copy EXCEPT ![r] = row'[job[r].row]]
    /\ Goto(r, "ok")
    /\ UNCHANGED <<ledger, lock, job, told, seed>>

\* The one UPDATE ... RETURNING of UpdateMinThreshold, which commits by itself.
SetThreshold(r) ==
    /\ pc[r] = "lock" /\ job[r].op = "threshold"
    /\ lock[job[r].row] = Free
    /\ Written(r, [row[job[r].row] EXCEPT !.min = job[r].amount])
    /\ copy' = [copy EXCEPT ![r] = row'[job[r].row]]
    /\ Goto(r, "low")
    /\ UNCHANGED <<ledger, lock, job, told, seed>>

-----------------------------------------------------------------------------
(* After the commit, from what the last statement returned.                *)

\* publishStockChanged, sent or not: of its event nothing is kept here.  Only a
\* release skips the low stock check.
PublishStockChanged(r) ==
    /\ pc[r] = "publish"
    /\ Goto(r, IF job[r].op = "release" THEN "ok" ELSE "low")
    /\ NothingWritten
    /\ UNCHANGED <<job, lock, copy, told, seed>>

\* A publication that fails is logged and forgotten: the handler goes on alike.
TellLow(r) ==
    \E sent \in {TRUE, ~MayFail} :
        told' = [told EXCEPT ![job[r].row] = @ \cup {[version |-> stamp[r], sent |-> sent]}]

CheckLowStock(r) ==
    /\ pc[r] = "low"
    /\ IF IsLow(copy[r]) THEN TellLow(r) ELSE UNCHANGED told
    /\ Goto(r, "ok")
    /\ NothingWritten
    /\ UNCHANGED <<job, lock, copy, seed>>

\* A failed statement, a cancelled request or a crashed process: the server
\* rolls the transaction back; what is committed stays.
Abort(r) ==
    /\ MayFail
    /\ pc[r] \in InFlight
    /\ Rollback(r)
    /\ Goto(r, "error")
    /\ NothingWritten
    /\ UNCHANGED <<job, copy, told, seed>>

-----------------------------------------------------------------------------
Step(r) ==
    \/ LockRow(r) \/ Refuse(r) \/ UpdateRow(r) \/ InsertMovement(r) \/ Commit(r)
    \/ SetThreshold(r) \/ PublishStockChanged(r) \/ CheckLowStock(r)

Next ==
    \E r \in Request :
        \/ \E s \in Row :
              \/ \E n \in Amount :
                    \/ ReserveStock(r, s, n)
                    \/ ReleaseStock(r, s, n)
                    \/ \E type \in Types : AdjustStock(r, s, type, n)
              \/ \E n \in Threshold : UpdateMinThreshold(r, s, n)
        \/ Step(r)
        \/ Abort(r)

Spec == Init /\ [][Next]_vars

\* A handler that has begun goes on: its statements are answered and the server
\* hands a free lock to some waiter, with finitely many requests to every one.
FairSpec == Spec /\ \A r \in Request : WF_vars(Step(r))

-----------------------------------------------------------------------------
(* Properties.                                                             *)

\* The service implements the account: transactions interleaved statement by
\* statement, aborted anywhere, take effect one after the other and whole.
Account == INSTANCE StockAccount
ImplementsAccount == Account!Spec

\* The checks the code makes on the row it locked are as good as those of the
\* table: no request ever runs into a CHECK constraint, so nothing is oversold
\* and nobody gets a 500 for a race.
ChecksNeverFire == \A r \in Request : pc[r] # "check_violation"

\* The movements log explains every row: what a row holds is what it started
\* with and the movements recorded for it, whatever was aborted on the way.
LedgerBalances ==
    \A s \in Row :
        /\ row[s].quantity = seed[s].quantity + ledger[s]["inbound"]
                             + ledger[s]["adjustment"] - ledger[s]["outbound"]
        /\ row[s].reserved = seed[s].reserved + ledger[s]["reserve"]
                             - ledger[s]["release"]

\* r wrote row s in its current low period and ended before it could tell.
CutOff(r, s) == job[r].row = s /\ stamp[r] >= lowFrom[s] /\ pc[r] = "error"

\* r wrote row s in its current low period, and NATS did not take its event.
Unsent(r, s) ==
    /\ job[r].row = s /\ stamp[r] >= lowFrom[s] /\ pc[r] = "ok"
    /\ [version |-> stamp[r], sent |-> FALSE] \in told[s]

\* No low period goes unannounced: once the handlers that wrote a row have said
\* what they had to, a row that some write made low has had a low_stock event
\* since that write, though releases do not look at the level.
\* What leaves it untold is a handler cut off between its commit and its check, or
\* a publication that failed, which the handler logs and does not repeat.
LowPeriodAnnounced ==
    \A s \in Row :
        (lowFrom[s] > 0 /\ \A r \in Request : job[r].row = s => pc[r] \notin {"publish", "low"})
            => \/ \E e \in told[s] : e.version >= lowFrom[s] /\ e.sent
               \/ \E r \in Request : CutOff(r, s) \/ Unsent(r, s)

\* Every request that has begun is answered: every exit of a transaction gives
\* its row lock back.
EveryRequestAnswered == \A r \in Request : pc[r] = "lock" ~> pc[r] \in Answered
=============================================================================
