---------------------------- MODULE StockAccount ----------------------------
(***************************************************************************)
(* What the inventory service promises about its stock: every movement is  *)
(* one atomic step that is permitted by the row it finds, changes the row, *)
(* and is recorded; whatever transactions run at a time, they take effect  *)
(* one after the other.                                                    *)
(***************************************************************************)
EXTENDS StockRow

CONSTANTS Row, Seed

VARIABLES row, ledger

Init ==
    /\ row \in [Row -> Seed]
    /\ ledger = [s \in Row |-> [t \in Types |-> 0]]

Move(s, type, n) ==
    /\ Permitted(row[s], type, n)
    /\ InRange(Applied(row[s], type, n))
    /\ row' = [row EXCEPT ![s] = Applied(row[s], type, n)]
    /\ ledger' = [ledger EXCEPT ![s][type] = @ + n]

SetMin(s, n) ==
    /\ row' = [row EXCEPT ![s].min = n]
    /\ UNCHANGED ledger

Next ==
    \E s \in Row :
        \/ \E type \in Types, n \in Amount : Move(s, type, n)
        \/ \E n \in Threshold : SetMin(s, n)

Spec == Init /\ [][Next]_<<row, ledger>>
=============================================================================
