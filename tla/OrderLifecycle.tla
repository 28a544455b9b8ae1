--------------------------- MODULE OrderLifecycle ---------------------------
(***************************************************************************)
(* What the order service promises about one order row, whatever the       *)
(* number of handlers that work on it at a time: the order is placed once, *)
(* and from then on moves along the transition table, one entry a step.    *)
(***************************************************************************)
EXTENDS OrderStatus

CONSTANT Order

VARIABLE status

Init == status = [o \in Order |-> None]

Place(o) ==
    /\ status[o] = None
    /\ status' = [status EXCEPT ![o] = "pending"]

Move(o, to) ==
    /\ to \in Allowed(status[o])
    /\ status' = [status EXCEPT ![o] = to]

Next == \E o \in Order : Place(o) \/ \E to \in Status : Move(o, to)

Spec == Init /\ [][Next]_status
=============================================================================
