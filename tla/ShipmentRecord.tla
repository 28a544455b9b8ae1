--------------------------- MODULE ShipmentRecord ---------------------------
(***************************************************************************)
(* What the logistics service promises about a shipment row although its   *)
(* handlers write without looking at the row they overwrite: a status that *)
(* has no endpoint of its own follows one the shipment has had, every      *)
(* failed attempt counts once, and no attempt number is skipped.           *)
(***************************************************************************)
EXTENDS ShipmentStatus, Naturals, FiniteSets

CONSTANTS Shipment, Seed

VARIABLES
    status,     \* status[s]: the status of s
    visited,    \* visited[s]: the statuses s has had
    attempts,   \* attempts[s]: the failed attempts so far
    numbers     \* numbers[s]: the attempt numbers given so far

Init ==
    \E seed \in [Shipment -> Seed] :
        /\ status   = [s \in Shipment |-> seed[s].status]
        /\ visited  = [s \in Shipment |-> seed[s].visited]
        /\ attempts = [s \in Shipment |-> Cardinality(seed[s].tries)]
        /\ numbers  = [s \in Shipment |-> {t[2] : t \in seed[s].tries}]

\* The endpoints with a status of their own write it whatever was there before.
Direct == {"redirected", "held_at_office", "delivery_attempted", "delivered",
           "returned_to_sender"}

Move(s, to) ==
    /\ to \in Direct \/ \E from \in visited[s] : CanTransition(from, to)
    /\ status'  = [status EXCEPT ![s] = to]
    /\ visited' = [visited EXCEPT ![s] = @ \cup {to}]
    /\ UNCHANGED <<attempts, numbers>>

Attempt(s, n) ==
    /\ n = 1 \/ n - 1 \in numbers[s]
    /\ attempts' = [attempts EXCEPT ![s] = @ + 1]
    /\ numbers'  = [numbers EXCEPT ![s] = @ \cup {n}]
    /\ UNCHANGED <<status, visited>>

Next ==
    \E s \in Shipment :
        \/ \E to \in Status : Move(s, to)
        \/ \E n \in 1..(attempts[s] + 1) : Attempt(s, n)

Spec == Init /\ [][Next]_<<status, visited, attempts, numbers>>
=============================================================================
