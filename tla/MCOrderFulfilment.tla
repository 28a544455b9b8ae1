------------------------- MODULE MCOrderFulfilment -------------------------
(* Instances of OrderFulfilment small enough for TLC. *)
EXTENDS OrderFulfilment, TLC

CONSTANTS o1, r1, r2, r3, r4, k1, k2

NoOrder       == {}
OneOrder      == {o1}
ThreeRequests == {r1, r2, r3}
FourRequests  == {r1, r2, r3, r4}

OneReplica  == {k1}
TwoReplicas == {k1, k2}

\* Confirmation and the way back to it, and what races with it.
ConfirmTargets == {"confirmed", "processing"}
CancelTargets  == {"confirmed", "cancelled"}
RaceTargets    == {"confirmed", "processing", "cancelled"}

OneOrderBatch  == {<<o1>>}

RequestSymmetry == Permutations(Request)
=============================================================================
