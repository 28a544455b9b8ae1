--------------------------- MODULE MCOrderService ---------------------------
(* Instances of OrderService small enough for TLC. *)
EXTENDS OrderService, TLC

CONSTANTS o1, o2, r1, r2, r3, r4

OneOrder   == {o1}
ThreeRequests == {r1, r2, r3}
FourRequests  == {r1, r2, r3, r4}

\* Every status, and the statuses in which a race on one order shows.
AllTargets  == Status
RaceTargets == {"confirmed", "processing", "cancelled"}

\* A list of one id, and one that repeats it.
OneOrderBatches == {<<o1>>, <<o1, o1>>}

RequestSymmetry == Permutations(Request)
=============================================================================
