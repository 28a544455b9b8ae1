---------------------------- MODULE OrderStatus ----------------------------
(***************************************************************************)
(* The order statuses and the transition table of the order service        *)
(* (services/order-service/internal/order/order.go).  Constant-level only: *)
(* the abstract lifecycle, the service and their proofs all read it.       *)
(***************************************************************************)

\* The nominal path of an order, and the two statuses beside it.
Status == {"pending", "confirmed", "processing", "shipped", "delivered",
           "completed", "cancelled", "returned"}

\* "No such row": not a status of the program.
None == "none"

\* validTransitions; a status that is not a key of the map is terminal.
Allowed(from) ==
    CASE from = "pending"    -> {"confirmed", "cancelled"}
      [] from = "confirmed"  -> {"processing", "cancelled"}
      [] from = "processing" -> {"confirmed", "shipped", "cancelled"}
      [] from = "shipped"    -> {"delivered", "returned", "cancelled"}
      [] from = "delivered"  -> {"completed", "cancelled"}
      [] OTHER               -> {}

\* A plausible slip in the table: delivery can be recorded from processing.
CanTransition_SkipShipping(from, to) ==
    to \in Allowed(from) \/ (from = "processing" /\ to = "delivered")

CanTransition(from, to) == to \in Allowed(from)

\* The statuses an order must have had before it can have status s.
Upstream(s) ==
    CASE s = "confirmed"  -> {"pending"}
      [] s = "processing" -> {"pending", "confirmed"}
      [] s = "shipped"    -> {"pending", "confirmed", "processing"}
      [] s \in {"delivered", "returned"}
                          -> {"pending", "confirmed", "processing", "shipped"}
      [] s = "completed"  -> {"pending", "confirmed", "processing", "shipped",
                              "delivered"}
      [] s = "cancelled"  -> {"pending"}
      [] OTHER            -> {}
=============================================================================
