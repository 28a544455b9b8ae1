--------------------------- MODULE ShipmentStatus ---------------------------
(***************************************************************************)
(* The shipment statuses and their transition table                        *)
(* (services/logistics-service/internal/shipment/shipment.go).  Constant-  *)
(* level: read by the abstract record, the service and their proofs.       *)
(***************************************************************************)

Status == {"created", "label_created", "awaiting_pickup", "picked_up",
           "in_transit", "at_hub", "out_for_delivery", "delivery_attempted",
           "held_at_office", "delivered", "failed", "returned_to_sender",
           "returned", "cancelled", "redirected"}

\* validTransitions; a status that is not a key of the map is terminal.
Allowed(from) ==
    CASE from = "created" ->
            {"label_created", "awaiting_pickup", "picked_up", "cancelled"}
      [] from = "label_created"   -> {"awaiting_pickup", "picked_up", "cancelled"}
      [] from = "awaiting_pickup" -> {"picked_up", "cancelled"}
      [] from = "picked_up"       -> {"in_transit", "at_hub", "cancelled"}
      [] from = "in_transit" ->
            {"at_hub", "out_for_delivery", "delivered", "failed", "redirected"}
      [] from = "at_hub" ->
            {"in_transit", "out_for_delivery", "redirected", "returned_to_sender"}
      [] from = "out_for_delivery" ->
            {"delivered", "delivery_attempted", "held_at_office", "failed"}
      [] from = "delivery_attempted" ->
            {"out_for_delivery", "held_at_office", "returned_to_sender", "delivered"}
      [] from = "held_at_office"  -> {"delivered", "returned_to_sender"}
      [] from = "delivered"       -> {"returned"}
      [] from = "failed"          -> {"returned", "returned_to_sender"}
      [] from = "redirected"      -> {"in_transit", "at_hub", "out_for_delivery"}
      [] OTHER                    -> {}

\* A slip in the table: a parcel that waits for its courier is under way.
CanTransition_SkipPickup(from, to) ==
    to \in Allowed(from) \/ (from = "awaiting_pickup" /\ to = "in_transit")

CanTransition(from, to) == to \in Allowed(from)

\* isTerminalStatus, and the cases Redirect refuses: the same four.
IsTerminal(status) ==
    status \in {"delivered", "returned_to_sender", "returned", "cancelled"}

\* The subjects besides logistics.shipment_status_changed.
Milestone(status) ==
    CASE status = "out_for_delivery"   -> {"out_for_delivery"}
      [] status = "delivered"          -> {"delivered"}
      [] status = "delivery_attempted" -> {"attempted"}
      [] status \in {"returned_to_sender", "returned"} -> {"returned"}
      [] status = "redirected"         -> {"redirected"}
      [] OTHER                         -> {}

\* Statuses of a parcel that no courier has taken yet.
NotUnderWay ==
    {"created", "label_created", "awaiting_pickup", "picked_up", "cancelled"}
=============================================================================
