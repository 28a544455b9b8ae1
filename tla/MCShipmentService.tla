------------------------- MODULE MCShipmentService -------------------------
(* Instances of ShipmentService small enough for TLC. *)
EXTENDS ShipmentService, TLC

CONSTANTS s1, r1, r2, r3, p1, p2

OneShipment   == {s1}
TwoRequests   == {r1, r2}
ThreeRequests == {r1, r2, r3}
PastRequests  == {p1, p2}

\* A shipment as CreateShipment leaves it, one on its last mile after an attempt,
\* and one whose first two attempts raced to the same number.
Fresh    == [status |-> "label_created", visited |-> {"label_created"}, tries |-> {}]
Travelled == {"label_created", "picked_up", "in_transit", "out_for_delivery"}
LastMile ==
    [status  |-> "out_for_delivery",
     visited |-> Travelled \cup {"delivery_attempted"},
     tries   |-> {<<p1, 1>>}]
Raced ==
    [status  |-> "delivery_attempted",
     visited |-> Travelled \cup {"delivery_attempted"},
     tries   |-> {<<p1, 1>>, <<p2, 1>>}]
Seeds == {Fresh, LastMile, Raced}
LastMileSeed == {LastMile}

EveryEndpoint == Endpoint

\* Statuses to ask for: up the path and at its end.
Targets == {"awaiting_pickup", "in_transit", "delivered"}

\* Lists that go up the path, or start in the middle of it.
Batches ==
    {<<<<s1, "awaiting_pickup">>, <<s1, "picked_up">>, <<s1, "in_transit">>>>,
     <<<<s1, "out_for_delivery">>, <<s1, "delivered">>>>}

Fields      == {"city", "phone"}
PlaceFields == {"city"}
PhonePatch  == {{"phone"}}

RequestSymmetry == Permutations(Request)
=============================================================================
