------------------------- MODULE MCInventoryStock -------------------------
(* Instances of InventoryStock small enough for TLC. *)
EXTENDS InventoryStock, TLC

CONSTANTS s1, r1, r2, r3

OneRow        == {s1}
ThreeRequests == {r1, r2, r3}

\* Some stock, part of it reserved: one row with room for one more move of two in
\* either direction, one at the limit of its columns.
Seeds == {[quantity |-> 3, reserved |-> 1, min |-> 0],
          [quantity |-> 5, reserved |-> 2, min |-> 2]}
=============================================================================
