------------------------------ MODULE StockRow ------------------------------
(***************************************************************************)
(* One row of inventory.stock and what a movement does to it               *)
(* (services/inventory-service/internal/stock).  Constant-level: read by   *)
(* the abstract account, the service and their proofs.                     *)
(***************************************************************************)
EXTENDS Integers

CONSTANTS
    Amount,     \* the quantities requests ask for: handlers refuse others
    Threshold,  \* the min_threshold values requests set, 0 disables
    MaxInt      \* largest value of the INT columns

ASSUME AmountAssumption    == Amount \subseteq Nat \ {0}
ASSUME ThresholdAssumption == Threshold \subseteq Nat
ASSUME MaxIntAssumption    == MaxInt \in Nat

\* Movement types.
Types == {"reserve", "release", "inbound", "outbound", "adjustment"}

StockRecord == [quantity : 0..MaxInt, reserved : 0..MaxInt, min : Nat]

\* The column list's (quantity - reserved) AS available.
Available(st) == st.quantity - st.reserved

\* The checks on the locked row: ErrInsufficientStock, ErrNothingToRelease,
\* ErrReleaseExceedsReserved.  An adjustment can only add.
Permitted(st, type, n) ==
    CASE type \in {"reserve", "outbound"} -> Available(st) >= n
      [] type = "release"                 -> n <= st.reserved
      [] OTHER                            -> TRUE

\* The outbound case without the minus sign.
Applied_OutboundAdds(st, type, n) ==
    [st EXCEPT !.quantity = IF type \in {"reserve", "release"} THEN @ ELSE @ + n,
               !.reserved = CASE type = "reserve" -> @ + n
                              [] type = "release" -> @ - n
                              [] OTHER            -> @]

\* The row after UPDATE inventory.stock SET quantity = quantity + delta, or
\* SET reserved = reserved +/- n.
Applied(st, type, n) ==
    [st EXCEPT !.quantity = CASE type \in {"inbound", "adjustment"} -> @ + n
                              [] type = "outbound"                  -> @ - n
                              [] OTHER                              -> @,
               !.reserved = CASE type = "reserve" -> @ + n
                              [] type = "release" -> @ - n
                              [] OTHER            -> @]

\* The CHECK constraints of the table.
RowCheck(st) == st.quantity >= 0 /\ st.reserved >= 0 /\ st.reserved <= st.quantity

\* Columns and answers of different width.
InRange_Unlimited(st) == TRUE

\* "integer out of range" otherwise.
InRange(st) == st.quantity <= MaxInt /\ st.reserved <= MaxInt

\* The condition of checkLowStock and of GET /stock/low.
IsLow(st) == st.min > 0 /\ Available(st) < st.min
=============================================================================
