--------------------------- MODULE MCBillSettlement ---------------------------
(* BillSettlement on small instances, for TLC. *)
EXTENDS BillSettlement

\* Takeaways are taxed as much as they cost; nothing else is taxed.
TakeawaysTaxed == [type \in OrderType |-> IF type = "TAKEAWAY" THEN Hundred ELSE 0]

RowSymmetry == Permutations(Line) \cup Permutations(Bill) \cup Permutations(Worker)
=============================================================================
