------------------------------ MODULE MCPurchases ------------------------------
(* Purchases on a small instance, for TLC. *)
EXTENDS Purchases, TLC

RowSymmetry == Permutations(Bill) \cup Permutations(Material) \cup Permutations(Worker)
=============================================================================
