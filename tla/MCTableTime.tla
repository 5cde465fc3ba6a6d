------------------------------ MODULE MCTableTime ------------------------------
(* TableTime on a small instance, for TLC. *)
EXTENDS TableTime, TLC

FloorSymmetry == Permutations(Area) \cup Permutations(Table) \cup Permutations(Worker)
=============================================================================
