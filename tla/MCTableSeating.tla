---------------------------- MODULE MCTableSeating ----------------------------
(* TableSeating on a small floor, for TLC. *)
EXTENDS TableSeating, TLC

SeatingSymmetry == Permutations(Order) \cup Permutations(Table)
                     \cup Permutations(Label) \cup Permutations(Worker)
=============================================================================
