---------------------------- MODULE MCKitchenStock ----------------------------
(* KitchenStock in a small kitchen, for TLC. *)
EXTENDS KitchenStock, TLC

KitchenSymmetry == Permutations(Order) \cup Permutations(Line)
                     \cup Permutations(Dish) \cup Permutations(Item)
                     \cup Permutations(Worker)
=============================================================================
