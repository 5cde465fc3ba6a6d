------------------------------- MODULE MCTenancy -------------------------------
(* Tenancy on a small instance, for TLC. *)
EXTENDS Tenancy, TLC

RowSymmetry == Permutations(Business) \cup Permutations(Rep) \cup Permutations(Contact)
                 \cup Permutations(Password) \cup Permutations(Worker)
=============================================================================
