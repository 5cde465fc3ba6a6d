----------------------------- MODULE MCOutletBooks -----------------------------
(* OutletBooks on a small instance, for TLC. *)
EXTENDS OutletBooks, TLC

\* Bills of two rupees can be paid and refunded in parts.
TwoRupees == [o \in Order |-> 2]

RowSymmetry == Permutations(Order) \cup Permutations(Customer)
                 \cup Permutations(Worker) \cup Permutations(Phone)
=============================================================================
