--------------------------- MODULE MCOutletCounters ---------------------------
(* OutletCounters on a small outlet, for TLC. *)
EXTENDS OutletCounters, TLC

\* Sound for safety properties; the run checks liveness too and goes without.
RequestSymmetry == Permutations(Request)
=============================================================================
