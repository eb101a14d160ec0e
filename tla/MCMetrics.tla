------------------------------ MODULE MCMetrics ------------------------------
(* Small instances of Metrics for TLC. *)
EXTENDS Metrics

Symmetry == Permutations(Thread)

=============================================================================
