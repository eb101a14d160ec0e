------------------------------- MODULE MCStats -------------------------------
(* Small instances of Stats for TLC. *)
EXTENDS Stats, TLC

Symmetry == Permutations(Ride) \cup Permutations(Zone)

=============================================================================
