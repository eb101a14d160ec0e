--------------------------- MODULE MCRideCreation ---------------------------
(* Small instances of RideCreation for TLC. *)
EXTENDS RideCreation, TLC

Symmetry == Permutations(Request) \cup Permutations(Params)

=============================================================================
