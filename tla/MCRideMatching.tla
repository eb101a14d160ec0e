--------------------------- MODULE MCRideMatching ---------------------------
(* Small instances of RideMatching for TLC. *)
EXTENDS RideMatching, TLC

WorkerRideSymmetry == Permutations(Worker) \cup Permutations(Ride)

Symmetry == WorkerRideSymmetry \cup Permutations(Driver)

=============================================================================
