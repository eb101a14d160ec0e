------------------------- MODULE MCCandidateSearch -------------------------
(* A pickup with four places around it.  "edge" lies in a neighbouring     *)
(* cell but nearer than "corner", which is in the pickup's own cell.       *)
EXTENDS CandidateSearch, TLC

MCPlace == {"near", "corner", "edge", "away"}
MCCell == {"c0", "c1", "c2"}
MCCellOf == [p \in MCPlace |-> CASE p \in {"near", "corner"} -> "c0" [] p = "edge" -> "c1" [] OTHER -> "c2"]
MCRingOf == [c \in MCCell |-> CASE c = "c0" -> 0 [] c = "c1" -> 1 [] OTHER -> 2]
MCDistOf == [p \in MCPlace |-> CASE p = "near" -> 1 [] p = "edge" -> 2 [] p = "corner" -> 3 [] OTHER -> 9]

Symmetry == Permutations(Driver)
=============================================================================
