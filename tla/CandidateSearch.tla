-------------------------- MODULE CandidateSearch --------------------------
(***************************************************************************)
(* find_ranked_candidates for one pickup point, run over and over, while   *)
(* drivers register, PATCH their location and change status.  Every ring   *)
(* is a SELECT of its own, so a search sees each ring at another moment.   *)
(*                                                                         *)
(* A place stands for coordinates.  A driver row keeps the place and,      *)
(* beside it, the H3 cell computed from it; the search selects by cell and *)
(* ranks by place.  Zones are cells of a coarser resolution and are        *)
(* written the same way, so `cell' stands for h3_index and zone_id alike.  *)
(***************************************************************************)
EXTENDS Integers, Sequences, FiniteSets

CONSTANTS
    Driver,
    Place, NoPlace,
    Cell,
    CellOf,     \* latlng_to_h3: the cell of each place
    RingOf,     \* the ring of each cell around the pickup's cell
    DistOf,     \* haversine_km from the pickup to each place
    MaxRing,    \* settings.match_max_ring
    Target,     \* settings.match_target_candidates
    Request,    \* concurrent PATCH /drivers/{id}/location requests
    NoDriver

ASSUME PlaceAssumption == NoPlace \notin Place /\ NoDriver \notin Driver
ASSUME DriverAssumption == IsFiniteSet(Driver)
ASSUME GeometryAssumption ==
    /\ CellOf \in [Place -> Cell]
    /\ RingOf \in [Cell -> Nat]
    /\ DistOf \in [Place -> Nat]
ASSUME SearchAssumption == MaxRing \in Nat /\ Target \in Nat

VARIABLES
    row,        \* the drivers table: place, cell and status of each driver
    patch,      \* each PATCH: the driver, and the place and cell it loaded
    pc, ring,   \* the search: what it does next, the ring it queries next
    found,      \* place of each candidate as the session loaded it
    ranked,     \* the result, nearest first
    steady      \* history: drivers whose row has not changed since it began

vars == <<row, patch, pc, ring, found, ranked, steady>>
search == <<pc, ring, found, ranked>>

NoRow == [at |-> NoPlace, cell |-> NoPlace, status |-> "none"]
Row == [at : Place, cell : Cell, status : {"available", "busy"}] \cup {NoRow}
Where(r) == <<r.at, r.cell>>
NoPatch == [driver |-> NoDriver, old |-> Where(NoRow)]
Patch == [driver : Driver, old : Place \X Cell] \cup {NoPatch}

TypeOK ==
    /\ row \in [Driver -> Row]
    /\ patch \in [Request -> Patch]
    /\ pc \in {"idle", "query", "rank", "ranked"}
    /\ ring \in 0..(MaxRing + 1)
    /\ found \in [Driver -> Place \cup {NoPlace}]
    /\ ranked \in Seq(Driver)
    /\ steady \subseteq Driver

Init ==
    /\ row = [d \in Driver |-> NoRow]
    /\ patch = [q \in Request |-> NoPatch]
    /\ pc = "idle"
    /\ ring = 0
    /\ found = [d \in Driver |-> NoPlace]
    /\ ranked = <<>>
    /\ steady = Driver

Exists(d) == row[d].status # "none"

Found == {d \in Driver : found[d] # NoPlace}

-----------------------------------------------------------------------------
\* The drivers API.

\* POST /drivers: the cell is computed from the coordinates.
CreateDriver(d, p) ==
    /\ ~Exists(d)
    /\ row' = [row EXCEPT ![d] = [at |-> p, cell |-> CellOf[p], status |-> "available"]]
    /\ steady' = steady \ {d}
    /\ UNCHANGED <<patch, search>>

\* PATCH /drivers/{id}/location: get_by_id loads the row (the place to write
\* plays no part before it is written) ...
LoadDriver(q, d) ==
    /\ patch[q] = NoPatch
    /\ Exists(d)
    /\ patch' = [patch EXCEPT ![q] = [driver |-> d, old |-> Where(row[d])]]
    /\ UNCHANGED <<row, search, steady>>

\* ... and the flush writes the columns whose new value differs from the
\* loaded one, and only those.
UpdateLocation(q, p) ==
    /\ patch[q] # NoPatch
    /\ LET d == patch[q].driver
           old == patch[q].old
       IN  /\ row' = [row EXCEPT ![d] =
                        [row[d] EXCEPT
                           !.at = IF p # old[1] THEN p ELSE row[d].at,
                           !.cell = IF CellOf[p] # old[2] THEN CellOf[p] ELSE row[d].cell]]
           /\ steady' = steady \ {d}
    /\ patch' = [patch EXCEPT ![q] = NoPatch]
    /\ UNCHANGED search

\* Other matchers and closers book and free drivers (module RideMatching).
ChangeStatus(d) ==
    /\ Exists(d)
    /\ row' = [row EXCEPT ![d].status = IF @ = "busy" THEN "available" ELSE "busy"]
    /\ steady' = steady \ {d}
    /\ UNCHANGED <<patch, search>>

-----------------------------------------------------------------------------
\* The search.

\* h3.grid_disk around the pickup's cell.
Disk(k) == {c \in Cell : RingOf[c] <= k}

\* Mutant: the inner disk is one ring too large.
CellsWithinRingEmpty(k) == IF k = 0 THEN Disk(0) ELSE Disk(k) \ Disk(k)

CellsWithinRing(k) == IF k = 0 THEN Disk(0) ELSE Disk(k) \ Disk(k - 1)

ListAvailableIn(cells) == {d \in Driver : row[d].status = "available" /\ row[d].cell \in cells}

Begin ==
    /\ pc = "idle"
    /\ pc' = "query"
    /\ ring' = 0
    /\ found' = [d \in Driver |-> NoPlace]
    /\ steady' = Driver
    /\ UNCHANGED <<row, patch, ranked>>

\* Mutant: range(0, max_ring + 2).
QueryRingBeyond ==
    /\ pc = "query"
    /\ LET rows == ListAvailableIn(CellsWithinRing(ring))
       IN  found' = [d \in Driver |-> IF d \in rows /\ found[d] = NoPlace THEN row[d].at ELSE found[d]]
    /\ ring' = ring + 1
    /\ pc' = IF ring = MaxRing + 1 \/ Cardinality({d \in Driver : found'[d] # NoPlace}) >= Target
               THEN "rank" ELSE "query"
    /\ UNCHANGED <<row, patch, ranked, steady>>

\* One ring.  A driver that is already in the session's identity map keeps
\* the place it was first loaded with.  Stop when the target is met or the
\* last ring is done.
QueryRing ==
    /\ pc = "query"
    /\ LET rows == ListAvailableIn(CellsWithinRing(ring))
       IN  found' = [d \in Driver |-> IF d \in rows /\ found[d] = NoPlace THEN row[d].at ELSE found[d]]
    /\ ring' = ring + 1
    /\ pc' = IF ring = MaxRing \/ Cardinality({d \in Driver : found'[d] # NoPlace}) >= Target
               THEN "rank" ELSE "query"
    /\ UNCHANGED <<row, patch, ranked, steady>>

\* Every order of the candidates, each once.
Orders == {s \in [1..Cardinality(Found) -> Found] : \A i, j \in DOMAIN s : s[i] = s[j] => i = j}

\* Mutant: farthest first.
RankCandidatesReversed ==
    /\ pc = "rank"
    /\ ranked' \in {s \in Orders : \A i, j \in DOMAIN s :
                                      i <= j => DistOf[found[s[i]]] >= DistOf[found[s[j]]]}
    /\ pc' = "ranked"
    /\ UNCHANGED <<row, patch, ring, found, steady>>

\* rank_candidates: by distance of the loaded place; ties in any order.
RankCandidates ==
    /\ pc = "rank"
    /\ ranked' \in {s \in Orders : \A i, j \in DOMAIN s :
                                      i <= j => DistOf[found[s[i]]] <= DistOf[found[s[j]]]}
    /\ pc' = "ranked"
    /\ UNCHANGED <<row, patch, ring, found, steady>>

\* match_ride goes on with the result; the session ends with the request.
Finish ==
    /\ pc = "ranked"
    /\ pc' = "idle"
    /\ ring' = 0
    /\ found' = [d \in Driver |-> NoPlace]
    /\ ranked' = <<>>
    /\ UNCHANGED <<row, patch, steady>>

Next ==
    \/ \E d \in Driver, p \in Place : CreateDriver(d, p)
    \/ \E q \in Request : (\E d \in Driver : LoadDriver(q, d)) \/ (\E p \in Place : UpdateLocation(q, p))
    \/ \E d \in Driver : ChangeStatus(d)
    \/ Begin \/ QueryRing \/ RankCandidates \/ Finish

Spec == Init /\ [][Next]_vars

-----------------------------------------------------------------------------
\* A driver that stays available where it is, in range, for the whole search
\* is a candidate, unless the target was met in rings nearer than its own:
\* drivers moving in and out meanwhile never hide it.
StayersAreFound ==
    pc \in {"rank", "ranked"} =>
        \A d \in steady :
            row[d].status = "available" /\ RingOf[row[d].cell] <= MaxRing =>
                \/ d \in Found
                \/ Cardinality(Found) >= Target /\ RingOf[row[d].cell] >= ring

\* The first candidate is, by the distance it was ranked with, at least as
\* near as every available driver that kept still in the rings searched;
\* one in a farther ring may be nearer, for a ring is not a distance.
NearestOfSearched ==
    pc = "ranked" =>
        \A d \in steady :
            row[d].status = "available" /\ RingOf[row[d].cell] < ring =>
                ranked # <<>> /\ DistOf[found[ranked[1]]] <= DistOf[row[d].at]

\* models/driver.py: h3_index is the "H3 cell address for the driver's current
\* location": the cell the search selects by and the place it ranks by agree.
CellOfLocation == \A d \in Driver : Exists(d) => row[d].cell = CellOf[row[d].at]

=============================================================================
