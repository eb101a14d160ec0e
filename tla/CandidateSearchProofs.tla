----------------------- MODULE CandidateSearchProofs -----------------------
(***************************************************************************)
(* Proofs about CandidateSearch for any drivers, places, geometry, number  *)
(* of rings and target.                                                    *)
(***************************************************************************)
EXTENDS CandidateSearch, FiniteSetTheorems, TLAPS

USE PlaceAssumption, GeometryAssumption, SearchAssumption

-----------------------------------------------------------------------------
\* While the search runs, the rings behind it hold no steady available driver
\* that it has not found; it stops only at the last ring or with enough.
Covered ==
    pc # "idle" =>
        \A d \in steady :
            row[d].status = "available" /\ RingOf[row[d].cell] < ring => found[d] # NoPlace

Stopped ==
    pc \in {"rank", "ranked"} => ring = MaxRing + 1 \/ Cardinality(Found) >= Target

Shape ==
    /\ row \in [Driver -> Row]
    /\ patch \in [Request -> Patch]
    /\ \A q \in Request : patch[q] # NoPatch => patch[q].driver \in Driver
    /\ \A q \in Request : patch[q].driver \in Driver => Exists(patch[q].driver)
    /\ pc \in {"idle", "query", "rank", "ranked"}
    /\ ring \in Nat
    /\ found \in [Driver -> Place \cup {NoPlace}]
    /\ steady \subseteq Driver

SearchInv == Shape /\ Covered /\ Stopped

\* A row that exists has a place and a cell.
LEMMA RowShape ==
  ASSUME NEW r \in Row, r.status # "none"
  PROVE  r.at \in Place /\ r.cell \in Cell /\ r.status \in {"available", "busy"}
BY DEF Row, NoRow

\* What a flush of update_location makes of a row is a row.
LEMMA FlushShape ==
  ASSUME NEW r \in Row, r.status # "none", NEW p \in Place, NEW c \in Cell
  PROVE  /\ [r EXCEPT !.at = p, !.cell = c] \in Row
         /\ [r EXCEPT !.at = p, !.cell = c].status = r.status
BY RowShape DEF Row, NoRow

\* The drivers API and other requests change rows only of drivers that they
\* remove from steady, so they keep SearchInv.
LEMMA ShapeStep ==
  ASSUME Shape, [Next]_vars
  PROVE  Shape'
<1> USE DEF Shape, Exists
<1>1. ASSUME NEW d \in Driver, NEW p \in Place, CreateDriver(d, p)
      PROVE  Shape'
  <2>1. [at |-> p, cell |-> CellOf[p], status |-> "available"] \in Row
    BY DEF Row
  <2>2. row' \in [Driver -> Row]
    BY <1>1, <2>1 DEF CreateDriver
  <2> QED
    BY <1>1, <2>2 DEF CreateDriver, search
<1>2. ASSUME NEW d \in Driver, NEW q \in Request, LoadDriver(q, d)
      PROVE  Shape'
  <2>1. [driver |-> d, old |-> Where(row[d])] \in Patch
    BY <1>2, RowShape DEF LoadDriver, Patch, Where
  <2> QED
    BY <1>2, <2>1 DEF LoadDriver, search
<1>3. ASSUME NEW q \in Request, NEW p \in Place, UpdateLocation(q, p)
      PROVE  Shape'
  <2> DEFINE d == patch[q].driver
             old == patch[q].old
             a == IF p # old[1] THEN p ELSE row[d].at
             c == IF CellOf[p] # old[2] THEN CellOf[p] ELSE row[d].cell
             new == [row[d] EXCEPT !.at = a, !.cell = c]
  <2>1. d \in Driver /\ row[d].status # "none"
    BY <1>3 DEF UpdateLocation
  <2>2. a \in Place /\ c \in Cell
    BY <2>1, RowShape
  <2>3. new \in Row /\ new.status = row[d].status
    <3> HIDE DEF a, c
    <3> QED BY <2>1, <2>2, FlushShape
  <2>4. row' = [row EXCEPT ![d] = new]
    BY <1>3 DEF UpdateLocation
  <2>5. patch' = [patch EXCEPT ![q] = NoPatch] /\ steady' = steady \ {d} /\ UNCHANGED search
    BY <1>3 DEF UpdateLocation
  <2>6. NoPatch \in Patch /\ NoPatch.driver \notin Driver
    BY DEF NoPatch, Patch
  <2> HIDE DEF new
  <2>7. row' \in [Driver -> Row] /\ \A e \in Driver : row'[e].status = row[e].status
    BY <2>1, <2>3, <2>4
  <2> HIDE DEF d
  <2> QED BY <2>5, <2>6, <2>7 DEF search
<1>4. ASSUME NEW d \in Driver, ChangeStatus(d)
      PROVE  Shape'
  <2>1. \A s \in {"available", "busy"} : [row[d] EXCEPT !.status = s] \in Row
    BY <1>4, RowShape DEF ChangeStatus, Row, NoRow
  <2>2. row' \in [Driver -> Row] /\ \A e \in Driver : row[e].status # "none" => row'[e].status # "none"
    BY <1>4, <2>1 DEF ChangeStatus
  <2> QED BY <1>4, <2>2 DEF ChangeStatus, search
<1>5. CASE Begin \/ RankCandidates \/ Finish
  BY <1>5 DEF Begin, RankCandidates, Finish
<1>6. CASE QueryRing
  <2>1. \A d \in Driver : d \in ListAvailableIn(CellsWithinRing(ring)) => row[d].at \in Place
    BY RowShape DEF ListAvailableIn
  <2> QED BY <1>6, <2>1 DEF QueryRing
<1>7. CASE UNCHANGED vars
  BY <1>7 DEF vars
<1> QED BY <1>1, <1>2, <1>3, <1>4, <1>5, <1>6, <1>7 DEF Next

\* Every step keeps the search invariant.
LEMMA SearchStep ==
  ASSUME SearchInv, [Next]_vars
  PROVE  SearchInv'
<1> USE DEF SearchInv
<1>0. Shape'
  BY ShapeStep
<1>1. ASSUME NEW d \in Driver, \A e \in Driver \ {d} : row'[e] = row[e],
             steady' = steady \ {d}, UNCHANGED search
      PROVE  SearchInv'
  BY <1>0, <1>1 DEF Covered, Stopped, Found, search, Shape
<1>2. ASSUME NEW d \in Driver, NEW p \in Place, CreateDriver(d, p)
      PROVE  SearchInv'
  BY <1>1, <1>2 DEF CreateDriver, Shape
<1>3. ASSUME NEW q \in Request, NEW p \in Place, UpdateLocation(q, p)
      PROVE  SearchInv'
  BY <1>1, <1>3 DEF UpdateLocation, Shape
<1>4. ASSUME NEW d \in Driver, ChangeStatus(d)
      PROVE  SearchInv'
  BY <1>1, <1>4 DEF ChangeStatus, Shape
<1>5. ASSUME NEW d \in Driver, NEW q \in Request, LoadDriver(q, d)
      PROVE  SearchInv'
  BY <1>0, <1>5 DEF LoadDriver, Covered, Stopped, Found, search
<1>6. CASE Begin
  BY <1>0, <1>6, RowShape DEF Begin, Covered, Stopped, Shape
<1>7. CASE QueryRing
  <2>1. Covered'
    <3> SUFFICES ASSUME NEW d \in steady, row[d].status = "available",
                        RingOf[row[d].cell] < ring + 1
                 PROVE  found'[d] # NoPlace
      BY <1>7 DEF QueryRing, Covered
    <3>1. d \in Driver /\ row[d].at \in Place /\ row[d].cell \in Cell /\ RingOf[row[d].cell] \in Nat
      BY RowShape DEF Shape
    <3>2. CASE RingOf[row[d].cell] < ring
      BY <1>7, <3>1, <3>2 DEF QueryRing, Covered, Shape
    <3>3. CASE RingOf[row[d].cell] = ring
      <4>1. row[d].cell \in CellsWithinRing(ring)
        BY <3>1, <3>3 DEF CellsWithinRing, Disk, Shape
      <4>2. d \in ListAvailableIn(CellsWithinRing(ring))
        BY <3>1, <4>1 DEF ListAvailableIn
      <4> QED BY <1>7, <3>1, <4>2 DEF QueryRing, Shape
    <3> QED BY <3>1, <3>2, <3>3 DEF Shape
  <2>2. Stopped'
    BY <1>7 DEF QueryRing, Stopped, Found
  <2> QED BY <1>0, <2>1, <2>2
<1>8. CASE RankCandidates \/ Finish
  BY <1>0, <1>8 DEF RankCandidates, Finish, Covered, Stopped, Found
<1>9. CASE UNCHANGED vars
  BY <1>0, <1>9 DEF vars, Covered, Stopped, Found
<1> QED BY <1>2, <1>3, <1>4, <1>5, <1>6, <1>7, <1>8, <1>9 DEF Next

\* Initially there are no drivers, no PATCHes and no search.
LEMMA SearchInit == Init => SearchInv
BY DEF Init, SearchInv, Shape, Covered, Stopped, Row, NoRow, Patch, NoPatch, Exists

\* candidate_search.py: no driver that keeps still and available within the
\* rings searched is missed, whatever the others do between two SELECTs.
THEOREM SearchIsComplete == Spec => []StayersAreFound
<1>1. SearchInv => StayersAreFound
  <2> SUFFICES ASSUME SearchInv, pc \in {"rank", "ranked"}, NEW d \in steady,
                      row[d].status = "available", RingOf[row[d].cell] <= MaxRing, d \notin Found
               PROVE  Cardinality(Found) >= Target /\ RingOf[row[d].cell] >= ring
    BY DEF StayersAreFound
  <2>1. d \in Driver /\ found[d] = NoPlace /\ RingOf[row[d].cell] \in Nat /\ ring \in Nat
    BY RowShape DEF SearchInv, Shape, Found
  <2>2. RingOf[row[d].cell] >= ring
    BY <2>1 DEF SearchInv, Covered
  <2>3. ring # MaxRing + 1
    BY <2>1, <2>2
  <2> QED BY <2>2, <2>3 DEF SearchInv, Stopped
<1> QED BY <1>1, SearchInit, SearchStep, PTL DEF Spec

-----------------------------------------------------------------------------
\* The row no longer has the place and the cell that PATCH q loaded.
Overtaken(q) == Where(row[patch[q].driver]) # patch[q].old

\* A PATCH is flushed over a location that another one wrote meanwhile.
WriteOver == \E q \in Request : patch[q] # NoPatch /\ patch'[q] = NoPatch /\ Overtaken(q)

\* Every step but such a flush keeps place and cell of every row together.
LEMMA LocationStep ==
  ASSUME Shape, CellOfLocation, [Next]_vars, [~WriteOver]_vars
  PROVE  CellOfLocation'
<1>1. ASSUME NEW d \in Driver, NEW p \in Place, CreateDriver(d, p)
      PROVE  CellOfLocation'
  <2>1. row'[d].cell = CellOf[p] /\ row'[d].at = p /\ \A e \in Driver \ {d} : row'[e] = row[e]
    BY <1>1 DEF CreateDriver, Shape
  <2> QED BY <2>1 DEF CellOfLocation, Exists
<1>2. ASSUME NEW q \in Request, NEW p \in Place, UpdateLocation(q, p)
      PROVE  CellOfLocation'
  <2> DEFINE d == patch[q].driver
             old == patch[q].old
             a == IF p # old[1] THEN p ELSE row[d].at
             c == IF CellOf[p] # old[2] THEN CellOf[p] ELSE row[d].cell
             new == [row[d] EXCEPT !.at = a, !.cell = c]
  <2>1. d \in Driver /\ row[d].status # "none" /\ row[d] \in Row
    BY <1>2 DEF UpdateLocation, Shape, Exists
  <2>2. patch'[q] = NoPatch /\ patch[q] # NoPatch
    BY <1>2 DEF UpdateLocation, Shape
  <2>3. ~Overtaken(q)
    BY <2>2 DEF WriteOver, vars
  <2>4. row[d].at = old[1] /\ row[d].cell = old[2]
    BY <2>3 DEF Overtaken, Where
  <2>5. a = p /\ c = CellOf[p]
    BY <2>4
  <2>6. new.at = p /\ new.cell = CellOf[p]
    <3>1. a \in Place /\ c \in Cell
      BY <2>5
    <3> HIDE DEF a, c, d
    <3> QED BY <2>1, <2>5, <3>1, RowShape DEF Row, NoRow
  <2>7. row' = [row EXCEPT ![d] = new]
    BY <1>2 DEF UpdateLocation
  <2> HIDE DEF new
  <2>8. row'[d].at = p /\ row'[d].cell = CellOf[p] /\ \A e \in Driver \ {d} : row'[e] = row[e]
    BY <2>1, <2>6, <2>7 DEF Shape
  <2> QED BY <2>1, <2>8 DEF CellOfLocation, Exists
<1>3. ASSUME NEW d \in Driver, ChangeStatus(d)
      PROVE  CellOfLocation'
  <2>1. \A e \in Driver : row'[e].at = row[e].at /\ row'[e].cell = row[e].cell
    BY <1>3, RowShape DEF ChangeStatus, Shape, Exists, Row, NoRow
  <2>2. \A e \in Driver : row'[e].status # "none" => row[e].status # "none"
    BY <1>3 DEF ChangeStatus, Shape, Exists
  <2> QED BY <2>1, <2>2 DEF CellOfLocation, Exists
<1>4. CASE UNCHANGED row
  BY <1>4 DEF CellOfLocation, Exists
<1>5. CASE (\E q \in Request, d \in Driver : LoadDriver(q, d)) \/ UNCHANGED vars
  BY <1>4, <1>5 DEF LoadDriver, vars
<1>6. CASE Begin \/ QueryRing \/ RankCandidates \/ Finish
  BY <1>4, <1>6 DEF Begin, QueryRing, RankCandidates, Finish
<1> QED BY <1>1, <1>2, <1>3, <1>5, <1>6 DEF Next

\* driver_repository.py, update_location: however many PATCHes of one driver
\* overlap, the cell it is searched by is the cell of its coordinates as long
\* as none of them is flushed over a location it has not loaded.  The run
\* finding_cells shows the condition broken.
THEOREM CellsFollowLocations == Spec /\ [][~WriteOver]_vars => []CellOfLocation
<1>1. Init => SearchInv /\ CellOfLocation
  BY SearchInit DEF Init, CellOfLocation, Exists, NoRow
<1>2. SearchInv /\ CellOfLocation /\ [Next]_vars /\ [~WriteOver]_vars => (SearchInv /\ CellOfLocation)'
  BY SearchStep, LocationStep DEF SearchInv
<1> QED BY <1>1, <1>2, PTL DEF Spec

-----------------------------------------------------------------------------
\* What rank_candidates works on: a steady driver was loaded where it still
\* is, and the rings queried are those of range(max_ring + 1).
LoadedInPlace ==
    pc # "idle" => \A d \in steady : found[d] # NoPlace => found[d] = row[d].at

RingInRange == ring <= MaxRing + 1 /\ (pc = "query" => ring <= MaxRing)

\* The ranking names every candidate, nearest first by the loaded place.
RankedInOrder ==
    pc = "ranked" =>
        /\ \A i \in DOMAIN ranked : ranked[i] \in Found
        /\ \A d \in Found : \E i \in DOMAIN ranked : ranked[i] = d
        /\ \A i, j \in DOMAIN ranked : i <= j => DistOf[found[ranked[i]]] <= DistOf[found[ranked[j]]]

RankInv == LoadedInPlace /\ RingInRange /\ ranked \in Seq(Driver) /\ RankedInOrder

\* An order of the candidates is a sequence that names every one of them:
\* it repeats none and is as long as there are candidates.
LEMMA OrdersAreComplete ==
  ASSUME Shape, NEW s \in Orders
  PROVE  /\ s \in Seq(Driver)
         /\ \A i \in DOMAIN s : s[i] \in Found
         /\ \A d \in Found : \E i \in DOMAIN s : s[i] = d
<1> DEFINE n == Cardinality(Found)
<1>1. IsFiniteSet(Found)
  BY DriverAssumption, FS_Subset DEF Found
<1>2. n \in Nat
  BY <1>1, FS_CardinalityType
<1>3. s \in [1..n -> Found] /\ \A i, j \in 1..n : s[i] = s[j] => i = j
  BY DEF Orders
<1>4. s \in Injection(1..n, Found)
  BY <1>3 DEF Injection, IsInjective
<1>5. Cardinality(1..n) = n
  BY <1>2, FS_Interval
<1> HIDE DEF n
<1>6. s \in Surjection(1..n, Found)
  BY <1>1, <1>4, <1>5, FS_Injection DEF n
<1>7. \A d \in Found : \E i \in 1..n : s[i] = d
  BY <1>6 DEF Surjection
<1>8. s \in Seq(Driver)
  BY <1>2, <1>3 DEF Found
<1> QED
  BY <1>2, <1>3, <1>7, <1>8

\* Every step keeps what rank_candidates relies on and what it delivers.
LEMMA RankStep ==
  ASSUME SearchInv, RankInv, [Next]_vars
  PROVE  RankInv'
<1> USE DEF RankInv
<1>0. Shape /\ Shape'
  BY ShapeStep DEF SearchInv
<1>1. ASSUME NEW d \in Driver, \A e \in Driver \ {d} : row'[e] = row[e],
             steady' = steady \ {d}, UNCHANGED search
      PROVE  RankInv'
  BY <1>0, <1>1 DEF LoadedInPlace, RingInRange, RankedInOrder, Found, search, Shape
<1>2. ASSUME NEW d \in Driver, NEW p \in Place, CreateDriver(d, p)
      PROVE  RankInv'
  BY <1>0, <1>1, <1>2 DEF CreateDriver, Shape
<1>3. ASSUME NEW q \in Request, NEW p \in Place, UpdateLocation(q, p)
      PROVE  RankInv'
  BY <1>0, <1>1, <1>3 DEF UpdateLocation, Shape
<1>4. ASSUME NEW d \in Driver, ChangeStatus(d)
      PROVE  RankInv'
  BY <1>0, <1>1, <1>4 DEF ChangeStatus, Shape
<1>5. ASSUME NEW d \in Driver, NEW q \in Request, LoadDriver(q, d)
      PROVE  RankInv'
  BY <1>5 DEF LoadDriver, LoadedInPlace, RingInRange, RankedInOrder, Found, search
<1>6. CASE Begin \/ Finish
  <2>1. LoadedInPlace' /\ RingInRange' /\ RankedInOrder'
    BY <1>0, <1>6 DEF Begin, Finish, LoadedInPlace, RingInRange, RankedInOrder, Shape
  <2>2. ranked' = ranked \/ ranked' = <<>>
    BY <1>6 DEF Begin, Finish
  <2>3. <<>> \in Seq(Driver) /\ ranked \in Seq(Driver)
    OBVIOUS
  <2>4. ranked' \in Seq(Driver)
    BY <2>2, <2>3, Zenon
  <2> QED
    BY <2>1, <2>4
<1>7. CASE QueryRing
  <2>1. LoadedInPlace'
    BY <1>0, <1>7 DEF QueryRing, LoadedInPlace, Shape
  <2>2. RingInRange' /\ RankedInOrder'
    BY <1>0, <1>7 DEF QueryRing, RingInRange, RankedInOrder, Shape
  <2> QED
    BY <1>7, <2>1, <2>2 DEF QueryRing
<1>8. CASE RankCandidates
  <2>1. ranked' \in Orders /\ UNCHANGED <<row, found, ring, steady>> /\ pc # "idle" /\ pc' = "ranked"
    BY <1>8 DEF RankCandidates
  <2>2. \A i, j \in DOMAIN ranked' : i <= j => DistOf[found[ranked'[i]]] <= DistOf[found[ranked'[j]]]
    BY <1>8 DEF RankCandidates
  <2>3. RankedInOrder' /\ ranked' \in Seq(Driver)
    BY <1>0, <2>1, <2>2, OrdersAreComplete DEF RankedInOrder, Found
  <2> QED
    BY <2>1, <2>3 DEF LoadedInPlace, RingInRange
<1>9. CASE UNCHANGED vars
  BY <1>9 DEF vars, LoadedInPlace, RingInRange, RankedInOrder, Found
<1> QED
  BY <1>2, <1>3, <1>4, <1>5, <1>6, <1>7, <1>8, <1>9 DEF Next

\* Both invariants of the search hold always.
LEMMA RankInductive == Spec => [](SearchInv /\ RankInv)
<1>1. Init => RankInv
  BY DEF Init, RankInv, LoadedInPlace, RingInRange, RankedInOrder
<1> QED
  BY <1>1, SearchInit, SearchStep, RankStep, PTL DEF Spec

\* candidate_search.py: the search never queries beyond the last ring, and
\* its tables, sessions and results stay well formed.
THEOREM SearchIsTyped == Spec => []TypeOK
<1>1. SearchInv /\ RankInv => TypeOK
  BY DEF SearchInv, Shape, RankInv, RingInRange, TypeOK
<1> QED
  BY <1>1, RankInductive, PTL

\* ranking.py: the first candidate is at least as near, by the place it was
\* loaded with, as every available driver that kept still in the rings
\* searched, however the others moved between two SELECTs.
THEOREM NearestComesFirst == Spec => []NearestOfSearched
<1>1. SearchInv /\ RankInv => NearestOfSearched
  <2> SUFFICES ASSUME SearchInv, RankInv, pc = "ranked", NEW d \in steady,
                      row[d].status = "available", RingOf[row[d].cell] < ring
               PROVE  ranked # <<>> /\ DistOf[found[ranked[1]]] <= DistOf[row[d].at]
    BY DEF NearestOfSearched
  <2>1. d \in Driver /\ found[d] # NoPlace
    BY DEF SearchInv, Shape, Covered
  <2>2. found[d] = row[d].at
    BY <2>1 DEF RankInv, LoadedInPlace
  <2>3. PICK i \in DOMAIN ranked : ranked[i] = d
    BY <2>1 DEF RankInv, RankedInOrder, Found
  <2>4. ranked \in Seq(Driver)
    BY DEF RankInv
  <2>5. 1 \in DOMAIN ranked /\ 1 <= i /\ ranked # <<>>
    BY <2>3, <2>4
  <2> QED
    BY <2>2, <2>3, <2>5 DEF RankInv, RankedInOrder
<1> QED
  BY <1>1, RankInductive, PTL

=============================================================================
