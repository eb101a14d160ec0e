------------------------- MODULE RideMatchingProofs -------------------------
(***************************************************************************)
(* Proofs about RideMatching, for any number of workers, rides and drivers *)
(* and any set of faults.                                                  *)
(***************************************************************************)
EXTENDS RideMatching, TLAPS

-----------------------------------------------------------------------------
\* The inductive invariant.

Closing == {"cancel", "complete"}

\* Where a worker is tells what it works on and whether it is decided; where
\* its transaction is tells on which operation, also when the thread has gone
\* on without it.
Shape ==
    \A w \in Worker :
        /\ pc[w] # "idle" => job[w] \in Ride
        /\ pc[w] \in {"load", "search", "pick", "recheck", "index", "release"} => op[w] = "match"
        /\ pc[w] = "free" => op[w] \in Closing
        /\ pc[w] \in {"update", "commit", "refresh"} => op[w] # "none"
        /\ pc[w] \in Guarded \cup {"release"} /\ op[w] = "match" => cand[w] \in Driver
        /\ pc[w] \notin {"release", "respond"} => result[w] = "none"
        /\ lost[w] # "none" => pc[w] \in {"release", "respond"}
        /\ lost[w] # "none" /\ pc[w] = "release" => result[w] # "none"
        /\ lost[w] \in {"index", "entry"} => op[w] = "match"
        /\ lost[w] = "free" => op[w] \in Closing
        /\ lost[w] # "none" => op[w] # "none"
        /\ lost[w] # "none" /\ op[w] = "match" => cand[w] \in Driver

\* A ride has a driver from its match on, and not before.
DriverFromMatch ==
    \A r \in Ride :
        /\ rideStatus[r] \in {"none", "requested"} => rideDriver[r] = NoDriver
        /\ rideStatus[r] \in CompletableStatuses => rideDriver[r] \in Driver

Holding == {"index", "entry", "free", "commit"}

Entered == {"entry", "commit"}

\* The row lock: one open transaction per ride, and the committed row under
\* it still qualifies for the transition that transaction has made.
RowsHeldOnce ==
    /\ \A v, w \in Worker :
         Stage(v) \in Holding /\ Stage(w) \in Holding /\ job[v] = job[w] => v = w
    /\ \A w \in Worker :
         Stage(w) \in Holding => rideStatus[job[w]] \in FromStatuses(op[w])

\* A closing transaction frees the ride's own driver, which it saw busy.
CloserHasDriver ==
    \A w \in Worker :
        op[w] \in Closing =>
            /\ Stage(w) \in {"free", "commit"} => cand[w] = rideDriver[job[w]]
            /\ Stage(w) = "commit" => (seen[w] = "busy" <=> cand[w] # NoDriver)

\* A matching transaction in the index keeps every other ride off its driver.
MatcherOwnsEntry ==
    /\ \A w \in Worker :
         Stage(w) \in Entered /\ op[w] = "match" => ~EntryExists(cand[w])
    /\ \A v, w \in Worker :
         /\ Stage(v) \in Entered /\ op[v] = "match"
         /\ Stage(w) \in Entered /\ op[w] = "match"
         /\ cand[v] = cand[w]
         => v = w
    /\ \A w \in Worker :
         Stage(w) \in Stages /\ op[w] = "match" => seen[w] = "available"

\* No code path takes a driver off line.
NobodyOffline == \A d \in Driver : driverStatus[d] # "offline"

Store ==
    /\ DriverFromMatch
    /\ RowsHeldOnce
    /\ CloserHasDriver
    /\ MatcherOwnsEntry
    /\ OneActiveRidePerDriver
    /\ BusyIffActive
    /\ NobodyOffline

IInv == TypeOK /\ Shape /\ Store

-----------------------------------------------------------------------------
\* Type correctness.

USE NoDriverAssumption, WorkerAssumption, NoRideAssumption

\* Every step of a worker, and every fault, keeps the typing and the shape.
LEMMA ShapeStep ==
  ASSUME TypeOK, Shape, [Next]_vars
  PROVE  TypeOK' /\ Shape'
<1> USE DEF TypeOK, Shape, Steps, Stages, Ops, Results, RideStatus, DriverStatus, Guarded,
            Closing, db, At, Goto, Outcome, Unwind
<1>1. ASSUME NEW w \in Worker, NEW r \in Ride, CreateRide(w, r)
      PROVE  TypeOK' /\ Shape'
  BY <1>1 DEF CreateRide, Begin
<1>2. ASSUME NEW w \in Worker, NEW r \in Ride, ReplayRide(w, r)
      PROVE  TypeOK' /\ Shape'
  BY <1>2 DEF ReplayRide, Begin
<1>3. ASSUME NEW w \in Worker, NEW r \in Ride, NEW o \in Closing, CloseRide(w, r, o)
      PROVE  TypeOK' /\ Shape'
  BY <1>3 DEF CloseRide, Begin
<1>4. ASSUME NEW w \in Worker, LoadRide(w)
      PROVE  TypeOK' /\ Shape'
  BY <1>4 DEF LoadRide
<1>5. ASSUME NEW w \in Worker, NEW d \in Driver, ScanDriver(w, d)
      PROVE  TypeOK' /\ Shape'
  BY <1>5 DEF ScanDriver
<1>6. ASSUME NEW w \in Worker, NEW d \in Driver, AcquireLock(w, d)
      PROVE  TypeOK' /\ Shape'
  BY <1>6 DEF AcquireLock, TakeCandidate
<1>7. ASSUME NEW w \in Worker, NEW d \in Driver, LockContended(w, d)
      PROVE  TypeOK' /\ Shape'
  BY <1>7 DEF LockContended, TakeCandidate
<1>8. ASSUME NEW w \in Worker, EndSearch(w)
      PROVE  TypeOK' /\ Shape'
  BY <1>8 DEF EndSearch
<1>9. ASSUME NEW w \in Worker, NoDriverAvailable(w)
      PROVE  TypeOK' /\ Shape'
  BY <1>9 DEF NoDriverAvailable
<1>10. ASSUME NEW w \in Worker, Recheck(w)
       PROVE  TypeOK' /\ Shape'
  BY <1>10 DEF Recheck
<1>11. ASSUME NEW w \in Worker, TransitionRide(w)
       PROVE  TypeOK' /\ Shape'
  BY <1>11 DEF TransitionRide
<1>12. ASSUME NEW w \in Worker, TransitionLost(w)
       PROVE  TypeOK' /\ Shape'
  BY <1>12 DEF TransitionLost
<1>13. ASSUME NEW w \in Worker, IndexInsert(w)
       PROVE  TypeOK' /\ Shape'
  BY <1>13 DEF IndexInsert
<1>14. ASSUME NEW w \in Worker, IndexConflict(w)
       PROVE  TypeOK' /\ Shape'
  BY <1>14 DEF IndexConflict
<1>15. ASSUME NEW w \in Worker, ReadDriver(w)
       PROVE  TypeOK' /\ Shape'
  BY <1>15 DEF ReadDriver
<1>16. ASSUME NEW w \in Worker, Commit(w)
       PROVE  TypeOK' /\ Shape'
  BY <1>16 DEF Commit, ApplyCommit, ToStatus, DriverTarget
<1>17. ASSUME NEW w \in Worker, RefreshRide(w)
       PROVE  TypeOK' /\ Shape'
  BY <1>17 DEF RefreshRide
<1>18. ASSUME NEW w \in Worker, ReleaseLock(w)
       PROVE  TypeOK' /\ Shape'
  BY <1>18 DEF ReleaseLock
<1>19. ASSUME NEW w \in Worker, Respond(w)
       PROVE  TypeOK' /\ Shape'
  BY <1>19 DEF Respond
<1>20. ASSUME NEW d \in Driver, Expire(d)
       PROVE  TypeOK' /\ Shape'
  BY <1>20 DEF Expire
<1>21. ASSUME NEW w \in Worker, Crash(w)
       PROVE  TypeOK' /\ Shape'
  BY <1>21 DEF Crash, Stage, Disturb
<1>22. ASSUME NEW w \in Worker, ConnectionLost(w)
       PROVE  TypeOK' /\ Shape'
  BY <1>22 DEF ConnectionLost, Disturb
<1>23. ASSUME NEW w \in Worker, Adrift(w)
       PROVE  TypeOK' /\ Shape'
  BY <1>23 DEF Adrift
<1>24. ASSUME NEW w \in Worker, Reap(w)
       PROVE  TypeOK' /\ Shape'
  BY <1>24 DEF Reap, ApplyCommit, ToStatus, DriverTarget
<1>25. ASSUME NEW w \in Worker, StatementFails(w)
       PROVE  TypeOK' /\ Shape'
  BY <1>25 DEF StatementFails
<1>26. ASSUME NEW w \in Worker, EmitFails(w)
       PROVE  TypeOK' /\ Shape'
  BY <1>26 DEF EmitFails, TakeCandidate
<1>27. ASSUME NEW w \in Worker, NEW d \in Driver, AcquireFails(w, d)
       PROVE  TypeOK' /\ Shape'
  BY <1>27 DEF AcquireFails, TakeCandidate
<1>28. ASSUME NEW w \in Worker, ReleaseFails(w)
       PROVE  TypeOK' /\ Shape'
  BY <1>28 DEF ReleaseFails
<1>29. CASE UNCHANGED vars
  BY <1>29 DEF vars
<1> QED
  BY <1>1, <1>2, <1>3, <1>4, <1>5, <1>6, <1>7, <1>8, <1>9, <1>10, <1>11, <1>12, <1>13,
     <1>14, <1>15, <1>16, <1>17, <1>18, <1>19, <1>20, <1>21, <1>22, <1>23, <1>24,
     <1>25, <1>26, <1>27, <1>28, <1>29 DEF Next, Arrive, Proceed, Fault

\* Spec => []TypeOK: every variable stays within its declared type for any
\* sets of workers, rides and drivers.
THEOREM TypeCorrect == Spec => []TypeOK
<1>1. Init => TypeOK /\ Shape
  BY DEF Init, TypeOK, Shape, Steps, Stages, Ops, Results, RideStatus, DriverStatus, Guarded,
     Closing
<1>2. TypeOK /\ Shape /\ [Next]_vars => (TypeOK /\ Shape)'
  BY ShapeStep
<1> QED
  BY <1>1, <1>2, PTL DEF Spec

-----------------------------------------------------------------------------
\* The store: which driver, which row, which index entry.

\* A step that leaves the tables alone and takes no worker into or along a
\* transaction.
Quiet ==
    /\ UNCHANGED db
    /\ \A v \in Worker : Stage(v)' \in Stages =>
         /\ Stage(v)' = Stage(v) /\ op'[v] = op[v] /\ job'[v] = job[v]
         /\ cand'[v] = cand[v] /\ seen'[v] = seen[v]

\* The tables' own part of Store.
LEMMA TablesFrame ==
  ASSUME Store, UNCHANGED db
  PROVE  /\ DriverFromMatch' /\ OneActiveRidePerDriver' /\ BusyIffActive' /\ NobodyOffline'
         /\ \A d \in Driver : EntryExists(d)' <=> EntryExists(d)
BY DEF db, Store, DriverFromMatch, OneActiveRidePerDriver, BusyIffActive, NobodyOffline, EntryExists

\* Whose transaction is open works on a ride, and a matcher on a driver.
LEMMA InTransaction ==
  ASSUME TypeOK, Shape, NEW v \in Worker, Stage(v) \in Stages
  PROVE  job[v] \in Ride /\ (op[v] = "match" => cand[v] \in Driver)
<1>1. CASE lost[v] = "none"
  <2>1. pc[v] \in Stages
    BY <1>1 DEF Stage
  <2>2. pc[v] \in Steps
    BY DEF TypeOK
  <2> QED
    BY <2>1, <2>2 DEF Shape, Guarded, Closing, Stages, Steps
<1>2. CASE lost[v] # "none"
  BY <1>2 DEF Shape
<1> QED
  BY <1>1, <1>2

\* A quiet step preserves everything said of the store.
LEMMA QuietStep ==
  ASSUME TypeOK, Store, Quiet
  PROVE  Store'
<1> USE DEF Quiet, db, Stages, Holding, Entered
<1>1. /\ DriverFromMatch' /\ OneActiveRidePerDriver' /\ BusyIffActive' /\ NobodyOffline'
      /\ \A d \in Driver : EntryExists(d)' <=> EntryExists(d)
  BY TablesFrame
<1>2. RowsHeldOnce'
  BY DEF Store, RowsHeldOnce, FromStatuses
<1>3. CloserHasDriver'
  BY DEF Store, CloserHasDriver
<1>4. MatcherOwnsEntry'
  BY DEF Store, MatcherOwnsEntry, EntryExists
<1> QED
  BY <1>1, <1>2, <1>3, <1>4 DEF Store

\* Inserting a new ride: it is active but has no driver.
LEMMA StoreCreate ==
  ASSUME TypeOK, Shape, Store, NEW w \in Worker, NEW r \in Ride, CreateRide(w, r)
  PROVE  Store'
<1> USE DEF TypeOK, Shape, Store, CreateRide, Begin, At, Goto, Holding, Entered, Stages, Closing,
            ActiveStatuses, CompletableStatuses
<1>1. \A s \in Ride : rideStatus'[s] = IF s = r THEN "requested" ELSE rideStatus[s]
  OBVIOUS
<1>2. \A v \in Worker : Stage(v)' = IF v = w THEN "load" ELSE Stage(v)
  BY DEF Stage
<1>3. rideDriver[r] = NoDriver
  BY DEF DriverFromMatch
<1>4. \A d \in Driver : EntryExists(d)' <=> EntryExists(d)
  BY <1>1, <1>3 DEF EntryExists
<1>5. DriverFromMatch'
  BY <1>1, <1>3 DEF DriverFromMatch
<1>6. RowsHeldOnce'
  BY <1>1, <1>2 DEF RowsHeldOnce, FromStatuses
<1>7. CloserHasDriver'
  BY <1>2 DEF CloserHasDriver
<1>8. MatcherOwnsEntry'
  BY <1>2, <1>4, InTransaction DEF MatcherOwnsEntry
<1>9. OneActiveRidePerDriver'
  BY <1>1, <1>3 DEF OneActiveRidePerDriver
<1>10. BusyIffActive' /\ NobodyOffline'
  BY <1>4 DEF BusyIffActive, NobodyOffline
<1> QED
  BY <1>5, <1>6, <1>7, <1>8, <1>9, <1>10

\* A cancel or complete arrives: it holds no row yet.
LEMMA StoreOpen ==
  ASSUME TypeOK, Shape, Store, NEW w \in Worker, NEW r \in Ride, NEW o \in Closing,
         CloseRide(w, r, o)
  PROVE  Store'
<1>1. /\ UNCHANGED <<rideStatus, rideDriver, driverStatus, cand, seen>>
      /\ Stage(w)' \in {"respond", "update"}
      /\ op'[w] # "match"
      /\ \A v \in Worker : v # w => Stage(v)' = Stage(v) /\ op'[v] = op[v] /\ job'[v] = job[v]
  BY DEF CloseRide, Begin, At, Goto, TypeOK, Shape, db, Closing, Stage
<1>2. \A v \in Worker : Stage(v)' \in Holding => v # w
  BY <1>1 DEF Holding
<1>3. RowsHeldOnce'
  BY <1>1, <1>2 DEF Store, RowsHeldOnce, FromStatuses
<1>4. CloserHasDriver'
  BY <1>1 DEF Store, CloserHasDriver
<1>5. MatcherOwnsEntry'
  BY <1>1 DEF Store, MatcherOwnsEntry, EntryExists
<1>6. DriverFromMatch' /\ OneActiveRidePerDriver' /\ BusyIffActive' /\ NobodyOffline'
  BY <1>1, TablesFrame DEF db
<1> QED
  BY <1>3, <1>4, <1>5, <1>6 DEF Store

\* The re-check: a matcher that goes on has seen an available driver.
LEMMA StoreRecheck ==
  ASSUME TypeOK, Shape, Store, NEW w \in Worker, Recheck(w)
  PROVE  Store'
<1>1. /\ UNCHANGED <<rideStatus, rideDriver, driverStatus, cand, op, job>>
      /\ pc[w] = "recheck"
      /\ Stage(w)' \in {"update", "release"}
      /\ Stage(w)' = "update" => seen'[w] = "available"
      /\ \A v \in Worker : v # w => Stage(v)' = Stage(v) /\ seen'[v] = seen[v]
  BY DEF Recheck, At, Goto, TypeOK, Shape, db, Stage
<1>2. \A v \in Worker : Stage(v)' \in Holding => v # w
  BY <1>1 DEF Holding
<1>3. op[w] = "match"
  BY <1>1 DEF Shape
<1>4. RowsHeldOnce'
  BY <1>1, <1>2 DEF Store, RowsHeldOnce, FromStatuses
<1>5. CloserHasDriver'
  BY <1>1, <1>3 DEF Store, CloserHasDriver, Closing
<1>6. MatcherOwnsEntry'
  BY <1>1 DEF Store, MatcherOwnsEntry, EntryExists, Stages, Entered
<1>7. DriverFromMatch' /\ OneActiveRidePerDriver' /\ BusyIffActive' /\ NobodyOffline'
  BY <1>1, TablesFrame DEF db
<1> QED
  BY <1>4, <1>5, <1>6, <1>7 DEF Store

\* Taking the row lock of a ride whose committed row qualifies, for a client
\* that waits for it or for one that is gone.
LEMMA StoreTransition ==
  ASSUME TypeOK, Shape, Store, NEW w \in Worker, TransitionRide(w) \/ Adrift(w),
         Stage(w) = "update"
  PROVE  Store'
<1>1. /\ UNCHANGED <<rideStatus, rideDriver, driverStatus, op, job, seen>> /\ RowTaken(w)
      /\ \A v \in Worker : v # w => Stage(v)' = Stage(v) /\ cand'[v] = cand[v]
      /\ op[w] = "match" => Stage(w)' = "index" /\ cand'[w] = cand[w]
      /\ op[w] # "match" => Stage(w)' = "free" /\ cand'[w] = rideDriver[job[w]]
  BY DEF TransitionRide, Adrift, At, Goto, TypeOK, Shape, Stage, db
<1> USE DEF TypeOK, Shape, Store, Holding, Entered, Stages, Closing
<1>3. RowsHeldOnce'
  BY <1>1 DEF RowsHeldOnce, RowTaken, RowLocked, HoldsRow, FromStatuses
<1>4. CloserHasDriver'
  BY <1>1 DEF CloserHasDriver
<1>5. MatcherOwnsEntry'
  BY <1>1 DEF MatcherOwnsEntry, EntryExists
<1>6. DriverFromMatch' /\ OneActiveRidePerDriver' /\ BusyIffActive' /\ NobodyOffline'
  BY <1>1, TablesFrame DEF db
<1> QED
  BY <1>3, <1>4, <1>5, <1>6

\* Entering the index: no other entry, committed or in flight.
LEMMA StoreInsert ==
  ASSUME TypeOK, Shape, Store, NEW w \in Worker, IndexInsert(w) \/ Adrift(w),
         Stage(w) = "index"
  PROVE  Store'
<1>1. /\ UNCHANGED <<rideStatus, rideDriver, driverStatus, op, job, cand, seen>>
      /\ EntryAdmitted(w) /\ op[w] = "match"
      /\ \A v \in Worker : v # w => Stage(v)' = Stage(v)
      /\ Stage(w)' \in {"entry", "commit"}
  BY DEF IndexInsert, Adrift, At, Goto, TypeOK, Shape, Stage, db
<1> USE DEF TypeOK, Shape, Store, Holding, Entered, Stages, Closing
<1>3. RowsHeldOnce'
  BY <1>1 DEF RowsHeldOnce, FromStatuses
<1>4. CloserHasDriver'
  BY <1>1 DEF CloserHasDriver
<1>5. MatcherOwnsEntry'
  BY <1>1 DEF MatcherOwnsEntry, EntryExists, EntryAdmitted, EntryInDoubt
<1>6. DriverFromMatch' /\ OneActiveRidePerDriver' /\ BusyIffActive' /\ NobodyOffline'
  BY <1>1, TablesFrame DEF db
<1> QED
  BY <1>3, <1>4, <1>5, <1>6

\* A closing transaction reads its driver, who is busy with this very ride.
LEMMA StoreRead ==
  ASSUME TypeOK, Shape, Store, NEW w \in Worker, ReadDriver(w)
  PROVE  Store'
<1>1. /\ \A v \in Worker : Stage(v)' = IF v = w THEN "commit" ELSE Stage(v)
      /\ Stage(w) = "free" /\ op[w] \in Closing /\ job[w] \in Ride
  BY DEF ReadDriver, At, Goto, TypeOK, Shape, Stage
<1> USE DEF TypeOK, Store, ReadDriver, Holding, Entered, Stages, Closing, db
<1>2. op[w] # "match" /\ job[w] \in Ride /\ rideStatus[job[w]] \in ActiveStatuses
  BY <1>1 DEF RowsHeldOnce, FromStatuses, CompletableStatuses, ActiveStatuses
<1>3. cand[w] # NoDriver => driverStatus[cand[w]] = "busy"
  BY <1>1, <1>2 DEF CloserHasDriver, BusyIffActive, EntryExists
<1>4. seen'[w] = "busy" <=> cand[w] # NoDriver
  BY <1>3
<1>5. \A v \in Worker : v # w => seen'[v] = seen[v]
  OBVIOUS
<1>6. RowsHeldOnce'
  BY <1>1 DEF RowsHeldOnce, FromStatuses
<1>7. CloserHasDriver'
  BY <1>1, <1>4, <1>5 DEF CloserHasDriver
<1>8. MatcherOwnsEntry'
  BY <1>1, <1>2, <1>5 DEF MatcherOwnsEntry, EntryExists
<1>9. DriverFromMatch' /\ OneActiveRidePerDriver' /\ BusyIffActive' /\ NobodyOffline'
  BY TablesFrame
<1> QED
  BY <1>6, <1>7, <1>8, <1>9

\* What a commit does to the tables is one step of RideDispatch: the driver a
\* matcher takes is free at that moment, however long ago it was re-checked,
\* and a close frees the driver of its own ride.
LEMMA CommitIsDispatch ==
  ASSUME TypeOK, Shape, Store, NEW w \in Worker, Stage(w) = "commit", ApplyCommit(w)
  PROVE  /\ job[w] \in Ride
         /\ \/ op[w] = "match" /\ cand[w] \in Driver /\ Dispatch!Match(job[w], cand[w])
            \/ op[w] = "cancel" /\ Dispatch!Cancel(job[w])
            \/ op[w] = "complete" /\ Dispatch!Complete(job[w])
<1>1. /\ job[w] \in Ride /\ op[w] \in {"match", "cancel", "complete"}
      /\ op[w] = "match" => cand[w] \in Driver
  BY DEF TypeOK, Shape, Ops, Closing, Guarded, Stage
<1> USE DEF TypeOK, Store, Holding, Entered, Stages, Closing
<1>2. rideStatus[job[w]] \in FromStatuses(op[w])
  BY DEF RowsHeldOnce
<1>3. CASE op[w] = "match"
  <2>1. cand[w] \in Driver /\ seen[w] = "available"
    BY <1>1, <1>3 DEF MatcherOwnsEntry
  <2>2. driverStatus[cand[w]] = "available"
    BY <1>3, <2>1 DEF MatcherOwnsEntry, BusyIffActive, NobodyOffline, DriverStatus
  <2>3. driverStatus' = [driverStatus EXCEPT ![cand[w]] = "busy"]
    BY <1>3, <2>1 DEF ApplyCommit, DriverTarget
  <2>4. /\ rideStatus' = [rideStatus EXCEPT ![job[w]] = "matched"]
        /\ rideDriver' = [rideDriver EXCEPT ![job[w]] = cand[w]]
    BY <1>3 DEF ApplyCommit, ToStatus
  <2> QED
    BY <1>1, <1>2, <1>3, <2>1, <2>2, <2>3, <2>4 DEF FromStatuses, Dispatch!Match
<1>4. CASE op[w] \in Closing
  <2>1. cand[w] = rideDriver[job[w]] /\ (seen[w] = "busy" <=> cand[w] # NoDriver)
    BY <1>4 DEF CloserHasDriver
  <2>2. driverStatus' = [d \in Driver |->
            IF d = rideDriver[job[w]] THEN "available" ELSE driverStatus[d]]
    <3>1. \A d \in Driver : d = cand[w] => seen[w] # DriverTarget(op[w])
      BY <1>4, <2>1 DEF DriverTarget
    <3>2. DriverTarget(op[w]) = "available"
      BY <1>4 DEF DriverTarget
    <3>3. driverStatus' = [d \in Driver |->
            IF d = cand[w] /\ seen[w] # DriverTarget(op[w])
              THEN DriverTarget(op[w]) ELSE driverStatus[d]]
      BY DEF ApplyCommit
    <3> QED
      BY <2>1, <3>1, <3>2, <3>3
  <2>3. rideStatus' = [rideStatus EXCEPT ![job[w]] = ToStatus(op[w])]
    BY DEF ApplyCommit
  <2>4. rideDriver' = rideDriver
    BY <1>4 DEF ApplyCommit
  <2> QED
    BY <1>1, <1>2, <1>4, <2>2, <2>3, <2>4
       DEF FromStatuses, ToStatus, Dispatch!Cancel, Dispatch!Complete, Dispatch!Close,
           ActiveStatuses, CompletableStatuses,
           Dispatch!ActiveStatuses, Dispatch!CompletableStatuses
<1> QED
  BY <1>1, <1>3, <1>4

\* A commit, after which the worker's transaction is over, keeps the store.
LEMMA StoreCommit ==
  ASSUME TypeOK, Shape, Store, NEW w \in Worker, Stage(w) = "commit", ApplyCommit(w),
         Stage(w)' \notin Stages,
         \A v \in Worker \ {w} :
            /\ Stage(v)' = Stage(v) /\ op'[v] = op[v] /\ job'[v] = job[v]
            /\ cand'[v] = cand[v] /\ seen'[v] = seen[v]
  PROVE  Store'
<1>0. \A v \in Worker : Stage(v) \in Stages => job[v] \in Ride /\ (op[v] = "match" => cand[v] \in Driver)
  BY InTransaction
<1> USE DEF TypeOK, Store, Stages, Holding, Entered, Closing, ActiveStatuses, CompletableStatuses
<1> DEFINE R == job[w]
           D == cand[w]
<1>1. /\ R \in Ride
      /\ \/ op[w] = "match" /\ D \in Driver /\ Dispatch!Match(R, D)
         \/ op[w] = "cancel" /\ Dispatch!Cancel(R)
         \/ op[w] = "complete" /\ Dispatch!Complete(R)
  BY CommitIsDispatch
<1>2. \A v \in Worker : v # w /\ Stage(v) \in Holding => job[v] # R /\ job[v] \in Ride
  BY <1>0 DEF RowsHeldOnce
<1>3. CASE op[w] = "match"
  <2>1. /\ \A r \in Ride : rideStatus'[r] = IF r = R THEN "matched" ELSE rideStatus[r]
        /\ \A r \in Ride : rideDriver'[r] = IF r = R THEN D ELSE rideDriver[r]
        /\ \A d \in Driver : driverStatus'[d] = IF d = D THEN "busy" ELSE driverStatus[d]
        /\ D \in Driver
    BY <1>1, <1>3 DEF Dispatch!Match
  <2>2. \A r \in Ride : rideStatus[r] \in ActiveStatuses => rideDriver[r] # D
    BY <1>3 DEF MatcherOwnsEntry, EntryExists
  <2>3. \A d \in Driver : EntryExists(d)' <=> d = D \/ EntryExists(d)
    <3>1. rideStatus[R] = "requested" /\ rideDriver[R] = NoDriver
      BY <1>1, <1>3 DEF Dispatch!Match, DriverFromMatch
    <3> QED
      BY <1>1, <2>1, <3>1 DEF EntryExists
  <2>4. DriverFromMatch'
    BY <2>1 DEF DriverFromMatch
  <2>5. RowsHeldOnce'
    BY <1>2, <2>1 DEF RowsHeldOnce, FromStatuses
  <2>6. CloserHasDriver'
    BY <1>2, <2>1 DEF CloserHasDriver
  <2>7. MatcherOwnsEntry'
    BY <1>0, <1>3, <2>3 DEF MatcherOwnsEntry
  <2>8. OneActiveRidePerDriver'
    BY <2>1, <2>2 DEF OneActiveRidePerDriver
  <2>9. BusyIffActive' /\ NobodyOffline'
    BY <2>1, <2>3 DEF BusyIffActive, NobodyOffline
  <2> QED
    BY <2>4, <2>5, <2>6, <2>7, <2>8, <2>9
<1>4. CASE op[w] # "match"
  <2>1. /\ \A r \in Ride : rideStatus'[r] = IF r = R THEN ToStatus(op[w]) ELSE rideStatus[r]
        /\ ToStatus(op[w]) \in TerminalStatuses
        /\ rideDriver' = rideDriver
        /\ \A d \in Driver : driverStatus'[d] =
              IF d = rideDriver[R] THEN "available" ELSE driverStatus[d]
        /\ rideStatus[R] \in ActiveStatuses
    BY <1>1, <1>4 DEF Dispatch!Cancel, Dispatch!Complete, Dispatch!Close, ToStatus,
                      TerminalStatuses, Dispatch!ActiveStatuses, Dispatch!CompletableStatuses
  <2>2. \A d \in Driver : EntryExists(d)' <=> d # rideDriver[R] /\ EntryExists(d)
    <3>1. ASSUME NEW d \in Driver, NEW r \in Ride,
                 rideDriver[r] = d, rideStatus[r] \in ActiveStatuses
          PROVE  r = R <=> d = rideDriver[R]
      BY <1>1, <2>1, <3>1 DEF OneActiveRidePerDriver
    <3>2. \A r \in Ride : rideStatus'[r] \in ActiveStatuses <=>
                              r # R /\ rideStatus[r] \in ActiveStatuses
      BY <2>1 DEF TerminalStatuses
    <3> QED
      BY <2>1, <3>1, <3>2 DEF EntryExists
  <2>3. DriverFromMatch'
    BY <2>1 DEF DriverFromMatch, TerminalStatuses
  <2>4. RowsHeldOnce'
    BY <1>2, <2>1 DEF RowsHeldOnce, FromStatuses
  <2>5. CloserHasDriver'
    BY <1>2, <2>1 DEF CloserHasDriver
  <2>6. MatcherOwnsEntry'
    BY <1>0, <2>2 DEF MatcherOwnsEntry
  <2>7. OneActiveRidePerDriver'
    BY <2>1 DEF OneActiveRidePerDriver, TerminalStatuses
  <2>8. BusyIffActive' /\ NobodyOffline'
    BY <2>1, <2>2 DEF BusyIffActive, NobodyOffline
  <2> QED
    BY <2>3, <2>4, <2>5, <2>6, <2>7, <2>8
<1> QED
  BY <1>3, <1>4

\* The worker steps that neither touch the tables nor move a transaction on.
Idling(w) ==
    \/ \E r \in Ride : ReplayRide(w, r)
    \/ LoadRide(w)
    \/ \E d \in Driver : ScanDriver(w, d) \/ AcquireLock(w, d) \/ LockContended(w, d)
    \/ EndSearch(w)
    \/ NoDriverAvailable(w)
    \/ TransitionLost(w)
    \/ IndexConflict(w)
    \/ RefreshRide(w)
    \/ ReleaseLock(w)
    \/ Respond(w)
    \/ Fault(w)

\* They are quiet.
LEMMA IdlingIsQuiet ==
  ASSUME TypeOK, Shape, NEW w \in Worker, Idling(w)
  PROVE  Quiet
<1> USE DEF Quiet, db, TypeOK, Shape, Stage, Stages, At, Goto, Unwind, Guarded, Outcome, TakeCandidate
<1>1. ASSUME NEW r \in Ride, ReplayRide(w, r)
      PROVE  Quiet
  BY <1>1 DEF ReplayRide, Begin
<1>2. CASE LoadRide(w)
  BY <1>2 DEF LoadRide
<1>3. ASSUME NEW d \in Driver, ScanDriver(w, d) \/ AcquireLock(w, d) \/ LockContended(w, d)
      PROVE  Quiet
  BY <1>3 DEF ScanDriver, AcquireLock, LockContended
<1>4. CASE EndSearch(w) \/ NoDriverAvailable(w)
  BY <1>4 DEF EndSearch, NoDriverAvailable
<1>5. CASE TransitionLost(w) \/ IndexConflict(w) \/ StatementFails(w) \/ RefreshRide(w)
  BY <1>5 DEF TransitionLost, IndexConflict, StatementFails, RefreshRide
<1>6. CASE ReleaseLock(w) \/ ReleaseFails(w)
  BY <1>6 DEF ReleaseLock, ReleaseFails
<1>7. CASE Respond(w) \/ Crash(w) \/ ConnectionLost(w)
  BY <1>7 DEF Respond, Crash, ConnectionLost
<1>8. ASSUME NEW d \in Driver, AcquireFails(w, d)
      PROVE  Quiet
  BY <1>8 DEF AcquireFails
<1>9. CASE EmitFails(w)
  BY <1>9 DEF EmitFails
<1> QED
  BY <1>1, <1>2, <1>3, <1>4, <1>5, <1>6, <1>7, <1>8, <1>9 DEF Idling, Fault

\* A step is quiet, or one of those that touch the tables or a transaction.
LEMMA StoreStep ==
  ASSUME TypeOK, Shape, Store, [Next]_vars
  PROVE  Store'
<1>1. ASSUME NEW w \in Worker, Idling(w)
      PROVE  Store'
  BY <1>1, IdlingIsQuiet, QuietStep
<1>2. ASSUME NEW w \in Worker, NEW r \in Ride, CreateRide(w, r)
      PROVE  Store'
  BY <1>2, StoreCreate
<1>3. ASSUME NEW w \in Worker, NEW r \in Ride, NEW o \in Closing, CloseRide(w, r, o)
      PROVE  Store'
  BY <1>3, StoreOpen
<1>4. ASSUME NEW w \in Worker, Recheck(w)
      PROVE  Store'
  BY <1>4, StoreRecheck
<1>5. ASSUME NEW w \in Worker, TransitionRide(w) \/ IndexInsert(w) \/ Adrift(w)
      PROVE  Store'
  <2>1. /\ TransitionRide(w) => Stage(w) = "update"
        /\ IndexInsert(w) => Stage(w) = "index"
        /\ Adrift(w) => Stage(w) \in {"update", "index"}
    BY DEF TransitionRide, IndexInsert, Adrift, At, Stage, Shape
  <2> QED
    BY <1>5, <2>1, StoreTransition, StoreInsert
<1>7. ASSUME NEW w \in Worker, ReadDriver(w)
      PROVE  Store'
  BY <1>7, StoreRead
<1>8. ASSUME NEW w \in Worker, Commit(w)
      PROVE  Store'
  <2>1. /\ Stage(w) = "commit" /\ ApplyCommit(w) /\ Stage(w)' \notin Stages
        /\ \A v \in Worker \ {w} :
             /\ Stage(v)' = Stage(v) /\ op'[v] = op[v] /\ job'[v] = job[v]
             /\ cand'[v] = cand[v] /\ seen'[v] = seen[v]
    BY <1>8 DEF Commit, At, Goto, TypeOK, Shape, Stage, Stages
  <2> QED
    BY <2>1, StoreCommit
<1>9. ASSUME NEW w \in Worker, Reap(w)
      PROVE  Store'
  <2>1. CASE UNCHANGED db
    BY <1>9, <2>1, QuietStep DEF Quiet, Reap, TypeOK, Shape, Stage, Stages
  <2>2. CASE lost[w] = "commit" /\ ApplyCommit(w)
    <3>1. /\ Stage(w) = "commit" /\ Stage(w)' \notin Stages
          /\ \A v \in Worker \ {w} :
               /\ Stage(v)' = Stage(v) /\ op'[v] = op[v] /\ job'[v] = job[v]
               /\ cand'[v] = cand[v] /\ seen'[v] = seen[v]
      BY <1>9, <2>2 DEF Reap, TypeOK, Shape, Stage, Stages
    <3> QED
      BY <2>2, <3>1, StoreCommit
  <2> QED
    BY <1>9, <2>1, <2>2 DEF Reap
<1>11. ASSUME NEW d \in Driver, Expire(d)
       PROVE  Store'
  BY <1>11, QuietStep DEF Quiet, Expire, Stage
<1>12. CASE UNCHANGED vars
  BY <1>12, QuietStep DEF Quiet, vars, db, Stage
<1> QED
  BY <1>1, <1>2, <1>3, <1>4, <1>5, <1>7, <1>8, <1>9, <1>11, <1>12
     DEF Next, Arrive, Proceed, Idling, Closing

\* IInv is inductive.
LEMMA Inductive == Spec => []IInv
<1>1. Init => IInv
  BY DEF Init, IInv, TypeOK, Shape, Steps, Stages, Stage, Ops, Results, RideStatus, DriverStatus,
     Guarded, Closing, Holding, Entered, NobodyOffline, Store, DriverFromMatch, RowsHeldOnce, CloserHasDriver, MatcherOwnsEntry,
     EntryExists, OneActiveRidePerDriver, BusyIffActive, ActiveStatuses, CompletableStatuses
<1>2. IInv /\ [Next]_vars => IInv'
  BY ShapeStep, StoreStep DEF IInv
<1> QED
  BY <1>1, <1>2, PTL DEF Spec

-----------------------------------------------------------------------------
\* What follows from the inductive invariant.

\* However locks expire, workers die and calls fail, no driver is ever on two
\* active rides: match_ride with the partial unique index never double-books.
THEOREM NoDoubleBooking == Spec => []OneActiveRidePerDriver
<1>1. IInv => OneActiveRidePerDriver
  BY DEF IInv, Store
<1> QED
  BY <1>1, Inductive, PTL

\* The drivers table is busy exactly for the drivers of active rides, although
\* driver.status is assigned blindly in match_ride, cancel_ride, complete_ride.
THEOREM TablesAgree == Spec => []BusyIffActive
<1>1. IInv => BusyIffActive
  BY DEF IInv, Store
<1> QED
  BY <1>1, Inductive, PTL

\* Two transactions that are about to commit never write the same driver row.
THEOREM SingleDriverWriter == Spec => []OneWriterPerDriver
<1>1. IInv => OneWriterPerDriver
  <2> SUFFICES ASSUME IInv, NEW v \in Worker, NEW w \in Worker,
                      Stage(v) = "commit", Stage(w) = "commit", cand[v] = cand[w], cand[v] # NoDriver
               PROVE  v = w
    BY DEF OneWriterPerDriver
  <2>1. /\ op[v] = "match" \/ op[v] \in Closing
        /\ op[w] = "match" \/ op[w] \in Closing
        /\ \A u \in Worker : Stage(u) = "commit" => job[u] \in Ride
    BY DEF IInv, TypeOK, Shape, Stage, Ops, Closing
  <2> USE DEF IInv, Store, Holding, Entered
  <2>2. ASSUME NEW u \in Worker, Stage(u) = "commit", op[u] \in Closing
        PROVE  /\ job[u] \in Ride /\ rideStatus[job[u]] \in ActiveStatuses
               /\ rideDriver[job[u]] = cand[u]
    BY <2>1, <2>2 DEF RowsHeldOnce, CloserHasDriver, FromStatuses, ActiveStatuses,
       CompletableStatuses, Closing
  <2>3. CASE op[v] = "match" /\ op[w] = "match"
    BY <2>3 DEF MatcherOwnsEntry
  <2>4. CASE op[v] = "match" /\ op[w] \in Closing
    BY <2>2, <2>4 DEF MatcherOwnsEntry, EntryExists
  <2>5. CASE op[v] \in Closing /\ op[w] = "match"
    BY <2>2, <2>5 DEF MatcherOwnsEntry, EntryExists
  <2>6. CASE op[v] \in Closing /\ op[w] \in Closing
    <3>1. job[v] = job[w]
      BY <2>2, <2>6 DEF OneActiveRidePerDriver
    <3> QED
      BY <3>1 DEF RowsHeldOnce
  <2> QED
    BY <2>1, <2>3, <2>4, <2>5, <2>6
<1> QED
  BY <1>1, Inductive, PTL

\* Every step of the workers and of the faults is, on the committed tables, an
\* atomic step of RideDispatch or no step at all.
LEMMA DispatchStep ==
  ASSUME IInv, [Next]_vars
  PROVE  Dispatch!Next \/ UNCHANGED db
<1>1. ASSUME NEW w \in Worker, Stage(w) = "commit", ApplyCommit(w)
      PROVE  Dispatch!Next
  BY <1>1, CommitIsDispatch DEF IInv, Dispatch!Next
<1>2. ASSUME NEW w \in Worker, NEW r \in Ride, CreateRide(w, r)
      PROVE  Dispatch!Next
  BY <1>2 DEF CreateRide, Dispatch!Next, Dispatch!Request
<1>3. ASSUME NEW w \in Worker, Idling(w)
      PROVE  UNCHANGED db
  BY <1>3, IdlingIsQuiet DEF IInv, Quiet
<1>4. ASSUME NEW w \in Worker, NEW r \in Ride, NEW o \in Closing, CloseRide(w, r, o)
      PROVE  UNCHANGED db
  BY <1>4 DEF CloseRide
<1>5. ASSUME NEW w \in Worker,
             Recheck(w) \/ TransitionRide(w) \/ IndexInsert(w) \/ ReadDriver(w) \/ Adrift(w)
      PROVE  UNCHANGED db
  BY <1>5 DEF Recheck, TransitionRide, IndexInsert, ReadDriver, Adrift
<1>6. ASSUME NEW w \in Worker, Commit(w) \/ Reap(w)
      PROVE  Dispatch!Next \/ UNCHANGED db
  <2>1. Commit(w) => Stage(w) = "commit" /\ ApplyCommit(w)
    BY DEF Commit, At, Stage, IInv, Shape
  <2>2. Reap(w) => UNCHANGED db \/ (Stage(w) = "commit" /\ ApplyCommit(w))
    BY DEF Reap, Stage
  <2> QED
    BY <1>1, <1>6, <2>1, <2>2
<1>7. ASSUME NEW d \in Driver, Expire(d)
      PROVE  UNCHANGED db
  BY <1>7 DEF Expire
<1>8. CASE UNCHANGED vars
  BY <1>8 DEF vars, db
<1> QED
  BY <1>2, <1>3, <1>4, <1>5, <1>6, <1>7, <1>8
     DEF Next, Arrive, Proceed, Fault, Idling, Closing

\* The workers, their locks and transactions implement RideDispatch.
THEOREM DispatchRefinement == Spec => ImplementsDispatch
<1>1. Init => Dispatch!Init
  BY DEF Init, Dispatch!Init
<1>2. IInv /\ [Next]_vars => [Dispatch!Next]_(Dispatch!vars)
  BY DispatchStep DEF Dispatch!vars, db
<1> QED
  BY <1>1, <1>2, Inductive, PTL DEF Spec, ImplementsDispatch, Dispatch!Spec

-----------------------------------------------------------------------------
\* What responses say.

\* The operation of w took effect and what it made of its ride stands.
TookEffect(w) ==
    IF op[w] = "match"
      THEN rideDriver[job[w]] = cand[w] /\ rideStatus[job[w]] \notin {"none", "requested"}
      ELSE rideStatus[job[w]] = ToStatus(op[w]) /\ op[w] \in Closing

\* The ride of w exists, except under a 404; a worker past its commit, or with
\* a successful outcome, has taken effect; a 409 was given to a match or cancel
\* of a ride that no longer qualifies and never will.
Answer(w) ==
    /\ pc[w] \notin {"idle", "respond"} => rideStatus[job[w]] # "none"
    /\ pc[w] = "refresh" \/ result[w] \in {"matched", "closed"} => TookEffect(w)
    /\ result[w] = "matched" => op[w] = "match"
    /\ result[w] = "closed" => op[w] # "match"
    /\ result[w] = "invalid_state" /\ op[w] \in {"match", "cancel"} =>
         rideStatus[job[w]] \notin FromStatuses(op[w]) \cup {"none"}

Answers == \A w \in Worker : Answer(w)

\* Rides only move forward: one that is past REQUESTED stays past it and keeps
\* its driver, a closed one keeps its status.
LEMMA RidesMoveForward ==
  ASSUME IInv, [Next]_vars, NEW r \in Ride
  PROVE  /\ rideStatus'[r] = "none" => rideStatus[r] = "none"
         /\ rideStatus[r] \notin {"none", "requested"} =>
              rideStatus'[r] \notin {"none", "requested"} /\ rideDriver'[r] = rideDriver[r]
         /\ rideStatus[r] \in TerminalStatuses => rideStatus'[r] = rideStatus[r]
<1> USE DEF IInv, TypeOK, RideStatus, TerminalStatuses
<1>1. CASE UNCHANGED db
  BY <1>1 DEF db
<1>2. ASSUME NEW s \in Ride, Dispatch!Request(s)
      PROVE  rideDriver' = rideDriver /\ rideStatus[s] = "none"
             /\ rideStatus' = [rideStatus EXCEPT ![s] = "requested"]
  BY <1>2 DEF Dispatch!Request
<1>3. ASSUME NEW s \in Ride, NEW d \in Driver, Dispatch!Match(s, d)
      PROVE  /\ rideStatus[s] = "requested"
             /\ rideStatus' = [rideStatus EXCEPT ![s] = "matched"]
             /\ rideDriver' = [rideDriver EXCEPT ![s] = d]
  BY <1>3 DEF Dispatch!Match
<1>4. ASSUME NEW s \in Ride, Dispatch!Cancel(s) \/ Dispatch!Complete(s)
      PROVE  /\ rideDriver' = rideDriver
             /\ rideStatus[s] \in {"requested", "matched", "in_progress"}
             /\ \E t \in TerminalStatuses : rideStatus' = [rideStatus EXCEPT ![s] = t]
  BY <1>4 DEF Dispatch!Cancel, Dispatch!Complete, Dispatch!Close,
     Dispatch!ActiveStatuses, Dispatch!CompletableStatuses
<1>5. CASE Dispatch!Next
  BY <1>2, <1>3, <1>4, <1>5 DEF Dispatch!Next
<1> QED
  BY <1>1, <1>5, DispatchStep

\* An answer stays true while its worker rests.
LEMMA AnswerStands ==
  ASSUME IInv, [Next]_vars, NEW v \in Worker, Answer(v),
         pc'[v] = pc[v], op'[v] = op[v], job'[v] = job[v],
         op[v] = "match" => cand'[v] = cand[v],
         result'[v] = result[v] \/ result'[v] = "none"
  PROVE  Answer(v)'
<1>1. CASE job[v] \in Ride
  <2>1. /\ rideStatus'[job[v]] = "none" => rideStatus[job[v]] = "none"
        /\ rideStatus[job[v]] \notin {"none", "requested"} =>
             rideStatus'[job[v]] \notin {"none", "requested"} /\ rideDriver'[job[v]] = rideDriver[job[v]]
        /\ rideStatus[job[v]] \in TerminalStatuses => rideStatus'[job[v]] = rideStatus[job[v]]
    BY <1>1, RidesMoveForward
  <2>2. TookEffect(v) => TookEffect(v)'
    BY <2>1 DEF TookEffect, ToStatus, TerminalStatuses, Closing
  <2>3. op[v] \in {"match", "cancel"} /\ rideStatus[job[v]] \notin FromStatuses(op[v]) \cup {"none"} =>
          rideStatus'[job[v]] \notin FromStatuses(op[v]) \cup {"none"}
    BY <1>1, <2>1 DEF FromStatuses, ActiveStatuses, TerminalStatuses, IInv, TypeOK, RideStatus
  <2> QED
    BY <2>1, <2>2, <2>3 DEF Answer
<1>2. CASE job[v] \notin Ride
  BY <1>2 DEF Answer, IInv, Shape
<1> QED
  BY <1>1, <1>2

\* A commit takes effect: it is the moment the ride becomes what is answered.
LEMMA CommitTakesEffect ==
  ASSUME IInv, NEW w \in Worker, pc[w] = "commit", ApplyCommit(w),
         UNCHANGED <<op, job, cand>>
  PROVE  TookEffect(w)' /\ rideStatus'[job[w]] # "none"
BY DEF IInv, TypeOK, Shape, Ops, Closing, ApplyCommit, TookEffect, ToStatus

\* Only w moves in a step of w.
Only(w) ==
    \A v \in Worker \ {w} :
        /\ pc'[v] = pc[v] /\ op'[v] = op[v] /\ job'[v] = job[v]
        /\ cand'[v] = cand[v] /\ result'[v] = result[v]

\* Every step keeps every answer true.
LEMMA AnswersStep ==
  ASSUME IInv, Answers, [Next]_vars
  PROVE  Answers'
<1> USE DEF IInv, TypeOK, At, Goto, Outcome, Unwind, Begin, Only
<1>0. IInv'
  BY ShapeStep, StoreStep
<1>a. ASSUME NEW w \in Worker, Only(w), Answer(w)'
      PROVE  Answers'
  BY <1>a, AnswerStands DEF Answers
<1>b. ASSUME NEW w \in Worker, Only(w), result'[w] = "none", pc'[w] # "refresh",
             pc'[w] \in {"idle", "respond"} \/ rideStatus'[job'[w]] # "none"
      PROVE  Answers'
  BY <1>a, <1>b DEF Answer
<1>c. ASSUME NEW w \in Worker, Only(w), pc[w] \notin {"idle", "respond"}, UNCHANGED job,
             pc'[w] # "refresh", result'[w] \notin {"matched", "closed", "invalid_state"}
      PROVE  Answers'
  <2>1. job[w] \in Ride
    BY <1>c DEF Shape
  <2>2. rideStatus'[job[w]] # "none"
    BY <1>c, <2>1, RidesMoveForward DEF Answers, Answer
  <2> QED
    BY <1>a, <1>c, <2>2 DEF Answer
<1>1. ASSUME NEW w \in Worker, NEW r \in Ride, CreateRide(w, r) \/ ReplayRide(w, r)
      PROVE  Answers'
  BY <1>1, <1>b DEF CreateRide, ReplayRide, db, Shape
<1>2. ASSUME NEW w \in Worker, NEW r \in Ride, NEW o \in Closing, CloseRide(w, r, o)
      PROVE  Answers'
  <2>1. CASE rideStatus[r] = "none"
    BY <1>2, <2>1, <1>a DEF CloseRide, Answer, TookEffect
  <2>2. CASE rideStatus[r] # "none"
    BY <1>2, <2>2, <1>b DEF CloseRide, db, Shape
  <2> QED
    BY <2>1, <2>2
<1>3. ASSUME NEW w \in Worker,
             LoadRide(w) \/ EndSearch(w) \/ NoDriverAvailable(w) \/ Recheck(w) \/ IndexConflict(w)
      PROVE  Answers'
  BY <1>3, <1>c DEF LoadRide, EndSearch, NoDriverAvailable, Recheck, IndexConflict, Shape
<1>4. ASSUME NEW w \in Worker, NEW d \in Driver,
             ScanDriver(w, d) \/ AcquireLock(w, d) \/ LockContended(w, d) \/ AcquireFails(w, d)
      PROVE  Answers'
  BY <1>4, <1>c DEF ScanDriver, AcquireLock, LockContended, AcquireFails, TakeCandidate, Shape
<1>5. ASSUME NEW w \in Worker, TransitionRide(w) \/ IndexInsert(w) \/ ReadDriver(w)
      PROVE  Answers'
  BY <1>5, <1>c DEF TransitionRide, IndexInsert, ReadDriver, Shape
<1>6. ASSUME NEW w \in Worker, TransitionLost(w)
      PROVE  Answers'
  <2>1. rideStatus[job[w]] \notin FromStatuses(op[w]) \cup {"none"} /\ UNCHANGED <<db, op, job>>
    BY <1>6 DEF TransitionLost, Answers, Answer
  <2>2. result'[w] = "invalid_state" /\ pc'[w] \in {"release", "respond"} /\ Only(w)
    BY <1>6 DEF TransitionLost
  <2>3. Answer(w)'
    BY <2>1, <2>2 DEF Answer, db, FromStatuses
  <2> QED
    BY <2>2, <2>3, <1>a
<1>7. ASSUME NEW w \in Worker, Commit(w)
      PROVE  Answers'
  <2>1. TookEffect(w)' /\ rideStatus'[job[w]] # "none"
    BY <1>7, CommitTakesEffect DEF Commit
  <2>2. Only(w) /\ result'[w] = "none" /\ UNCHANGED job
    BY <1>7 DEF Commit, Shape
  <2> QED
    BY <1>a, <2>1, <2>2 DEF Answer
<1>8. ASSUME NEW w \in Worker, RefreshRide(w)
      PROVE  Answers'
  <2>1. TookEffect(w) /\ rideStatus[job[w]] # "none"
    BY <1>8 DEF RefreshRide, Answers, Answer
  <2>2. /\ UNCHANGED <<db, op, job, cand>>
        /\ result'[w] = IF op[w] = "match" THEN "matched" ELSE "closed"
        /\ Only(w)
    BY <1>8 DEF RefreshRide
  <2>3. TookEffect(w)'
    BY <2>1, <2>2 DEF TookEffect, ToStatus, db
  <2>4. Answer(w)'
    BY <2>1, <2>2, <2>3 DEF Answer, db
  <2> QED
    BY <1>a, <2>2, <2>4
<1>9. ASSUME NEW w \in Worker, ReleaseLock(w)
      PROVE  Answers'
  <2>1. UNCHANGED <<db, op, job, cand, result>> /\ pc[w] = "release" /\ pc'[w] \in {"pick", "respond"}
    BY <1>9 DEF ReleaseLock
  <2>2. Only(w)
    BY <1>9 DEF ReleaseLock
  <2>3. TookEffect(w) <=> TookEffect(w)'
    BY <2>1 DEF TookEffect, ToStatus, db
  <2>4. Answer(w)'
    BY <2>1, <2>3 DEF Answers, Answer, FromStatuses, db
  <2> QED
    BY <1>a, <2>2, <2>4
<1>10. ASSUME NEW w \in Worker, Respond(w) \/ Crash(w)
       PROVE  Answers'
  BY <1>10, <1>b DEF Respond, Crash
<1>11. ASSUME NEW w \in Worker, Adrift(w)
       PROVE  Answers'
  <2>1. \A v \in Worker : op[v] = "match" => cand'[v] = cand[v]
    BY <1>11 DEF Adrift
  <2>2. UNCHANGED <<pc, op, job, result>>
    BY <1>11 DEF Adrift
  <2> QED
    BY <2>1, <2>2, AnswerStands DEF Answers
<1>12. ASSUME NEW w \in Worker,
              ConnectionLost(w) \/ StatementFails(w) \/ EmitFails(w) \/ ReleaseFails(w)
       PROVE  Answers'
  BY <1>12, <1>c DEF ConnectionLost, StatementFails, EmitFails, ReleaseFails, TakeCandidate, Stages
<1>13. ASSUME UNCHANGED <<pc, op, job, cand, result>>
       PROVE  Answers'
  BY <1>13, AnswerStands DEF Answers
<1>16. ASSUME NEW w \in Worker, Reap(w)
       PROVE  Answers'
  BY <1>16, <1>13 DEF Reap
<1>14. ASSUME NEW d \in Driver, Expire(d)
       PROVE  Answers'
  BY <1>14, <1>13 DEF Expire
<1>15. CASE UNCHANGED vars
  BY <1>15, <1>13 DEF vars
<1> QED
  BY <1>1, <1>2, <1>3, <1>4, <1>5, <1>6, <1>7, <1>8, <1>9, <1>10, <1>11, <1>12, <1>14, <1>15,
     <1>16 DEF Next, Arrive, Proceed, Fault, Closing

\* rides.py: what a response tells the client is durable and stays so until it
\* is out: a match has its driver, a close its status, a 409 its reason.
THEOREM ResponsesAreTrue == Spec => []AnswersAreTrue
<1>1. Init => Answers
  BY DEF Init, Answers, Answer
<1>2. IInv /\ Answers => AnswersAreTrue
  <2> SUFFICES ASSUME IInv, NEW w \in Worker, Answer(w), result[w] # "none"
               PROVE  /\ result[w] = "matched" =>
                           /\ rideDriver[job[w]] = cand[w]
                           /\ rideStatus[job[w]] \in CompletableStatuses \cup TerminalStatuses
                      /\ result[w] = "closed" => rideStatus[job[w]] = ToStatus(op[w])
                      /\ result[w] = "invalid_state" /\ op[w] = "cancel" =>
                           rideStatus[job[w]] \in TerminalStatuses
                      /\ result[w] = "invalid_state" /\ op[w] = "match" =>
                           rideStatus[job[w]] # "requested"
    BY DEF Answers, AnswersAreTrue
  <2>1. job[w] \in Ride /\ rideStatus[job[w]] \in RideStatus
    BY DEF IInv, TypeOK, Shape
  <2> QED
    BY <2>1 DEF Answer, TookEffect, FromStatuses, RideStatus, ActiveStatuses,
       CompletableStatuses, TerminalStatuses
<1> QED
  BY <1>1, <1>2, Inductive, AnswersStep, PTL DEF Spec

-----------------------------------------------------------------------------
(***************************************************************************)
(* What the Redis lock contributes: until a holder outlives its lock or    *)
(* leaves its transaction behind, the unique index is never needed (points *)
(* 1 and 2 of matcher.py).                                                 *)
(***************************************************************************)

\* Inside the try block, a matcher's lock is its own.
LockHeld ==
    \A w \in Worker :
        op[w] = "match" /\ pc[w] \in Guarded \cup {"release"} => lock[cand[w]] = w

\* What the re-check saw is still true when the UPDATE runs.
RecheckHolds ==
    \A w \in Worker :
        op[w] = "match" /\ pc[w] \in {"update", "index"} => driverStatus[cand[w]] = "available"

\* No matcher's transaction is on its own.
NoneLeftBehind == \A w \in Worker : op[w] = "match" => lost[w] = "none"

LInv == NoneLeftBehind /\ LockHeld /\ RecheckHolds

\* A committing matcher makes busy only the driver it has locked, so no other
\* matcher's re-check is invalidated.
LEMMA CommitKeepsRecheck ==
  ASSUME IInv, LInv, NEW w \in Worker, Stage(w) = "commit", ApplyCommit(w),
         NEW v \in Worker, v # w, op[v] = "match", pc[v] \in {"update", "index"}
  PROVE  driverStatus'[cand[v]] = "available"
<1> USE DEF IInv, TypeOK, Shape, Guarded
<1>1. cand[v] \in Driver /\ driverStatus[cand[v]] = "available" /\ lock[cand[v]] = v
  BY DEF LInv, LockHeld, RecheckHolds
<1>2. op[w] = "match" => cand[w] # cand[v]
  BY <1>1 DEF LInv, NoneLeftBehind, LockHeld, Stage
<1> QED
  BY <1>1, <1>2 DEF ApplyCommit, DriverTarget

\* Every step preserves the lock invariant.
LEMMA LockStep ==
  ASSUME Watch, locks' = "intact", IInv, LInv, [Next]_vars
  PROVE  LInv'
<1> USE DEF IInv, TypeOK, Shape, LInv, NoneLeftBehind, LockHeld, RecheckHolds, Guarded, Closing, db,
            At, Goto, Outcome, Unwind
<1>1. ASSUME NEW w \in Worker, NEW r \in Ride, CreateRide(w, r) \/ ReplayRide(w, r)
      PROVE  LInv'
  BY <1>1 DEF CreateRide, ReplayRide, Begin
<1>2. ASSUME NEW w \in Worker, NEW r \in Ride, NEW o \in Closing, CloseRide(w, r, o)
      PROVE  LInv'
  BY <1>2 DEF CloseRide, Begin
<1>3. ASSUME NEW w \in Worker, LoadRide(w) \/ EndSearch(w) \/ NoDriverAvailable(w)
      PROVE  LInv'
  BY <1>3 DEF LoadRide, EndSearch, NoDriverAvailable
<1>4. ASSUME NEW w \in Worker, NEW d \in Driver, ScanDriver(w, d) \/ LockContended(w, d)
      PROVE  LInv'
  BY <1>4 DEF ScanDriver, LockContended, TakeCandidate
<1>5. ASSUME NEW w \in Worker, NEW d \in Driver, AcquireLock(w, d)
      PROVE  LInv'
  BY <1>5 DEF AcquireLock, TakeCandidate
<1>6. ASSUME NEW w \in Worker, NEW d \in Driver, AcquireFails(w, d)
      PROVE  LInv'
  BY <1>6 DEF AcquireFails, TakeCandidate
<1>7. ASSUME NEW w \in Worker, Recheck(w)
      PROVE  LInv'
  BY <1>7 DEF Recheck
<1>8. ASSUME NEW w \in Worker, TransitionRide(w)
      PROVE  LInv'
  BY <1>8 DEF TransitionRide
<1>9. ASSUME NEW w \in Worker,
             TransitionLost(w) \/ IndexConflict(w) \/ RefreshRide(w) \/ StatementFails(w)
      PROVE  LInv'
  BY <1>9 DEF TransitionLost, IndexConflict, RefreshRide, StatementFails
<1>10. ASSUME NEW w \in Worker, IndexInsert(w) \/ ReadDriver(w)
       PROVE  LInv'
  BY <1>10 DEF IndexInsert, ReadDriver
<1>11. ASSUME NEW w \in Worker, Commit(w)
       PROVE  LInv'
  BY <1>11, CommitKeepsRecheck DEF Commit, Stage
<1>12. ASSUME NEW w \in Worker, EmitFails(w)
       PROVE  LInv'
  BY <1>12 DEF EmitFails, TakeCandidate
<1>13. ASSUME NEW w \in Worker, ReleaseLock(w) \/ ReleaseFails(w)
       PROVE  LInv'
  BY <1>13 DEF ReleaseLock, ReleaseFails
<1>14. ASSUME NEW w \in Worker, Respond(w)
       PROVE  LInv'
  BY <1>14 DEF Respond
<1>15. ASSUME NEW d \in Driver, Expire(d)
       PROVE  LInv'
  BY <1>15 DEF Expire
<1>16. ASSUME NEW w \in Worker, Crash(w) \/ ConnectionLost(w)
       PROVE  LInv'
  <2>1. ~(op[w] = "match" /\ lost'[w] # "none")
    BY <1>16 DEF Crash, ConnectionLost, Disturb
  <2> QED
    BY <1>16, <2>1 DEF Crash, ConnectionLost, Stage, Stages
<1>18. ASSUME NEW w \in Worker, Adrift(w)
       PROVE  LInv'
  BY <1>18 DEF Adrift
<1>19. ASSUME NEW w \in Worker, Reap(w)
       PROVE  LInv'
  <2>1. CASE UNCHANGED db
    BY <1>19, <2>1 DEF Reap
  <2>2. CASE lost[w] = "commit" /\ ApplyCommit(w)
    BY <1>19, <2>2, CommitKeepsRecheck DEF Reap, Stage
  <2> QED
    BY <1>19, <2>1, <2>2 DEF Reap
<1>17. CASE UNCHANGED vars
  BY <1>17 DEF vars
<1> QED
  BY <1>1, <1>2, <1>3, <1>4, <1>5, <1>6, <1>7, <1>8, <1>9, <1>10, <1>11, <1>12, <1>13,
     <1>14, <1>15, <1>16, <1>17, <1>18, <1>19 DEF Next, Arrive, Proceed, Fault

\* What has been recorded stays recorded.
LEMMA RecordStays ==
  ASSUME TypeOK, [Next]_vars, locks' = "intact"
  PROVE  locks = "intact"
BY DEF TypeOK, Next, Arrive, Proceed, Fault, CreateRide, ReplayRide, CloseRide, LoadRide, EndSearch,
   NoDriverAvailable, ScanDriver, LockContended, AcquireLock, AcquireFails, Recheck, TransitionRide,
   TransitionLost, IndexConflict, RefreshRide, StatementFails, IndexInsert, ReadDriver, Commit,
   EmitFails, ReleaseLock, ReleaseFails, Respond, Expire, Crash, ConnectionLost, Disturb, Adrift,
   Reap, vars

\* Until a holder stalls past its lock's TTL, or dies or loses its connection
\* with a transaction open, a matcher reaching the partial unique index never
\* finds another ride or transaction there, even when statements and commits
\* are refused, Redis calls fail and emits raise.
THEOREM LockIsEnough == Spec => []LockSuffices
<1> DEFINE Inv == Watch /\ locks = "intact" => LInv
<1>1. Init => Inv
  BY DEF Init, LInv, NoneLeftBehind, LockHeld, RecheckHolds, Guarded
<1>2. IInv /\ Inv /\ [Next]_vars => Inv'
  BY LockStep, RecordStays DEF IInv
<1>3. IInv /\ Inv => LockSuffices
  <2> SUFFICES ASSUME IInv, LInv, NEW w \in Worker, pc[w] = "index"
               PROVE  ~EntryInDoubt(w, cand[w]) /\ ~EntryExists(cand[w])
    BY DEF LockSuffices, EntryAdmitted
  <2> USE DEF IInv, TypeOK, Shape, Guarded
  <2>1. /\ op[w] = "match" /\ cand[w] \in Driver /\ lock[cand[w]] = w
        /\ driverStatus[cand[w]] = "available"
    BY DEF LInv, LockHeld, RecheckHolds
  <2>2. ~EntryExists(cand[w])
    BY <2>1 DEF Store, BusyIffActive
  <2>3. \A v \in Worker : v # w /\ Stage(v) \in {"entry", "commit"} /\ op[v] = "match" =>
                            cand[v] # cand[w]
    BY <2>1 DEF LInv, NoneLeftBehind, LockHeld, Stage, Steps
  <2> QED
    BY <2>2, <2>3 DEF EntryInDoubt, EntryExists
<1> QED
  BY <1>1, <1>2, <1>3, Inductive, PTL DEF Spec

-----------------------------------------------------------------------------
\* Waiting in Postgres.

\* The statement w's transaction is at has to wait for v's open transaction:
\* for the row of its ride, or for the index entry of its driver.
WaitsFor(w, v) ==
    /\ v # w
    /\ \/ /\ Stage(w) = "update"
          /\ rideStatus[job[w]] \in FromStatuses(op[w])
          /\ HoldsRow(v, job[w])
       \/ /\ Stage(w) = "index"
          /\ \/ Stage(v) \in {"entry", "commit"} /\ op[v] = "match" /\ cand[v] = cand[w]
             \/ \E r \in Ride : /\ HoldsRow(v, r)
                                /\ rideDriver[r] = cand[w]
                                /\ rideStatus[r] \in ActiveStatuses

\* A transaction that others wait for may itself wait only at the index, and
\* then for one that waits for nothing in Postgres.
WaitsEnd ==
    \A u, v, w \in Worker :
        WaitsFor(u, v) /\ WaitsFor(v, w) =>
            /\ Stage(u) = "update" /\ Stage(v) = "index"
            /\ Stage(w) \in {"free", "entry", "commit"}
            /\ \A x \in Worker : ~WaitsFor(w, x)

\* WaitsFor is all the waiting there is, for live clients and for lost ones.
LEMMA WaitsAreAll ==
  ASSUME NEW w \in Worker
  PROVE  /\ Stage(w) = "update" /\ rideStatus[job[w]] \in FromStatuses(op[w]) =>
              (RowLocked(w, job[w]) <=> \E v \in Worker : WaitsFor(w, v))
         /\ Stage(w) = "index" =>
              (EntryInDoubt(w, cand[w]) <=> \E v \in Worker : WaitsFor(w, v))
BY DEF WaitsFor, RowLocked, EntryInDoubt

\* ride_repository.py, matcher.py, ride_service.py: row locks and the unique
\* index never deadlock, whatever stalls, fails or dies: chains of waiting
\* requests have at most three members, and the last waits for nobody.  (The
\* driver row, written last, is never contended: SingleDriverWriter.)
THEOREM NoDeadlock == Spec => []WaitsEnd
<1>1. ASSUME IInv
      PROVE  WaitsEnd
  <2>0. \A w \in Worker :
          Stage(w) = "index" => op[w] = "match" /\ cand[w] \in Driver /\ job[w] \in Ride
    BY <1>1 DEF IInv, Shape, Stage, Guarded
  <2> USE <1>1 DEF IInv, Store, Holding
  <2>1. ASSUME NEW v \in Worker, NEW w \in Worker, WaitsFor(v, w), Stage(v) = "index"
        PROVE  Stage(w) \in {"free", "entry", "commit"}
    <3>1. cand[v] \in Driver
      BY <2>0, <2>1
    <3>2. ASSUME Stage(w) = "index"
          PROVE  FALSE
      <4>1. job[w] \in Ride /\ rideStatus[job[w]] = "requested"
        BY <2>0, <3>2 DEF RowsHeldOnce, FromStatuses
      <4>2. rideDriver[job[w]] = NoDriver
        BY <4>1 DEF DriverFromMatch
      <4>3. rideDriver[job[w]] = cand[v]
        BY <2>1, <3>2 DEF WaitsFor, HoldsRow
      <4> QED
        BY <3>1, <4>2, <4>3
    <3> QED
      BY <2>1, <3>2 DEF WaitsFor, HoldsRow
  <2>2. ASSUME NEW v \in Worker, NEW w \in Worker, WaitsFor(v, w)
        PROVE  Stage(v) \in {"update", "index"} /\ Stage(w) \in {"index", "free", "entry", "commit"}
    BY <2>2 DEF WaitsFor, HoldsRow
  <2> SUFFICES ASSUME NEW u \in Worker, NEW v \in Worker, NEW w \in Worker,
                      WaitsFor(u, v), WaitsFor(v, w)
               PROVE  /\ Stage(u) = "update" /\ Stage(v) = "index"
                      /\ Stage(w) \in {"free", "entry", "commit"}
                      /\ \A x \in Worker : ~WaitsFor(w, x)
    BY DEF WaitsEnd
  <2>3. Stage(v) = "index"
    BY <2>2
  <2>4. Stage(u) = "update"
    BY <2>1, <2>2, <2>3
  <2>5. Stage(w) \in {"free", "entry", "commit"}
    BY <2>1, <2>3
  <2>6. \A x \in Worker : ~WaitsFor(w, x)
    BY <2>2, <2>5
  <2> QED
    BY <2>3, <2>4, <2>5, <2>6
<1> QED
  BY <1>1, Inductive, PTL

-----------------------------------------------------------------------------
\* The life of a driver lock.

\* Whoever's token a driver lock holds is inside the try block or on its way
\* to the finally clause, with that driver in hand.
LocksAreInUse ==
    \A d \in Driver, w \in Worker :
        lock[d] = w => /\ pc[w] \in Guarded \cup {"release"}
                       /\ op[w] = "match"
                       /\ cand[w] = d

\* A step that moves only w on, and takes no driver lock, keeps it, if w stays
\* in the try block with the same driver or held nothing.
LEMMA InUseFrame ==
  ASSUME TypeOK, LocksAreInUse, NEW w \in Worker,
         \A d \in Driver : lock'[d] # lock[d] => lock'[d] \notin Worker,
         \A v \in Worker \ {w} : pc'[v] = pc[v] /\ op'[v] = op[v] /\ cand'[v] = cand[v],
         \/ pc[w] \notin Guarded \cup {"release"}
         \/ op[w] # "match"
         \/ pc'[w] \in Guarded \cup {"release"} /\ op'[w] = op[w] /\ cand'[w] = cand[w]
         \/ \A d \in Driver : lock'[d] # w
  PROVE  LocksAreInUse'
<1> SUFFICES ASSUME NEW d \in Driver, NEW v \in Worker, lock'[d] = v
             PROVE  /\ pc'[v] \in Guarded \cup {"release"}
                    /\ op'[v] = "match" /\ cand'[v] = d
  BY DEF LocksAreInUse, Guarded
<1>1. lock[d] = v
  BY DEF TypeOK
<1>2. pc[v] \in Guarded \cup {"release"} /\ op[v] = "match" /\ cand[v] = d
  BY <1>1 DEF LocksAreInUse
<1> QED
  BY <1>2

\* The steps of a worker that leave the locks alone, keep it in its section or
\* are outside one.
LEMMA InUseStep ==
  ASSUME TypeOK, Shape, LocksAreInUse, [Next]_vars
  PROVE  LocksAreInUse'
<1> USE DEF TypeOK, Shape, At, Goto, Outcome, Unwind, Guarded, Begin, Closing
<1>1. ASSUME NEW w \in Worker, NEW r \in Ride,
             \/ CreateRide(w, r) \/ ReplayRide(w, r)
             \/ CloseRide(w, r, "cancel") \/ CloseRide(w, r, "complete")
      PROVE  LocksAreInUse'
  <2>1. /\ pc[w] = "idle" /\ lock' = lock
        /\ \A v \in Worker \ {w} : pc'[v] = pc[v] /\ op'[v] = op[v] /\ cand'[v] = cand[v]
    BY <1>1 DEF CreateRide, ReplayRide, CloseRide
  <2> QED
    BY <2>1, InUseFrame
<1>2. ASSUME NEW w \in Worker, NEW d \in Driver,
             ScanDriver(w, d) \/ LockContended(w, d) \/ AcquireFails(w, d)
      PROVE  LocksAreInUse'
  <2>1. /\ pc[w] \in {"search", "pick"}
       
        /\ \A v \in Worker \ {w} : pc'[v] = pc[v] /\ op'[v] = op[v] /\ cand'[v] = cand[v]
    BY <1>2 DEF ScanDriver, LockContended, AcquireFails, TakeCandidate
  <2>2. lock' = lock \/ lock' = [lock EXCEPT ![d] = Orphan]
    BY <1>2 DEF ScanDriver, LockContended, AcquireFails
  <2>3. \A e \in Driver : lock'[e] # lock[e] => lock'[e] \notin Worker
    BY <2>2, WorkerAssumption
  <2> QED
    BY <2>1, <2>3, InUseFrame
<1>3. ASSUME NEW w \in Worker, NEW d \in Driver, AcquireLock(w, d)
      PROVE  LocksAreInUse'
  <2>1. /\ pc[w] = "pick" /\ op' = op /\ op[w] = "match"
        /\ lock' = [lock EXCEPT ![d] = w] /\ pc' = [pc EXCEPT ![w] = "recheck"]
        /\ cand' = [cand EXCEPT ![w] = d]
    BY <1>3 DEF AcquireLock, TakeCandidate
  <2>2. \A e \in Driver : lock[e] # w
    BY <2>1 DEF LocksAreInUse
  <2> SUFFICES ASSUME NEW e \in Driver, NEW v \in Worker, lock'[e] = v
               PROVE  /\ pc'[v] \in Guarded \cup {"release"}
                      /\ op'[v] = "match" /\ cand'[v] = e
    BY DEF LocksAreInUse
  <2>3. CASE e = d
    BY <2>1, <2>3
  <2>4. CASE e # d
    BY <2>1, <2>2, <2>4 DEF LocksAreInUse
  <2> QED
    BY <2>3, <2>4
<1>4. ASSUME NEW w \in Worker,
             LoadRide(w) \/ EndSearch(w) \/ NoDriverAvailable(w) \/ Respond(w)
      PROVE  LocksAreInUse'
  <2>1. /\ pc[w] \in {"load", "search", "pick", "respond"} /\ lock' = lock
        /\ \A v \in Worker \ {w} : pc'[v] = pc[v] /\ op'[v] = op[v] /\ cand'[v] = cand[v]
    BY <1>4 DEF LoadRide, EndSearch, NoDriverAvailable, Respond
  <2> QED
    BY <2>1, InUseFrame
<1>5. ASSUME NEW w \in Worker,
             \/ Recheck(w) \/ TransitionLost(w) \/ IndexInsert(w) \/ IndexConflict(w)
             \/ Commit(w) \/ RefreshRide(w)
      PROVE  LocksAreInUse'
  <2>1. /\ lock' = lock /\ op' = op /\ cand' = cand
        /\ pc[w] \in Guarded
        /\ op[w] = "match" => pc'[w] \in Guarded \cup {"release"}
        /\ \A v \in Worker \ {w} : pc'[v] = pc[v]
    BY <1>5 DEF Recheck, TransitionLost, IndexInsert, IndexConflict, Commit, RefreshRide
  <2> QED
    BY <2>1, InUseFrame
<1>6. ASSUME NEW w \in Worker,
             TransitionRide(w) \/ ReadDriver(w) \/ StatementFails(w) \/ ConnectionLost(w)
      PROVE  LocksAreInUse'
  <2>1. /\ lock' = lock /\ op' = op
        /\ \A v \in Worker \ {w} : pc'[v] = pc[v] /\ cand'[v] = cand[v]
        /\ \/ pc[w] \notin Guarded \cup {"release"}
           \/ op[w] # "match"
           \/ pc'[w] \in Guarded \cup {"release"} /\ cand'[w] = cand[w]
    BY <1>6 DEF TransitionRide, ReadDriver, StatementFails, ConnectionLost, Stages
  <2> QED
    BY <2>1, InUseFrame
<1>7. ASSUME NEW w \in Worker, ReleaseLock(w) \/ ReleaseFails(w)
      PROVE  LocksAreInUse'
  <2>1. /\ pc[w] = "release" /\ op' = op /\ cand' = cand
        /\ \A v \in Worker \ {w} : pc'[v] = pc[v]
        /\ \E after \in {Free, Orphan} :
             lock' = [d \in Driver |-> IF d = cand[w] /\ lock[d] = w THEN after ELSE lock[d]]
    BY <1>7 DEF ReleaseLock, ReleaseFails
  <2>2. \A d \in Driver : lock'[d] # w
    BY <2>1 DEF LocksAreInUse
  <2>3. \A d \in Driver : lock'[d] # lock[d] => lock'[d] \notin Worker
    BY <2>1
  <2> QED
    BY <2>1, <2>2, <2>3, InUseFrame
<1>8. ASSUME NEW w \in Worker, Crash(w)
      PROVE  LocksAreInUse'
  <2>1. /\ \A d \in Driver : lock'[d] # lock[d] => lock'[d] \notin Worker
        /\ \A v \in Worker \ {w} : pc'[v] = pc[v] /\ op'[v] = op[v] /\ cand'[v] = cand[v]
        /\ \A d \in Driver : lock'[d] # w
    BY <1>8 DEF Crash
  <2> QED
    BY <2>1, InUseFrame
<1>11. ASSUME NEW w \in Worker, Reap(w) \/ Adrift(w)
       PROVE  LocksAreInUse'
  <2>1. /\ UNCHANGED <<lock, pc, op>>
        /\ \A v \in Worker : op[v] = "match" => cand'[v] = cand[v]
    BY <1>11 DEF Reap, Adrift
  <2> QED
    BY <2>1 DEF LocksAreInUse
<1>12. ASSUME NEW w \in Worker, EmitFails(w)
       PROVE  LocksAreInUse'
  <2>1. /\ op' = op /\ cand' = cand
        /\ \A v \in Worker \ {w} : pc'[v] = pc[v]
        /\ \A d \in Driver : lock'[d] # lock[d] => lock'[d] \notin Worker
        /\ \/ pc[w] \in {"search", "pick"}
           \/ op[w] # "match"
           \/ pc'[w] = "release"
    BY <1>12, WorkerAssumption DEF EmitFails, TakeCandidate
  <2> QED
    BY <2>1, InUseFrame
<1>9. ASSUME NEW d \in Driver, Expire(d)
      PROVE  LocksAreInUse'
  BY <1>9 DEF Expire, LocksAreInUse
<1>10. CASE UNCHANGED vars
  BY <1>10 DEF vars, LocksAreInUse
<1> QED
  BY <1>1, <1>2, <1>3, <1>4, <1>5, <1>6, <1>7, <1>8, <1>9, <1>10, <1>11, <1>12
     DEF Next, Arrive, Proceed, Fault

\* matcher.py's try/finally and lock.py's tokens: no request that has been
\* answered, has moved on to another candidate or has died still owns a driver
\* lock, so only the TTL has to clean up after it, and no worker owns two.
THEOREM NoLockIsLeaked == Spec => []LocksAreInUse
<1>1. Init => LocksAreInUse
  BY DEF Init, LocksAreInUse
<1>2. IInv /\ LocksAreInUse /\ [Next]_vars => LocksAreInUse'
  BY InUseStep DEF IInv
<1> QED
  BY <1>1, <1>2, Inductive, PTL DEF Spec

\* release_lock compares tokens: a live worker's lock is lost only by its own
\* step or, if it may stall, by TTL expiry.
THEOREM LocksAreOwned == Spec => NoForeignRelease
<1> DEFINE Owned ==
      \A d \in Driver, v \in Worker :
          lock[d] = v /\ lock'[d] # v =>
             \/ pc'[v] # pc[v]
             \/ "stall" \in Faults /\ pc' = pc
<1>1. TypeOK /\ LocksAreInUse /\ [Next]_vars => [Owned]_vars
  <2> SUFFICES ASSUME TypeOK, LocksAreInUse, Next
               PROVE  Owned
    OBVIOUS
  <2> USE DEF TypeOK
  <2>1. ASSUME NEW w \in Worker, NEW d \in Driver, AcquireLock(w, d) \/ AcquireFails(w, d)
        PROVE  Owned
    BY <2>1 DEF AcquireLock, AcquireFails
  <2>2. ASSUME NEW w \in Worker, ReleaseLock(w) \/ ReleaseFails(w)
        PROVE  Owned
    BY <2>2 DEF ReleaseLock, ReleaseFails, At, Goto
  <2>3. ASSUME NEW w \in Worker, Crash(w)
        PROVE  Owned
    BY <2>3 DEF Crash, Goto, LocksAreInUse, Guarded
  <2>4. ASSUME NEW d \in Driver, Expire(d)
        PROVE  Owned
    BY <2>4 DEF Expire
  <2>5. ASSUME lock' = lock
        PROVE  Owned
    BY <2>5
  <2>6. ASSUME NEW w \in Worker, NEW r \in Ride, NEW o \in Closing,
               CreateRide(w, r) \/ ReplayRide(w, r) \/ CloseRide(w, r, o)
        PROVE  lock' = lock
    BY <2>6 DEF CreateRide, ReplayRide, CloseRide
  <2>7. ASSUME NEW w \in Worker, NEW d \in Driver,
               ScanDriver(w, d) \/ LockContended(w, d)
        PROVE  lock' = lock
    BY <2>7 DEF ScanDriver, LockContended
  <2>8. ASSUME NEW w \in Worker,
               \/ LoadRide(w) \/ EndSearch(w) \/ NoDriverAvailable(w) \/ Recheck(w)
               \/ TransitionRide(w) \/ TransitionLost(w) \/ IndexInsert(w) \/ IndexConflict(w)
               \/ ReadDriver(w) \/ Commit(w) \/ RefreshRide(w) \/ Respond(w) \/ Reap(w)
               \/ Adrift(w) \/ ConnectionLost(w) \/ StatementFails(w)
        PROVE  lock' = lock
    BY <2>8 DEF LoadRide, EndSearch, NoDriverAvailable, Recheck, TransitionRide, TransitionLost,
       IndexInsert, IndexConflict, ReadDriver, Commit, RefreshRide, Respond, Reap,
       Adrift, ConnectionLost, StatementFails
  <2>9. ASSUME NEW w \in Worker, EmitFails(w)
        PROVE  Owned
    BY <2>9, WorkerAssumption DEF EmitFails
  <2> QED
    BY <2>1, <2>2, <2>3, <2>4, <2>5, <2>6, <2>7, <2>8, <2>9 DEF Next, Arrive, Proceed, Fault, Closing
<1> QED
  BY <1>1, TypeCorrect, NoLockIsLeaked, PTL DEF Spec, NoForeignRelease

-----------------------------------------------------------------------------
\* The history of the tables.

\* A ride takes one edge of its life.
Edge(r) ==
    \/ rideStatus[r] = "none" /\ rideStatus'[r] = "requested"
    \/ rideStatus[r] = "requested" /\ rideStatus'[r] = "matched"
    \/ rideStatus[r] \in ActiveStatuses /\ rideStatus'[r] = "cancelled"
    \/ rideStatus[r] \in CompletableStatuses /\ rideStatus'[r] = "completed"

\* What a step may do to the rows of rides and drivers: at most one ride moves,
\* along an edge; its driver_id is written once, by the match, to a driver who
\* was available; drivers.status moves only together with a ride of the driver.
History ==
    /\ \A r, s \in Ride :
         rideStatus'[r] # rideStatus[r] /\ rideStatus'[s] # rideStatus[s] => r = s
    /\ \A r \in Ride : rideStatus'[r] # rideStatus[r] => Edge(r)
    /\ \A r \in Ride : rideDriver'[r] # rideDriver[r] =>
         /\ rideStatus[r] = "requested" /\ rideStatus'[r] = "matched"
         /\ rideDriver[r] = NoDriver
         /\ \E d \in Driver : rideDriver'[r] = d /\ driverStatus[d] = "available"
    /\ \A d \in Driver : driverStatus'[d] # driverStatus[d] =>
         \E r \in Ride :
            /\ rideDriver'[r] = d
            /\ \/ /\ rideStatus[r] = "requested" /\ rideStatus'[r] = "matched"
                  /\ driverStatus'[d] = "busy"
               \/ /\ rideStatus[r] \in CompletableStatuses /\ rideStatus'[r] \in TerminalStatuses
                  /\ driverStatus'[d] = "available"

\* Every step of RideDispatch, and so every step here, is one of these.
LEMMA HistoryStep ==
  ASSUME IInv, [Next]_vars
  PROVE  History
<1> USE DEF IInv, TypeOK, ActiveStatuses, CompletableStatuses, TerminalStatuses, Edge
<1>1. CASE UNCHANGED db
  BY <1>1 DEF db, History
<1>2. ASSUME NEW s \in Ride, Dispatch!Request(s)
      PROVE  History
  BY <1>2 DEF Dispatch!Request, History
<1>3. ASSUME NEW s \in Ride, NEW e \in Driver, Dispatch!Match(s, e)
      PROVE  History
  <2>1. /\ rideStatus[s] = "requested" /\ driverStatus[e] = "available"
        /\ rideStatus' = [rideStatus EXCEPT ![s] = "matched"]
        /\ rideDriver' = [rideDriver EXCEPT ![s] = e]
        /\ driverStatus' = [driverStatus EXCEPT ![e] = "busy"]
    BY <1>3 DEF Dispatch!Match
  <2>2. rideDriver[s] = NoDriver
    BY <2>1 DEF Store, DriverFromMatch
  <2> QED
    BY <2>1, <2>2 DEF History
<1>4. ASSUME NEW s \in Ride, Dispatch!Cancel(s) \/ Dispatch!Complete(s)
      PROVE  History
  <2>1. /\ rideDriver' = rideDriver
        /\ \/ rideStatus[s] \in ActiveStatuses
              /\ rideStatus' = [rideStatus EXCEPT ![s] = "cancelled"]
           \/ rideStatus[s] \in CompletableStatuses
              /\ rideStatus' = [rideStatus EXCEPT ![s] = "completed"]
        /\ driverStatus' = [d \in Driver |->
                              IF d = rideDriver[s] THEN "available" ELSE driverStatus[d]]
    BY <1>4 DEF Dispatch!Cancel, Dispatch!Complete, Dispatch!Close,
       Dispatch!ActiveStatuses, Dispatch!CompletableStatuses
  <2>2. rideDriver[s] \in Driver => rideStatus[s] \in CompletableStatuses
    BY <2>1, NoDriverAssumption DEF Store, DriverFromMatch
  <2>3. \A d \in Driver : driverStatus'[d] # driverStatus[d] =>
          rideDriver[s] = d /\ driverStatus'[d] = "available"
    BY <2>1
  <2> QED
    BY <2>1, <2>2, <2>3 DEF History
<1> QED
  BY <1>1, <1>2, <1>3, <1>4, DispatchStep DEF Dispatch!Next

\* ride_repository.py's conditional UPDATEs: whatever the workers interleave,
\* no committed ride goes back, skips an edge or changes its driver, and no
\* driver's status moves on its own.
THEOREM HistoryStands == Spec => [][History]_vars
<1>1. IInv /\ [Next]_vars => [History]_vars
  BY HistoryStep
<1> QED
  BY <1>1, Inductive, PTL DEF Spec

-----------------------------------------------------------------------------
\* The abstract specification is enough.

Tables ==
    /\ rideStatus \in [Ride -> RideStatus]
    /\ rideDriver \in [Ride -> Driver \cup {NoDriver}]
    /\ driverStatus \in [Driver -> DriverStatus]
    /\ DriverFromMatch
    /\ OneActiveRidePerDriver
    /\ BusyIffActive

\* RideDispatch by itself, without workers or locks, promises what the README
\* does: an implementation of it needs no further argument for its tables.
THEOREM DispatchIsSafe ==
  Dispatch!Spec => [](OneActiveRidePerDriver /\ BusyIffActive)
<1> USE NoDriverAssumption
    DEF Tables, RideStatus, DriverStatus, ActiveStatuses, CompletableStatuses,
        DriverFromMatch, OneActiveRidePerDriver, BusyIffActive, EntryExists
<1>1. Dispatch!Init => Tables
  BY DEF Dispatch!Init
<1>2. ASSUME Tables, NEW r \in Ride, Dispatch!Request(r)
      PROVE  Tables'
  BY <1>2 DEF Dispatch!Request
<1>3. ASSUME Tables, NEW r \in Ride, NEW e \in Driver, Dispatch!Match(r, e)
      PROVE  Tables'
  BY <1>3 DEF Dispatch!Match
<1>4. ASSUME Tables, NEW r \in Ride, Dispatch!Cancel(r) \/ Dispatch!Complete(r)
      PROVE  Tables'
  BY <1>4 DEF Dispatch!Cancel, Dispatch!Complete, Dispatch!Close,
     Dispatch!ActiveStatuses, Dispatch!CompletableStatuses
<1>5. Tables /\ UNCHANGED Dispatch!vars => Tables'
  BY DEF Dispatch!vars
<1>6. Tables /\ [Dispatch!Next]_(Dispatch!vars) => Tables'
  BY <1>2, <1>3, <1>4, <1>5 DEF Dispatch!Next
<1>7. Tables => OneActiveRidePerDriver /\ BusyIffActive
  OBVIOUS
<1> QED
  BY <1>1, <1>6, <1>7, PTL DEF Dispatch!Spec

=============================================================================
