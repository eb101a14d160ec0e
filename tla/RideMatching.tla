---------------------------- MODULE RideMatching ----------------------------
(***************************************************************************)
(* match_ride, cancel_ride and complete_ride as the request workers run    *)
(* them: several workers over one Postgres database at READ COMMITTED and  *)
(* one Redis holding a lock per driver.  A step of a worker is one call    *)
(* that reaches Postgres or Redis; between two steps anything may happen.  *)
(*                                                                         *)
(* rideStatus, rideDriver and driverStatus are the COMMITTED rows.  pc is  *)
(* where a worker's thread is, Stage where its transaction is: the two     *)
(* part when the connection is lost, and the server finds out later than   *)
(* the thread.  What an open transaction has written is determined by its  *)
(* stage, op, job and cand: past the conditional UPDATE and before the end *)
(* it holds the row lock of its ride, and a matcher at "commit" has also   *)
(* inserted its (uncommitted) entry into the unique index on driver_id.    *)
(***************************************************************************)
EXTENDS RideTypes, FiniteSets

CONSTANTS
    Worker,     \* request threads of the API server processes
    NoRide,     \* an idle worker's job
    Free,       \* lock:driver:{id} is not in Redis
    Orphan,     \* the key holds a token that no running request knows
    Faults,     \* which faults the environment may inject
    Watch       \* whether locks is recorded, for LockSuffices

FaultKinds == {"stall", "crash", "net", "db", "redis", "bus"}

ASSUME WorkerAssumption == Free \notin Worker /\ Orphan \notin Worker /\ Free # Orphan
ASSUME NoRideAssumption == NoRide \notin Ride
ASSUME FaultsAssumption == Faults \subseteq FaultKinds
ASSUME WatchAssumption == Watch \in BOOLEAN

VARIABLES
    rideStatus, rideDriver, driverStatus,
    lock,       \* lock[d]: whose token lock:driver:{d} holds
    pc,         \* the next call each worker makes
    op,         \* which request it serves
    job,        \* the ride it works on
    cands,      \* ranked candidates it has not tried yet
    cand,       \* the driver in hand: matcher's candidate, or the one to free
    seen,       \* drivers.status as its session last loaded it for cand
    result,     \* outcome of the request, "none" while undecided
    lost,       \* stage of the transaction on a connection the worker has lost
    locks       \* history: "disturbed" once a lock has ended under a live holder,
                \* or before the transaction it was to protect

db == <<rideStatus, rideDriver, driverStatus>>
vars == <<rideStatus, rideDriver, driverStatus, lock, pc, op, job, cands, cand,
          seen, result, lost, locks>>

Ops == {"none", "match", "cancel", "complete"}

Steps == {"idle", "load", "search", "pick", "recheck", "update", "index",
          "free", "commit", "refresh", "release", "respond"}

\* Stages of a writing transaction on the server.  "entry": the UPDATE of a
\* client that is gone has entered the index; no COMMIT will follow.
Stages == {"update", "index", "entry", "free", "commit"}

Results == {"none", "matched", "unmatched", "existing", "closed", "not_found",
            "invalid_state", "integrity_error", "db_error",
            "lock_unavailable", "unhandled"}

TypeOK ==
    /\ rideStatus \in [Ride -> RideStatus]
    /\ rideDriver \in [Ride -> Driver \cup {NoDriver}]
    /\ driverStatus \in [Driver -> DriverStatus]
    /\ lock \in [Driver -> Worker \cup {Free, Orphan}]
    /\ pc \in [Worker -> Steps]
    /\ op \in [Worker -> Ops]
    /\ job \in [Worker -> Ride \cup {NoRide}]
    /\ cands \in [Worker -> SUBSET Driver]
    /\ cand \in [Worker -> Driver \cup {NoDriver}]
    /\ seen \in [Worker -> DriverStatus]
    /\ result \in [Worker -> Results]
    /\ lost \in [Worker -> Stages \cup {"none"}]
    /\ locks \in {"intact", "disturbed"}

Init ==
    /\ rideStatus = [r \in Ride |-> "none"]
    /\ rideDriver = [r \in Ride |-> NoDriver]
    /\ driverStatus = [d \in Driver |-> "available"]
    /\ lock = [d \in Driver |-> Free]
    /\ pc = [w \in Worker |-> "idle"]
    /\ op = [w \in Worker |-> "none"]
    /\ job = [w \in Worker |-> NoRide]
    /\ cands = [w \in Worker |-> {}]
    /\ cand = [w \in Worker |-> NoDriver]
    /\ seen = [w \in Worker |-> "available"]
    /\ result = [w \in Worker |-> "none"]
    /\ lost = [w \in Worker |-> "none"]
    /\ locks = "intact"

-----------------------------------------------------------------------------
\* Moving a worker along.

At(w, l) == pc[w] = l

\* Where w's transaction is.
Stage(w) == IF lost[w] = "none" THEN pc[w] ELSE lost[w]

Goto(w, l) == pc' = [pc EXCEPT ![w] = l]

Outcome(w, x) == result' = [result EXCEPT ![w] = x]

\* The steps inside match_ride's try ... finally: release_lock.
Guarded == {"recheck", "update", "index", "commit", "refresh"}

\* Where an exception raised at pc[w] takes the worker: through the finally
\* clause when it is inside it, otherwise straight to the response.
Unwind(w) == Goto(w, IF op[w] = "match" /\ pc[w] \in Guarded THEN "release" ELSE "respond")

\* Mutant: a blind assignment, the ORM mutation that conditional UPDATE replaced.
FromStatusesBlind(o) == RideStatus \ {"none"}

\* ride_repo.transition_status(from_statuses, to_status) of each operation.
FromStatuses(o) ==
    CASE o = "match"    -> {"requested"}
      [] o = "cancel"   -> ActiveStatuses
      [] o = "complete" -> CompletableStatuses
      [] OTHER          -> {}

ToStatus(o) ==
    CASE o = "match"    -> "matched"
      [] o = "cancel"   -> "cancelled"
      [] OTHER          -> "completed"

\* Mutant: the driver is given the ride's new status.
DriverTargetOfRide(o) == ToStatus(o)

\* The value each operation assigns to driver.status.
DriverTarget(o) == IF o = "match" THEN "busy" ELSE "available"

-----------------------------------------------------------------------------
\* Postgres: row locks and the partial unique index.

\* w's open transaction has updated ride r and not ended.
HoldsRow(w, r) == job[w] = r /\ Stage(w) \in {"index", "entry", "free", "commit"}

\* Mutant: the UPDATE does not wait for the row (no row locks).
RowLockedNever(w, r) == FALSE

RowLocked(w, r) == \E v \in Worker \ {w} : HoldsRow(v, r)

\* Mutant: the unique check looks at committed entries only.
EntryInDoubtIgnored(w, d) == FALSE

\* Another open transaction removes or has inserted an index entry for
\* driver d, so a unique check on d has to wait for that transaction.
EntryInDoubt(w, d) ==
    \E v \in Worker \ {w} :
        \/ /\ Stage(v) \in {"entry", "commit"}
           /\ op[v] = "match"
           /\ cand[v] = d
        \/ \E r \in Ride : HoldsRow(v, r) /\ rideDriver[r] = d /\ rideStatus[r] \in ActiveStatuses

\* Mutant: the index predicate forgets status 'matched'.
EntryExistsNarrow(d) ==
    \E r \in Ride : rideDriver[r] = d /\ rideStatus[r] \in {"requested", "in_progress"}

\* A committed active ride already has driver d.
EntryExists(d) == \E r \in Ride : rideDriver[r] = d /\ rideStatus[r] \in ActiveStatuses

-----------------------------------------------------------------------------
\* A request arrives at an idle worker.

Begin(w, o, r, l) ==
    /\ At(w, "idle")
    /\ op' = [op EXCEPT ![w] = o]
    /\ job' = [job EXCEPT ![w] = r]
    /\ Goto(w, l)

\* POST /rides that creates its ride: create_ride commits the insert (module
\* RideCreation has its steps).
CreateRide(w, r) ==
    /\ rideStatus[r] = "none"
    /\ Begin(w, "match", r, "load")
    /\ rideStatus' = [rideStatus EXCEPT ![r] = "requested"]
    /\ UNCHANGED <<rideDriver, driverStatus, lock, cands, cand, seen, result, lost, locks>>

\* POST /rides with an Idempotency-Key that already has a ride.
ReplayRide(w, r) ==
    /\ rideStatus[r] # "none"
    /\ Begin(w, "match", r, "load")
    /\ UNCHANGED <<db, lock, cands, cand, seen, result, lost, locks>>

\* POST /rides/{id}/cancel and /complete.  _transition_or_raise first looks
\* the ride up: an unknown id is a 404.
CloseRide(w, r, o) ==
    /\ IF rideStatus[r] = "none"
         THEN Begin(w, o, r, "respond") /\ Outcome(w, "not_found")
         ELSE Begin(w, o, r, "update") /\ UNCHANGED result
    /\ UNCHANGED <<db, lock, cands, cand, seen, lost, locks>>

\* request_ride reads ride.status: matching is attempted only for a ride that
\* is REQUESTED at this read, any other is returned as it is.
LoadRide(w) ==
    /\ At(w, "load")
    /\ IF rideStatus[job[w]] = "requested"
         THEN Goto(w, "search") /\ UNCHANGED result
         ELSE Goto(w, "respond") /\ Outcome(w, "existing")
    /\ UNCHANGED <<db, lock, op, job, cands, cand, seen, lost, locks>>

-----------------------------------------------------------------------------
\* match_ride: candidate discovery.  One SELECT per ring, so drivers are read
\* at different moments; which drivers are in range, and their order, depends
\* on positions (module CandidateSearch) and is any here.

ScanDriver(w, d) ==
    /\ At(w, "search")
    /\ driverStatus[d] = "available"
    /\ d \notin cands[w]
    /\ cands' = [cands EXCEPT ![w] = @ \cup {d}]
    /\ UNCHANGED <<db, lock, pc, op, job, cand, seen, result, lost, locks>>

EndSearch(w) ==
    /\ At(w, "search")
    /\ Goto(w, "pick")
    /\ UNCHANGED <<db, lock, op, job, cands, cand, seen, result, lost, locks>>

\* for candidate in ranked: acquire_lock, one SET NX PX.
TakeCandidate(w, d) ==
    /\ At(w, "pick")
    /\ d \in cands[w]
    /\ cands' = [cands EXCEPT ![w] = @ \ {d}]

AcquireLock(w, d) ==
    /\ TakeCandidate(w, d)
    /\ lock[d] = Free
    /\ lock' = [lock EXCEPT ![d] = w]
    /\ cand' = [cand EXCEPT ![w] = d]
    /\ Goto(w, "recheck")
    /\ UNCHANGED <<db, op, job, seen, result, lost, locks>>

\* token is None: the next candidate.
LockContended(w, d) ==
    /\ TakeCandidate(w, d)
    /\ lock[d] # Free
    /\ UNCHANGED <<db, lock, pc, op, job, cand, seen, result, lost, locks>>

\* No candidate survived: NoAvailableDriverError, a 201 with no driver.
NoDriverAvailable(w) ==
    /\ At(w, "pick")
    /\ cands[w] = {}
    /\ Outcome(w, "unmatched")
    /\ Goto(w, "respond")
    /\ UNCHANGED <<db, lock, op, job, cands, cand, seen, lost, locks>>

\* Mutant: the re-check reads the session's cached copy (fresh=False), which
\* discovery loaded as available.
RecheckCached(w) ==
    /\ At(w, "recheck")
    /\ Goto(w, "update")
    /\ seen' = [seen EXCEPT ![w] = "available"]
    /\ UNCHANGED <<db, lock, op, job, cands, cand, result, lost, locks>>

\* The re-check under the lock: a real SELECT of the driver row.
Recheck(w) ==
    /\ At(w, "recheck")
    /\ seen' = [seen EXCEPT ![w] = driverStatus[cand[w]]]
    /\ Goto(w, IF driverStatus[cand[w]] = "available" THEN "update" ELSE "release")
    /\ UNCHANGED <<db, lock, op, job, cands, cand, result, lost, locks>>

-----------------------------------------------------------------------------
\* transition_status: UPDATE rides SET ... WHERE id = job AND status IN (...).

\* Mutant: cancel/complete do not refresh and keep the driver_id they first saw.
TransitionRideStale(w) ==
    /\ At(w, "update")
    /\ rideStatus[job[w]] \in FromStatuses(op[w])
    /\ ~RowLocked(w, job[w])
    /\ Goto(w, IF op[w] = "match" THEN "index" ELSE "free")
    /\ UNCHANGED <<db, lock, op, job, cands, cand, seen, result, lost, locks>>

\* The row qualifies: wait until no other transaction has it, re-evaluate,
\* take the row lock.
RowTaken(w) ==
    /\ rideStatus[job[w]] \in FromStatuses(op[w])
    /\ ~RowLocked(w, job[w])

\* cancel/complete then refresh the ride inside the same transaction, which
\* gives them the driver to free.
TransitionRide(w) ==
    /\ At(w, "update")
    /\ RowTaken(w)
    /\ IF op[w] = "match"
         THEN Goto(w, "index") /\ UNCHANGED cand
         ELSE Goto(w, "free") /\ cand' = [cand EXCEPT ![w] = rideDriver[job[w]]]
    /\ UNCHANGED <<db, lock, op, job, cands, seen, result, lost, locks>>

\* The committed row does not qualify: rowcount 0, rollback, 409.
TransitionLost(w) ==
    /\ At(w, "update")
    /\ rideStatus[job[w]] \notin FromStatuses(op[w])
    /\ Outcome(w, "invalid_state")
    /\ Unwind(w)
    /\ UNCHANGED <<db, lock, op, job, cands, cand, seen, lost, locks>>

\* The new row version of a matched ride enters the unique index.
EntryAdmitted(w) == ~EntryInDoubt(w, cand[w]) /\ ~EntryExists(cand[w])

IndexInsert(w) ==
    /\ At(w, "index")
    /\ EntryAdmitted(w)
    /\ Goto(w, "commit")
    /\ UNCHANGED <<db, lock, op, job, cands, cand, seen, result, lost, locks>>

\* Mutant: the loser waits for the other ride to end instead of failing.
IndexConflictWaits(w) ==
    /\ At(w, "index")
    /\ FALSE
    /\ UNCHANGED vars

\* Another active ride has this driver: the UPDATE statement itself raises
\* IntegrityError, so it leaves match_ride through finally; the handler
\* around db.commit() never sees it.
IndexConflict(w) ==
    /\ At(w, "index")
    /\ ~EntryInDoubt(w, cand[w])
    /\ EntryExists(cand[w])
    /\ Outcome(w, "integrity_error")
    /\ Unwind(w)
    /\ UNCHANGED <<db, lock, op, job, cands, cand, seen, lost, locks>>

\* cancel_ride/complete_ride: load the ride's driver, if it has one.
ReadDriver(w) ==
    /\ At(w, "free")
    /\ Goto(w, "commit")
    /\ seen' = [seen EXCEPT ![w] = IF cand[w] = NoDriver THEN "available"
                                                         ELSE driverStatus[cand[w]]]
    /\ UNCHANGED <<db, lock, op, job, cands, cand, result, lost, locks>>

\* What COMMIT makes durable.  The assignment to driver.status is flushed just
\* before it, and only when it differs from the value the session loaded.
ApplyCommit(w) ==
    /\ rideStatus' = [rideStatus EXCEPT ![job[w]] = ToStatus(op[w])]
    /\ rideDriver' = [rideDriver EXCEPT ![job[w]] = IF op[w] = "match" THEN cand[w] ELSE @]
    /\ driverStatus' = [d \in Driver |->
                          IF d = cand[w] /\ seen[w] # DriverTarget(op[w])
                            THEN DriverTarget(op[w])
                            ELSE driverStatus[d]]

Commit(w) ==
    /\ At(w, "commit")
    /\ ApplyCommit(w)
    /\ Goto(w, "refresh")
    /\ UNCHANGED <<lock, op, job, cands, cand, seen, result, lost, locks>>

\* db.refresh(ride) after the commit; the operation has succeeded.
RefreshRide(w) ==
    /\ At(w, "refresh")
    /\ Outcome(w, IF op[w] = "match" THEN "matched" ELSE "closed")
    /\ Unwind(w)
    /\ UNCHANGED <<db, lock, op, job, cands, cand, seen, lost, locks>>

\* Mutant: DEL without comparing the token.
ReleaseLockAny(w) ==
    /\ At(w, "release")
    /\ lock' = [d \in Driver |-> IF d = cand[w] THEN Free ELSE lock[d]]
    /\ Goto(w, IF result[w] = "none" THEN "pick" ELSE "respond")
    /\ UNCHANGED <<db, op, job, cands, cand, seen, result, lost, locks>>

\* finally: release_lock, compare-and-delete in one script.  With no outcome
\* yet (the re-check failed) the loop goes on with the next candidate.
ReleaseLock(w) ==
    /\ At(w, "release")
    /\ lock' = [d \in Driver |-> IF d = cand[w] /\ lock[d] = w THEN Free ELSE lock[d]]
    /\ Goto(w, IF result[w] = "none" THEN "pick" ELSE "respond")
    /\ UNCHANGED <<db, op, job, cands, cand, seen, result, lost, locks>>

\* The request is over and its session closed (or its process replaced).  The
\* worker stands for the request until its transaction has ended as well;
\* what the thread serves meanwhile is another worker's.
Respond(w) ==
    /\ At(w, "respond")
    /\ lost[w] = "none"
    /\ pc' = [pc EXCEPT ![w] = "idle"]
    /\ op' = [op EXCEPT ![w] = "none"]
    /\ job' = [job EXCEPT ![w] = NoRide]
    /\ cands' = [cands EXCEPT ![w] = {}]
    /\ cand' = [cand EXCEPT ![w] = NoDriver]
    /\ seen' = [seen EXCEPT ![w] = "available"]
    /\ result' = [result EXCEPT ![w] = "none"]
    /\ UNCHANGED <<db, lock, lost, locks>>

-----------------------------------------------------------------------------
\* Faults.

\* Mutant: the SET carries no PX, so a key without a holder stays.
ExpireNever(d) == FALSE /\ UNCHANGED vars

\* The TTL of a lock elapses.  A live holder loses its lock this way only if
\* it stalls; one whose holder is gone always goes this way.
Expire(d) ==
    /\ lock[d] # Free
    /\ lock[d] \in Worker => "stall" \in Faults
    /\ lock' = [lock EXCEPT ![d] = Free]
    /\ locks' = IF Watch /\ lock[d] \in Worker THEN "disturbed" ELSE locks
    /\ UNCHANGED <<db, pc, op, job, cands, cand, seen, result, lost>>

\* The transaction of a matcher is on its own from now on.
Disturb(w) == locks' = IF Watch /\ op[w] = "match" /\ lost'[w] # "none" THEN "disturbed" ELSE locks

\* The worker's process dies, and with it what it had in memory: the request
\* gets no answer, the token no release.  Its transaction stays open.
Crash(w) ==
    /\ "crash" \in Faults
    /\ pc[w] # "idle"
    /\ lost' = [lost EXCEPT ![w] = IF Stage(w) \in Stages THEN Stage(w) ELSE "none"]
    /\ Disturb(w)
    /\ lock' = [d \in Driver |-> IF lock[d] = w THEN Orphan ELSE lock[d]]
    /\ cands' = [cands EXCEPT ![w] = {}]
    /\ Outcome(w, "none")
    /\ Goto(w, "respond")
    /\ UNCHANGED <<db, op, job, cand, seen>>

\* The connection breaks under a writing transaction.  The thread gets an
\* OperationalError and goes on, through the finally clause; whether the
\* statement or the COMMIT arrived, and when the server ends the transaction,
\* it does not learn.
ConnectionLost(w) ==
    /\ "net" \in Faults
    /\ pc[w] \in Stages
    /\ lost' = [lost EXCEPT ![w] = pc[w]]
    /\ Disturb(w)
    /\ Outcome(w, "db_error")
    /\ Unwind(w)
    /\ UNCHANGED <<db, lock, op, job, cands, cand, seen>>

\* The server goes on with an UPDATE whose client is gone.
Adrift(w) ==
    /\ \/ /\ lost[w] = "update"
          /\ RowTaken(w)
          /\ IF op[w] = "match"
               THEN lost' = [lost EXCEPT ![w] = "index"] /\ UNCHANGED cand
               ELSE /\ lost' = [lost EXCEPT ![w] = "free"]
                    /\ cand' = [cand EXCEPT ![w] = rideDriver[job[w]]]
       \/ /\ lost[w] = "index"
          /\ EntryAdmitted(w)
          /\ lost' = [lost EXCEPT ![w] = "entry"]
          /\ UNCHANGED cand
    /\ UNCHANGED <<db, lock, pc, op, job, cands, seen, result, locks>>

\* Postgres notices that the client is gone and ends the transaction: rolled
\* back, unless the COMMIT had arrived.
Reap(w) ==
    /\ lost[w] # "none"
    /\ \/ UNCHANGED db
       \/ lost[w] = "commit" /\ ApplyCommit(w)
    /\ lost' = [lost EXCEPT ![w] = "none"]
    /\ UNCHANGED <<lock, pc, op, job, cands, cand, seen, result, locks>>

\* A statement or the COMMIT is refused by the server, or no connection is to
\* be had: a SQLAlchemyError, and the transaction is over.
StatementFails(w) ==
    /\ "db" \in Faults
    /\ pc[w] \in {"load", "search", "recheck", "update", "index", "free", "commit", "refresh"}
    /\ Outcome(w, "db_error")
    /\ Unwind(w)
    /\ UNCHANGED <<db, lock, op, job, cands, cand, seen, lost, locks>>

\* emit raises (the application's loop is closed, module EventBus): nothing
\* catches it.  LOCK_ACQUIRED is emitted after the SET and before the try, so
\* its token is lost; DRIVER_ASSIGNED is inside.
EmitFails(w) ==
    /\ "bus" \in Faults
    /\ \/ /\ At(w, "search") \/ At(w, "refresh") \/ (At(w, "pick") /\ cands[w] = {})
          /\ UNCHANGED <<lock, cands>>
       \/ \E d \in Driver :
            /\ TakeCandidate(w, d)
            /\ lock' = [lock EXCEPT ![d] = IF @ = Free THEN Orphan ELSE @]
    /\ Outcome(w, "unhandled")
    /\ Unwind(w)
    /\ UNCHANGED <<db, op, job, cand, seen, lost, locks>>

\* acquire_lock raises ConnectionError or TimeoutError: LockingUnavailableError.
\* The SET may have taken effect before the reply was lost; its token is then
\* known to nobody.
AcquireFails(w, d) ==
    /\ "redis" \in Faults
    /\ TakeCandidate(w, d)
    /\ \/ UNCHANGED lock
       \/ lock[d] = Free /\ lock' = [lock EXCEPT ![d] = Orphan]
    /\ Outcome(w, "lock_unavailable")
    /\ Goto(w, "respond")
    /\ UNCHANGED <<db, op, job, cand, seen, lost, locks>>

\* release_lock raises: nothing catches it, the exception replaces whatever
\* match_ride was returning or raising.  The script may have run.
ReleaseFails(w) ==
    /\ "redis" \in Faults
    /\ At(w, "release")
    /\ \E after \in {Free, Orphan} :
         lock' = [d \in Driver |-> IF d = cand[w] /\ lock[d] = w THEN after ELSE lock[d]]
    /\ Outcome(w, "unhandled")
    /\ Goto(w, "respond")
    /\ UNCHANGED <<db, op, job, cands, cand, seen, lost, locks>>

-----------------------------------------------------------------------------
Arrive(w) ==
    \E r \in Ride :
        \/ CreateRide(w, r)
        \/ ReplayRide(w, r)
        \/ CloseRide(w, r, "cancel")
        \/ CloseRide(w, r, "complete")

\* Steps that never wait for another transaction.
Proceed(w) ==
    \/ LoadRide(w)
    \/ \E d \in Driver : ScanDriver(w, d) \/ AcquireLock(w, d) \/ LockContended(w, d)
    \/ EndSearch(w)
    \/ NoDriverAvailable(w)
    \/ Recheck(w)
    \/ TransitionLost(w)
    \/ ReadDriver(w)
    \/ Commit(w)
    \/ RefreshRide(w)
    \/ ReleaseLock(w)
    \/ Respond(w)

Fault(w) ==
    \/ Crash(w)
    \/ ConnectionLost(w)
    \/ StatementFails(w)
    \/ EmitFails(w)
    \/ \E d \in Driver : AcquireFails(w, d)
    \/ ReleaseFails(w)

Next ==
    \/ \E w \in Worker :
         \/ Arrive(w)
         \/ Proceed(w)
         \/ TransitionRide(w)
         \/ IndexInsert(w)
         \/ IndexConflict(w)
         \/ Fault(w)
         \/ Adrift(w)
         \/ Reap(w)
    \/ \E d \in Driver : Expire(d)

Spec == Init /\ [][Next]_vars

\* A running worker keeps running; Postgres queues the transactions waiting
\* for a row or an index entry and serves each one, and notices a lost
\* client; Redis expires keys.  A request waits for one statement at a time,
\* so one SF covers both waits.  Nothing is assumed of clients or of faults.
Fairness ==
    /\ \A w \in Worker :
         /\ WF_vars(Proceed(w))
         /\ SF_vars(TransitionRide(w) \/ IndexInsert(w) \/ IndexConflict(w))
         /\ WF_vars(Reap(w))
    /\ \A d \in Driver : WF_vars(Expire(d))

FairSpec == Spec /\ Fairness

-----------------------------------------------------------------------------
(***************************************************************************)
(* Safety.                                                                 *)
(***************************************************************************)

\* README "at most one active ride per driver in committed state": whatever
\* locks expire and whoever crashes, no driver is on two active rides.
OneActiveRidePerDriver ==
    \A r, s \in Ride :
        /\ rideStatus[r] \in ActiveStatuses
        /\ rideStatus[s] \in ActiveStatuses
        /\ rideDriver[r] = rideDriver[s]
        /\ rideDriver[r] # NoDriver
        => r = s

\* The two tables agree: the driver row is busy exactly while an active ride
\* has the driver.  The two writes are a conditional UPDATE of the ride and a
\* blind assignment to the driver, so a late or lost one would strand a busy
\* driver or offer a driver who is on a ride.
BusyIffActive ==
    \A d \in Driver : driverStatus[d] = "busy" <=> EntryExists(d)

\* driver.status is written blindly at commit: two transactions that are both
\* about to commit never write the same driver, so no status write is lost.
OneWriterPerDriver ==
    \A v, w \in Worker :
        /\ Stage(v) = "commit"
        /\ Stage(w) = "commit"
        /\ cand[v] = cand[w]
        /\ cand[v] # NoDriver
        => v = w

\* What a response says is durable: a "matched" answer's ride really has the
\* driver, a closed ride is really closed, a 409 to a cancel or to a match is
\* given only for a ride that is past the status it asked for.
AnswersAreTrue ==
    \A w \in Worker :
        /\ result[w] = "matched" => /\ rideDriver[job[w]] = cand[w]
                                    /\ rideStatus[job[w]] \in CompletableStatuses \cup TerminalStatuses
        /\ result[w] = "closed" => rideStatus[job[w]] = ToStatus(op[w])
        /\ result[w] = "invalid_state" /\ op[w] = "cancel" =>
             rideStatus[job[w]] \in TerminalStatuses
        /\ result[w] = "invalid_state" /\ op[w] = "match" =>
             rideStatus[job[w]] # "requested"

\* matcher.py, points 1 and 2: until a holder outlives its lock or leaves its
\* transaction behind (a COMMIT may still take effect after its process died,
\* or after it lost its connection and finally released the lock), the Redis
\* lock held across COMMIT is enough.  A matcher that reaches the unique index
\* finds neither an entry for its driver nor another transaction to wait for,
\* whatever else fails.
LockSuffices ==
    Watch /\ locks = "intact" => \A w \in Worker : pc[w] = "index" => EntryAdmitted(w)

\* lock.py: a worker's lock goes away only by a step of that worker (its
\* death included) or by TTL expiry; no other request's release deletes it.
NoForeignRelease ==
    [][\A d \in Driver, v \in Worker :
          lock[d] = v /\ lock'[d] # v =>
             \/ pc'[v] # pc[v]
             \/ "stall" \in Faults /\ pc' = pc]_vars

\* The committed tables only ever change by the atomic steps of RideDispatch:
\* a cancelled ride is never matched again, a match takes a free driver, a
\* close frees exactly the driver the ride has.
Dispatch == INSTANCE RideDispatch WITH
    rideStatus <- rideStatus,
    rideDriver <- rideDriver,
    driverStatus <- driverStatus

ImplementsDispatch == Dispatch!Spec

-----------------------------------------------------------------------------
(***************************************************************************)
(* Liveness, under Fairness.                                               *)
(***************************************************************************)

\* Every request is over some day, answered or with its process dead, and so
\* is its transaction: no worker waits forever for a row lock, an index entry
\* or a driver lock, whoever dies.
RequestAnswered == \A w \in Worker : pc[w] # "idle" ~> pc[w] = "idle"

\* A driver lock never outlives its holder for good: after a crash, a lost
\* reply, a failed release or an exception between the SET and the try block
\* the driver can be locked again.
LockEventuallyFree == \A d \in Driver : lock[d] # Free ~> lock[d] = Free

-----------------------------------------------------------------------------
(***************************************************************************)
(* What comments and documents say, and the code does not do.              *)
(***************************************************************************)

\* matcher.py point 3: a driver rejected by the unique index "is treated like
\* any other lost race": the request goes on with the next candidate.
IndexRejectionIsLostRace == \A w \in Worker : result[w] # "integrity_error"

=============================================================================
