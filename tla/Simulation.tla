----------------------------- MODULE Simulation -----------------------------
(***************************************************************************)
(* app/simulation: the load generator as a client of the dispatch service. *)
(* The request loop fires bursts of POST /rides from one thread per rider, *)
(* released together by a barrier; the lifecycle thread cancels or         *)
(* completes matched rides some time later, the movement thread moves the  *)
(* drivers; run() starts and stops both threads.                           *)
(*                                                                         *)
(* The service is RideDispatch: a call reaches it, takes effect or is      *)
(* refused, and the answer may come too late for the client's timeout, in  *)
(* which case the effect still stands or is still to come.  The i-th rider *)
(* asks for ride i.                                                        *)
(***************************************************************************)
EXTENDS RideTypes, Integers, Sequences, FiniteSets, FiniteSetsExt

CONSTANTS
    NumRiders,  \* config.num_riders
    BurstSize   \* config.burst_size

ASSUME RidersAssumption == NumRiders \in Nat /\ Ride = 1..NumRiders
ASSUME BurstAssumption == BurstSize \in Nat \ {0}

NoRide == 0

VARIABLES
    rideStatus, rideDriver, driverStatus,
    fleet,      \* drivers created so far
    movement,   \* where the movement thread is
    main,       \* where run() is
    fired,      \* _riders_fired
    burst,      \* the riders of the burst in hand
    slot,       \* each rider's worker
    request,    \* its POST /rides as the server has it
    outcomes,   \* what ResultsCollector holds of each rider, in order
    stop,       \* _stop_event
    lifecycle,  \* where the lifecycle thread is
    locked,     \* the lifecycle thread holds _pending_lock
    pending,    \* _pending_rides
    rest,       \* the list it is about to assign to _pending_rides
    due,        \* the rides of its tick it has not called for yet
    calling,    \* the ride its current call is about
    closing,    \* cancel/complete calls the server still has to handle
    lost        \* history: rides whose call raised

tables == <<rideStatus, rideDriver, driverStatus>>
firing == <<main, fired, burst, slot, request, outcomes>>
ending == <<stop, lifecycle, locked, pending, rest, due, calling, closing, lost>>
vars == <<tables, fleet, movement, firing, ending>>

Dispatch == INSTANCE RideDispatch WITH
    rideStatus <- rideStatus, rideDriver <- rideDriver, driverStatus <- driverStatus

Outcomes == {"matched", "unmatched", "error"}

Slots == {"new", "skipped", "ready", "barrier", "waiting", "schedule", "done"}

TypeOK ==
    /\ rideStatus \in [Ride -> RideStatus]
    /\ rideDriver \in [Ride -> Driver \cup {NoDriver}]
    /\ driverStatus \in [Driver -> DriverStatus]
    /\ fleet \subseteq Driver
    /\ movement \in {"off", "sleep", "tick", "ended"}
    /\ main \in {"setup", "aborted", "loop", "riders", "fire", "sleep", "join", "done"}
    /\ fired \in 0..NumRiders
    /\ burst \subseteq Ride /\ Cardinality(burst) <= BurstSize
    /\ slot \in [Ride -> Slots]
    /\ request \in [Ride -> {"none", "sent", "created"} \cup Outcomes]
    /\ outcomes \in [Ride -> Seq(Outcomes)]
    /\ stop \in BOOLEAN /\ locked \in BOOLEAN
    /\ lifecycle \in {"off", "sleep", "assign", "close", "ended"}
    /\ pending \subseteq Ride /\ rest \subseteq Ride /\ due \subseteq Ride
    /\ closing \subseteq Ride /\ lost \subseteq Ride
    /\ calling \in Ride \cup {NoRide}

Init ==
    /\ Dispatch!Init
    /\ fleet = {} /\ movement = "off"
    /\ main = "setup" /\ fired = 0 /\ burst = {}
    /\ slot = [r \in Ride |-> "new"]
    /\ request = [r \in Ride |-> "none"]
    /\ outcomes = [r \in Ride |-> <<>>]
    /\ stop = FALSE /\ lifecycle = "off" /\ locked = FALSE
    /\ pending = {} /\ rest = {} /\ due = {} /\ calling = NoRide /\ closing = {} /\ lost = {}

-----------------------------------------------------------------------------
\* run(): setup, the request loop, and the end.

CreateDriver(d) ==
    /\ main = "setup"
    /\ d \notin fleet
    /\ fleet' = fleet \cup {d}
    /\ UNCHANGED <<tables, movement, firing, ending>>

\* create_driver raises: nothing catches it and no thread has been started.
CreateDriverFails ==
    /\ main = "setup"
    /\ fleet # Driver
    /\ main' = "aborted"
    /\ UNCHANGED <<tables, fleet, movement, fired, burst, slot, request, outcomes, ending>>

StartThreads ==
    /\ main = "setup"
    /\ fleet = Driver
    /\ main' = "loop"
    /\ movement' = "sleep" /\ lifecycle' = "sleep"
    /\ UNCHANGED <<tables, fleet, fired, burst, slot, request, outcomes,
                   stop, locked, pending, rest, due, calling, closing, lost>>

\* The loop's condition holds: the next burst, at most the riders remaining.
BeginBurst ==
    /\ main = "loop"
    /\ fired < NumRiders
    /\ burst' = (fired + 1)..Min({fired + BurstSize, NumRiders})
    /\ main' = "riders"
    /\ UNCHANGED <<tables, fleet, movement, fired, slot, request, outcomes, ending>>

\* All riders fired, or duration_seconds has passed.
EndLoop ==
    /\ main = "loop"
    /\ main' = "join"
    /\ stop' = TRUE
    /\ UNCHANGED <<tables, fleet, movement, fired, burst, slot, request, outcomes,
                   lifecycle, locked, pending, rest, due, calling, closing, lost>>

\* Each thread has ended, or its join(timeout=5) has given up on it.
Return ==
    /\ main = "join"
    /\ main' = "done"
    /\ UNCHANGED <<tables, fleet, movement, fired, burst, slot, request, outcomes, ending>>

-----------------------------------------------------------------------------
\* fire_burst: riders one after the other, then all workers together.

NextRider == Min({r \in burst : slot[r] = "new"})

\* create_rider answers, or raises and the slot is skipped.
CreateRider(s) ==
    /\ main = "riders"
    /\ \E r \in burst : slot[r] = "new"
    /\ s \in {"ready", "skipped"}
    /\ slot' = [slot EXCEPT ![NextRider] = s]
    /\ UNCHANGED <<tables, fleet, movement, main, fired, burst, request, outcomes, ending>>

\* The barrier and the executor are made; with no rider at all it returns.
BeginFire ==
    /\ main = "riders"
    /\ \A r \in burst : slot[r] # "new"
    /\ main' = "fire"
    /\ UNCHANGED <<tables, fleet, movement, fired, burst, slot, request, outcomes, ending>>

\* threading.Barrier(len(riders))
Parties == {r \in burst : slot[r] # "skipped"}

\* Mutant: a pool one thread smaller than the barrier.
MaxWorkersShort == Max({Cardinality(Parties) - 1, 1})

\* ThreadPoolExecutor(max_workers=len(riders))
MaxWorkers == Cardinality(Parties)

\* The executor has a thread for the worker, which waits at the barrier.
StartWorker(r) ==
    /\ main = "fire"
    /\ r \in Parties
    /\ slot[r] = "ready"
    /\ Cardinality({s \in burst : slot[s] \in {"barrier", "waiting", "schedule"}}) < MaxWorkers
    /\ slot' = [slot EXCEPT ![r] = "barrier"]
    /\ UNCHANGED <<tables, fleet, movement, main, fired, burst, request, outcomes, ending>>

\* Every party has arrived: POST /rides is sent.
SendRequest(r) ==
    /\ slot[r] = "barrier"
    /\ \A s \in Parties : slot[s] # "ready"
    /\ slot' = [slot EXCEPT ![r] = "waiting"]
    /\ request' = [request EXCEPT ![r] = "sent"]
    /\ UNCHANGED <<tables, fleet, movement, main, fired, burst, outcomes, ending>>

Record(r, o) == outcomes' = [outcomes EXCEPT ![r] = Append(@, o)]

\* The answer arrives.  A 201 with a driver_id is scheduled for its end.
ReceiveAnswer(r) ==
    /\ slot[r] = "waiting"
    /\ request[r] \in Outcomes
    /\ Record(r, request[r])
    /\ slot' = [slot EXCEPT ![r] = IF request[r] = "matched" THEN "schedule" ELSE "done"]
    /\ UNCHANGED <<tables, fleet, movement, main, fired, burst, request, ending>>

\* Mutant: a timeout is reported as a ride without a driver.
RequestRaisesUnmatched(r) ==
    /\ slot[r] = "waiting"
    /\ Record(r, "unmatched")
    /\ slot' = [slot EXCEPT ![r] = "done"]
    /\ UNCHANGED <<tables, fleet, movement, main, fired, burst, request, ending>>

\* The call raises (timeout, broken connection), wherever the server is.
RequestRaises(r) ==
    /\ slot[r] = "waiting"
    /\ Record(r, "error")
    /\ slot' = [slot EXCEPT ![r] = "done"]
    /\ UNCHANGED <<tables, fleet, movement, main, fired, burst, request, ending>>

\* Mutant: the append does not take _pending_lock.
ScheduleLifecycleUnlocked(r) ==
    /\ slot[r] = "schedule"
    /\ pending' = pending \cup {r}
    /\ slot' = [slot EXCEPT ![r] = "done"]
    /\ UNCHANGED <<tables, fleet, movement, main, fired, burst, request, outcomes,
                   stop, lifecycle, locked, rest, due, calling, closing, lost>>

\* _schedule_lifecycle: when it is due and how it ends are random.
ScheduleLifecycle(r) ==
    /\ slot[r] = "schedule"
    /\ ~locked
    /\ pending' = pending \cup {r}
    /\ slot' = [slot EXCEPT ![r] = "done"]
    /\ UNCHANGED <<tables, fleet, movement, main, fired, burst, request, outcomes,
                   stop, lifecycle, locked, rest, due, calling, closing, lost>>

\* Every worker has returned; a skipped rider counts as fired too.
EndBurst ==
    /\ main = "fire"
    /\ \A r \in Parties : slot[r] = "done"
    /\ fired' = fired + Cardinality(burst)
    /\ burst' = {}
    /\ main' = "sleep"
    /\ UNCHANGED <<tables, fleet, movement, slot, request, outcomes, ending>>

EndSleep ==
    /\ main = "sleep"
    /\ main' = "loop"
    /\ UNCHANGED <<tables, fleet, movement, fired, burst, slot, request, outcomes, ending>>

-----------------------------------------------------------------------------
\* The server's side of POST /rides.

Handle(r, from, to) ==
    /\ request[r] = from
    /\ request' = [request EXCEPT ![r] = to]
    /\ UNCHANGED <<fleet, movement, main, fired, burst, slot, outcomes, ending>>

ServerCreates(r) == Handle(r, "sent", "created") /\ Dispatch!Request(r)

ServerMatches(r, d) == d \in fleet /\ Handle(r, "created", "matched") /\ Dispatch!Match(r, d)

ServerUnmatched(r) == Handle(r, "created", "unmatched") /\ UNCHANGED tables

\* Any other status than 201, before or after the ride was committed.
ServerErrs(r) ==
    /\ \E from \in {"sent", "created"} : Handle(r, from, "error")
    /\ UNCHANGED tables

-----------------------------------------------------------------------------
\* The lifecycle thread.

\* _lifecycle_tick, under the lock: the due rides are taken ...
TakeDue ==
    /\ lifecycle = "sleep"
    /\ ~stop
    /\ \E now \in SUBSET pending : due' = now /\ rest' = pending \ now
    /\ locked' = TRUE
    /\ lifecycle' = "assign"
    /\ UNCHANGED <<tables, fleet, movement, firing, stop, pending, calling, closing, lost>>

\* ... and _pending_rides is replaced by the others.
AssignPending ==
    /\ lifecycle = "assign"
    /\ pending' = rest
    /\ rest' = {}
    /\ locked' = FALSE
    /\ lifecycle' = "close"
    /\ UNCHANGED <<tables, fleet, movement, firing, stop, due, calling, closing, lost>>

\* cancel_ride or complete_ride of the next due ride is sent.
CallClose(r) ==
    /\ lifecycle = "close"
    /\ calling = NoRide
    /\ r \in due
    /\ due' = due \ {r}
    /\ calling' = r
    /\ closing' = closing \cup {r}
    /\ UNCHANGED <<tables, fleet, movement, firing, stop, lifecycle, locked, pending, rest, lost>>

ServerCloses(r) ==
    /\ r \in closing
    /\ Dispatch!Cancel(r) \/ Dispatch!Complete(r)
    /\ closing' = closing \ {r}
    /\ UNCHANGED <<fleet, movement, firing, stop, lifecycle, locked, pending, rest, due, calling, lost>>

CloseReturns ==
    /\ calling # NoRide
    /\ calling \notin closing
    /\ calling' = NoRide
    /\ UNCHANGED <<tables, fleet, movement, firing, stop, lifecycle, locked, pending, rest, due, closing, lost>>

\* The call raises: logged, never tried again.  The server may have refused
\* it, may have done it, or may still do it.
CloseRaises ==
    /\ calling # NoRide
    /\ lost' = lost \cup {calling}
    /\ calling' = NoRide
    /\ closing' \in {closing, closing \ {calling}}
    /\ UNCHANGED <<tables, fleet, movement, firing, stop, lifecycle, locked, pending, rest, due>>

EndTick ==
    /\ lifecycle = "close"
    /\ calling = NoRide /\ due = {}
    /\ lifecycle' = "sleep"
    /\ UNCHANGED <<tables, fleet, movement, firing, stop, locked, pending, rest, due, calling, closing, lost>>

\* The stop event is looked at between two ticks only.
EndLifecycle ==
    /\ lifecycle = "sleep"
    /\ stop
    /\ lifecycle' = "ended"
    /\ UNCHANGED <<tables, fleet, movement, firing, stop, locked, pending, rest, due, calling, closing, lost>>

-----------------------------------------------------------------------------
\* The movement thread.

\* _movement_tick: PATCH /drivers/{id}/location for each driver of the fleet,
\* in a pool of threads.
BeginMove ==
    /\ movement = "sleep"
    /\ ~stop
    /\ movement' = "tick"
    /\ UNCHANGED <<tables, fleet, firing, ending>>

\* Every call has returned or raised; the server's side of it is
\* CandidateSearch's UpdateLocation.
EndMove ==
    /\ movement = "tick"
    /\ movement' = "sleep"
    /\ UNCHANGED <<tables, fleet, firing, ending>>

\* The stop event is looked at between two ticks only, as above.
EndMovement ==
    /\ movement = "sleep"
    /\ stop
    /\ movement' = "ended"
    /\ UNCHANGED <<tables, fleet, firing, ending>>

-----------------------------------------------------------------------------
MainThread ==
    \/ \E d \in Driver : CreateDriver(d)
    \/ CreateDriverFails \/ StartThreads
    \/ BeginBurst \/ EndLoop \/ Return
    \/ \E s \in Slots : CreateRider(s)
    \/ BeginFire \/ EndBurst \/ EndSleep

MovementThread == BeginMove \/ EndMove \/ EndMovement

\* An unanswered call ends by its timeout at the latest.
WorkerThread(r) ==
    \/ StartWorker(r) \/ SendRequest(r)
    \/ ReceiveAnswer(r) \/ RequestRaises(r)
    \/ ScheduleLifecycle(r)

LifecycleThread ==
    \/ TakeDue \/ AssignPending
    \/ \E r \in Ride : CallClose(r)
    \/ CloseReturns \/ CloseRaises
    \/ EndTick \/ EndLifecycle

Server(r) ==
    \/ ServerCreates(r)
    \/ \E d \in Driver : ServerMatches(r, d)
    \/ ServerUnmatched(r) \/ ServerErrs(r)
    \/ ServerCloses(r)

Next ==
    \/ MainThread
    \/ \E r \in Ride : WorkerThread(r) \/ Server(r)
    \/ LifecycleThread \/ MovementThread

Spec == Init /\ [][Next]_vars

\* Every thread runs and gets a lock that is free again and again, and every
\* call has a timeout.
Fairness ==
    /\ WF_vars(MainThread)
    /\ WF_vars(LifecycleThread)
    /\ WF_vars(MovementThread)
    /\ \A r \in Ride : SF_vars(WorkerThread(r))

FairSpec == Spec /\ Fairness

-----------------------------------------------------------------------------
(***************************************************************************)
(* Safety.                                                                 *)
(***************************************************************************)

\* summarize
Summary(o) == Cardinality({r \in Ride : \E i \in DOMAIN outcomes[r] : outcomes[r][i] = o})

Driven == {r \in Ride : rideDriver[r] # NoDriver}

\* __main__.py prints the summary beside the server's own figures as a
\* cross-check.  When a burst is over each of its riders is in the results
\* exactly once, a skipped one never.  At the end every ride reported as
\* matched has its driver on the server, and the server has no other but those
\* whose request was reported as an error: the two figures differ by at most
\* the errors.
CrossCheck ==
    /\ \A r \in 1..fired : Len(outcomes[r]) = IF slot[r] = "skipped" THEN 0 ELSE 1
    /\ main = "done" =>
         /\ \A r \in Ride : outcomes[r] = <<"matched">> => r \in Driven
         /\ \A r \in Ride : outcomes[r] = <<"unmatched">> => r \notin Driven
         /\ Cardinality(Driven) <= Summary("matched") + Summary("error")

\* runner.py: no ride is dropped between the burst's workers and the lifecycle
\* thread.  A driver is busy only for a ride whose request is still in a
\* worker's hands, that is scheduled or being closed, whose closing call
\* raised, or whose answer never reached the client.  A ride that is still
\* scheduled when the thread has been stopped stays so, with its driver.
BusyIsAccountedFor ==
    \A r \in Driven :
        rideStatus[r] \in ActiveStatuses =>
            \/ slot[r] \in {"waiting", "schedule"}
            \/ r \in pending \cup due \cup closing \cup lost
            \/ outcomes[r] = <<"error">>

-----------------------------------------------------------------------------
(***************************************************************************)
(* Liveness, under Fairness.                                               *)
(***************************************************************************)

\* run() returns and leaves no thread behind: no burst hangs at its barrier,
\* even if some riders could not be created, no call holds it up for good,
\* and the movement and the lifecycle thread end once their tick is over.
RunEnds ==
    <>(/\ main \in {"done", "aborted"}
       /\ lifecycle \in {"off", "ended"}
       /\ movement \in {"off", "ended"})

=============================================================================
