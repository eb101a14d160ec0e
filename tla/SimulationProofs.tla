-------------------------- MODULE SimulationProofs --------------------------
(***************************************************************************)
(* Proofs about Simulation, for any number of riders, drivers and any      *)
(* burst size.                                                             *)
(***************************************************************************)
EXTENDS Simulation, FiniteSetTheorems, WellFoundedInduction, TLAPS

USE RidersAssumption, BurstAssumption, NoDriverAssumption

-----------------------------------------------------------------------------
\* The inductive invariant.

\* The bursts follow each other without a gap or an overlap: riders up to
\* fired are through, those of the burst in hand are next, the others new.
Bursts ==
    /\ \E k \in fired..NumRiders :
         /\ burst = (fired + 1)..k
         /\ k <= fired + BurstSize
         /\ main \notin {"riders", "fire"} => k = fired
    /\ \A r \in Ride : r <= fired => slot[r] \in {"skipped", "done"}
    /\ \A r \in Ride : r > fired /\ r \notin burst => slot[r] = "new"
    /\ main = "fire" => \A r \in burst : slot[r] # "new"

\* What a worker has recorded, and what the server did with its request.
WorkerOf(r) ==
    /\ slot[r] \in {"new", "skipped", "ready", "barrier"} => request[r] = "none" /\ outcomes[r] = <<>>
    /\ slot[r] = "waiting" => request[r] # "none" /\ outcomes[r] = <<>>
    /\ slot[r] = "schedule" => request[r] = "matched" /\ outcomes[r] = <<"matched">>
    /\ slot[r] = "done" => \/ outcomes[r] = <<"error">>
                           \/ request[r] \in Outcomes /\ outcomes[r] = <<request[r]>>
    /\ rideDriver[r] # NoDriver <=> request[r] = "matched"

Workers == \A r \in Ride : WorkerOf(r)

\* The lifecycle thread holds the lock exactly while it replaces
\* _pending_rides, and then every pending ride is either due or kept.
Tick ==
    /\ main = "setup" => lifecycle = "off"
    /\ locked <=> lifecycle = "assign"
    /\ lifecycle = "assign" => pending = rest \cup due
    /\ lifecycle \in {"off", "sleep", "ended"} => due = {}

\* A ride reported as matched is with the lifecycle thread until it is closed.
HandedOver(r) ==
    slot[r] = "done" /\ outcomes[r] = <<"matched">> =>
        rideStatus[r] \notin ActiveStatuses \/ r \in pending \cup due \cup closing \cup lost

Handover == \A r \in Ride : HandedOver(r)

IInv == TypeOK /\ Bursts /\ Workers /\ Tick /\ Handover

-----------------------------------------------------------------------------
\* Arithmetic of the bursts.

\* A set of numbers has a smallest: among the sets 1..n, one is least by
\* inclusion.
LEMMA SmallestNumber ==
  ASSUME NEW S \in SUBSET Nat, S # {}
  PROVE  Min(S) \in S /\ \A y \in S : Min(S) =< y
<1> DEFINE T == {1..n : n \in S}
<1>1. T \subseteq FiniteSubsetsOf(Nat)
  <2>1. \A n \in Nat : IsFiniteSet(1..n) /\ 1..n \subseteq Nat
    BY FS_Interval
  <2> QED
    BY <2>1 DEF FiniteSubsetsOf
<1>2. T # {}
  OBVIOUS
<1>3. PICK t \in T : \A u \in T : ~(<<u, t>> \in StrictSubsetOrdering(Nat))
  <2> HIDE DEF T
  <2> QED
    BY <1>1, <1>2, WFMin, FS_StrictSubsetOrderingWellFounded
<1>4. PICK x \in S : t = 1..x
  BY <1>3
<1>5. ASSUME NEW y \in S, y < x
      PROVE  FALSE
  <2>1. 1..y \in T /\ 1..x \in T
    OBVIOUS
  <2>2. 1..y \in FiniteSubsetsOf(Nat) /\ 1..x \in FiniteSubsetsOf(Nat)
    BY <1>1, <2>1
  <2>3. 1..y \subseteq 1..x /\ 1..y # 1..x
    <3>1. x \in 1..x /\ x \notin 1..y
      BY <1>5
    <3> QED
      BY <1>5, <3>1
  <2>4. <<1..y, 1..x>> \in StrictSubsetOrdering(Nat)
    BY <2>2, <2>3 DEF StrictSubsetOrdering, FiniteSubsetsOf
  <2> QED
    BY <1>3, <1>4, <2>1, <2>4
<1>6. \E z \in S : \A y \in S : z =< y
  BY <1>5
<1> QED
  BY ONLY <1>6, Zenon DEF Min

\* The next rider is one of the burst that has not been created.
LEMMA NextRiderIsNew ==
  ASSUME TypeOK, \E r \in burst : slot[r] = "new"
  PROVE  NextRider \in burst /\ slot[NextRider] = "new"
<1> DEFINE S == {r \in burst : slot[r] = "new"}
<1>1. S \in SUBSET Nat /\ S # {}
  <2>1. burst \subseteq Nat
    BY DEF TypeOK
  <2>2. S # {}
    OBVIOUS
  <2> QED
    BY <2>1, <2>2
<1>2. Min(S) \in S
  BY <1>1, SmallestNumber
<1> QED
  BY <1>2 DEF NextRider

\* A burst's size is the distance between its ends.
LEMMA BurstCardinality ==
  ASSUME NEW f \in Nat, NEW k \in Nat, f <= k
  PROVE  IsFiniteSet((f + 1)..k) /\ Cardinality((f + 1)..k) = k - f
<1>1. /\ IsFiniteSet((f + 1)..k)
      /\ Cardinality((f + 1)..k) = IF f + 1 > k THEN 0 ELSE k - (f + 1) + 1
  BY FS_Interval
<1> QED
  BY <1>1

\* The next burst takes BurstSize riders, or all that are left.
LEMMA BurstEnd ==
  ASSUME NEW f \in Nat, f <= NumRiders
  PROVE  LET k == Min({f + BurstSize, NumRiders})
         IN  k \in f..NumRiders /\ k <= f + BurstSize
<1> DEFINE S == {f + BurstSize, NumRiders}
<1>1. \E x \in S : \A y \in S : x =< y
  OBVIOUS
<1>2. Min(S) \in S /\ \A y \in S : Min(S) =< y
  BY <1>1 DEF Min
<1> QED
  BY <1>2

-----------------------------------------------------------------------------
\* The steps that leave the bursts alone.

\* Only the main thread and the workers move the bursts on.
LEMMA FiringFrame ==
  ASSUME [Next]_vars, ~MainThread, ~ \E r \in Ride : WorkerThread(r)
  PROVE  UNCHANGED <<main, fired, burst, slot, outcomes>>
<1>1. ASSUME NEW r \in Ride, Server(r)
      PROVE  UNCHANGED <<main, fired, burst, slot, outcomes>>
  BY <1>1 DEF Server, ServerCreates, ServerMatches, ServerUnmatched, ServerErrs, ServerCloses,
              Handle, firing
<1>2. CASE LifecycleThread
  BY <1>2 DEF LifecycleThread, TakeDue, AssignPending, CallClose, CloseReturns, CloseRaises,
              EndTick, EndLifecycle, firing
<1>3. CASE UNCHANGED vars \/ MovementThread
  BY <1>3 DEF vars, MovementThread, BeginMove, EndMove, EndMovement, firing
<1> QED
  BY <1>1, <1>2, <1>3 DEF Next

\* A worker's step moves one slot that is neither new nor through.
LEMMA WorkerMoves ==
  ASSUME TypeOK, NEW r \in Ride, WorkerThread(r)
  PROVE  /\ slot[r] \in {"ready", "barrier", "waiting", "schedule"}
         /\ \E x \in {"barrier", "waiting", "schedule", "done"} : slot' = [slot EXCEPT ![r] = x]
         /\ UNCHANGED <<main, fired, burst>>
BY DEF WorkerThread, StartWorker, SendRequest, ReceiveAnswer, RequestRaises, ScheduleLifecycle

\* Every step keeps the bursts in sequence.
LEMMA BurstsStep ==
  ASSUME TypeOK, Bursts, [Next]_vars
  PROVE  Bursts'
<1>0. /\ fired \in Nat /\ fired <= NumRiders /\ slot \in [Ride -> Slots] /\ burst \subseteq Ride
      /\ \A r \in Ride : r \in Nat
  BY DEF TypeOK
<1>1. CASE UNCHANGED <<main, fired, burst, slot>>
  BY <1>1 DEF Bursts
<1>2. ASSUME NEW r \in Ride, WorkerThread(r)
      PROVE  Bursts'
  <2>1. /\ slot[r] \in {"ready", "barrier", "waiting", "schedule"}
        /\ \E x \in {"barrier", "waiting", "schedule", "done"} : slot' = [slot EXCEPT ![r] = x]
        /\ UNCHANGED <<main, fired, burst>>
    BY <1>2, WorkerMoves
  <2>2. \A q \in Ride : q # r => slot'[q] = slot[q]
    BY <1>0, <2>1
  <2>3. slot'[r] # "new"
    BY <1>0, <2>1
  <2>4. r > fired /\ r \in burst
    BY <1>0, <2>1 DEF Bursts
  <2> QED
    BY <1>0, <2>1, <2>2, <2>3, <2>4 DEF Bursts
<1>3. ASSUME main \notin {"riders", "fire"}, main' \notin {"riders", "fire"},
             UNCHANGED <<fired, burst, slot>>
      PROVE  Bursts'
  BY <1>3 DEF Bursts
<1>4. ASSUME NEW d \in Driver, CreateDriver(d)
      PROVE  Bursts'
  BY <1>1, <1>4 DEF CreateDriver, firing
<1>5. CASE CreateDriverFails \/ StartThreads \/ EndLoop \/ Return \/ EndSleep
  BY <1>3, <1>5 DEF CreateDriverFails, StartThreads, EndLoop, Return, EndSleep
<1>6. CASE BeginBurst
  <2> DEFINE k == Min({fired + BurstSize, NumRiders})
  <2>1. k \in fired..NumRiders /\ k <= fired + BurstSize
    BY <1>0, BurstEnd
  <2>2. burst' = (fired + 1)..k /\ main' = "riders" /\ UNCHANGED <<fired, slot>> /\ main = "loop"
    BY <1>6 DEF BeginBurst
  <2> HIDE DEF k
  <2>3. burst = {}
    <3>1. PICK j \in fired..NumRiders : burst = (fired + 1)..j /\ j = fired
      BY <2>2 DEF Bursts
    <3> QED
      BY <1>0, <3>1
  <2> QED
    BY <1>0, <2>1, <2>2, <2>3 DEF Bursts
<1>7. ASSUME NEW s \in Slots, CreateRider(s)
      PROVE  Bursts'
  <2>1. /\ slot' = [slot EXCEPT ![NextRider] = s] /\ s # "new" /\ main = "riders"
        /\ UNCHANGED <<main, fired, burst>>
    BY <1>7 DEF CreateRider
  <2>2. NextRider \in burst /\ NextRider \in Ride
    BY <1>0, <1>7, NextRiderIsNew DEF CreateRider
  <2>3. NextRider > fired
    <3>1. PICK j \in fired..NumRiders : burst = (fired + 1)..j
      BY DEF Bursts
    <3> QED
      BY <1>0, <2>2, <3>1
  <2>4. \A q \in Ride : q # NextRider => slot'[q] = slot[q]
    BY <1>0, <2>1
  <2> QED
    BY <1>0, <2>1, <2>2, <2>3, <2>4 DEF Bursts
<1>8. CASE BeginFire
  BY <1>8 DEF BeginFire, Bursts
<1>9. CASE EndBurst
  <2>1. /\ main = "fire" /\ UNCHANGED slot
        /\ \A r \in Parties : slot[r] = "done"
        /\ fired' = fired + Cardinality(burst) /\ burst' = {} /\ main' = "sleep"
    BY <1>9 DEF EndBurst
  <2>2. PICK k \in fired..NumRiders : burst = (fired + 1)..k
    BY DEF Bursts
  <2>3. fired' = k
    <3>1. k \in Nat /\ fired <= k
      BY <1>0, <2>2
    <3>2. Cardinality((fired + 1)..k) = k - fired
      BY <1>0, <3>1, BurstCardinality
    <3> QED
      BY <1>0, <2>1, <2>2, <3>1, <3>2
  <2>4. k \in Nat /\ k \in k..NumRiders /\ burst' = (k + 1)..k /\ k <= k + BurstSize /\ fired <= k
    BY <1>0, <2>1, <2>2
  <2>5. \A r \in burst : slot[r] \in {"skipped", "done"}
    BY <2>1 DEF Parties
  <2>6. \A r \in Ride : r <= k => r <= fired \/ r \in burst
    BY <1>0, <2>2, <2>4
  <2>7. \A r \in Ride : r > k => r > fired /\ r \notin burst
    BY <1>0, <2>2, <2>4
  <2>8. \A r \in Ride : r <= k => slot[r] \in {"skipped", "done"}
    BY <2>5, <2>6 DEF Bursts
  <2>9. \A r \in Ride : r > k => slot[r] = "new"
    BY <2>7 DEF Bursts
  <2>10. \E j \in fired'..NumRiders :
           burst' = (fired' + 1)..j /\ j <= fired' + BurstSize /\ j = fired'
    BY <2>3, <2>4
  <2>11. \A r \in Ride : r <= fired' => slot'[r] \in {"skipped", "done"}
    BY <2>1, <2>3, <2>4, <2>8
  <2>12. \A r \in Ride : r > fired' => slot'[r] = "new"
    BY <2>1, <2>3, <2>4, <2>9
  <2> QED
    BY <2>1, <2>10, <2>11, <2>12 DEF Bursts
<1> QED
  BY <1>1, <1>2, <1>4, <1>5, <1>6, <1>7, <1>8, <1>9, FiringFrame DEF MainThread

-----------------------------------------------------------------------------
\* The workers and the server.

\* What WorkerOf says of a ride depends on that ride's state only.
LEMMA WorkerFrame ==
  ASSUME NEW r \in Ride, WorkerOf(r),
         slot'[r] = slot[r], request'[r] = request[r],
         outcomes'[r] = outcomes[r], rideDriver'[r] = rideDriver[r]
  PROVE  WorkerOf(r)'
BY DEF WorkerOf

\* Every step keeps what a worker records in line with the server.
LEMMA WorkersStep ==
  ASSUME TypeOK, Workers, [Next]_vars
  PROVE  Workers'
<1>0. /\ slot \in [Ride -> Slots] /\ outcomes \in [Ride -> Seq(Outcomes)]
      /\ request \in [Ride -> {"none", "sent", "created"} \cup Outcomes]
      /\ rideDriver \in [Ride -> Driver \cup {NoDriver}] /\ burst \subseteq Ride
  BY DEF TypeOK
<1> SUFFICES ASSUME NEW q \in Ride
             PROVE  WorkerOf(q)'
  BY DEF Workers
<1>a. WorkerOf(q)
  BY DEF Workers
<1>1. CASE UNCHANGED <<slot, request, outcomes, rideDriver>>
  BY <1>1, <1>a, WorkerFrame
<1>2. CASE \/ \E d \in Driver : CreateDriver(d)
           \/ CreateDriverFails \/ StartThreads
           \/ BeginBurst \/ EndLoop \/ Return
           \/ BeginFire \/ EndBurst \/ EndSleep
  BY <1>1, <1>2 DEF CreateDriver, CreateDriverFails, StartThreads, BeginBurst, EndLoop, Return,
                    BeginFire, EndBurst, EndSleep, firing, tables
<1>3. ASSUME NEW s \in Slots, CreateRider(s)
      PROVE  WorkerOf(q)'
  <2>1. /\ slot' = [slot EXCEPT ![NextRider] = s] /\ s \in {"ready", "skipped"}
        /\ UNCHANGED <<request, outcomes, rideDriver>>
    BY <1>3 DEF CreateRider, tables
  <2>2. NextRider \in Ride /\ slot[NextRider] = "new"
    BY <1>0, <1>3, NextRiderIsNew DEF CreateRider
  <2>3. CASE q = NextRider
    BY <1>0, <1>a, <2>1, <2>2, <2>3 DEF WorkerOf
  <2>4. CASE q # NextRider
    BY <1>0, <1>a, <2>1, <2>4, WorkerFrame
  <2> QED
    BY <2>3, <2>4
<1>4. ASSUME NEW r \in Ride, WorkerThread(r)
      PROVE  WorkerOf(q)'
  <2>0. rideDriver' = rideDriver
    BY <1>4 DEF WorkerThread, StartWorker, SendRequest, ReceiveAnswer, RequestRaises,
                ScheduleLifecycle, tables
  <2>1. CASE q # r
    <3>1. slot'[q] = slot[q] /\ request'[q] = request[q] /\ outcomes'[q] = outcomes[q]
      BY <1>0, <1>4, <2>1 DEF WorkerThread, StartWorker, SendRequest, ReceiveAnswer,
                              RequestRaises, ScheduleLifecycle, Record
    <3> QED
      BY <1>a, <2>0, <3>1, WorkerFrame
  <2>2. CASE q = r /\ StartWorker(r)
    <3>1. slot[q] = "ready" /\ slot'[q] = "barrier" /\ UNCHANGED <<request, outcomes>>
      BY <1>0, <2>2 DEF StartWorker
    <3> QED
      BY <1>a, <2>0, <3>1 DEF WorkerOf
  <2>3. CASE q = r /\ SendRequest(r)
    <3>1. slot[q] = "barrier" /\ slot'[q] = "waiting" /\ request'[q] = "sent" /\ UNCHANGED outcomes
      BY <1>0, <2>3 DEF SendRequest
    <3> QED
      BY <1>a, <2>0, <3>1 DEF WorkerOf
  <2>4. CASE q = r /\ ReceiveAnswer(r)
    <3>1. /\ slot[q] = "waiting" /\ request[q] \in Outcomes /\ UNCHANGED request
          /\ slot'[q] = IF request[q] = "matched" THEN "schedule" ELSE "done"
          /\ outcomes'[q] = Append(outcomes[q], request[q])
      BY <1>0, <2>4 DEF ReceiveAnswer, Record
    <3>2. outcomes[q] = <<>>
      BY <1>a, <3>1 DEF WorkerOf
    <3>3. outcomes'[q] = <<request[q]>>
      BY <3>1, <3>2
    <3> QED
      BY <1>a, <2>0, <3>1, <3>3 DEF WorkerOf
  <2>5. CASE q = r /\ RequestRaises(r)
    <3>1. /\ slot[q] = "waiting" /\ slot'[q] = "done" /\ UNCHANGED request
          /\ outcomes'[q] = Append(outcomes[q], "error")
      BY <1>0, <2>5 DEF RequestRaises, Record
    <3>2. outcomes[q] = <<>>
      BY <1>a, <3>1 DEF WorkerOf
    <3>3. outcomes'[q] = <<"error">>
      BY <3>1, <3>2
    <3> QED
      BY <1>a, <2>0, <3>1, <3>3 DEF WorkerOf
  <2>6. CASE q = r /\ ScheduleLifecycle(r)
    <3>1. slot[q] = "schedule" /\ slot'[q] = "done" /\ UNCHANGED <<request, outcomes>>
      BY <1>0, <2>6 DEF ScheduleLifecycle
    <3> QED
      BY <1>a, <2>0, <3>1 DEF WorkerOf, Outcomes
  <2> QED
    BY <1>4, <2>1, <2>2, <2>3, <2>4, <2>5, <2>6 DEF WorkerThread
<1>5. ASSUME NEW r \in Ride, Server(r)
      PROVE  WorkerOf(q)'
  <2>1. CASE ServerCloses(r)
    BY <1>1, <2>1 DEF ServerCloses, Dispatch!Cancel, Dispatch!Complete, Dispatch!Close, firing
  <2>2. ASSUME NEW from \in {"sent", "created"}, NEW to \in {"created"} \cup Outcomes,
               Handle(r, from, to),
               rideDriver'[r] # NoDriver <=> to = "matched",
               q # r => rideDriver'[q] = rideDriver[q]
        PROVE  WorkerOf(q)'
    <3>1. /\ request[r] = from /\ request' = [request EXCEPT ![r] = to] /\ UNCHANGED <<slot, outcomes>>
      BY <2>2 DEF Handle
    <3>2. CASE q # r
      BY <1>0, <1>a, <2>2, <3>1, <3>2, WorkerFrame
    <3>3. CASE q = r
      <4>1. request'[q] = to /\ to # "none" /\ request[q] \notin Outcomes \cup {"none"}
        BY <1>0, <2>2, <3>1, <3>3 DEF Outcomes
      <4>2. slot[q] \in {"waiting", "done"} /\ (slot[q] = "done" => outcomes[q] = <<"error">>)
        BY <1>0, <1>a, <4>1 DEF WorkerOf, Outcomes, Slots
      <4> QED
        BY <1>a, <2>2, <3>1, <3>3, <4>1, <4>2 DEF WorkerOf
    <3> QED
      BY <3>2, <3>3
  <2>3. CASE ServerCreates(r) \/ ServerUnmatched(r) \/ ServerErrs(r)
    <3>1. PICK from \in {"sent", "created"}, to \in {"created", "unmatched", "error"} :
            Handle(r, from, to) /\ UNCHANGED rideDriver
      BY <2>3 DEF ServerCreates, ServerUnmatched, ServerErrs, Dispatch!Request, tables
    <3>2. request[r] # "matched"
      BY <3>1 DEF Handle
    <3>3. rideDriver[r] = NoDriver
      BY <3>2 DEF Workers, WorkerOf
    <3> QED
      BY <2>2, <3>1, <3>3 DEF Outcomes
  <2>4. ASSUME NEW d \in Driver, ServerMatches(r, d)
        PROVE  WorkerOf(q)'
    <3>1. Handle(r, "created", "matched") /\ rideDriver' = [rideDriver EXCEPT ![r] = d]
      BY <2>4 DEF ServerMatches, Dispatch!Match
    <3>2. rideDriver'[r] # NoDriver /\ (q # r => rideDriver'[q] = rideDriver[q])
      BY <1>0, <3>1
    <3> QED
      BY <2>2, <3>1, <3>2 DEF Outcomes
  <2> QED
    BY <1>5, <2>1, <2>3, <2>4 DEF Server
<1>6. CASE LifecycleThread
  BY <1>1, <1>6 DEF LifecycleThread, TakeDue, AssignPending, CallClose, CloseReturns, CloseRaises,
                    EndTick, EndLifecycle, firing, tables
<1>7. CASE UNCHANGED vars \/ MovementThread
  BY <1>1, <1>7 DEF vars, MovementThread, BeginMove, EndMove, EndMovement, firing, tables
<1> QED
  BY <1>2, <1>3, <1>4, <1>5, <1>6, <1>7 DEF Next, MainThread

-----------------------------------------------------------------------------
\* The lifecycle thread.

\* The main thread, the workers that do not schedule and the server leave the
\* lifecycle thread's lists alone, except that the server closes rides.
LEMMA ListsFrame ==
  ASSUME [Next]_vars, ~LifecycleThread, ~ \E r \in Ride : ScheduleLifecycle(r)
  PROVE  /\ UNCHANGED <<locked, pending, rest, due, lost>>
         /\ main' = "setup" => main = "setup"
         /\ lifecycle' = lifecycle \/ (main = "setup" /\ main' # "setup" /\ lifecycle' = "sleep")
         /\ closing' = closing \/ \E r \in Ride : ServerCloses(r)
<1>1. CASE MainThread
  BY <1>1 DEF MainThread, CreateDriver, CreateDriverFails, StartThreads, BeginBurst, EndLoop,
              Return, CreateRider, BeginFire, EndBurst, EndSleep, ending, firing
<1>2. ASSUME NEW r \in Ride, WorkerThread(r), ~ScheduleLifecycle(r)
      PROVE  UNCHANGED <<locked, pending, rest, due, lost, lifecycle, closing, main>>
  BY <1>2 DEF WorkerThread, StartWorker, SendRequest, ReceiveAnswer, RequestRaises, ending
<1>3. ASSUME NEW r \in Ride, Server(r)
      PROVE  UNCHANGED <<locked, pending, rest, due, lost, lifecycle, main>>
             /\ (closing' = closing \/ ServerCloses(r))
  BY <1>3 DEF Server, ServerCreates, ServerMatches, ServerUnmatched, ServerErrs, ServerCloses,
              Handle, ending, firing
<1>4. CASE UNCHANGED vars \/ MovementThread
  BY <1>4 DEF vars, MovementThread, BeginMove, EndMove, EndMovement, ending, firing
<1> QED
  BY <1>1, <1>2, <1>3, <1>4 DEF Next

\* Every step keeps the lock with the thread that replaces the list.
LEMMA TickStep ==
  ASSUME TypeOK, Tick, [Next]_vars
  PROVE  Tick'
<1>0. locked \in BOOLEAN
  BY DEF TypeOK
<1>1. CASE LifecycleThread
  <2>0. UNCHANGED main
    BY <1>1 DEF LifecycleThread, TakeDue, AssignPending, CallClose, CloseReturns, CloseRaises,
                EndTick, EndLifecycle, firing
  <2>1. CASE TakeDue
    BY <2>0, <2>1 DEF TakeDue, Tick
  <2>2. CASE AssignPending
    BY <2>0, <2>2 DEF AssignPending, Tick
  <2>3. ASSUME NEW r \in Ride, CallClose(r)
        PROVE  Tick'
    BY <2>0, <2>3 DEF CallClose, Tick
  <2>4. CASE CloseReturns \/ CloseRaises
    BY <2>0, <2>4 DEF CloseReturns, CloseRaises, Tick
  <2>5. CASE EndTick \/ EndLifecycle
    BY <2>0, <2>5 DEF EndTick, EndLifecycle, Tick
  <2> QED
    BY <1>1, <2>1, <2>2, <2>3, <2>4, <2>5 DEF LifecycleThread
<1>2. ASSUME NEW r \in Ride, ScheduleLifecycle(r)
      PROVE  Tick'
  BY <1>2 DEF ScheduleLifecycle, Tick
<1>3. CASE /\ UNCHANGED <<locked, pending, rest, due>>
           /\ main' = "setup" => main = "setup"
           /\ lifecycle' = lifecycle \/ (main = "setup" /\ main' # "setup" /\ lifecycle' = "sleep")
  BY <1>3 DEF Tick
<1> QED
  BY <1>1, <1>2, <1>3, ListsFrame

\* A ride stays handed over while the lists together keep it.
LEMMA HandoverFrame ==
  ASSUME NEW r \in Ride, HandedOver(r), slot'[r] = slot[r], outcomes'[r] = outcomes[r],
         rideStatus'[r] = rideStatus[r] \/ rideStatus'[r] \notin ActiveStatuses,
         r \in pending \cup due \cup closing \cup lost =>
             r \in pending' \cup due' \cup closing' \cup lost' \/ rideStatus'[r] \notin ActiveStatuses
  PROVE  HandedOver(r)'
BY DEF HandedOver

\* Every step keeps a matched ride with the lifecycle thread until it is closed.
LEMMA HandoverStep ==
  ASSUME TypeOK, Workers, Tick, Handover, [Next]_vars
  PROVE  Handover'
<1>0. /\ slot \in [Ride -> Slots] /\ outcomes \in [Ride -> Seq(Outcomes)]
      /\ rideStatus \in [Ride -> RideStatus] /\ burst \subseteq Ride
  BY DEF TypeOK
<1> SUFFICES ASSUME NEW q \in Ride
             PROVE  HandedOver(q)'
  BY DEF Handover
<1>a. HandedOver(q) /\ WorkerOf(q)
  BY DEF Handover, Workers
<1>1. CASE UNCHANGED <<slot, outcomes, rideStatus, pending, due, closing, lost>>
  BY <1>1, <1>a, HandoverFrame
<1>2. CASE \/ \E d \in Driver : CreateDriver(d)
           \/ CreateDriverFails \/ StartThreads
           \/ BeginBurst \/ EndLoop \/ Return
           \/ BeginFire \/ EndBurst \/ EndSleep
  BY <1>1, <1>2 DEF CreateDriver, CreateDriverFails, StartThreads, BeginBurst, EndLoop, Return,
                    BeginFire, EndBurst, EndSleep, firing, tables, ending
<1>3. ASSUME NEW s \in Slots, CreateRider(s)
      PROVE  HandedOver(q)'
  <2>1. /\ slot' = [slot EXCEPT ![NextRider] = s] /\ s \in {"ready", "skipped"}
        /\ UNCHANGED <<outcomes, rideStatus, pending, due, closing, lost>>
    BY <1>3 DEF CreateRider, tables, ending
  <2>2. slot'[q] = slot[q] \/ slot'[q] # "done"
    BY <1>0, <2>1
  <2> QED
    BY <1>a, <2>1, <2>2 DEF HandedOver
<1>4. ASSUME NEW r \in Ride, WorkerThread(r)
      PROVE  HandedOver(q)'
  <2>0. UNCHANGED <<rideStatus, due, closing, lost>> /\ pending \subseteq pending'
    BY <1>4 DEF WorkerThread, StartWorker, SendRequest, ReceiveAnswer, RequestRaises,
                ScheduleLifecycle, tables, ending
  <2>1. CASE q # r
    <3>1. slot'[q] = slot[q] /\ outcomes'[q] = outcomes[q]
      BY <1>0, <1>4, <2>1 DEF WorkerThread, StartWorker, SendRequest, ReceiveAnswer,
                              RequestRaises, ScheduleLifecycle, Record
    <3> QED
      BY <1>a, <2>0, <3>1 DEF HandedOver
  <2>2. CASE q = r /\ (StartWorker(r) \/ SendRequest(r))
    <3>1. slot'[q] # "done"
      BY <1>0, <2>2 DEF StartWorker, SendRequest
    <3> QED
      BY <3>1 DEF HandedOver
  <2>4. CASE q = r /\ ReceiveAnswer(r)
    <3>1. /\ slot[q] = "waiting"
          /\ slot'[q] = IF request[q] = "matched" THEN "schedule" ELSE "done"
          /\ outcomes'[q] = Append(outcomes[q], request[q])
      BY <1>0, <2>4 DEF ReceiveAnswer, Record
    <3>2. outcomes[q] = <<>>
      BY <1>a, <3>1 DEF WorkerOf
    <3>3. outcomes'[q] = <<request[q]>>
      BY <3>1, <3>2
    <3>4. slot'[q] # "done" \/ outcomes'[q] # <<"matched">>
      BY <3>1, <3>3
    <3> QED
      BY <3>4 DEF HandedOver
  <2>5. CASE q = r /\ RequestRaises(r)
    <3>1. slot[q] = "waiting" /\ outcomes'[q] = Append(outcomes[q], "error")
      BY <1>0, <2>5 DEF RequestRaises, Record
    <3>2. outcomes[q] = <<>>
      BY <1>a, <3>1 DEF WorkerOf
    <3>3. outcomes'[q] # <<"matched">>
      BY <3>1, <3>2
    <3> QED
      BY <3>3 DEF HandedOver
  <2>6. CASE q = r /\ ScheduleLifecycle(r)
    BY <2>6 DEF ScheduleLifecycle, HandedOver
  <2> QED
    BY <1>4, <2>1, <2>2, <2>4, <2>5, <2>6 DEF WorkerThread
<1>5. ASSUME NEW r \in Ride, Server(r)
      PROVE  HandedOver(q)'
  <2>0. UNCHANGED <<slot, outcomes, pending, due, lost>>
    BY <1>5 DEF Server, ServerCreates, ServerMatches, ServerUnmatched, ServerErrs, ServerCloses,
                Handle, ending, firing
  <2>1. CASE ServerCloses(r)
    <3>1. /\ closing' = closing \ {r}
          /\ \E s \in TerminalStatuses : rideStatus' = [rideStatus EXCEPT ![r] = s]
      BY <2>1 DEF ServerCloses, Dispatch!Cancel, Dispatch!Complete, Dispatch!Close, TerminalStatuses
    <3>2. rideStatus'[q] = IF q = r THEN rideStatus'[r] ELSE rideStatus[q]
      BY <1>0, <3>1
    <3>3. rideStatus'[r] \notin ActiveStatuses
      BY <1>0, <3>1 DEF TerminalStatuses, ActiveStatuses
    <3> QED
      BY <1>a, <2>0, <3>1, <3>2, <3>3, HandoverFrame
  <2>2. ASSUME request[r] \in {"sent", "created"}, closing' = closing,
               q # r => rideStatus'[q] = rideStatus[q]
        PROVE  HandedOver(q)'
    <3>1. CASE q # r
      BY <1>a, <2>0, <2>2, <3>1 DEF HandedOver
    <3>2. CASE q = r
      <4>1. slot[q] = "done" => outcomes[q] = <<"error">>
        BY <1>a, <2>2, <3>2 DEF WorkerOf, Outcomes
      <4> QED
        BY <2>0, <4>1 DEF HandedOver
    <3> QED
      BY <3>1, <3>2
  <2>3. CASE ServerCreates(r)
    BY <1>0, <2>2, <2>3 DEF ServerCreates, Handle, ending, Dispatch!Request
  <2>4. CASE ServerUnmatched(r) \/ ServerErrs(r)
    BY <2>2, <2>4 DEF ServerUnmatched, ServerErrs, Handle, ending, tables
  <2>5. ASSUME NEW d \in Driver, ServerMatches(r, d)
        PROVE  HandedOver(q)'
    BY <1>0, <2>2, <2>5 DEF ServerMatches, Handle, ending, Dispatch!Match
  <2> QED
    BY <1>5, <2>1, <2>3, <2>4, <2>5 DEF Server
<1>6. CASE LifecycleThread
  <2>0. UNCHANGED <<slot, outcomes, rideStatus>>
    BY <1>6 DEF LifecycleThread, TakeDue, AssignPending, CallClose, CloseReturns, CloseRaises,
                EndTick, EndLifecycle, firing, tables
  <2>1. pending \cup due \cup closing \cup lost \subseteq pending' \cup due' \cup closing' \cup lost'
    <3>1. CASE TakeDue
      BY <3>1 DEF TakeDue, Tick
    <3>2. CASE AssignPending
      BY <3>2 DEF AssignPending, Tick
    <3>3. ASSUME NEW r \in Ride, CallClose(r)
          PROVE  pending \cup due \cup closing \cup lost
                   \subseteq pending' \cup due' \cup closing' \cup lost'
      BY <3>3 DEF CallClose
    <3>4. CASE CloseReturns \/ EndTick \/ EndLifecycle
      BY <3>4 DEF CloseReturns, EndTick, EndLifecycle
    <3>5. CASE CloseRaises
      BY <3>5 DEF CloseRaises
    <3> QED
      BY <1>6, <3>1, <3>2, <3>3, <3>4, <3>5 DEF LifecycleThread
  <2> QED
    BY <1>a, <2>0, <2>1, HandoverFrame
<1>7. CASE UNCHANGED vars \/ MovementThread
  BY <1>1, <1>7 DEF vars, MovementThread, BeginMove, EndMove, EndMovement, firing, tables, ending
<1> QED
  BY <1>2, <1>3, <1>4, <1>5, <1>6, <1>7 DEF Next, MainThread

-----------------------------------------------------------------------------
\* Types.

\* Every step keeps the types: a burst within its size, real rides in every list.
LEMMA TypeStep ==
  ASSUME TypeOK, Bursts, [Next]_vars
  PROVE  TypeOK'
<1>2. CASE \/ \E d \in Driver : CreateDriver(d)
           \/ CreateDriverFails \/ StartThreads \/ EndLoop \/ Return \/ BeginFire \/ EndSleep
  <2>1. CASE \E d \in Driver : CreateDriver(d)
    BY <2>1 DEF TypeOK, tables, CreateDriver, firing, ending
  <2>2. CASE CreateDriverFails \/ Return \/ BeginFire \/ EndSleep
    BY <2>2 DEF TypeOK, tables, CreateDriverFails, Return, BeginFire, EndSleep, ending
  <2>3. CASE StartThreads
    BY <2>3 DEF TypeOK, tables, StartThreads
  <2>4. CASE EndLoop
    BY <2>4 DEF TypeOK, tables, EndLoop
  <2> QED
    BY <1>2, <2>1, <2>2, <2>3, <2>4
<1>3. CASE BeginBurst
  <2> DEFINE k == Min({fired + BurstSize, NumRiders})
  <2>0. fired \in Nat /\ fired <= NumRiders
    BY DEF TypeOK
  <2>1. k \in fired..NumRiders /\ k <= fired + BurstSize
    BY <2>0, BurstEnd
  <2>2. burst' = (fired + 1)..k
    BY <1>3 DEF BeginBurst
  <2> HIDE DEF k
  <2>3. Cardinality((fired + 1)..k) = k - fired
    BY <2>0, <2>1, BurstCardinality
  <2>4. burst' \subseteq Ride /\ Cardinality(burst') <= BurstSize
    BY <2>0, <2>1, <2>2, <2>3
  <2> QED
    BY <1>3, <2>4 DEF BeginBurst, TypeOK, tables, ending
<1>4. ASSUME NEW s \in Slots, CreateRider(s)
      PROVE  TypeOK'
  BY <1>4 DEF CreateRider, TypeOK, tables, ending
<1>5. CASE EndBurst
  <2>0. fired \in Nat
    BY DEF TypeOK
  <2>1. PICK k \in fired..NumRiders : burst = (fired + 1)..k
    BY DEF Bursts
  <2>2. Cardinality((fired + 1)..k) = k - fired
    BY <2>0, <2>1, BurstCardinality
  <2>3. fired' \in 0..NumRiders
    BY <1>5, <2>0, <2>1, <2>2 DEF EndBurst
  <2>4. burst' = {} /\ Cardinality({}) <= BurstSize
    BY <1>5, FS_EmptySet DEF EndBurst
  <2> QED
    BY <1>5, <2>3, <2>4 DEF EndBurst, TypeOK, tables, ending
<1>6. ASSUME NEW r \in Ride, WorkerThread(r)
      PROVE  TypeOK'
  <2>1. slot' \in [Ride -> Slots] /\ UNCHANGED <<main, fired, burst>>
    BY <1>6, WorkerMoves DEF TypeOK, Slots
  <2>2. outcomes' \in [Ride -> Seq(Outcomes)]
    <3>0. outcomes \in [Ride -> Seq(Outcomes)]
      BY DEF TypeOK
    <3>1. \A o \in Outcomes : Append(outcomes[r], o) \in Seq(Outcomes)
      BY <3>0
    <3>2. outcomes' = outcomes \/ \E o \in Outcomes : outcomes' = [outcomes EXCEPT ![r] = Append(@, o)]
      BY <1>6 DEF WorkerThread, StartWorker, SendRequest, ReceiveAnswer, RequestRaises,
                  ScheduleLifecycle, Record, Outcomes
    <3> QED
      BY <3>0, <3>1, <3>2
  <2>3. request' \in [Ride -> {"none", "sent", "created"} \cup Outcomes]
    BY <1>6 DEF TypeOK, WorkerThread, StartWorker, SendRequest, ReceiveAnswer, RequestRaises,
                ScheduleLifecycle
  <2>4. UNCHANGED <<tables, fleet, movement, stop, lifecycle, locked, rest, due, calling, closing, lost>>
        /\ pending' \subseteq pending \cup {r}
    BY <1>6 DEF WorkerThread, StartWorker, SendRequest, ReceiveAnswer, RequestRaises,
                ScheduleLifecycle, ending
  <2> QED
    BY <2>1, <2>2, <2>3, <2>4 DEF TypeOK, tables
<1>7. ASSUME NEW r \in Ride, Server(r)
      PROVE  TypeOK'
  <2>1. /\ UNCHANGED <<fleet, movement, main, fired, burst, slot, outcomes>>
        /\ UNCHANGED <<stop, lifecycle, locked, pending, rest, due, calling, lost>>
        /\ closing' \subseteq closing
    BY <1>7 DEF Server, ServerCreates, ServerMatches, ServerUnmatched, ServerErrs, ServerCloses,
                Handle, ending, firing
  <2>2. request' \in [Ride -> {"none", "sent", "created"} \cup Outcomes]
    BY <1>7 DEF TypeOK, Server, ServerCreates, ServerMatches, ServerUnmatched, ServerErrs,
                ServerCloses, Handle, firing, Outcomes
  <2>3. /\ rideStatus' \in [Ride -> RideStatus] /\ driverStatus' \in [Driver -> DriverStatus]
        /\ rideDriver' \in [Ride -> Driver \cup {NoDriver}]
    <3>0. /\ rideStatus \in [Ride -> RideStatus] /\ driverStatus \in [Driver -> DriverStatus]
          /\ rideDriver \in [Ride -> Driver \cup {NoDriver}]
      BY DEF TypeOK
    <3>1. CASE ServerCreates(r)
      BY <3>0, <3>1 DEF ServerCreates, Dispatch!Request, RideStatus
    <3>2. ASSUME NEW d \in Driver, ServerMatches(r, d)
          PROVE  /\ rideStatus' \in [Ride -> RideStatus] /\ driverStatus' \in [Driver -> DriverStatus]
                 /\ rideDriver' \in [Ride -> Driver \cup {NoDriver}]
      BY <3>0, <3>2 DEF ServerMatches, Dispatch!Match, RideStatus, DriverStatus
    <3>3. CASE ServerUnmatched(r) \/ ServerErrs(r)
      BY <3>0, <3>3 DEF ServerUnmatched, ServerErrs, tables
    <3>4. CASE ServerCloses(r)
      BY <3>0, <3>4 DEF ServerCloses, Dispatch!Cancel, Dispatch!Complete, Dispatch!Close,
                        RideStatus, DriverStatus
    <3> QED
      BY <1>7, <3>1, <3>2, <3>3, <3>4 DEF Server
  <2> QED
    BY <2>1, <2>2, <2>3 DEF TypeOK
<1>8. CASE LifecycleThread
  <2>1. UNCHANGED <<tables, fleet, movement, main, fired, burst, slot, request, outcomes, stop>>
    BY <1>8 DEF LifecycleThread, TakeDue, AssignPending, CallClose, CloseReturns, CloseRaises,
                EndTick, EndLifecycle, firing
  <2>2. /\ locked' \in BOOLEAN /\ lifecycle' \in {"off", "sleep", "assign", "close", "ended"}
        /\ pending' \subseteq Ride /\ rest' \subseteq Ride /\ due' \subseteq Ride
        /\ closing' \subseteq Ride /\ lost' \subseteq Ride /\ calling' \in Ride \cup {NoRide}
    BY <1>8 DEF TypeOK, LifecycleThread, TakeDue, AssignPending, CallClose, CloseReturns,
                CloseRaises, EndTick, EndLifecycle, NoRide
  <2> QED
    BY <2>1, <2>2 DEF TypeOK, tables
<1>9. CASE UNCHANGED vars \/ MovementThread
  <2>1. UNCHANGED <<tables, fleet, firing, ending>>
    BY <1>9 DEF vars, MovementThread, BeginMove, EndMove, EndMovement
  <2>2. movement' \in {"off", "sleep", "tick", "ended"}
    BY <1>9 DEF vars, MovementThread, BeginMove, EndMove, EndMovement, TypeOK
  <2> QED
    BY <2>1, <2>2 DEF TypeOK, tables, firing, ending
<1> QED
  BY <1>2, <1>3, <1>4, <1>5, <1>6, <1>7, <1>8, <1>9 DEF Next, MainThread

-----------------------------------------------------------------------------
\* The theorems.

\* The invariant holds initially and every step keeps it.
LEMMA Inductive ==
  /\ Init => IInv
  /\ IInv /\ [Next]_vars => IInv'
<1>1. ASSUME Init
      PROVE  IInv
  <2> USE <1>1 DEF Init
  <2>1. TypeOK
    <3>1. Cardinality({}) <= BurstSize
      BY FS_EmptySet
    <3>2. slot \in [Ride -> Slots] /\ outcomes \in [Ride -> Seq(Outcomes)]
          /\ request \in [Ride -> {"none", "sent", "created"} \cup Outcomes]
      BY DEF Slots
    <3>3. /\ rideStatus \in [Ride -> RideStatus] /\ driverStatus \in [Driver -> DriverStatus]
          /\ rideDriver \in [Ride -> Driver \cup {NoDriver}]
      BY DEF Dispatch!Init, RideStatus, DriverStatus
    <3>4. stop \in BOOLEAN /\ locked \in BOOLEAN
      BY Zenon
    <3>5. fired \in 0..NumRiders
      OBVIOUS
    <3> QED
      BY <3>1, <3>2, <3>3, <3>4, <3>5 DEF TypeOK
  <2>2. Bursts
    <3>1. 0 \in 0..NumRiders /\ {} = (0 + 1)..0 /\ 0 <= 0 + BurstSize
      OBVIOUS
    <3>2. \A r \in Ride : ~(r <= 0)
      OBVIOUS
    <3> QED
      BY <3>1, <3>2 DEF Bursts
  <2>3. Workers
    BY DEF Workers, WorkerOf, Dispatch!Init
  <2>4. Tick /\ Handover
    BY DEF Tick, Handover, HandedOver
  <2> QED
    BY <2>1, <2>2, <2>3, <2>4 DEF IInv
<1>2. ASSUME IInv, [Next]_vars
      PROVE  IInv'
  BY <1>2, TypeStep, BurstsStep, WorkersStep, TickStep, HandoverStep DEF IInv
<1> QED
  BY <1>1, <1>2

\* However bursts, timeouts, the server and the lifecycle thread interleave,
\* no burst exceeds burst_size and every list holds rides of this run.
THEOREM SimulationIsTyped == Spec => []TypeOK
<1>1. IInv => TypeOK
  BY DEF IInv
<1> QED
  BY Inductive, <1>1, PTL DEF Spec

\* A ride with a driver was answered "matched"; a worker that is through has
\* recorded that answer or an error.
LEMMA DrivenIsRecorded ==
  ASSUME TypeOK, Workers, NEW r \in Driven
  PROVE  /\ slot[r] \in {"waiting", "schedule", "done"}
         /\ slot[r] = "done" => outcomes[r] \in {<<"matched">>, <<"error">>}
<1>1. r \in Ride /\ request[r] = "matched" /\ WorkerOf(r) /\ slot[r] \in Slots
  BY DEF Driven, Workers, WorkerOf, TypeOK
<1> QED
  BY <1>1 DEF WorkerOf, Slots

\* A driver who is busy for a ride is accounted for: a worker has the ride, it
\* is on the lifecycle thread's lists (where it stays if that thread has been
\* stopped), or a call about it raised.
THEOREM NoDriverIsForgotten == Spec => []BusyIsAccountedFor
<1>1. ASSUME IInv
      PROVE  BusyIsAccountedFor
  <2> SUFFICES ASSUME NEW r \in Driven, rideStatus[r] \in ActiveStatuses
               PROVE  \/ slot[r] \in {"waiting", "schedule"}
                      \/ r \in pending \cup due \cup closing \cup lost
                      \/ outcomes[r] = <<"error">>
    BY DEF BusyIsAccountedFor
  <2>1. /\ slot[r] \in {"waiting", "schedule", "done"}
        /\ slot[r] = "done" => outcomes[r] \in {<<"matched">>, <<"error">>}
    BY <1>1, DrivenIsRecorded DEF IInv
  <2>2. HandedOver(r)
    BY <1>1 DEF IInv, Handover, Driven
  <2> QED
    BY <2>1, <2>2 DEF HandedOver
<1> QED
  BY Inductive, <1>1, PTL DEF Spec

\* The runner's figures bound the server's: each fired rider has one result,
\* and a ride with a driver is one reported as matched or as an error.
THEOREM SummaryAgreesWithServer == Spec => []CrossCheck
<1>1. ASSUME IInv
      PROVE  CrossCheck
  <2>0. /\ TypeOK /\ Workers /\ Bursts
        /\ fired \in Nat /\ fired <= NumRiders /\ slot \in [Ride -> Slots]
    BY <1>1 DEF IInv, TypeOK
  <2>1. ASSUME NEW r \in 1..fired
        PROVE  Len(outcomes[r]) = IF slot[r] = "skipped" THEN 0 ELSE 1
    <3>1. r \in Ride /\ r <= fired
      BY <2>0
    <3>2. slot[r] \in {"skipped", "done"} /\ WorkerOf(r)
      BY <2>0, <3>1 DEF Bursts, Workers
    <3>3. CASE slot[r] = "skipped"
      <4>1. outcomes[r] = <<>>
        BY <3>2, <3>3 DEF WorkerOf
      <4> QED
        BY <3>3, <4>1
    <3>4. CASE slot[r] = "done"
      <4>1. outcomes[r] = <<"error">> \/ outcomes[r] = <<request[r]>>
        BY <3>2, <3>4 DEF WorkerOf
      <4> QED
        BY <3>4, <4>1
    <3> QED
      BY <3>2, <3>3, <3>4
  <2>2. ASSUME main = "done"
        PROVE  /\ \A r \in Ride : outcomes[r] = <<"matched">> => r \in Driven
               /\ \A r \in Ride : outcomes[r] = <<"unmatched">> => r \notin Driven
               /\ Cardinality(Driven) <= Summary("matched") + Summary("error")
    <3>1. \A r \in Ride : slot[r] \in {"new", "skipped", "done"}
      <4>1. PICK k \in fired..NumRiders : burst = (fired + 1)..k /\ k = fired
        BY <2>0, <2>2 DEF Bursts
      <4>2. burst = {}
        BY <2>0, <4>1
      <4>3. \A r \in Ride : r <= fired \/ r > fired
        BY <2>0
      <4> QED
        BY <2>0, <4>2, <4>3 DEF Bursts
    <3>2. \A r \in Ride : outcomes[r] \in {<<"matched">>, <<"unmatched">>} => outcomes[r] = <<request[r]>>
      <4> SUFFICES ASSUME NEW r \in Ride, outcomes[r] \in {<<"matched">>, <<"unmatched">>}
                   PROVE  outcomes[r] = <<request[r]>>
        OBVIOUS
      <4>1. outcomes[r] # <<>> /\ outcomes[r] # <<"error">>
        OBVIOUS
      <4> QED
        BY <2>0, <3>1, <4>1 DEF Workers, WorkerOf
    <3>3. \A r \in Ride : r \in Driven <=> request[r] = "matched"
      BY <2>0 DEF Driven, Workers, WorkerOf
    <3> DEFINE M == {r \in Ride : \E i \in DOMAIN outcomes[r] : outcomes[r][i] = "matched"}
               E == {r \in Ride : \E i \in DOMAIN outcomes[r] : outcomes[r][i] = "error"}
    <3>4. Driven \subseteq M \cup E
      <4> SUFFICES ASSUME NEW r \in Driven
                   PROVE  r \in M \cup E
        OBVIOUS
      <4>1. r \in Ride /\ outcomes[r] \in {<<"matched">>, <<"error">>}
        BY <2>0, <3>1, DrivenIsRecorded DEF Driven
      <4>2. 1 \in DOMAIN outcomes[r] /\ outcomes[r][1] \in {"matched", "error"}
        BY <4>1
      <4> QED
        BY <4>1, <4>2
    <3>5. IsFiniteSet(Ride)
      BY FS_Interval
    <3>6. IsFiniteSet(M) /\ IsFiniteSet(E) /\ M \in SUBSET Ride /\ E \in SUBSET Ride
      BY <3>5, FS_Subset
    <3> HIDE DEF M, E
    <3>7. /\ IsFiniteSet(M \cup E)
          /\ Cardinality(M \cup E) = Cardinality(M) + Cardinality(E) - Cardinality(M \cap E)
      BY <3>6, FS_Union
    <3>8. /\ Cardinality(M) \in Nat /\ Cardinality(E) \in Nat /\ Cardinality(M \cap E) \in Nat
          /\ Cardinality(Driven) <= Cardinality(M \cup E) /\ Cardinality(Driven) \in Nat
      <4>1. IsFiniteSet(M \cap E)
        BY <3>6, FS_Intersection
      <4>2. IsFiniteSet(Driven) /\ Cardinality(Driven) <= Cardinality(M \cup E)
        BY <3>4, <3>7, FS_Subset
      <4> QED
        BY <3>6, <4>1, <4>2, FS_CardinalityType
    <3>9. Cardinality(Driven) <= Summary("matched") + Summary("error")
      <4>1. Summary("matched") = Cardinality(M) /\ Summary("error") = Cardinality(E)
        BY DEF Summary, M, E
      <4> QED
        BY <3>7, <3>8, <4>1
    <3>10. ASSUME NEW r \in Ride, outcomes[r] = <<"matched">>
           PROVE  r \in Driven
      <4>1. <<request[r]>> = <<"matched">>
        BY <3>2, <3>10
      <4>2. request[r] = "matched"
        BY <4>1
      <4> QED
        BY <3>3, <4>2
    <3>11. ASSUME NEW r \in Ride, outcomes[r] = <<"unmatched">>
           PROVE  r \notin Driven
      <4>1. <<request[r]>> = <<"unmatched">>
        BY <3>2, <3>11
      <4>2. request[r] = "unmatched"
        BY <4>1
      <4> QED
        BY <3>3, <4>2
    <3> QED
      BY <3>9, <3>10, <3>11
  <2> QED
    BY <2>1, <2>2 DEF CrossCheck
<1> QED
  BY Inductive, <1>1, PTL DEF Spec

-----------------------------------------------------------------------------
\* The barrier.

\* Until its last worker has a thread, nobody in a burst is past the barrier.
Together ==
    /\ main = "riders" => \A r \in burst : slot[r] \in {"new", "skipped", "ready"}
    /\ \A r, s \in burst :
         slot[r] = "ready" => slot[s] \in {"new", "skipped", "ready", "barrier"}

\* StartWorker keeps its slot at the barrier; SendRequest needs all there.
LEMMA TogetherStep ==
  ASSUME TypeOK, Bursts, Together, [Next]_vars
  PROVE  Together'
<1>0. slot \in [Ride -> Slots] /\ burst \subseteq Ride /\ fired \in Nat /\ \A r \in Ride : r \in Nat
  BY DEF TypeOK
<1>1. CASE UNCHANGED <<main, burst, slot>>
  BY <1>1 DEF Together
<1>2. ASSUME NEW r \in Ride, WorkerThread(r)
      PROVE  Together'
  <2>1. /\ slot[r] \in {"ready", "barrier", "waiting", "schedule"}
        /\ UNCHANGED <<main, fired, burst>>
    BY <1>2, WorkerMoves
  <2>2. r \in burst
    BY <1>0, <2>1 DEF Bursts
  <2>3. CASE StartWorker(r)
    BY <1>0, <2>1, <2>3 DEF StartWorker, Together
  <2>4. CASE ~StartWorker(r)
    <3>1. /\ slot[r] \in {"barrier", "waiting", "schedule"}
          /\ \E x \in {"waiting", "schedule", "done"} : slot' = [slot EXCEPT ![r] = x]
          /\ \A s \in burst : slot[s] # "ready"
      <4>1. CASE SendRequest(r)
        BY <4>1 DEF SendRequest, Parties
      <4>2. CASE ReceiveAnswer(r) \/ RequestRaises(r) \/ ScheduleLifecycle(r)
        BY <2>2, <4>2 DEF ReceiveAnswer, RequestRaises, ScheduleLifecycle, Together
      <4> QED
        BY <1>2, <2>4, <4>1, <4>2 DEF WorkerThread
    <3>2. main # "riders"
      BY <2>2, <3>1 DEF Together
    <3>3. \A s \in burst : slot'[s] # "ready"
      BY <1>0, <3>1
    <3> QED
      BY <2>1, <3>2, <3>3 DEF Together
  <2> QED
    BY <2>3, <2>4
<1>3. ASSUME NEW d \in Driver, CreateDriver(d)
      PROVE  Together'
  BY <1>1, <1>3 DEF CreateDriver, firing
<1>4. CASE CreateDriverFails \/ StartThreads \/ EndLoop \/ Return \/ EndSleep \/ BeginFire
  BY <1>4 DEF CreateDriverFails, StartThreads, EndLoop, Return, EndSleep, BeginFire, Together
<1>5. CASE BeginBurst
  <2>1. /\ burst' = (fired + 1)..Min({fired + BurstSize, NumRiders}) /\ main = "loop"
        /\ UNCHANGED slot
    BY <1>5 DEF BeginBurst
  <2>2. fired <= NumRiders
    BY DEF TypeOK
  <2>3. Min({fired + BurstSize, NumRiders}) \in fired..NumRiders
    BY <1>0, <2>2, BurstEnd
  <2>4. \A r \in burst' : r \in Ride /\ r > fired
    BY <1>0, <2>1, <2>3
  <2>5. burst = {}
    <3>1. PICK j \in fired..NumRiders : burst = (fired + 1)..j /\ j = fired
      BY <2>1 DEF Bursts
    <3> QED
      BY <1>0, <3>1
  <2>6. \A r \in burst' : slot'[r] = "new"
    BY <2>1, <2>4, <2>5 DEF Bursts
  <2> QED
    BY <2>6 DEF Together
<1>6. ASSUME NEW s \in Slots, CreateRider(s)
      PROVE  Together'
  <2>1. /\ slot' = [slot EXCEPT ![NextRider] = s] /\ s \in {"ready", "skipped"} /\ main = "riders"
        /\ UNCHANGED <<main, burst>>
    BY <1>6 DEF CreateRider
  <2>2. \A r \in burst : slot'[r] \in {"new", "skipped", "ready"}
    BY <1>0, <2>1 DEF Together
  <2> QED
    BY <2>1, <2>2 DEF Together
<1>7. CASE EndBurst
  BY <1>7 DEF EndBurst, Together
<1> QED
  BY <1>1, <1>2, <1>3, <1>4, <1>5, <1>6, <1>7, FiringFrame DEF MainThread

\* As long as a worker of the burst has not reached the barrier, no POST /rides
\* of that burst has been sent.
AllAtOnce ==
    main = "fire" =>
        \A r, s \in Parties : slot[r] = "ready" => request[s] = "none" /\ outcomes[s] = <<>>

\* fire_burst's threading.Barrier: a burst is one burst of simultaneous
\* requests, however its threads are started and whoever was skipped.
THEOREM BurstsAreSimultaneous == Spec => []AllAtOnce
<1>1. Init => Together
  BY DEF Init, Together
<1>2. IInv /\ Together /\ [Next]_vars => Together'
  BY TogetherStep DEF IInv
<1>3. ASSUME IInv, Together
      PROVE  AllAtOnce
  <2> SUFFICES ASSUME main = "fire", NEW r \in Parties, NEW s \in Parties, slot[r] = "ready"
               PROVE  request[s] = "none" /\ outcomes[s] = <<>>
    BY DEF AllAtOnce
  <2>1. r \in burst /\ s \in burst /\ s \in Ride
    BY <1>3 DEF Parties, IInv, TypeOK
  <2>2. slot[s] \in {"new", "skipped", "ready", "barrier"}
    BY <1>3, <2>1 DEF Together
  <2> QED
    BY <1>3, <2>1, <2>2 DEF IInv, Workers, WorkerOf
<1> QED
  BY <1>1, <1>2, <1>3, Inductive, PTL DEF Spec

\* Some worker of the burst can take its next step, or all have returned.  One
\* that waits for _pending_lock waits for a lifecycle thread about to free it.
SomebodyGoesOn ==
    main = "fire" =>
        \/ \A r \in Parties : slot[r] = "done"
        \/ \E r \in Parties :
             \/ /\ slot[r] = "ready"
                /\ Cardinality({s \in burst : slot[s] \in {"barrier", "waiting", "schedule"}}) < MaxWorkers
             \/ slot[r] = "barrier" /\ \A s \in Parties : slot[s] # "ready"
             \/ slot[r] = "waiting"
             \/ slot[r] = "schedule" /\ (locked => lifecycle = "assign")

\* fire_burst: the executor has a thread for every party of the barrier, so no
\* burst hangs, also when some of its riders could not be created.
THEOREM BurstIsNeverStuck == Spec => []SomebodyGoesOn
<1>1. ASSUME IInv
      PROVE  SomebodyGoesOn
  <2>0. /\ slot \in [Ride -> Slots] /\ burst \subseteq Ride /\ fired \in Nat
        /\ Bursts /\ Tick
    BY <1>1 DEF IInv, TypeOK
  <2> SUFFICES ASSUME main = "fire", ~ \A r \in Parties : slot[r] = "done"
               PROVE  \E r \in Parties :
                        \/ /\ slot[r] = "ready"
                           /\ Cardinality({s \in burst : slot[s] \in {"barrier", "waiting", "schedule"}}) < MaxWorkers
                        \/ slot[r] = "barrier" /\ \A s \in Parties : slot[s] # "ready"
                        \/ slot[r] = "waiting"
                        \/ slot[r] = "schedule" /\ (locked => lifecycle = "assign")
    BY DEF SomebodyGoesOn
  <2>1. \A r \in Parties : slot[r] \in {"ready", "barrier", "waiting", "schedule", "done"}
    BY <2>0 DEF Parties, Bursts, Slots
  <2>2. ASSUME NEW r \in Parties, slot[r] = "ready"
        PROVE  Cardinality({s \in burst : slot[s] \in {"barrier", "waiting", "schedule"}}) < MaxWorkers
    <3> DEFINE A == {s \in burst : slot[s] \in {"barrier", "waiting", "schedule"}}
    <3>1. IsFiniteSet(burst)
      <4>1. PICK k \in fired..NumRiders : burst = (fired + 1)..k
        BY <2>0 DEF Bursts
      <4> QED
        BY <2>0, <4>1, BurstCardinality
    <3>2. IsFiniteSet(Parties)
      BY <3>1, FS_Subset DEF Parties
    <3>3. A \subseteq Parties /\ r \notin A
      BY <2>2 DEF Parties
    <3>4. IsFiniteSet(A) /\ Cardinality(A) <= Cardinality(Parties)
          /\ (Cardinality(A) = Cardinality(Parties) => A = Parties)
      BY <3>2, <3>3, FS_Subset
    <3>5. Cardinality(A) \in Nat /\ Cardinality(Parties) \in Nat
      BY <3>2, <3>4, FS_CardinalityType
    <3> QED
      BY <2>2, <3>3, <3>4, <3>5 DEF MaxWorkers
  <2>3. locked => lifecycle = "assign"
    BY <2>0 DEF Tick
  <2> QED
    BY <2>1, <2>2, <2>3
<1> QED
  BY <1>1, Inductive, PTL DEF Spec

-----------------------------------------------------------------------------
\* The drivers.

\* The service's tables agree, as in RideDispatch.
Tables ==
    /\ \A r \in Ride : rideStatus[r] \in {"none", "requested"} => rideDriver[r] = NoDriver
    /\ \A r, s \in Ride :
         /\ rideStatus[r] \in ActiveStatuses /\ rideStatus[s] \in ActiveStatuses
         /\ rideDriver[r] = rideDriver[s] /\ rideDriver[r] # NoDriver
         => r = s
    /\ \A d \in Driver :
         driverStatus[d] = "busy" <=>
           \E r \in Ride : rideDriver[r] = d /\ rideStatus[r] \in ActiveStatuses

\* The tables move by the service's steps only.
LEMMA ServiceStep ==
  ASSUME [Next]_vars, ~UNCHANGED tables
  PROVE  \E r \in Ride : \/ Dispatch!Request(r)
                         \/ \E d \in Driver : Dispatch!Match(r, d)
                         \/ Dispatch!Cancel(r)
                         \/ Dispatch!Complete(r)
<1>1. CASE MainThread
  BY <1>1 DEF MainThread, CreateDriver, CreateDriverFails, StartThreads, BeginBurst, EndLoop,
              Return, CreateRider, BeginFire, EndBurst, EndSleep
<1>2. ASSUME NEW r \in Ride, WorkerThread(r)
      PROVE  FALSE
  BY <1>2 DEF WorkerThread, StartWorker, SendRequest, ReceiveAnswer, RequestRaises,
              ScheduleLifecycle
<1>3. CASE LifecycleThread
  BY <1>3 DEF LifecycleThread, TakeDue, AssignPending, CallClose, CloseReturns, CloseRaises,
              EndTick, EndLifecycle
<1>4. ASSUME NEW r \in Ride, Server(r)
      PROVE  \/ Dispatch!Request(r)
             \/ \E d \in Driver : Dispatch!Match(r, d)
             \/ Dispatch!Cancel(r)
             \/ Dispatch!Complete(r)
  BY <1>4 DEF Server, ServerCreates, ServerMatches, ServerUnmatched, ServerErrs, ServerCloses
<1>5. ~MovementThread
  BY DEF MovementThread, BeginMove, EndMove, EndMovement
<1> QED
  BY <1>1, <1>2, <1>3, <1>4, <1>5 DEF Next, vars

\* Each of the service's steps keeps the tables in agreement.
LEMMA TablesStep ==
  ASSUME TypeOK, Tables, [Next]_vars
  PROVE  Tables'
<1> USE DEF Tables, ActiveStatuses
<1>0. /\ rideStatus \in [Ride -> RideStatus] /\ driverStatus \in [Driver -> DriverStatus]
      /\ rideDriver \in [Ride -> Driver \cup {NoDriver}]
  BY DEF TypeOK
<1>1. CASE UNCHANGED tables
  BY <1>1 DEF tables
<1>2. ASSUME NEW r \in Ride, Dispatch!Request(r)
      PROVE  Tables'
  BY <1>0, <1>2 DEF Dispatch!Request
<1>3. ASSUME NEW r \in Ride, NEW e \in Driver, Dispatch!Match(r, e)
      PROVE  Tables'
  BY <1>0, <1>3 DEF Dispatch!Match, DriverStatus
<1>4. ASSUME NEW r \in Ride, Dispatch!Cancel(r) \/ Dispatch!Complete(r)
      PROVE  Tables'
  BY <1>0, <1>4 DEF Dispatch!Cancel, Dispatch!Complete, Dispatch!Close, DriverStatus,
     Dispatch!ActiveStatuses, Dispatch!CompletableStatuses
<1> QED
  BY <1>1, <1>2, <1>3, <1>4, ServiceStep

\* Every busy driver is on exactly one active ride, and that ride is in a
\* worker's hands, on the lifecycle thread's lists or one of its calls raised.
PoolIsAccountedFor ==
    \A d \in Driver : driverStatus[d] = "busy" =>
        \E r \in Ride :
            /\ rideDriver[r] = d
            /\ \A s \in Ride : rideDriver[s] = d /\ rideStatus[s] \in ActiveStatuses <=> s = r
            /\ \/ slot[r] \in {"waiting", "schedule"}
               \/ r \in pending \cup due \cup closing \cup lost
               \/ outcomes[r] = <<"error">>

\* runner.py's lifecycle loop: the pool of drivers never shrinks by a ride that
\* is on no list and whose calls all returned.
THEOREM PoolDoesNotDeplete == Spec => []PoolIsAccountedFor
<1>1. Init => Tables
  BY DEF Init, Dispatch!Init, Tables, ActiveStatuses
<1>2. IInv /\ Tables /\ [Next]_vars => Tables'
  BY TablesStep DEF IInv
<1>3. ASSUME BusyIsAccountedFor, Tables
      PROVE  PoolIsAccountedFor
  <2> SUFFICES ASSUME NEW d \in Driver, driverStatus[d] = "busy"
               PROVE  \E r \in Ride :
                        /\ rideDriver[r] = d
                        /\ \A s \in Ride : rideDriver[s] = d /\ rideStatus[s] \in ActiveStatuses <=> s = r
                        /\ \/ slot[r] \in {"waiting", "schedule"}
                           \/ r \in pending \cup due \cup closing \cup lost
                           \/ outcomes[r] = <<"error">>
    BY DEF PoolIsAccountedFor
  <2>1. PICK r \in Ride : rideDriver[r] = d /\ rideStatus[r] \in ActiveStatuses
    BY <1>3 DEF Tables
  <2>2. r \in Driven
    BY <2>1 DEF Driven
  <2>3. \A s \in Ride : rideDriver[s] = d /\ rideStatus[s] \in ActiveStatuses <=> s = r
    BY <1>3, <2>1 DEF Tables
  <2>4. \/ slot[r] \in {"waiting", "schedule"}
        \/ r \in pending \cup due \cup closing \cup lost
        \/ outcomes[r] = <<"error">>
    BY <1>3, <2>1, <2>2 DEF BusyIsAccountedFor
  <2> QED
    BY <2>1, <2>3, <2>4
<1> QED
  BY <1>1, <1>2, <1>3, Inductive, NoDriverIsForgotten, PTL DEF Spec

=============================================================================
