---------------------------- MODULE MetricsProofs ----------------------------
(***************************************************************************)
(* Proofs about Metrics, for any threads and connections, any window size  *)
(* and any bounds.                                                         *)
(***************************************************************************)
EXTENDS Metrics, SequenceTheorems, FiniteSetTheorems, WellFoundedInduction, TLAPS

USE NoThreadAssumption

-----------------------------------------------------------------------------
\* The inductive invariant.

\* A deque with maxlen is the end of the history of what was pushed to it,
\* position by position.
Window(w, h) ==
    /\ Len(w) <= Len(h)
    /\ Len(w) <= WindowSize
    /\ Len(w) = WindowSize \/ Len(w) = Len(h)
    /\ \A i \in 1..Len(w) : w[i] = h[Len(h) - Len(w) + i]

Windows == Window(recent, log) /\ Window(dbRecent, timed)

\* The lock belongs to the one thread that is inside a with block.
Inside == {"contend", "count", "totals"}

Mutex ==
    /\ \A t \in Thread : pc[t] \in Inside <=> holder = t

\* The clock has not gone back behind anything it stamped.
Past ==
    /\ \A t \in Thread : started[t] <= clock
    /\ \A i \in DOMAIN log : log[i].at <= clock
    /\ \A i, j \in DOMAIN log : i < j => log[i].at <= log[j].at
    /\ \A c \in Conn : begun[c] <= clock
    /\ \A c \in Conn : \A i \in DOMAIN starts[c] : starts[c][i] <= clock

\* A running statement has its connection to itself, and the last start time
\* on the connection's list is its own.
Statements ==
    /\ \A t \in Thread : pc[t] = "executing" =>
         /\ conn[t] \in Conn
         /\ begun[conn[t]] # Idle
         /\ starts[conn[t]] # <<>>
         /\ starts[conn[t]][Len(starts[conn[t]])] = begun[conn[t]]
    /\ \A t, u \in Thread :
         pc[t] = "executing" /\ pc[u] = "executing" /\ conn[t] = conn[u] => t = u

\* The unmatched attempts among the first n of a history.
Failures(h, n) == Cardinality({i \in 1..n : h[i].outcome = "unmatched"})

\* The counters cover the history but for the attempt whose thread is about
\* to count it, and what a thread has read is still the counter's value.
Counters ==
    /\ contention = contended
    /\ \A t \in Thread : pc[t] = "contend" => reg[t] = contention
    /\ \A t \in Thread : pc[t] = "count" =>
         reg[t] = failed /\ failed + 1 = Failures(log, Len(log))
    /\ (\A t \in Thread : pc[t] # "count") => failed = Failures(log, Len(log))

\* The snapshot s is of the moment history h had s.n attempts.
Taken(s, h) ==
    LET w == s.recent
        n == s.n
    IN  /\ n <= Len(h) /\ Len(w) <= n /\ Len(w) <= WindowSize
        /\ Len(w) = WindowSize \/ Len(w) = n
        /\ \A i \in 1..Len(w) : w[i] = h[n - Len(w) + i]
        /\ s.failed = Failures(h, n)

\* A copy of the window is of the moment its totals are of.
Copies ==
    \A t \in Thread :
        /\ pc[t] = "totals" => snap[t].recent = recent
        /\ pc[t] = "compute" => Taken(snap[t], log)

IInv == TypeOK /\ Windows /\ Mutex /\ Past /\ Statements /\ Counters /\ Copies

-----------------------------------------------------------------------------
\* Constants and sequences.

\* The bounds, one by one.
LEMMA Bounds ==
  /\ WindowSize \in Nat /\ WindowSize > 0
  /\ Trailing \in Nat /\ MaxAttempts \in Nat /\ MaxCalls \in Nat /\ MaxClock \in Nat
  /\ MaxSample \in Nat
BY BoundsAssumption

\* A clock value is a natural number, and so is a difference of two.
LEMMA Times ==
  ASSUME NEW a \in Time, NEW b \in Time
  PROVE  a \in Nat /\ (b <= a => a - b \in Time)
BY Bounds DEF Time

\* What Append does, position by position.
LEMMA Appended ==
  ASSUME NEW S, NEW q \in Seq(S), NEW e \in S
  PROVE  /\ Append(q, e) \in Seq(S) /\ Len(Append(q, e)) = Len(q) + 1 /\ Len(q) \in Nat
         /\ DOMAIN Append(q, e) = 1..(Len(q) + 1) /\ DOMAIN q = 1..Len(q)
         /\ Append(q, e)[Len(q) + 1] = e
         /\ \A i \in 1..Len(q) : Append(q, e)[i] = q[i]
OBVIOUS

\* deque.append keeps a window the end of the history, full or not.
LEMMA Pushed ==
  ASSUME NEW S, NEW w \in Seq(S), NEW h \in Seq(S), NEW x \in S, Window(w, h)
  PROVE  /\ Push(w, x) \in Seq(S) /\ Len(Push(w, x)) <= WindowSize
         /\ Window(Push(w, x), Append(h, x))
<1> DEFINE v == IF Len(w) = WindowSize THEN Tail(w) ELSE w
<1>0. /\ Len(w) \in Nat /\ Len(h) \in Nat /\ WindowSize \in Nat /\ WindowSize > 0
      /\ Len(w) <= Len(h) /\ Len(w) <= WindowSize
      /\ Len(w) = WindowSize \/ Len(w) = Len(h)
      /\ \A i \in 1..Len(w) : w[i] = h[Len(h) - Len(w) + i]
  BY Bounds DEF Window
<1>a. /\ Len(w) = WindowSize => v = Tail(w)
      /\ Len(w) # WindowSize => v = w
      /\ Push(w, x) = Append(v, x)
  BY DEF Push
<1> HIDE DEF v
<1>1. /\ v \in Seq(S) /\ Len(v) \in Nat /\ Len(v) < WindowSize /\ Len(v) <= Len(h)
      /\ Len(v) = WindowSize - 1 \/ Len(v) = Len(h)
      /\ \A i \in 1..Len(v) : v[i] = h[Len(h) - Len(v) + i]
  <2>1. CASE Len(w) = WindowSize
    <3>0. w # <<>> /\ v = Tail(w)
      BY <1>0, <1>a, <2>1
    <3>1. /\ v \in Seq(S) /\ Len(v) = Len(w) - 1
          /\ \A i \in 1..Len(v) : v[i] = w[i + 1]
      BY <3>0
    <3>2. ASSUME NEW i \in 1..Len(v)
          PROVE  v[i] = h[Len(h) - Len(v) + i]
      <4>1. i + 1 \in 1..Len(w) /\ Len(h) - Len(w) + (i + 1) = Len(h) - Len(v) + i
        BY <1>0, <3>1
      <4> QED
        BY <1>0, <3>1, <4>1
    <3> QED
      BY <1>0, <2>1, <3>1, <3>2
  <2>2. CASE Len(w) # WindowSize
    BY <1>0, <1>a, <2>2
  <2> QED
    BY <2>1, <2>2
<1> DEFINE p == Append(v, x)
           g == Append(h, x)
<1>3. /\ p \in Seq(S) /\ Len(p) = Len(v) + 1 /\ p[Len(v) + 1] = x
      /\ \A i \in 1..Len(v) : p[i] = v[i]
  BY <1>1, Appended
<1>4. /\ Len(g) = Len(h) + 1 /\ g[Len(h) + 1] = x /\ \A i \in 1..Len(h) : g[i] = h[i]
  BY Appended
<1>2. Push(w, x) = p /\ Append(h, x) = g
  BY <1>a
<1> HIDE DEF p, g
<1>5. ASSUME NEW i \in 1..Len(p)
      PROVE  p[i] = g[Len(g) - Len(p) + i]
  <2>1. CASE i = Len(v) + 1
    BY <1>0, <1>1, <1>3, <1>4, <2>1
  <2>2. CASE i \in 1..Len(v)
    <3>1. /\ Len(g) - Len(p) + i = Len(h) - Len(v) + i /\ Len(h) - Len(v) + i \in 1..Len(h)
      BY <1>0, <1>1, <1>3, <1>4, <2>2
    <3> QED
      BY <1>1, <1>3, <1>4, <2>2, <3>1
  <2> QED
    BY <1>1, <1>3, <2>1, <2>2
<1>6. Window(p, g)
  BY <1>0, <1>1, <1>3, <1>4, <1>5 DEF Window
<1> QED
  BY <1>2, <1>3, <1>6 DEF Window

\* The last start time of a list, and the list without it.
LEMMA Popped ==
  ASSUME NEW S, NEW q \in Seq(S), q # <<>>
  PROVE  /\ Last(q) = q[Len(q)] /\ Last(q) \in S /\ Len(q) \in DOMAIN q
         /\ Front(q) \in Seq(S) /\ DOMAIN Front(q) \subseteq DOMAIN q
         /\ \A i \in DOMAIN Front(q) : Front(q)[i] = q[i]
<1>1. Len(q) \in Nat \ {0}
  OBVIOUS
<1> QED
  BY <1>1 DEF Last, Front

-----------------------------------------------------------------------------
\* Every operation keeps the types.
LEMMA TypeStep ==
  ASSUME IInv, [Next]_vars
  PROVE  TypeOK'
<1> USE DEF TypeOK, IInv, Goto
<1>1. ASSUME NEW t \in Thread, StartMatch(t)
      PROVE  TypeOK'
  BY <1>1 DEF StartMatch, tracker, timer
<1>2. ASSUME NEW t \in Thread, NEW o \in Outcomes, EndMatch(t, o)
      PROVE  TypeOK'
  <2>1. clock - started[t] \in Time
    BY Times DEF Past
  <2>2. [outcome |-> o, latency |-> clock - started[t]] \in [outcome : Outcomes, latency : Time]
    BY <2>1
  <2>3. attempt' \in [Thread -> [outcome : Outcomes, latency : Time]]
    BY <1>2, <2>2 DEF EndMatch
  <2>4. started' \in [Thread -> Time]
    BY <1>2, Bounds DEF EndMatch, Time
  <2> QED
    BY <1>2, <2>3, <2>4 DEF EndMatch, tracker, timer
<1>3. ASSUME NEW t \in Thread, ContentionRead(t)
      PROVE  TypeOK'
  BY <1>3, Bounds DEF ContentionRead, tracker, timer
<1>4. ASSUME NEW t \in Thread, ContentionWrite(t)
      PROVE  TypeOK'
  BY <1>4 DEF ContentionWrite, timer
<1>5. ASSUME NEW t \in Thread, RecordAppend(t)
      PROVE  TypeOK'
  <2> DEFINE a == [outcome |-> attempt[t].outcome, latency |-> attempt[t].latency, at |-> clock]
  <2>1. a \in Attempt
    BY DEF Attempt
  <2> HIDE DEF a
  <2>2. /\ recent' = Push(recent, a) /\ log' = Append(log, a)
    BY <1>5 DEF RecordAppend, a
  <2>3. recent' \in Seq(Attempt) /\ log' \in Seq(Attempt) /\ Len(recent') <= WindowSize
    BY <2>1, <2>2, Pushed DEF Windows
  <2>4. /\ holder' \in Thread \cup {NoThread} /\ reg' \in [Thread -> Nat]
        /\ pc' \in [Thread -> {"idle", "matching", "executing", "contend", "record", "count", "totals", "compute"}]
    <3>1. CASE attempt[t].outcome = "unmatched"
      <4>1. holder' = t /\ reg' = [reg EXCEPT ![t] = failed] /\ pc' = [pc EXCEPT ![t] = "count"]
        BY <1>5, <3>1 DEF RecordAppend
      <4> QED
        BY <4>1
    <3>2. CASE attempt[t].outcome # "unmatched"
      BY <1>5, <3>2 DEF RecordAppend
    <3> QED
      BY <3>1, <3>2
  <2>5. attempt' \in [Thread -> [outcome : Outcomes, latency : Time]]
    BY <1>5, Bounds DEF RecordAppend, NoAttempt, Outcomes, Time
  <2> QED
    BY <1>5, <2>3, <2>4, <2>5 DEF RecordAppend, timer
<1>6. ASSUME NEW t \in Thread, RecordCount(t)
      PROVE  TypeOK'
  BY <1>6 DEF RecordCount, timer
<1>7. ASSUME NEW t \in Thread, SnapshotCopy(t)
      PROVE  TypeOK'
  <2>1. snap' \in [Thread -> Snap]
    <3>1. /\ snap' = [snap EXCEPT ![t] = [snap[t] EXCEPT !.recent = recent]]
          /\ snap[t] \in Snap /\ recent \in Seq(Attempt) /\ snap \in [Thread -> Snap]
      BY <1>7 DEF SnapshotCopy
    <3> HIDE DEF TypeOK
    <3>2. [snap[t] EXCEPT !.recent = recent] \in Snap
      BY <3>1 DEF Snap
    <3> QED
      BY <3>1, <3>2
  <2> QED
    BY <1>7, <2>1 DEF SnapshotCopy, tracker, timer
<1>8. ASSUME NEW t \in Thread, SnapshotTotals(t)
      PROVE  TypeOK'
  <2>1. snap' \in [Thread -> Snap]
    <3>1. Len(log) \in Nat
      OBVIOUS
    <3>2. [snap[t] EXCEPT !.failed = failed, !.contention = contention, !.now = clock, !.n = Len(log)] \in Snap
      <4> DEFINE s == snap[t]
      <4>1. /\ s \in Snap /\ clock \in Time /\ failed \in Nat /\ contention \in Nat
        OBVIOUS
      <4> HIDE DEF s, TypeOK
      <4>2. [s EXCEPT !.failed = failed, !.contention = contention, !.now = clock, !.n = Len(log)] \in Snap
        BY <4>1, <3>1 DEF Snap
      <4> QED
        BY <4>2 DEF s
    <3>3. snap' = [snap EXCEPT ![t] = [snap[t] EXCEPT !.failed = failed, !.contention = contention,
                                                      !.now = clock, !.n = Len(log)]]
      BY <1>8 DEF SnapshotTotals
    <3> QED
      BY <3>2, <3>3
  <2> QED
    BY <1>8, <2>1 DEF SnapshotTotals, tracker, timer
<1>9. ASSUME NEW t \in Thread, SnapshotReturn(t)
      PROVE  TypeOK'
  <2>1. snap' \in [Thread -> Snap]
    BY <1>9, Bounds DEF SnapshotReturn, Snap, NoSnap, Time
  <2> QED
    BY <1>9, <2>1 DEF SnapshotReturn, tracker, timer
<1>10. ASSUME NEW t \in Thread, NEW c \in Conn, BeforeExecute(t, c)
       PROVE  TypeOK'
  <2>1. Append(starts[c], clock) \in Seq(Time)
    BY Appended
  <2>2. starts' \in [Conn -> Seq(Time)]
    BY <1>10, <2>1 DEF BeforeExecute
  <2> QED
    BY <1>10, <2>2, Bounds DEF BeforeExecute, tracker
<1>11. ASSUME NEW t \in Thread, AfterExecute(t)
       PROVE  TypeOK'
  <2> DEFINE c == conn[t]
  <2>1. /\ c \in Conn /\ starts[c] \in Seq(Time) /\ starts[c] # <<>> /\ begun[c] # Idle /\ begun[c] \in Time
    BY <1>11 DEF AfterExecute, Executed, Statements
  <2> HIDE DEF c
  <2>2. /\ Last(starts[c]) \in Time /\ Last(starts[c]) <= clock /\ Front(starts[c]) \in Seq(Time)
    <3>1. /\ Last(starts[c]) = starts[c][Len(starts[c])] /\ Len(starts[c]) \in DOMAIN starts[c]
          /\ Last(starts[c]) \in Time /\ Front(starts[c]) \in Seq(Time)
      BY <2>1, Popped
    <3> QED
      BY <2>1, <3>1 DEF Past
  <2>3. clock - Last(starts[c]) \in Time /\ clock - begun[c] \in Time
    BY <2>1, <2>2, Times DEF Past
  <2>4. /\ dbRecent' = Push(dbRecent, clock - Last(starts[c]))
        /\ timed' = Append(timed, clock - begun[c])
        /\ starts' = [starts EXCEPT ![c] = Front(@)]
        /\ begun' = [begun EXCEPT ![c] = Idle]
    BY <1>11 DEF AfterExecute, Executed, c
  <2>5. dbRecent' \in Seq(Time) /\ Len(dbRecent') <= WindowSize
    BY <2>3, <2>4, Pushed DEF Windows
  <2>6. timed' \in Seq(Time)
    BY <2>3, <2>4, Appended
  <2>7. starts' \in [Conn -> Seq(Time)] /\ begun' \in [Conn -> Time \cup {Idle}]
    BY <2>1, <2>2, <2>4
  <2> QED
    BY <1>11, <2>5, <2>6, <2>7 DEF AfterExecute, Executed, tracker
<1>12. ASSUME NEW t \in Thread, ExecuteFails(t)
       PROVE  TypeOK'
  BY <1>12 DEF ExecuteFails, Executed, tracker
<1>13. CASE Tick
  BY <1>13, Bounds DEF Tick, Time, tracker, threads, timer
<1>14. CASE UNCHANGED vars
  BY <1>14 DEF vars, tracker, threads, timer
<1> QED
  BY <1>1, <1>2, <1>3, <1>4, <1>5, <1>6, <1>7, <1>8, <1>9, <1>10, <1>11, <1>12, <1>13, <1>14 DEF Next

-----------------------------------------------------------------------------
\* Which operations change what.
LEMMA Frames ==
  ASSUME [Next]_vars
  PROVE  /\ UNCHANGED <<recent, log>> \/ \E t \in Thread : RecordAppend(t)
         /\ UNCHANGED <<dbRecent, timed>> \/ \E t \in Thread : AfterExecute(t)
         /\ UNCHANGED started \/ \E t \in Thread : StartMatch(t) \/ \E o \in Outcomes : EndMatch(t, o)
         /\ UNCHANGED <<starts, begun>>
              \/ \E t \in Thread : AfterExecute(t) \/ ExecuteFails(t) \/ \E c \in Conn : BeforeExecute(t, c)
         /\ UNCHANGED clock \/ Tick
<1>1. ASSUME NEW t \in Thread,
             StartMatch(t) \/ (\E o \in Outcomes : EndMatch(t, o)) \/ ContentionRead(t)
               \/ SnapshotCopy(t) \/ SnapshotTotals(t) \/ SnapshotReturn(t)
      PROVE  /\ UNCHANGED <<recent, log, dbRecent, timed, starts, begun, clock>>
             /\ UNCHANGED started \/ StartMatch(t) \/ \E o \in Outcomes : EndMatch(t, o)
  BY <1>1 DEF StartMatch, EndMatch, ContentionRead, SnapshotCopy, SnapshotTotals, SnapshotReturn, tracker, timer
<1>2. ASSUME NEW t \in Thread, ContentionWrite(t) \/ RecordAppend(t) \/ RecordCount(t)
      PROVE  /\ UNCHANGED <<dbRecent, timed, starts, begun, clock, started>>
             /\ UNCHANGED <<recent, log>> \/ RecordAppend(t)
  BY <1>2 DEF ContentionWrite, RecordAppend, RecordCount, timer
<1>3. ASSUME NEW t \in Thread, AfterExecute(t) \/ ExecuteFails(t) \/ \E c \in Conn : BeforeExecute(t, c)
      PROVE  /\ UNCHANGED <<recent, log, clock, started>>
             /\ UNCHANGED <<dbRecent, timed>> \/ AfterExecute(t)
  BY <1>3 DEF AfterExecute, ExecuteFails, BeforeExecute, Executed, tracker
<1>4. CASE Tick
  BY <1>4 DEF Tick, tracker, threads, timer
<1>5. CASE UNCHANGED vars
  BY <1>5 DEF vars, tracker, threads, timer
<1>6. CASE \E t \in Thread :
             \/ StartMatch(t)
             \/ \E o \in Outcomes : EndMatch(t, o)
             \/ ContentionRead(t) \/ ContentionWrite(t)
             \/ RecordAppend(t) \/ RecordCount(t)
             \/ SnapshotCopy(t) \/ SnapshotTotals(t) \/ SnapshotReturn(t)
             \/ \E c \in Conn : BeforeExecute(t, c)
             \/ AfterExecute(t) \/ ExecuteFails(t)
  <2> PICK t \in Thread :
             \/ StartMatch(t)
             \/ \E o \in Outcomes : EndMatch(t, o)
             \/ ContentionRead(t) \/ ContentionWrite(t)
             \/ RecordAppend(t) \/ RecordCount(t)
             \/ SnapshotCopy(t) \/ SnapshotTotals(t) \/ SnapshotReturn(t)
             \/ \E c \in Conn : BeforeExecute(t, c)
             \/ AfterExecute(t) \/ ExecuteFails(t)
    BY <1>6
  <2>1. CASE StartMatch(t) \/ (\E o \in Outcomes : EndMatch(t, o)) \/ ContentionRead(t)
               \/ SnapshotCopy(t) \/ SnapshotTotals(t) \/ SnapshotReturn(t)
    BY <1>1, <2>1
  <2>2. CASE ContentionWrite(t) \/ RecordAppend(t) \/ RecordCount(t)
    BY <1>2, <2>2
  <2>3. CASE AfterExecute(t) \/ ExecuteFails(t) \/ \E c \in Conn : BeforeExecute(t, c)
    BY <1>3, <2>3
  <2> QED
    BY <2>1, <2>2, <2>3
<1> QED
  BY <1>4, <1>5, <1>6 DEF Next

\* The recorded attempt, and the two windows it and its history enter.
LEMMA Recorded ==
  ASSUME TypeOK, NEW t \in Thread, RecordAppend(t)
  PROVE  \E a \in Attempt :
           /\ a.outcome = attempt[t].outcome /\ a.at = clock
           /\ recent' = Push(recent, a) /\ log' = Append(log, a)
<1> DEFINE a == [outcome |-> attempt[t].outcome, latency |-> attempt[t].latency, at |-> clock]
<1>1. a \in Attempt /\ a.outcome = attempt[t].outcome /\ a.at = clock
  BY DEF TypeOK, Attempt
<1>2. recent' = Push(recent, a) /\ log' = Append(log, a)
  BY DEF RecordAppend
<1> QED
  BY <1>1, <1>2

\* A statement that ends normally has its own start time on top of its
\* connection's list.
LEMMA OwnStart ==
  ASSUME IInv, NEW t \in Thread, AfterExecute(t)
  PROVE  /\ conn[t] \in Conn /\ starts[conn[t]] \in Seq(Time) /\ starts[conn[t]] # <<>>
         /\ clock - begun[conn[t]] \in Time
         /\ dbRecent' = Push(dbRecent, clock - begun[conn[t]])
         /\ timed' = Append(timed, clock - begun[conn[t]])
<1>1. /\ conn[t] \in Conn /\ starts[conn[t]] \in Seq(Time) /\ starts[conn[t]] # <<>>
      /\ begun[conn[t]] \in Time /\ starts[conn[t]][Len(starts[conn[t]])] = begun[conn[t]]
  BY DEF IInv, TypeOK, AfterExecute, Executed, Statements
<1>2. Last(starts[conn[t]]) = begun[conn[t]]
  BY <1>1 DEF Last
<1>3. clock - begun[conn[t]] \in Time
  BY <1>1, Times DEF IInv, TypeOK, Past
<1> QED
  BY <1>1, <1>2, <1>3 DEF AfterExecute

\* Both windows stay the end of their histories.
LEMMA WindowsStep ==
  ASSUME IInv, [Next]_vars
  PROVE  Windows'
<1>1. Window(recent', log')
  <2>1. CASE UNCHANGED <<recent, log>>
    BY <2>1 DEF IInv, Windows
  <2>2. ASSUME NEW t \in Thread, RecordAppend(t)
        PROVE  Window(recent', log')
    <3>1. recent \in Seq(Attempt) /\ log \in Seq(Attempt) /\ Window(recent, log)
      BY DEF IInv, TypeOK, Windows
    <3>2. PICK x \in Attempt : recent' = Push(recent, x) /\ log' = Append(log, x)
      BY <2>2, Recorded DEF IInv
    <3> QED
      BY <3>1, <3>2, Pushed
  <2> QED
    BY <2>1, <2>2, Frames
<1>2. Window(dbRecent', timed')
  <2>1. CASE UNCHANGED <<dbRecent, timed>>
    BY <2>1 DEF IInv, Windows
  <2>2. ASSUME NEW t \in Thread, AfterExecute(t)
        PROVE  Window(dbRecent', timed')
    <3>1. dbRecent \in Seq(Time) /\ timed \in Seq(Time) /\ Window(dbRecent, timed)
      BY DEF IInv, TypeOK, Windows
    <3>2. PICK x \in Time : dbRecent' = Push(dbRecent, x) /\ timed' = Append(timed, x)
      BY <2>2, OwnStart
    <3> QED
      BY <3>1, <3>2, Pushed
  <2> QED
    BY <2>1, <2>2, Frames
<1> QED
  BY <1>1, <1>2 DEF Windows, Window

\* The lock and the with blocks go together.
LEMMA MutexStep ==
  ASSUME IInv, [Next]_vars
  PROVE  Mutex'
<1> USE DEF IInv, TypeOK, Mutex, Inside, Goto, Free
<1>1. ASSUME NEW t \in Thread, StartMatch(t) \/ (\E o \in Outcomes : EndMatch(t, o)) \/ SnapshotReturn(t)
      PROVE  Mutex'
  <2>1. /\ holder' = holder /\ pc[t] \notin Inside
        /\ \E l \in {"matching", "record", "idle"} : pc' = [pc EXCEPT ![t] = l]
    BY <1>1 DEF StartMatch, EndMatch, SnapshotReturn
  <2> QED
    BY <2>1
<1>2. ASSUME NEW t \in Thread, ContentionRead(t) \/ SnapshotCopy(t)
      PROVE  Mutex'
  <2>1. /\ holder = NoThread /\ holder' = t
        /\ \E l \in {"contend", "totals"} : pc' = [pc EXCEPT ![t] = l]
    BY <1>2 DEF ContentionRead, SnapshotCopy
  <2> QED
    BY <2>1
<1>3. ASSUME NEW t \in Thread, ContentionWrite(t) \/ RecordCount(t) \/ SnapshotTotals(t)
      PROVE  Mutex'
  <2>1. /\ pc[t] \in Inside /\ holder' = NoThread
        /\ \E l \in {"matching", "idle", "compute"} : pc' = [pc EXCEPT ![t] = l]
    BY <1>3 DEF ContentionWrite, RecordCount, SnapshotTotals
  <2> QED
    BY <2>1
<1>4. ASSUME NEW t \in Thread, RecordAppend(t)
      PROVE  Mutex'
  <2>1. /\ holder = NoThread
        /\ \/ holder' = t /\ pc' = [pc EXCEPT ![t] = "count"]
           \/ holder' = holder /\ pc' = [pc EXCEPT ![t] = "idle"]
    BY <1>4 DEF RecordAppend
  <2> QED
    BY <2>1
<1>5. ASSUME NEW t \in Thread, AfterExecute(t) \/ ExecuteFails(t) \/ \E c \in Conn : BeforeExecute(t, c)
      PROVE  Mutex'
  <2>1. /\ holder' = holder /\ pc[t] \notin Inside
        /\ \E l \in {"matching", "executing"} : pc' = [pc EXCEPT ![t] = l]
    BY <1>5 DEF AfterExecute, ExecuteFails, BeforeExecute, Executed
  <2> QED
    BY <2>1
<1>6. CASE Tick
  BY <1>6 DEF Tick, threads
<1>7. CASE UNCHANGED vars
  BY <1>7 DEF vars, threads
<1> QED
  BY <1>1, <1>2, <1>3, <1>4, <1>5, <1>6, <1>7 DEF Next

\* Time only goes forward.
LEMMA PastStep ==
  ASSUME IInv, [Next]_vars
  PROVE  Past'
<1>0. clock \in Nat /\ clock' \in Nat /\ clock <= clock'
  <2>1. clock' = clock \/ clock' = clock + 1
    BY Frames DEF Tick
  <2>2. clock \in Nat
    BY Times DEF IInv, TypeOK
  <2> QED
    BY <2>1, <2>2
<1>1. \A t \in Thread : started'[t] <= clock'
  <2>0. /\ started \in [Thread -> Time] /\ \A t \in Thread : started[t] <= clock /\ started[t] \in Nat
    BY Times DEF IInv, TypeOK, Past
  <2>1. CASE UNCHANGED started
    BY <1>0, <2>0, <2>1
  <2>2. ASSUME NEW t \in Thread, StartMatch(t) \/ \E o \in Outcomes : EndMatch(t, o)
        PROVE  \A u \in Thread : started'[u] <= clock'
    <3>1. clock' = clock /\ \E x \in {0, clock} : started' = [started EXCEPT ![t] = x]
      BY <2>2 DEF StartMatch, EndMatch
    <3> QED
      BY <1>0, <2>0, <3>1
  <2> QED
    BY <2>1, <2>2, Frames
<1>2. /\ \A i \in DOMAIN log' : log'[i].at <= clock'
      /\ \A i, j \in DOMAIN log' : i < j => log'[i].at <= log'[j].at
  <2>0. /\ log \in Seq(Attempt) /\ \A i \in DOMAIN log : log[i].at <= clock /\ log[i].at \in Nat
        /\ \A i, j \in DOMAIN log : i < j => log[i].at <= log[j].at
    <3>1. \A i \in DOMAIN log : log[i] \in Attempt
      BY DEF IInv, TypeOK
    <3> QED
      BY <3>1, Times DEF IInv, TypeOK, Past, Attempt
  <2>1. CASE UNCHANGED <<recent, log>>
    BY <1>0, <2>0, <2>1
  <2>2. ASSUME NEW t \in Thread, RecordAppend(t)
        PROVE  /\ \A i \in DOMAIN log' : log'[i].at <= clock'
               /\ \A i, j \in DOMAIN log' : i < j => log'[i].at <= log'[j].at
    <3>1. PICK a \in Attempt : a.at = clock /\ log' = Append(log, a)
      BY <2>2, Recorded DEF IInv
    <3>2. /\ DOMAIN log' = 1..(Len(log) + 1) /\ DOMAIN log = 1..Len(log) /\ Len(log) \in Nat
          /\ log'[Len(log) + 1] = a /\ \A i \in 1..Len(log) : log'[i] = log[i]
      BY <2>0, <3>1, Appended
    <3>3. \A i \in DOMAIN log' : i = Len(log) + 1 \/ i \in 1..Len(log)
      BY <3>2
    <3>4. \A i \in DOMAIN log' : log'[i].at <= clock /\ log'[i].at \in Nat
      BY <1>0, <2>0, <3>1, <3>2, <3>3
    <3>5. ASSUME NEW i \in DOMAIN log', NEW j \in DOMAIN log', i < j
          PROVE  log'[i].at <= log'[j].at
      <4>1. i \in 1..Len(log)
        BY <3>2, <3>5
      <4>2. CASE j = Len(log) + 1
        BY <3>1, <3>2, <3>4, <4>2
      <4>3. CASE j \in 1..Len(log)
        BY <2>0, <3>2, <3>5, <4>1, <4>3
      <4> QED
        BY <3>3, <4>2, <4>3
    <3> QED
      BY <1>0, <3>4, <3>5
  <2> QED
    BY <2>1, <2>2, Frames
<1>3. /\ \A c \in Conn : begun'[c] <= clock'
      /\ \A c \in Conn : \A i \in DOMAIN starts'[c] : starts'[c][i] <= clock'
  <2>0. /\ begun \in [Conn -> Time \cup {Idle}] /\ starts \in [Conn -> Seq(Time)]
        /\ \A c \in Conn : begun[c] <= clock /\ begun[c] \in Int
        /\ \A c \in Conn : \A i \in DOMAIN starts[c] : starts[c][i] <= clock /\ starts[c][i] \in Nat
    <3>1. \A c \in Conn : \A i \in DOMAIN starts[c] : starts[c][i] \in Time
      BY DEF IInv, TypeOK
    <3>2. \A c \in Conn : begun[c] \in Int
      <4>1. Time \cup {Idle} \subseteq Int
        BY Times DEF Idle
      <4> QED
        BY <4>1 DEF IInv, TypeOK
    <3> QED
      BY <3>1, <3>2, Times DEF IInv, TypeOK, Past
  <2>1. CASE UNCHANGED <<starts, begun>>
    BY <1>0, <2>0, <2>1
  <2>2. ASSUME NEW t \in Thread, AfterExecute(t) \/ ExecuteFails(t) \/ \E c \in Conn : BeforeExecute(t, c)
        PROVE  \A c \in Conn : begun'[c] <= clock'
    <3>1. clock' = clock /\ \E d \in Conn \cup {conn[t]}, x \in {Idle, clock} : begun' = [begun EXCEPT ![d] = x]
      BY <2>2 DEF AfterExecute, ExecuteFails, BeforeExecute, Executed
    <3> QED
      BY <1>0, <2>0, <3>1 DEF Idle
  <2>3. ASSUME NEW t \in Thread, NEW c \in Conn, BeforeExecute(t, c)
        PROVE  \A d \in Conn : \A i \in DOMAIN starts'[d] : starts'[d][i] <= clock'
    <3>1. clock' = clock /\ starts' = [starts EXCEPT ![c] = Append(starts[c], clock)] /\ clock \in Time
      BY <2>3 DEF BeforeExecute, IInv, TypeOK
    <3>2. \A i \in DOMAIN Append(starts[c], clock) : Append(starts[c], clock)[i] <= clock
      BY <1>0, <2>0, <3>1, Appended
    <3> QED
      BY <1>0, <2>0, <3>1, <3>2
  <2>4. ASSUME NEW t \in Thread, AfterExecute(t)
        PROVE  \A d \in Conn : \A i \in DOMAIN starts'[d] : starts'[d][i] <= clock'
    <3> DEFINE c == conn[t]
    <3>1. clock' = clock /\ starts' = [starts EXCEPT ![c] = Front(starts[c])]
      BY <2>4 DEF AfterExecute, Executed
    <3>2. c \in Conn /\ starts[c] \in Seq(Time) /\ starts[c] # <<>>
      BY <2>4, OwnStart
    <3> HIDE DEF c
    <3>3. \A i \in DOMAIN Front(starts[c]) : Front(starts[c])[i] <= clock
      BY <2>0, <3>2, Popped
    <3> QED
      BY <2>0, <3>1, <3>2, <3>3
  <2>5. ASSUME NEW t \in Thread, ExecuteFails(t)
        PROVE  \A d \in Conn : \A i \in DOMAIN starts'[d] : starts'[d][i] <= clock'
    BY <1>0, <2>0, <2>5 DEF ExecuteFails, Executed
  <2> QED
    BY <2>1, <2>2, <2>3, <2>4, <2>5, Frames
<1> QED
  BY <1>1, <1>2, <1>3 DEF Past

\* The statement timer's list stays matched to the running statement.
LEMMA StatementsStep ==
  ASSUME IInv, [Next]_vars
  PROVE  Statements'
<1>0. /\ pc \in [Thread -> {"idle", "matching", "executing", "contend", "record", "count", "totals", "compute"}]
      /\ conn \in [Thread -> Conn \cup {NoConn}] /\ Statements
      /\ starts \in [Conn -> Seq(Time)] /\ begun \in [Conn -> Time \cup {Idle}]
      /\ clock \in Time
  BY DEF IInv, TypeOK
<1> DEFINE Same(t) == pc'[t] = pc[t] /\ conn'[t] = conn[t]
<1>1. ASSUME NEW t \in Thread,
             \/ StartMatch(t) \/ (\E o \in Outcomes : EndMatch(t, o))
             \/ ContentionRead(t) \/ ContentionWrite(t) \/ RecordAppend(t) \/ RecordCount(t)
             \/ SnapshotCopy(t) \/ SnapshotTotals(t) \/ SnapshotReturn(t)
      PROVE  Statements'
  <2>1. UNCHANGED <<conn, starts, begun>>
    BY <1>1 DEF StartMatch, EndMatch, ContentionRead, ContentionWrite, RecordAppend, RecordCount,
                SnapshotCopy, SnapshotTotals, SnapshotReturn, timer
  <2>2. \E l \in {"idle", "matching", "contend", "record", "count", "totals", "compute"} :
          pc' = [pc EXCEPT ![t] = l]
    BY <1>1 DEF StartMatch, EndMatch, ContentionRead, ContentionWrite, RecordAppend, RecordCount,
                SnapshotCopy, SnapshotTotals, SnapshotReturn, Goto
  <2>3. \A u \in Thread : pc'[u] = "executing" => pc[u] = "executing"
    BY <1>0, <2>2
  <2> QED
    BY <1>0, <2>1, <2>3 DEF Statements
<1>2. ASSUME NEW t \in Thread, NEW c \in Conn, BeforeExecute(t, c)
      PROVE  Statements'
  <2>1. /\ begun[c] = Idle /\ pc' = [pc EXCEPT ![t] = "executing"] /\ conn' = [conn EXCEPT ![t] = c]
        /\ starts' = [starts EXCEPT ![c] = Append(starts[c], clock)]
        /\ begun' = [begun EXCEPT ![c] = clock]
    BY <1>2 DEF BeforeExecute, Goto
  <2>2. conn'[t] = c /\ pc'[t] = "executing" /\ \A u \in Thread : u # t => Same(u)
    BY <1>0, <2>1
  <2>3. /\ starts'[c] # <<>> /\ starts'[c][Len(starts'[c])] = begun'[c] /\ begun'[c] # Idle
    <3>1. clock # Idle
      <4>1. clock \in Nat
        BY <1>0, Times
      <4> QED
        BY <4>1 DEF Idle
    <3>2. starts'[c] = Append(starts[c], clock) /\ begun'[c] = clock /\ starts[c] \in Seq(Time)
      BY <1>0, <2>1
    <3>3. LET q == Append(starts[c], clock) IN q # <<>> /\ q[Len(q)] = clock
      <4>1. clock \in Time
        BY <1>0
      <4> QED
        BY <3>2, <4>1
    <3> QED
      BY <3>1, <3>2, <3>3
  <2>4. \A u \in Thread : u # t /\ pc[u] = "executing" =>
          /\ conn[u] # c /\ conn[u] \in Conn
          /\ starts'[conn[u]] = starts[conn[u]] /\ begun'[conn[u]] = begun[conn[u]]
    BY <1>0, <2>1 DEF Statements
  <2>5. ASSUME NEW u \in Thread, pc'[u] = "executing"
        PROVE  /\ conn'[u] \in Conn /\ begun'[conn'[u]] # Idle /\ starts'[conn'[u]] # <<>>
               /\ starts'[conn'[u]][Len(starts'[conn'[u]])] = begun'[conn'[u]]
    <3>1. CASE u = t
      BY <2>2, <2>3, <3>1
    <3>2. CASE u # t
      <4>1. pc[u] = "executing" /\ conn'[u] = conn[u]
        BY <2>2, <2>5, <3>2
      <4>2. /\ starts'[conn[u]] = starts[conn[u]] /\ begun'[conn[u]] = begun[conn[u]]
        BY <2>4, <3>2, <4>1
      <4> QED
        BY <1>0, <4>1, <4>2 DEF Statements
    <3> QED
      BY <3>1, <3>2
  <2>6. ASSUME NEW u \in Thread, NEW v \in Thread,
               pc'[u] = "executing", pc'[v] = "executing", conn'[u] = conn'[v]
        PROVE  u = v
    BY <1>0, <2>2, <2>4, <2>6 DEF Statements
  <2> HIDE DEF Same
  <2> QED
    BY <2>5, <2>6 DEF Statements
<1>3. ASSUME NEW t \in Thread, AfterExecute(t) \/ ExecuteFails(t)
      PROVE  Statements'
  <2> DEFINE c == conn[t]
  <2>1. /\ pc[t] = "executing" /\ begun' = [begun EXCEPT ![c] = Idle]
        /\ pc' = [pc EXCEPT ![t] = "matching"] /\ conn' = [conn EXCEPT ![t] = NoConn]
        /\ starts' = starts \/ starts' = [starts EXCEPT ![c] = Front(starts[c])]
    BY <1>3 DEF AfterExecute, ExecuteFails, Executed, Goto
  <2>2. pc'[t] # "executing" /\ \A u \in Thread : u # t => Same(u)
    BY <1>0, <2>1
  <2>3. \A d \in Conn : d # c => starts'[d] = starts[d] /\ begun'[d] = begun[d]
    BY <1>0, <2>1
  <2>4. \A u \in Thread : pc'[u] = "executing" =>
          /\ u # t /\ pc[u] = "executing" /\ conn'[u] = conn[u] /\ conn[u] # c /\ conn[u] \in Conn
    BY <1>0, <2>1, <2>2 DEF Statements
  <2> HIDE DEF c, Same
  <2>5. ASSUME NEW u \in Thread, pc'[u] = "executing"
        PROVE  /\ conn'[u] \in Conn /\ begun'[conn'[u]] # Idle /\ starts'[conn'[u]] # <<>>
               /\ starts'[conn'[u]][Len(starts'[conn'[u]])] = begun'[conn'[u]]
    <3>1. /\ pc[u] = "executing" /\ conn'[u] = conn[u] /\ conn[u] \in Conn
          /\ starts'[conn[u]] = starts[conn[u]] /\ begun'[conn[u]] = begun[conn[u]]
      BY <2>3, <2>4, <2>5
    <3> QED
      BY <1>0, <3>1 DEF Statements
  <2>6. ASSUME NEW u \in Thread, NEW v \in Thread,
               pc'[u] = "executing", pc'[v] = "executing", conn'[u] = conn'[v]
        PROVE  u = v
    BY <1>0, <2>4, <2>6 DEF Statements
  <2> QED
    BY <2>5, <2>6 DEF Statements
<1>4. CASE Tick
  BY <1>0, <1>4 DEF Tick, threads, timer, Statements
<1>5. CASE UNCHANGED vars
  BY <1>0, <1>5 DEF vars, threads, timer, Statements
<1> HIDE DEF Same
<1> QED
  BY <1>1, <1>2, <1>3, <1>4, <1>5 DEF Next

-----------------------------------------------------------------------------
\* Counting.

\* The failures of a history that gets one attempt longer: those among the
\* first n stay, and the new one counts if it is unmatched.
LEMMA FailuresAppend ==
  ASSUME NEW h \in Seq(Attempt), NEW a \in Attempt
  PROVE  /\ \A n \in 0..Len(h) : Failures(Append(h, a), n) = Failures(h, n)
         /\ Failures(Append(h, a), Len(h) + 1)
              = IF a.outcome = "unmatched" THEN Failures(h, Len(h)) + 1 ELSE Failures(h, Len(h))
         /\ \A n \in 0..Len(h) : Failures(h, n) \in Nat
<1> DEFINE g == Append(h, a)
           k == Len(h)
<1>0. /\ k \in Nat /\ g[k + 1] = a /\ \A i \in 1..k : g[i] = h[i]
  BY Appended
<1> HIDE DEF g, k
<1>1. ASSUME NEW n \in 0..k
      PROVE  {i \in 1..n : g[i].outcome = "unmatched"} = {i \in 1..n : h[i].outcome = "unmatched"}
  BY <1>0
<1> DEFINE F == {i \in 1..k : h[i].outcome = "unmatched"}
           G == {i \in 1..(k + 1) : g[i].outcome = "unmatched"}
<1>2. ASSUME NEW n \in 0..k
      PROVE  /\ IsFiniteSet({i \in 1..n : h[i].outcome = "unmatched"})
             /\ Cardinality({i \in 1..n : h[i].outcome = "unmatched"}) \in Nat
  <2>1. IsFiniteSet(1..n)
    BY <1>0, FS_Interval
  <2> QED
    BY <2>1, FS_Subset, FS_CardinalityType
<1>3. G = IF a.outcome = "unmatched" THEN F \cup {k + 1} ELSE F
  BY <1>0
<1>4. k + 1 \notin F /\ k \in 0..k
  BY <1>0
<1>5. IsFiniteSet(F) /\ Cardinality(F) \in Nat
  BY <1>2, <1>4
<1> HIDE DEF F, G
<1>6. Cardinality(G) = IF a.outcome = "unmatched" THEN Cardinality(F) + 1 ELSE Cardinality(F)
  BY <1>3, <1>4, <1>5, FS_AddElement
<1> QED
  BY <1>1, <1>2, <1>6 DEF F, G, g, k, Failures

\* No increment is lost: what a thread read under the lock is still there
\* when it writes.
LEMMA CountersStep ==
  ASSUME IInv, [Next]_vars
  PROVE  Counters'
<1>0. /\ pc \in [Thread -> {"idle", "matching", "executing", "contend", "record", "count", "totals", "compute"}]
      /\ holder \in Thread \cup {NoThread} /\ reg \in [Thread -> Nat] /\ log \in Seq(Attempt)
      /\ failed \in Nat /\ contention \in Nat
      /\ \A t \in Thread : pc[t] \in Inside <=> holder = t
      /\ Counters
  BY DEF IInv, TypeOK, Mutex
<1> USE DEF Inside
<1> DEFINE Away == {"idle", "matching", "executing", "record", "totals", "compute"}
<1>1. ASSUME NEW t \in Thread,
             \/ StartMatch(t) \/ (\E o \in Outcomes : EndMatch(t, o))
             \/ SnapshotCopy(t) \/ SnapshotTotals(t) \/ SnapshotReturn(t)
             \/ AfterExecute(t) \/ ExecuteFails(t) \/ \E c \in Conn : BeforeExecute(t, c)
      PROVE  Counters'
  <2>1. /\ UNCHANGED <<contention, contended, failed, log, reg>> /\ pc[t] \in Away
        /\ \E l \in Away : pc' = [pc EXCEPT ![t] = l]
    BY <1>1 DEF StartMatch, EndMatch, SnapshotCopy, SnapshotTotals, SnapshotReturn, AfterExecute,
                ExecuteFails, Executed, BeforeExecute, Goto, tracker
  <2>2. \A u \in Thread : /\ pc'[u] = "contend" <=> pc[u] = "contend"
                          /\ pc'[u] = "count" <=> pc[u] = "count"
    BY <1>0, <2>1
  <2> QED
    BY <1>0, <2>1, <2>2 DEF Counters
<1>2. ASSUME NEW t \in Thread, ContentionRead(t)
      PROVE  Counters'
  <2>1. /\ UNCHANGED <<contention, contended, failed, log>> /\ holder = NoThread
        /\ reg' = [reg EXCEPT ![t] = contention] /\ pc' = [pc EXCEPT ![t] = "contend"]
    BY <1>2 DEF ContentionRead, Goto, tracker, Free
  <2>2. \A u \in Thread : pc[u] # "contend" /\ pc[u] # "count"
    BY <1>0, <2>1
  <2>3. \A u \in Thread : pc'[u] # "count" /\ (pc'[u] = "contend" => reg'[u] = contention)
    BY <1>0, <2>1, <2>2
  <2> QED
    BY <1>0, <2>1, <2>2, <2>3 DEF Counters
<1>3. ASSUME NEW t \in Thread, ContentionWrite(t)
      PROVE  Counters'
  <2>1. /\ UNCHANGED <<failed, log>> /\ pc[t] = "contend"
        /\ contention' = reg[t] + 1 /\ contended' = contended + 1
        /\ pc' = [pc EXCEPT ![t] = "matching"]
    BY <1>3 DEF ContentionWrite, Goto
  <2>2. \A u \in Thread : u # t => pc[u] # "contend" /\ pc[u] # "count"
    BY <1>0, <2>1
  <2>3. /\ \A u \in Thread : pc'[u] # "count" /\ pc'[u] # "contend"
        /\ \A u \in Thread : pc[u] # "count"
    BY <1>0, <2>1, <2>2
  <2>4. contention' = contended'
    BY <1>0, <2>1 DEF Counters
  <2> QED
    BY <1>0, <2>1, <2>3, <2>4 DEF Counters
<1>4. ASSUME NEW t \in Thread, RecordAppend(t)
      PROVE  Counters'
  <2>1. PICK a \in Attempt : a.outcome = attempt[t].outcome /\ log' = Append(log, a)
    BY <1>4, Recorded DEF IInv
  <2>2. /\ UNCHANGED <<contention, contended, failed>> /\ holder = NoThread
        /\ IF attempt[t].outcome = "unmatched"
             THEN reg' = [reg EXCEPT ![t] = failed] /\ pc' = [pc EXCEPT ![t] = "count"]
             ELSE reg' = reg /\ pc' = [pc EXCEPT ![t] = "idle"]
    BY <1>4 DEF RecordAppend, Goto, Free
  <2>3. \A u \in Thread : pc[u] # "contend" /\ pc[u] # "count"
    BY <1>0, <2>2
  <2>4. failed = Failures(log, Len(log)) /\ contention = contended
    BY <1>0, <2>3 DEF Counters
  <2>5. /\ Len(log') = Len(log) + 1
        /\ Failures(log', Len(log'))
             = IF a.outcome = "unmatched" THEN failed + 1 ELSE failed
    BY <1>0, <2>1, <2>4, Appended, FailuresAppend
  <2>6. CASE attempt[t].outcome = "unmatched"
    <3>1. /\ reg'[t] = failed /\ pc'[t] = "count" /\ \A u \in Thread : pc'[u] # "contend"
          /\ \A u \in Thread : pc'[u] = "count" => u = t
      BY <1>0, <2>2, <2>3, <2>6
    <3>2. failed + 1 = Failures(log', Len(log'))
      BY <2>1, <2>5, <2>6
    <3> QED
      BY <2>2, <2>4, <3>1, <3>2 DEF Counters
  <2>7. CASE attempt[t].outcome # "unmatched"
    <3>1. \A u \in Thread : pc'[u] # "contend" /\ pc'[u] # "count"
      BY <1>0, <2>2, <2>3, <2>7
    <3>2. failed = Failures(log', Len(log'))
      BY <2>1, <2>5, <2>7
    <3> QED
      BY <2>2, <2>4, <3>1, <3>2 DEF Counters
  <2> QED
    BY <2>6, <2>7
<1>5. ASSUME NEW t \in Thread, RecordCount(t)
      PROVE  Counters'
  <2>1. /\ UNCHANGED <<contention, contended, log>> /\ pc[t] = "count"
        /\ failed' = reg[t] + 1 /\ pc' = [pc EXCEPT ![t] = "idle"]
    BY <1>5 DEF RecordCount, Goto
  <2>2. \A u \in Thread : u # t => pc[u] # "contend" /\ pc[u] # "count"
    BY <1>0, <2>1
  <2>3. \A u \in Thread : pc'[u] # "count" /\ pc'[u] # "contend"
    BY <1>0, <2>1, <2>2
  <2>4. failed' = Failures(log, Len(log))
    BY <1>0, <2>1 DEF Counters
  <2> QED
    BY <1>0, <2>1, <2>3, <2>4 DEF Counters
<1>6. CASE Tick
  BY <1>0, <1>6 DEF Tick, threads, tracker, Counters
<1>7. CASE UNCHANGED vars
  BY <1>0, <1>7 DEF vars, threads, tracker, Counters
<1> HIDE DEF Away
<1> QED
  BY <1>1, <1>2, <1>3, <1>4, <1>5, <1>6, <1>7 DEF Next

\* A longer history still contains the moment a snapshot is of.
LEMMA TakenLasts ==
  ASSUME NEW s \in Snap, NEW h \in Seq(Attempt), NEW a \in Attempt, Taken(s, h)
  PROVE  Taken(s, Append(h, a))
<1> DEFINE w == s.recent
           n == s.n
           g == Append(h, a)
           k == Len(h)
<1>1. /\ w \in Seq(Attempt) /\ n \in Nat /\ Len(w) \in Nat /\ k \in Nat
  BY DEF Snap
<1>2. /\ Len(g) = k + 1 /\ \A i \in 1..k : g[i] = h[i]
  BY Appended
<1>3. /\ n <= k /\ Len(w) <= n /\ Len(w) <= WindowSize
      /\ Len(w) = WindowSize \/ Len(w) = n
      /\ s.failed = Failures(h, n) /\ \A i \in 1..Len(w) : w[i] = h[n - Len(w) + i]
  BY DEF Taken
<1>4. Failures(g, n) = Failures(h, n)
  <2>1. n \in 0..Len(h)
    BY <1>1, <1>3
  <2> QED
    BY <2>1, FailuresAppend
<1> HIDE DEF w, n, g, k
<1>5. ASSUME NEW i \in 1..Len(w)
      PROVE  w[i] = g[n - Len(w) + i]
  <2>1. n - Len(w) + i \in 1..k
    BY <1>1, <1>3
  <2> QED
    BY <1>2, <1>3, <2>1
<1>6. n <= Len(g)
  BY <1>1, <1>2, <1>3
<1> QED
  BY <1>3, <1>4, <1>5, <1>6 DEF Taken, w, n, g

\* A snapshot stays of one moment, whatever is recorded after it.
LEMMA CopiesStep ==
  ASSUME IInv, [Next]_vars
  PROVE  Copies'
<1>0. /\ pc \in [Thread -> {"idle", "matching", "executing", "contend", "record", "count", "totals", "compute"}]
      /\ holder \in Thread \cup {NoThread} /\ log \in Seq(Attempt) /\ recent \in Seq(Attempt)
      /\ snap \in [Thread -> Snap] /\ Window(recent, log)
      /\ \A t \in Thread : pc[t] \in Inside <=> holder = t
      /\ Copies /\ Counters
  BY DEF IInv, TypeOK, Mutex, Windows
<1> DEFINE Away == {"idle", "matching", "executing", "contend", "record", "count"}
<1>1. ASSUME NEW t \in Thread,
             \/ StartMatch(t) \/ (\E o \in Outcomes : EndMatch(t, o))
             \/ ContentionRead(t) \/ ContentionWrite(t) \/ RecordCount(t)
             \/ AfterExecute(t) \/ ExecuteFails(t) \/ \E c \in Conn : BeforeExecute(t, c)
      PROVE  Copies'
  <2>1. /\ UNCHANGED <<recent, log, snap>>
        /\ \E l \in Away : pc' = [pc EXCEPT ![t] = l]
    BY <1>1 DEF StartMatch, EndMatch, ContentionRead, ContentionWrite, RecordCount, AfterExecute,
                ExecuteFails, Executed, BeforeExecute, Goto, tracker
  <2>2. \A u \in Thread : /\ pc'[u] = "totals" => pc[u] = "totals"
                          /\ pc'[u] = "compute" => pc[u] = "compute"
    BY <1>0, <2>1
  <2> QED
    BY <1>0, <2>1, <2>2 DEF Copies
<1>2. ASSUME NEW t \in Thread, RecordAppend(t)
      PROVE  Copies'
  <2>1. PICK a \in Attempt : log' = Append(log, a)
    BY <1>2, Recorded DEF IInv
  <2>2. snap' = snap /\ holder = NoThread /\ \E l \in Away : pc' = [pc EXCEPT ![t] = l]
    BY <1>2 DEF RecordAppend, Goto, Free
  <2>3. \A u \in Thread : /\ pc'[u] # "totals"
                          /\ pc'[u] = "compute" => pc[u] = "compute"
    BY <1>0, <2>2 DEF Inside
  <2>4. ASSUME NEW u \in Thread, pc'[u] = "compute"
        PROVE  Taken(snap'[u], log')
    <3>1. snap[u] \in Snap /\ Taken(snap[u], log)
      BY <1>0, <2>3, <2>4 DEF Copies
    <3> QED
      BY <1>0, <2>1, <2>2, <3>1, TakenLasts
  <2> QED
    BY <2>3, <2>4 DEF Copies
<1>3. ASSUME NEW t \in Thread, SnapshotCopy(t)
      PROVE  Copies'
  <2>1. /\ UNCHANGED <<recent, log>> /\ pc' = [pc EXCEPT ![t] = "totals"]
        /\ snap' = [snap EXCEPT ![t].recent = recent]
    BY <1>3 DEF SnapshotCopy, Goto, tracker
  <2>2. snap'[t].recent = recent /\ pc'[t] = "totals"
    BY <1>0, <2>1 DEF Snap
  <2>3. \A u \in Thread : u # t => pc'[u] = pc[u] /\ snap'[u] = snap[u]
    BY <1>0, <2>1
  <2> QED
    BY <1>0, <2>1, <2>2, <2>3 DEF Copies
<1>4. ASSUME NEW t \in Thread, SnapshotTotals(t)
      PROVE  Copies'
  <2>1. /\ UNCHANGED <<recent, log>> /\ pc[t] = "totals" /\ pc' = [pc EXCEPT ![t] = "compute"]
        /\ snap' = [snap EXCEPT ![t] = [snap[t] EXCEPT !.failed = failed, !.contention = contention,
                                                       !.now = clock, !.n = Len(log)]]
    BY <1>4 DEF SnapshotTotals, Goto, tracker
  <2>2. pc'[t] = "compute" /\ \A u \in Thread : u # t => pc'[u] = pc[u] /\ snap'[u] = snap[u]
    BY <1>0, <2>1
  <2>3. snap'[t].recent = snap[t].recent /\ snap'[t].failed = failed /\ snap'[t].n = Len(log)
    BY <1>0, <2>1 DEF Snap
  <2>4. \A u \in Thread : pc[u] # "count"
    BY <1>0, <2>1 DEF Inside
  <2>5. failed = Failures(log, Len(log)) /\ snap[t].recent = recent
    BY <1>0, <2>1, <2>4 DEF Counters, Copies
  <2>6. Taken(snap'[t], log)
    <3>1. Len(recent) \in Nat /\ Len(log) \in Nat
      BY <1>0
    <3> QED
      BY <1>0, <2>3, <2>5, <3>1 DEF Window, Taken
  <2> QED
    BY <1>0, <2>1, <2>2, <2>6 DEF Copies
<1>5. ASSUME NEW t \in Thread, SnapshotReturn(t)
      PROVE  Copies'
  <2>1. /\ UNCHANGED <<recent, log>> /\ pc' = [pc EXCEPT ![t] = "idle"] /\ snap' = [snap EXCEPT ![t] = NoSnap]
    BY <1>5 DEF SnapshotReturn, Goto, tracker
  <2>2. pc'[t] = "idle" /\ \A u \in Thread : u # t => pc'[u] = pc[u] /\ snap'[u] = snap[u]
    BY <1>0, <2>1
  <2> QED
    BY <1>0, <2>1, <2>2 DEF Copies
<1>6. CASE Tick
  BY <1>0, <1>6 DEF Tick, threads, tracker, Copies
<1>7. CASE UNCHANGED vars
  BY <1>0, <1>7 DEF vars, threads, tracker, Copies
<1> HIDE DEF Away
<1> QED
  BY <1>1, <1>2, <1>3, <1>4, <1>5, <1>6, <1>7 DEF Next

\* It holds at the start.
LEMMA InitIInv == Init => IInv
<1> SUFFICES ASSUME Init PROVE IInv
  OBVIOUS
<1>1. 0 \in Time /\ NoAttempt \in [outcome : Outcomes, latency : Time]
  BY Bounds DEF Time, NoAttempt, Outcomes
<1>2. NoSnap \in Snap
  BY <1>1 DEF NoSnap, Snap
<1>3. Failures(<<>>, 0) = 0
  <2>1. {i \in 1..0 : <<>>[i].outcome = "unmatched"} = {}
    OBVIOUS
  <2> QED
    BY <2>1, FS_EmptySet DEF Failures
<1>4. TypeOK
  BY <1>1, <1>2, Bounds DEF Init, TypeOK
<1>5. Windows /\ Mutex /\ Statements
  BY Bounds DEF Init, Windows, Window, Mutex, Inside, Statements
<1>6. Past
  BY Bounds DEF Init, Past, Idle
<1>7. Counters /\ Copies
  BY <1>3 DEF Init, Counters, Copies
<1> QED
  BY <1>4, <1>5, <1>6, <1>7 DEF IInv

\* The invariant of every behaviour.
LEMMA Invariant == Spec => []IInv
<1>1. IInv /\ [Next]_vars => IInv'
  BY TypeStep, WindowsStep, MutexStep, PastStep, StatementsStep, CountersStep, CopiesStep DEF IInv
<1> QED
  BY <1>1, InitIInv, PTL DEF Spec

-----------------------------------------------------------------------------
\* The properties.

\* A sequence that agrees with the positions up to n of another is a SubSeq.
LEMMA EndIsSubSeq ==
  ASSUME NEW S, NEW w \in Seq(S), NEW h \in Seq(S), NEW n \in 0..Len(h), Len(w) <= n,
         \A i \in 1..Len(w) : w[i] = h[n - Len(w) + i]
  PROVE  w = SubSeq(h, n - Len(w) + 1, n)
<1> DEFINE m == Len(w)
           t == SubSeq(h, n - m + 1, n)
<1>1. /\ m \in Nat /\ n \in Nat /\ Len(h) \in Nat
      /\ n - m + 1 \in 1..(Len(h) + 1) /\ n - (n - m + 1) + 1 = m
  OBVIOUS
<1>2. t \in Seq(S) /\ Len(t) = m
  BY <1>1
<1>3. ASSUME NEW i \in 1..m
      PROVE  t[i] = h[n - m + i]
  <2>1. t[i] = h[(n - m + 1) + i - 1] /\ (n - m + 1) + i - 1 = n - m + i
    BY <1>1
  <2> QED
    BY <2>1
<1> HIDE DEF t
<1>4. w = t
  <2>1. w \in Seq(S) /\ Len(w) = Len(t)
    BY <1>2
  <2>2. \A i \in 1..Len(w) : w[i] = t[i]
    BY <1>3
  <2> QED
    BY <1>2, <2>1, <2>2, SeqEqual
<1> QED
  BY <1>4 DEF t

\* Every variable of the metrics keeps its type, and neither deque grows
\* beyond settings.metrics_window_size.
THEOREM MetricsAreTyped == Spec => []TypeOK
<1>1. IInv => TypeOK
  BY DEF IInv
<1> QED
  BY Invariant, <1>1, PTL

\* What the statement timer records is each statement's own duration, however
\* many failed statements left their start times on its connection, and for
\* any number of threads, connections and statements.
THEOREM TimerIsHonest == Spec => []DurationsAreOwn
<1>1. ASSUME IInv
      PROVE  DurationsAreOwn
  <2>1. /\ dbRecent \in Seq(Time) /\ timed \in Seq(Time) /\ Len(dbRecent) <= Len(timed)
        /\ Len(timed) \in 0..Len(timed)
        /\ \A i \in 1..Len(dbRecent) : dbRecent[i] = timed[Len(timed) - Len(dbRecent) + i]
    BY <1>1 DEF IInv, TypeOK, Windows, Window
  <2> QED
    BY <2>1, EndIsSubSeq DEF DurationsAreOwn
<1> QED
  BY Invariant, <1>1, PTL

\* The larger of an integer and zero.
LEMMA MaxZero ==
  ASSUME NEW a \in Int
  PROVE  Max({a, 0}) = IF a >= 0 THEN a ELSE 0
<1> DEFINE m == IF a >= 0 THEN a ELSE 0
<1>1. m \in {a, 0} /\ \A y \in {a, 0} : m >= y
  OBVIOUS
<1>2. \A x \in {a, 0} : (\A y \in {a, 0} : x >= y) => x = m
  OBVIOUS
<1> HIDE DEF m
<1>3. Max({a, 0}) = m
  BY <1>1, <1>2 DEF Max
<1> QED
  BY <1>3 DEF m

\* GET /stats answers with the figures of one moment: the copied window is
\* the end of the history its failed total counts, and no increment of a
\* counter is lost between threads.
THEOREM SnapshotIsOfOneMoment == Spec => []SnapshotConsistent
<1>1. ASSUME IInv
      PROVE  SnapshotConsistent
  <2>1. ASSUME NEW t \in Computing
        PROVE  /\ snap[t].recent = SubSeq(log, Max({snap[t].n - WindowSize, 0}) + 1, snap[t].n)
               /\ snap[t].failed = Failures(log, snap[t].n)
    <3> DEFINE w == snap[t].recent
               n == snap[t].n
    <3>1. /\ snap[t] \in Snap /\ Taken(snap[t], log) /\ log \in Seq(Attempt)
      BY <1>1, <2>1 DEF IInv, TypeOK, Computing, Copies
    <3>2. /\ w \in Seq(Attempt) /\ n \in Nat /\ Len(w) \in Nat /\ Len(log) \in Nat
      BY <3>1 DEF Snap
    <3>3. /\ n <= Len(log) /\ Len(w) <= n /\ Len(w) <= WindowSize
          /\ Len(w) = WindowSize \/ Len(w) = n
          /\ \A i \in 1..Len(w) : w[i] = log[n - Len(w) + i]
          /\ snap[t].failed = Failures(log, n)
      BY <3>1 DEF Taken
    <3> HIDE DEF w, n
    <3>4. Max({n - WindowSize, 0}) = n - Len(w)
      <4>1. n - WindowSize \in Int
        BY <3>2, Bounds
      <4>2. Max({n - WindowSize, 0}) = IF n - WindowSize >= 0 THEN n - WindowSize ELSE 0
        BY <4>1, MaxZero
      <4> QED
        BY <3>2, <3>3, <4>2, Bounds
    <3>5. w = SubSeq(log, n - Len(w) + 1, n)
      <4>1. n \in 0..Len(log)
        BY <3>2, <3>3
      <4> QED
        BY <3>1, <3>2, <3>3, <4>1, EndIsSubSeq
    <3> QED
      BY <3>3, <3>4, <3>5 DEF w, n
  <2>2. contention = contended
    BY <1>1 DEF IInv, Counters
  <2> QED
    BY <2>1, <2>2 DEF SnapshotConsistent, CountIn, Failures
<1> QED
  BY Invariant, <1>1, PTL

\* The reported throughput never exceeds the matches of the trailing time,
\* and is exactly their number as long as the deque has not had to forget an
\* attempt of that time, for any window and any trailing time.
THEOREM ThroughputIsOfTheWindow == Spec => []ThroughputWithinWindow
<1>1. ASSUME IInv, NEW t \in Computing
      PROVE  LET s == snap[t]
                 C == {j \in 1..s.n : s.now - log[j].at <= Trailing}
                 B == {j \in 1..s.n : s.now - log[j].at <= Trailing /\ log[j].outcome = "matched"}
             IN  /\ Throughput(s) <= Cardinality(B)
                 /\ Cardinality(C) <= WindowSize => Throughput(s) = Cardinality(B)
  <2> DEFINE s == snap[t]
             w == s.recent
             n == s.n
             m == Len(w)
             A == {i \in DOMAIN w : w[i].outcome = "matched" /\ s.now - w[i].at <= Trailing}
             B == {j \in 1..n : s.now - log[j].at <= Trailing /\ log[j].outcome = "matched"}
             C == {j \in 1..n : s.now - log[j].at <= Trailing}
  <2>1. /\ s \in Snap /\ Taken(s, log) /\ log \in Seq(Attempt)
    BY <1>1 DEF IInv, TypeOK, Computing, Copies
  <2>2. /\ w \in Seq(Attempt) /\ n \in Nat /\ m \in Nat /\ DOMAIN w = 1..m /\ Len(log) \in Nat
        /\ DOMAIN log = 1..Len(log) /\ s.now \in Nat
    <3>1. s.now \in Time /\ s.recent \in Seq(Attempt) /\ s.n \in Nat
      BY <2>1 DEF Snap
    <3>2. s.now \in Nat
      BY <3>1, Times
    <3> QED
      BY <2>1, <3>1, <3>2
  <2>3. /\ n <= Len(log) /\ m <= n
        /\ m = WindowSize \/ m = n
        /\ \A i \in 1..m : w[i] = log[n - m + i]
    BY <2>1 DEF Taken
  <2>4. Throughput(s) = Cardinality(A)
    BY DEF Throughput
  <2>5. \A j \in 1..n : log[j].at \in Nat
    <3>1. \A j \in 1..n : j \in DOMAIN log
      BY <2>2, <2>3
    <3>2. \A j \in 1..n : log[j] \in Attempt
      BY <2>1, <3>1
    <3> QED
      BY <3>2, Times DEF Attempt
  <2>6. \A i, j \in 1..n : i < j => log[i].at <= log[j].at
    <3>1. \A j \in 1..n : j \in DOMAIN log
      BY <2>2, <2>3
    <3> QED
      BY <1>1, <3>1 DEF IInv, Past
  <2> HIDE DEF s, w, n, m
  <2>7. IsFiniteSet(B) /\ IsFiniteSet(C)
    <3>1. IsFiniteSet(1..n)
      BY <2>2, FS_Interval
    <3> QED
      BY <3>1, FS_Subset
  <2> DEFINE f == [i \in A |-> n - m + i]
  <2>8. f \in Injection(A, B)
    <3>1. ASSUME NEW i \in A
          PROVE  n - m + i \in B
      <4>1. i \in 1..m /\ n - m + i \in 1..n
        BY <2>2, <2>3
      <4> QED
        BY <2>3, <4>1
    <3>2. \A i, j \in A : n - m + i = n - m + j => i = j
      BY <2>2
    <3> HIDE DEF A, B
    <3>3. f \in [A -> B]
      BY <3>1
    <3>4. IsInjective(f)
      BY <3>2 DEF IsInjective
    <3> QED
      BY <3>3, <3>4 DEF Injection
  <2>9. /\ Cardinality(A) <= Cardinality(B)
        /\ Cardinality(A) = Cardinality(B) <=> f \in Surjection(A, B)
    <3> HIDE DEF A, B, f
    <3> QED
      BY <2>7, <2>8, FS_Injection
  <2>10. ASSUME Cardinality(C) <= WindowSize
         PROVE  f \in Surjection(A, B)
    <3>1. ASSUME NEW j \in B
          PROVE  j - (n - m) \in 1..m
      <4>1. SUFFICES ASSUME j <= n - m
                     PROVE  FALSE
        BY <2>2, <2>3, <4>1
      <4>2. m = WindowSize /\ j \in 1..n
        BY <2>2, <2>3, <4>1
      <4>3. j..n \subseteq C
        <5> SUFFICES ASSUME NEW k \in j..n
                     PROVE  k \in C
          OBVIOUS
        <5>0. k \in 1..n /\ (j = k \/ j < k)
          BY <2>2, <4>2
        <5>1. log[j].at <= log[k].at
          BY <2>5, <2>6, <4>2, <5>0
        <5>2. s.now - log[j].at <= Trailing
          OBVIOUS
        <5> QED
          BY <2>2, <2>5, <4>2, <5>0, <5>1, <5>2, Bounds
      <4>4. Cardinality(j..n) = n - j + 1
        BY <2>2, <4>2, FS_Interval
      <4>5. Cardinality(j..n) <= Cardinality(C) /\ Cardinality(C) \in Nat
        <5> HIDE DEF C
        <5> QED
          BY <2>7, <4>3, FS_Subset, FS_CardinalityType
      <4> QED
        BY <2>2, <2>10, <4>1, <4>2, <4>4, <4>5
    <3>2. ASSUME NEW j \in B
          PROVE  \E i \in A : f[i] = j
      <4>1. j - (n - m) \in 1..m /\ n - m + (j - (n - m)) = j
        BY <2>2, <3>1
      <4>2. w[j - (n - m)] = log[j]
        BY <2>3, <4>1
      <4>3. j - (n - m) \in A
        BY <2>2, <4>1, <4>2
      <4> QED
        BY <4>1, <4>3
    <3>3. f \in [A -> B]
      BY <2>8 DEF Injection
    <3> HIDE DEF A, B, f
    <3> QED
      BY <3>2, <3>3 DEF Surjection
  <2> QED
    BY <2>4, <2>9, <2>10 DEF s, n
<1>2. IInv => ThroughputWithinWindow
  BY <1>1 DEF ThroughputWithinWindow, CountIn
<1> QED
  BY Invariant, <1>2, PTL

-----------------------------------------------------------------------------
\* Percentiles.

\* A set of numbers has a least element: the sets 1..n are well-founded by
\* inclusion.
LEMMA LeastNumber ==
  ASSUME NEW S \in SUBSET Nat, S # {}
  PROVE  \E x \in S : \A y \in S : x <= y
<1> DEFINE T == {1..n : n \in S}
<1>1. T \subseteq FiniteSubsetsOf(Nat)
  <2>1. \A n \in Nat : IsFiniteSet(1..n) /\ 1..n \subseteq Nat
    BY FS_Interval
  <2> QED
    BY <2>1 DEF FiniteSubsetsOf
<1>2. T # {}
  OBVIOUS
<1>3. PICK t \in T : \A u \in T : ~(<<u, t>> \in StrictSubsetOrdering(Nat))
  <2> HIDE DEF T
  <2> QED
    BY <1>1, <1>2, WFMin, FS_StrictSubsetOrderingWellFounded
<1>4. PICK x \in S : t = 1..x
  BY <1>3
<1>5. ASSUME NEW y \in S, y < x
      PROVE  FALSE
  <2>1. 1..y \in T /\ 1..x \in T
    OBVIOUS
  <2>2. 1..y \in FiniteSubsetsOf(Nat) /\ 1..x \in FiniteSubsetsOf(Nat)
    BY <1>1, <2>1
  <2>3. 1..y \subseteq 1..x /\ 1..y # 1..x
    <3>1. x \in 1..x /\ x \notin 1..y
      BY <1>5
    <3> QED
      BY <1>5, <3>1
  <2>4. <<1..y, 1..x>> \in StrictSubsetOrdering(Nat)
    BY <2>2, <2>3 DEF StrictSubsetOrdering, FiniteSubsetsOf
  <2> QED
    BY <1>3, <1>4, <2>1, <2>4
<1> QED
  BY <1>5

\* Values have a largest: a least length without one would have a prefix
\* without one.
LEMMA LargestValue ==
  ASSUME NEW n \in Nat \ {0}, NEW v \in [1..n -> Nat]
  PROVE  \E m \in 1..n : \A i \in 1..n : v[i] <= v[m]
<1> DEFINE Has(k) == \A w \in [1..k -> Nat] : \E m \in 1..k : \A i \in 1..k : w[i] <= w[m]
           Bad == {k \in Nat \ {0} : ~Has(k)}
<1>1. SUFFICES Bad = {}
  BY <1>1
<1>2. SUFFICES ASSUME Bad # {} PROVE FALSE
  OBVIOUS
<1>3. PICK k \in Bad : \A j \in Bad : k <= j
  <2>1. Bad \in SUBSET Nat
    OBVIOUS
  <2> HIDE DEF Bad
  <2> QED
    BY <1>2, <2>1, LeastNumber
<1>4. PICK w \in [1..k -> Nat] : ~\E m \in 1..k : \A i \in 1..k : w[i] <= w[m]
  BY <1>3
<1>5. k # 1
  <2>1. ASSUME k = 1 PROVE FALSE
    <3>1. 1 \in 1..k /\ \A i \in 1..k : w[i] <= w[1]
      BY <2>1
    <3> QED
      BY <1>4, <3>1
  <2> QED
    BY <2>1
<1>6. Has(k - 1)
  <2>1. k - 1 \in Nat \ {0} /\ ~(k <= k - 1)
    BY <1>5
  <2>2. k - 1 \notin Bad
    BY <1>3, <2>1
  <2> QED
    BY <2>1, <2>2
<1>7. PICK m \in 1..(k - 1) : \A i \in 1..(k - 1) : w[i] <= w[m]
  <2> DEFINE u == [i \in 1..(k - 1) |-> w[i]]
  <2>1. \A i \in 1..(k - 1) : i \in 1..k
    OBVIOUS
  <2>2. u \in [1..(k - 1) -> Nat]
    BY <2>1
  <2>3. PICK m \in 1..(k - 1) : \A i \in 1..(k - 1) : u[i] <= u[m]
    BY <1>6, <2>2
  <2> QED
    BY <2>3
<1>8. k \in Nat \ {0}
  OBVIOUS
<1> HIDE DEF Bad
<1>9. /\ m \in 1..k /\ k \in 1..k /\ \A i \in 1..k : w[i] \in Nat
      /\ \A i \in 1..k : i \in 1..(k - 1) \/ i = k
  BY <1>8
<1>10. CASE w[k] <= w[m]
  BY <1>4, <1>7, <1>9, <1>10
<1>11. CASE w[m] < w[k]
  <2>1. \A i \in 1..k : w[i] <= w[k]
    <3> SUFFICES ASSUME NEW i \in 1..k PROVE w[i] <= w[k]
      OBVIOUS
    <3>1. i = k \/ w[i] <= w[m]
      BY <1>7, <1>9
    <3> QED
      BY <1>9, <1>11, <3>1
  <2> QED
    BY <1>4, <1>9, <2>1
<1> QED
  BY <1>9, <1>10, <1>11

\* Every finite list of values can be put in order: take the largest out, put
\* the last in its place, and order the rest.
LEMMA SortingStep ==
  ASSUME NEW n \in Nat \ {0}, NEW v \in [1..n -> Nat],
         \A w \in [1..(n - 1) -> Nat] : SortingOrders(w) # {}
  PROVE  SortingOrders(v) # {}
<1>1. PICK m \in 1..n : \A i \in 1..n : v[i] <= v[m]
  BY LargestValue
<1> DEFINE R == 1..(n - 1)
           w == [i \in R |-> IF i = m THEN v[n] ELSE v[i]]
<1>2. n \in 1..n /\ R \subseteq 1..n /\ n \notin R /\ \A i \in 1..n : i \in R \/ i = n
  OBVIOUS
<1>3. w \in [R -> Nat] /\ DOMAIN w = R
  BY <1>2
<1>4. PICK p \in SortingOrders(w) : TRUE
  BY <1>3
<1>5. /\ p \in [R -> R]
      /\ \A a, b \in R : p[a] = p[b] => a = b
      /\ \A i, j \in R : i < j => w[p[i]] <= w[p[j]]
  BY <1>3, <1>4 DEF SortingOrders, Bijection, Injection, IsInjective
<1> DEFINE From(i) == IF i = m THEN n ELSE i
           q == [i \in 1..n |-> IF i = n THEN m ELSE From(p[i])]
<1> HIDE DEF R, w
<1>6. /\ \A i \in R : w[i] = v[From(i)] /\ From(i) \in 1..n /\ From(i) # m
      /\ \A a, b \in R : From(a) = From(b) => a = b
  BY <1>2 DEF w
<1>7. /\ \A i \in R : p[i] \in R /\ q[i] = From(p[i]) /\ i # n
      /\ q[n] = m
      /\ q \in [1..n -> 1..n]
  BY <1>2, <1>5, <1>6
<1>8. ASSUME NEW a \in 1..n, NEW b \in 1..n, q[a] = q[b]
      PROVE  a = b
  <2> HIDE DEF q, From
  <2>1. CASE a \in R /\ b \in R
    <3>1. From(p[a]) = From(p[b]) /\ p[a] \in R /\ p[b] \in R
      BY <1>7, <1>8, <2>1
    <3> QED
      BY <1>5, <1>6, <2>1, <3>1
  <2>2. \A i \in R : q[i] # q[n]
    BY <1>6, <1>7
  <2> QED
    BY <1>2, <1>8, <2>1, <2>2
<1>9. q \in Injection(1..n, 1..n)
  <2> HIDE DEF q
  <2> QED
    BY <1>7, <1>8 DEF Injection, IsInjective
<1>10. q \in Surjection(1..n, 1..n)
  <2>1. IsFiniteSet(1..n)
    BY FS_Interval
  <2> HIDE DEF q
  <2> QED
    BY <1>9, <2>1, FS_Injection
<1>11. ASSUME NEW i \in 1..n, NEW j \in 1..n, i < j
       PROVE  v[q[i]] <= v[q[j]]
  <2>1. i \in R
    BY <1>11 DEF R
  <2>2. CASE j = n
    BY <1>1, <1>7, <2>2
  <2>3. CASE j \in R
    <3>1. v[q[i]] = w[p[i]] /\ v[q[j]] = w[p[j]]
      <4> HIDE DEF q, From
      <4> QED
        BY <1>6, <1>7, <2>1, <2>3
    <3> QED
      BY <1>5, <1>11, <2>1, <2>3, <3>1
  <2> QED
    BY <1>2, <2>2, <2>3
<1>12. q \in SortingOrders(v)
  <2> HIDE DEF q
  <2>1. q \in Bijection(1..n, 1..n)
    BY <1>9, <1>10 DEF Bijection
  <2> QED
    BY <1>11, <2>1 DEF SortingOrders
<1> QED
  BY <1>12

LEMMA OrdersExist ==
  ASSUME NEW n \in Nat, NEW v \in [1..n -> Nat]
  PROVE  SortingOrders(v) # {}
<1> DEFINE Can(k) == \A w \in [1..k -> Nat] : SortingOrders(w) # {}
           Bad == {k \in Nat : ~Can(k)}
<1>1. SUFFICES Bad = {}
  BY <1>1
<1>2. SUFFICES ASSUME Bad # {} PROVE FALSE
  OBVIOUS
<1>3. PICK k \in Bad : \A j \in Bad : k <= j
  <2>1. Bad \in SUBSET Nat
    OBVIOUS
  <2> HIDE DEF Bad
  <2> QED
    BY <1>2, <2>1, LeastNumber
<1>4. PICK w \in [1..k -> Nat] : SortingOrders(w) = {}
  BY <1>3
<1>5. k # 0
  <2>1. ASSUME k = 0 PROVE FALSE
    <3>1. DOMAIN w = {}
      BY <2>1
    <3>2. w \in [{} -> {}]
      BY <3>1
    <3>3. w \in Bijection({}, {})
      BY <3>2 DEF Bijection, Injection, Surjection, IsInjective
    <3>4. w \in SortingOrders(w)
      BY <3>1, <3>3 DEF SortingOrders
    <3> QED
      BY <1>4, <3>4
  <2> QED
    BY <2>1
<1>6. Can(k - 1)
  <2>1. k - 1 \in Nat /\ ~(k <= k - 1)
    BY <1>5
  <2>2. k - 1 \notin Bad
    BY <1>3, <2>1
  <2> QED
    BY <2>1, <2>2
<1>7. k \in Nat \ {0}
  BY <1>5
<1> HIDE DEF Bad
<1> QED
  BY <1>4, <1>6, <1>7, SortingStep

\* s holds the n values of v in ascending order.
Arranges(s, v, n) ==
    /\ v \in [1..n -> Nat] /\ s \in [1..n -> Nat]
    /\ \A i, j \in 1..n : i <= j => s[i] <= s[j]
    /\ \E p \in Bijection(1..n, 1..n) : \A i \in 1..n : s[i] = v[p[i]]

\* sorted: a rearrangement of the values in ascending order.
LEMMA SortedIsInOrder ==
  ASSUME NEW n \in Nat, NEW v \in [1..n -> Nat]
  PROVE  Arranges(Sorted(v), v, n)
<1> DEFINE order == CHOOSE p \in SortingOrders(v) : TRUE
           s == Sorted(v)
<1>1. DOMAIN v = 1..n
  OBVIOUS
<1>2. order \in SortingOrders(v)
  BY OrdersExist
<1>3. s = [i \in 1..n |-> v[order[i]]]
  BY <1>1 DEF Sorted
<1> HIDE DEF order, s
<1>4. /\ order \in Bijection(1..n, 1..n)
      /\ \A i, j \in 1..n : i < j => v[order[i]] <= v[order[j]]
  BY <1>1, <1>2 DEF SortingOrders
<1>5. order \in [1..n -> 1..n]
  BY <1>4 DEF Bijection, Injection
<1>6. s \in [1..n -> Nat] /\ \A i \in 1..n : s[i] = v[order[i]]
  BY <1>3, <1>5
<1>7. ASSUME NEW i \in 1..n, NEW j \in 1..n, i <= j
      PROVE  s[i] <= s[j]
  <2>1. s[i] \in Nat /\ s[i] = v[order[i]] /\ s[j] = v[order[j]]
    BY <1>6
  <2>2. CASE i = j
    BY <2>1, <2>2
  <2>3. CASE i < j
    BY <1>4, <2>1, <2>3
  <2> QED
    BY <1>7, <2>2, <2>3
<1>8. Arranges(s, v, n)
  BY <1>4, <1>6, <1>7 DEF Arranges
<1> QED
  BY <1>8 DEF s

\* How many indices a set has, from their places in a permutation.
LEMMA CountByPlaces ==
  ASSUME NEW n \in Nat, NEW p \in Bijection(1..n, 1..n), NEW S \in SUBSET (1..n),
         NEW k \in 0..n
  PROVE  /\ (\A i \in 1..k : p[i] \in S) => Cardinality(S) >= k
         /\ (\A i \in 1..n : p[i] \in S => i <= k) => Cardinality(S) <= k
<1>1. /\ p \in [1..n -> 1..n]
      /\ \A a, b \in 1..n : p[a] = p[b] => a = b
      /\ \A s \in 1..n : \E i \in 1..n : p[i] = s
  BY DEF Bijection, Injection, Surjection, IsInjective
<1>2. /\ IsFiniteSet(1..n) /\ IsFiniteSet(1..k) /\ Cardinality(1..k) = k
      /\ IsFiniteSet(S) /\ Cardinality(S) \in Nat
  <2>1. IsFiniteSet(1..n) /\ IsFiniteSet(1..k) /\ Cardinality(1..k) = k
    BY FS_Interval
  <2> QED
    BY <2>1, FS_Subset, FS_CardinalityType
<1>3. ASSUME \A i \in 1..k : p[i] \in S
      PROVE  Cardinality(S) >= k
  <2> DEFINE f == [i \in 1..k |-> p[i]]
  <2>1. f \in Injection(1..k, S)
    BY <1>1, <1>3 DEF Injection, IsInjective
  <2> HIDE DEF f
  <2>2. Cardinality(1..k) <= Cardinality(S)
    BY <1>2, <2>1, FS_Injection
  <2> QED
    BY <1>2, <2>2
<1>4. ASSUME \A i \in 1..n : p[i] \in S => i <= k
      PROVE  Cardinality(S) <= k
  <2> DEFINE g == [s \in S |-> CHOOSE i \in 1..n : p[i] = s]
  <2>1. g \in [S -> 1..n] /\ \A s \in S : g[s] \in 1..n /\ p[g[s]] = s
    BY <1>1
  <2> HIDE DEF g
  <2>2. g \in [S -> 1..k]
    <3>1. ASSUME NEW s \in S
          PROVE  g[s] \in 1..k
      <4>1. g[s] \in 1..n /\ p[g[s]] \in S
        BY <2>1
      <4>2. g[s] <= k
        BY <1>4, <4>1
      <4> QED
        BY <4>1, <4>2
    <3> QED
      BY <2>1, <3>1
  <2>3. g \in Injection(S, 1..k)
    BY <2>1, <2>2 DEF Injection, IsInjective
  <2>4. Cardinality(S) <= Cardinality(1..k)
    BY <1>2, <2>3, FS_Injection
  <2> QED
    BY <1>2, <2>4
<1> QED
  BY <1>3, <1>4

\* A bound carries over from a hundred times the larger value.
LEMMA Hundredfold ==
  ASSUME NEW a \in Nat, NEW b \in Nat, NEW c \in Nat, a <= b, 100 * b <= c
  PROVE  100 * a <= c
OBVIOUS

\* Linear interpolation between two values, times 100.
Between(a, b, d) == a * (100 - d) + b * d

LEMMA Interpolation ==
  ASSUME NEW a \in Nat, NEW b \in Nat, a <= b, NEW d \in 0..99
  PROVE  /\ Between(a, b, d) \in Nat
         /\ 100 * a <= Between(a, b, d) /\ Between(a, b, d) <= 100 * b
         /\ Between(a, b, 0) = 100 * a
         /\ \A e \in 0..99 : d <= e => Between(a, b, d) <= Between(a, b, e)
<1> DEFINE c == b - a
<1>1. c \in Nat /\ b = a + c
  OBVIOUS
<1> HIDE DEF c
<1>2. ASSUME NEW e \in 0..99
      PROVE  Between(a, b, e) = 100 * a + c * e
  <2>1. (a + c) * e = a * e + c * e /\ a * (100 - e) = a * 100 - a * e
    BY <1>1
  <2>2. a * e \in Int /\ c * e \in Int
    BY <1>1
  <2> QED
    BY <1>1, <2>1, <2>2 DEF Between
<1>3. ASSUME NEW e \in 0..99, d <= e
      PROVE  c * d <= c * e
  <2>1. e - d \in Nat
    BY <1>3
  <2>2. c * (e - d) >= 0
    BY <1>1, <2>1
  <2>3. c * (e - d) = c * e - c * d
    BY <1>1
  <2>4. c * e \in Int /\ c * d \in Int
    BY <1>1
  <2> QED
    BY <2>2, <2>3, <2>4
<1>4. c * d >= 0 /\ c * d <= 100 * c /\ c * d \in Int
  <2>1. c * (100 - d) >= 0
    BY <1>1
  <2>2. c * (100 - d) = c * 100 - c * d /\ c * d \in Int /\ c * d >= 0
    BY <1>1
  <2> QED
    BY <1>1, <2>1, <2>2
<1>5. Between(a, b, d) = 100 * a + c * d
  BY <1>2
<1>6. Between(a, b, 0) = 100 * a
  BY DEF Between
<1>7. \A e \in 0..99 : d <= e => Between(a, b, d) <= Between(a, b, e)
  <2> SUFFICES ASSUME NEW e \in 0..99, d <= e
               PROVE  Between(a, b, d) <= Between(a, b, e)
    OBVIOUS
  <2>1. c * d <= c * e /\ c * e \in Int
    BY <1>1, <1>3
  <2> QED
    BY <1>2, <1>4, <2>1
<1> QED
  BY <1>1, <1>4, <1>5, <1>6, <1>7

\* The position of a cut point: its whole and its fractional part.
LEMMA Position ==
  ASSUME NEW n \in Nat, n >= 1, NEW x \in 0..(99 * (n - 1))
  PROVE  /\ x \div 100 \in Nat /\ x % 100 \in 0..99 /\ x = 100 * (x \div 100) + (x % 100)
         /\ n >= 2 => x \div 100 + 2 <= n
         /\ (x + 99) \div 100 = IF x % 100 = 0 THEN x \div 100 ELSE x \div 100 + 1
<1>1. x \div 100 \in Nat /\ x % 100 \in 0..99 /\ x = 100 * (x \div 100) + (x % 100)
  <2>1. x \in Nat
    OBVIOUS
  <2> QED
    BY <2>1
<1>2. n >= 2 => x \div 100 + 2 <= n
  BY <1>1
<1>3. (x + 99) \div 100 = IF x % 100 = 0 THEN x \div 100 ELSE x \div 100 + 1
  BY <1>1
<1> QED
  BY <1>1, <1>2, <1>3

\* The two values around a cut point x of a sequence s of n >= 2 values.
CutPoint(s, x) == Between(s[x \div 100 + 1], s[x \div 100 + 2], x % 100)

\* Cut points of a sequence in order are in order.
LEMMA CutsAreOrdered ==
  ASSUME NEW n \in Nat, n >= 2, NEW s, NEW v, Arranges(s, v, n),
         NEW x \in 0..(99 * (n - 1)), NEW y \in 0..(99 * (n - 1)), x <= y
  PROVE  /\ CutPoint(s, x) \in Nat
         /\ CutPoint(s, x) <= CutPoint(s, y)
<1>a. s \in [1..n -> Nat] /\ \A i, j \in 1..n : i <= j => s[i] <= s[j]
  BY DEF Arranges
<1> DEFINE jx == x \div 100
           jy == y \div 100
           dx == x % 100
           dy == y % 100
<1>0. n >= 1
  OBVIOUS
<1>1. /\ jx \in Nat /\ dx \in 0..99 /\ x = 100 * jx + dx /\ jx + 2 <= n
      /\ jy \in Nat /\ dy \in 0..99 /\ y = 100 * jy + dy /\ jy + 2 <= n
  BY Position
<1>2. CutPoint(s, x) = Between(s[jx + 1], s[jx + 2], dx) /\ CutPoint(s, y) = Between(s[jy + 1], s[jy + 2], dy)
  BY DEF CutPoint
<1> HIDE DEF jx, jy, dx, dy
<1>3. /\ jx + 1 \in 1..n /\ jx + 2 \in 1..n /\ jy + 1 \in 1..n /\ jy + 2 \in 1..n
      /\ s[jx + 1] \in Nat /\ s[jx + 2] \in Nat /\ s[jy + 1] \in Nat /\ s[jy + 2] \in Nat
      /\ s[jx + 1] <= s[jx + 2] /\ s[jy + 1] <= s[jy + 2]
  BY <1>a, <1>1
<1>4. /\ CutPoint(s, x) \in Nat /\ CutPoint(s, x) <= 100 * s[jx + 2]
      /\ CutPoint(s, y) \in Nat /\ 100 * s[jy + 1] <= CutPoint(s, y)
      /\ \A e \in 0..99 : dx <= e => CutPoint(s, x) <= Between(s[jx + 1], s[jx + 2], e)
  <2>1. /\ Between(s[jx + 1], s[jx + 2], dx) \in Nat
        /\ Between(s[jx + 1], s[jx + 2], dx) <= 100 * s[jx + 2]
        /\ \A e \in 0..99 : dx <= e =>
             Between(s[jx + 1], s[jx + 2], dx) <= Between(s[jx + 1], s[jx + 2], e)
    BY <1>1, <1>3, Interpolation, Zenon
  <2>2. /\ Between(s[jy + 1], s[jy + 2], dy) \in Nat
        /\ 100 * s[jy + 1] <= Between(s[jy + 1], s[jy + 2], dy)
    BY <1>1, <1>3, Interpolation, Zenon
  <2> QED
    BY <1>2, <2>1, <2>2
<1>5. CASE jx = jy
  <2>1. dx <= dy
    BY <1>1, <1>5
  <2> QED
    BY <1>1, <1>2, <1>4, <1>5, <2>1
<1>6. CASE jx + 2 <= jy + 1
  <2>1. s[jx + 2] <= s[jy + 1]
    BY <1>a, <1>3, <1>6
  <2> QED
    BY <1>3, <1>4, <2>1
<1>7. jx = jy \/ jx + 2 <= jy + 1
  BY <1>1
<1> QED
  BY <1>4, <1>5, <1>6, <1>7

\* A cut point has the values it should at or below it, and no more than it
\* should strictly below.
LEMMA CutsAreRight ==
  ASSUME NEW n \in Nat, n >= 2, NEW s, NEW v, Arranges(s, v, n),
         NEW x \in 0..(99 * (n - 1))
  PROVE  /\ Cardinality(AtOrBelow(v, CutPoint(s, x))) >= x \div 100 + 1
         /\ Cardinality(Below(v, CutPoint(s, x))) <= (x + 99) \div 100
<1>a. /\ v \in [1..n -> Nat] /\ s \in [1..n -> Nat]
      /\ \A i, j \in 1..n : i <= j => s[i] <= s[j]
  BY DEF Arranges
<1>b. PICK p \in Bijection(1..n, 1..n) : \A i \in 1..n : s[i] = v[p[i]]
  BY DEF Arranges
<1> DEFINE j == x \div 100
           d == x % 100
           c == CutPoint(s, x)
           Low == {i \in 1..n : 100 * v[i] <= c}
           Lower == {i \in 1..n : 100 * v[i] < c}
<1>1. /\ j \in Nat /\ d \in 0..99 /\ j + 2 <= n
      /\ (x + 99) \div 100 = IF d = 0 THEN j ELSE j + 1
  BY Position
<1>2. c = Between(s[j + 1], s[j + 2], d)
  BY DEF CutPoint
<1> HIDE DEF j, d, c
<1>3. /\ j + 1 \in 1..n /\ j + 2 \in 1..n /\ s[j + 1] \in Nat /\ s[j + 2] \in Nat
      /\ s[j + 1] <= s[j + 2]
  BY <1>a, <1>1
<1>4. /\ c \in Nat /\ 100 * s[j + 1] <= c /\ c <= 100 * s[j + 2]
      /\ d = 0 => c = 100 * s[j + 1]
  <2>1. /\ Between(s[j + 1], s[j + 2], d) \in Nat
        /\ 100 * s[j + 1] <= Between(s[j + 1], s[j + 2], d)
        /\ Between(s[j + 1], s[j + 2], d) <= 100 * s[j + 2]
        /\ Between(s[j + 1], s[j + 2], 0) = 100 * s[j + 1]
    <3> DEFINE a == s[j + 1]
               b == s[j + 2]
    <3>1. a \in Nat /\ b \in Nat /\ a <= b /\ d \in 0..99
      BY <1>1, <1>3
    <3> HIDE DEF a, b
    <3>2. /\ Between(a, b, d) \in Nat
          /\ 100 * a <= Between(a, b, d)
          /\ Between(a, b, d) <= 100 * b
          /\ Between(a, b, 0) = 100 * a
      BY <3>1, Interpolation, Zenon
    <3> QED
      BY <3>2, Zenon DEF a, b
  <2> QED
    BY <1>2, <2>1
<1>5. \A i \in 1..n : p[i] \in 1..n /\ s[i] = v[p[i]] /\ s[i] \in Nat
  BY <1>a, <1>b DEF Bijection, Injection
<1>6. Cardinality(Low) >= j + 1
  <2>1. ASSUME NEW i \in 1..(j + 1)
        PROVE  p[i] \in Low
    <3>1. i \in 1..n /\ i <= j + 1
      BY <1>1
    <3>2. s[i] <= s[j + 1]
      BY <1>a, <1>3, <3>1
    <3>3. 100 * v[p[i]] <= c
      <4>1. v[p[i]] = s[i] /\ s[i] \in Nat
        BY <1>5, <3>1
      <4>2. 100 * s[i] <= c
        BY <1>3, <1>4, <3>2, <4>1, Hundredfold, Zenon
      <4> QED
        BY <4>1, <4>2, Zenon
    <3> QED
      BY <1>5, <3>1, <3>3
  <2>2. Low \in SUBSET (1..n) /\ j + 1 \in 0..n
    BY <1>1
  <2> HIDE DEF Low
  <2> QED
    BY <2>1, <2>2, CountByPlaces
<1>7. ASSUME NEW k \in {j, j + 1}, c <= 100 * s[k + 1]
      PROVE  Cardinality(Lower) <= k
  <2>1. k \in 0..n /\ k + 1 \in 1..n
    BY <1>1
  <2>2. ASSUME NEW i \in 1..n, p[i] \in Lower
        PROVE  i <= k
    <3>1. 100 * s[i] < c
      BY <1>5, <2>2
    <3>2. ASSUME k + 1 <= i PROVE FALSE
      <4>1. s[k + 1] <= s[i]
        BY <1>a, <2>1, <3>2
      <4> QED
        BY <1>4, <1>5, <1>7, <2>1, <3>1, <4>1
    <3> QED
      BY <2>1, <3>2
  <2>3. Lower \in SUBSET (1..n)
    OBVIOUS
  <2> HIDE DEF Lower
  <2> QED
    BY <2>1, <2>2, <2>3, CountByPlaces
<1>8. Cardinality(Lower) <= (x + 99) \div 100
  <2> HIDE DEF Lower
  <2>1. CASE d = 0
    BY <1>1, <1>3, <1>4, <1>7, <2>1
  <2>2. CASE d # 0
    <3>1. (j + 1) + 1 = j + 2
      BY <1>1
    <3> QED
      BY <1>1, <1>4, <1>7, <2>2, <3>1
  <2> QED
    BY <2>1, <2>2
<1>9. Cardinality(Low) >= x \div 100 + 1
  BY <1>6 DEF j
<1>10. Low = AtOrBelow(v, c) /\ Lower = Below(v, c)
  BY <1>a DEF AtOrBelow, Below
<1> HIDE DEF Low, Lower
<1> QED
  BY <1>8, <1>9, <1>10, Zenon DEF c

\* The three positions of a window of n values.
LEMMA ThreePositions ==
  ASSUME NEW n \in Nat, n >= 1
  PROVE  /\ \A pct \in {50, 95, 99} : pct * (n - 1) \in 0..(99 * (n - 1))
         /\ 50 * (n - 1) <= 95 * (n - 1) /\ 95 * (n - 1) <= 99 * (n - 1)
OBVIOUS

\* percentile, for any values at all.
LEMMA PercentileIsRight ==
  ASSUME NEW v \in Seq(Nat)
  PROVE  AreOrderStatistics(v)
<1> DEFINE n == Len(v)
<1>1. n \in Nat /\ DOMAIN v = 1..n /\ v \in [1..n -> Nat]
  OBVIOUS
<1> HIDE DEF n
<1> DEFINE s == Sorted(v)
<1>2. Arranges(s, v, n)
  BY <1>1, SortedIsInOrder
<1>3. s \in [1..n -> Nat]
  BY <1>2 DEF Arranges
<1> HIDE DEF s
<1>4. s \in Seq(Nat) /\ Len(s) = n
  BY <1>1, <1>3
<1>5. Sorted(v) = s
  BY DEF s
<1>6. CASE n = 0
  <2>1. \A pct \in {50, 95, 99} : Percentile(v, pct) = 0
    BY <1>4, <1>5, <1>6 DEF Percentile
  <2>2. ~(Len(v) > 0)
    BY <1>6 DEF n
  <2> QED
    BY <2>1, <2>2 DEF AreOrderStatistics
<1>7. CASE n = 1
  <2>1. \A pct \in {50, 95, 99} : Percentile(v, pct) = 100 * s[1]
    BY <1>4, <1>5, <1>7 DEF Percentile
  <2>2. s[1] = v[1] /\ v[1] \in Nat /\ DOMAIN v = {1} /\ Len(v) = 1
    <3>1. PICK p \in Bijection(1..n, 1..n) : \A i \in 1..n : s[i] = v[p[i]]
      BY <1>2 DEF Arranges
    <3>2. p[1] = 1
      BY <1>7 DEF Bijection, Injection
    <3>3. s[1] = v[1]
      BY <1>7, <3>1, <3>2
    <3> QED
      BY <1>1, <1>7, <3>3 DEF n
  <2>3. /\ AtOrBelow(v, 100 * v[1]) = {1}
        /\ Below(v, 100 * v[1]) = {}
    BY <2>2 DEF AtOrBelow, Below
  <2>4. Cardinality({1}) = 1 /\ Cardinality({}) = 0
    BY FS_Singleton, FS_EmptySet
  <2>5. \A pct \in {50, 95, 99} :
          (pct * (1 - 1)) \div 100 + 1 = 1 /\ (pct * (1 - 1) + 99) \div 100 = 0
    OBVIOUS
  <2>6. 100 * v[1] \in Nat
    BY <2>2
  <2>7. ASSUME NEW pct \in {50, 95, 99}
        PROVE  /\ Cardinality(AtOrBelow(v, Percentile(v, pct)))
                    >= (pct * (Len(v) - 1)) \div 100 + 1
               /\ Cardinality(Below(v, Percentile(v, pct)))
                    <= (pct * (Len(v) - 1) + 99) \div 100
    <3>1. Percentile(v, pct) = 100 * v[1]
      BY <2>1, <2>2
    <3>2. /\ Cardinality(AtOrBelow(v, Percentile(v, pct))) = 1
          /\ Cardinality(Below(v, Percentile(v, pct))) = 0
      BY <2>3, <2>4, <3>1, Zenon
    <3>3. (pct * (Len(v) - 1)) \div 100 + 1 = 1 /\ (pct * (Len(v) - 1) + 99) \div 100 = 0
      BY <2>2, <2>5
    <3> QED
      BY <3>2, <3>3
  <2>8. Percentile(v, 50) <= Percentile(v, 95) /\ Percentile(v, 95) <= Percentile(v, 99)
    BY <2>1, <2>2, <2>6
  <2> QED
    BY <2>7, <2>8 DEF AreOrderStatistics
<1>8. CASE n >= 2
  <2>1. ASSUME NEW pct \in {50, 95, 99}
        PROVE  Percentile(v, pct) = CutPoint(s, pct * (n - 1))
    <3> DEFINE x == (CutIndex(pct) + 1) * (Len(s) - 1)
    <3>0. CutIndex(pct) + 1 = pct
      BY DEF CutIndex
    <3>1. Len(s) # 0 /\ Len(s) # 1 /\ x = pct * (n - 1)
      BY <1>4, <1>8, <3>0
    <3>2. Percentile(v, pct) = CASE Len(s) = 0 -> 0
                                 [] Len(s) = 1 -> 100 * s[1]
                                 [] OTHER -> s[x \div 100 + 1] * (100 - (x % 100)) + s[x \div 100 + 2] * (x % 100)
      BY <1>5, Zenon DEF Percentile
    <3> HIDE DEF x
    <3>3. Percentile(v, pct) = s[x \div 100 + 1] * (100 - (x % 100)) + s[x \div 100 + 2] * (x % 100)
      BY <3>1, <3>2, Zenon
    <3> QED
      BY <3>1, <3>3, Zenon DEF CutPoint, Between
  <2>2. /\ \A pct \in {50, 95, 99} : pct * (n - 1) \in 0..(99 * (n - 1))
        /\ 50 * (n - 1) <= 95 * (n - 1) /\ 95 * (n - 1) <= 99 * (n - 1)
    BY <1>1, <1>8, ThreePositions
  <2>3. /\ Percentile(v, 50) <= Percentile(v, 95)
        /\ Percentile(v, 95) <= Percentile(v, 99)
    <3>1. /\ 50 * (n - 1) \in 0..(99 * (n - 1))
          /\ 95 * (n - 1) \in 0..(99 * (n - 1))
          /\ 99 * (n - 1) \in 0..(99 * (n - 1))
      BY <2>2
    <3>2. CutPoint(s, 50 * (n - 1)) <= CutPoint(s, 95 * (n - 1))
      BY <1>1, <1>2, <1>8, <2>2, <3>1, CutsAreOrdered, Zenon
    <3>3. CutPoint(s, 95 * (n - 1)) <= CutPoint(s, 99 * (n - 1))
      BY <1>1, <1>2, <1>8, <2>2, <3>1, CutsAreOrdered, Zenon
    <3> QED
      BY <2>1, <3>2, <3>3
  <2>4. ASSUME NEW pct \in {50, 95, 99}
        PROVE  /\ Cardinality(AtOrBelow(v, Percentile(v, pct)))
                    >= (pct * (Len(v) - 1)) \div 100 + 1
               /\ Cardinality(Below(v, Percentile(v, pct)))
                    <= (pct * (Len(v) - 1) + 99) \div 100
    <3> DEFINE x == pct * (n - 1)
    <3>1. x \in 0..(99 * (n - 1))
      BY <2>2
    <3>3. Percentile(v, pct) = CutPoint(s, x)
      BY <2>1
    <3> HIDE DEF x
    <3>4. /\ Cardinality(AtOrBelow(v, CutPoint(s, x))) >= x \div 100 + 1
          /\ Cardinality(Below(v, CutPoint(s, x))) <= (x + 99) \div 100
      BY <1>1, <1>2, <1>8, <3>1, CutsAreRight, Zenon
    <3>5. /\ Cardinality(AtOrBelow(v, Percentile(v, pct))) >= x \div 100 + 1
          /\ Cardinality(Below(v, Percentile(v, pct))) <= (x + 99) \div 100
      BY <3>3, <3>4, Zenon
    <3> QED
      BY <3>5, Zenon DEF x, n
  <2> QED
    BY <2>3, <2>4 DEF AreOrderStatistics
<1> QED
  BY <1>1, <1>6, <1>7, <1>8

\* The percentiles reported for match latencies and for statements are order
\* statistics of their windows: for any number of values in any order, sorted
\* arranges them and the interpolated cut points lie where they should.
THEOREM PercentilesAreRight == Spec => []PercentilesAreOrderStatistics
<1>1. ASSUME IInv
      PROVE  PercentilesAreOrderStatistics
  <2> DEFINE latencies == [i \in DOMAIN recent |-> recent[i].latency]
  <2>1. dbRecent \in Seq(Time) /\ recent \in Seq(Attempt)
    BY <1>1 DEF IInv, TypeOK
  <2>2. Time \subseteq Nat
    BY Times
  <2>3. dbRecent \in Seq(Nat)
    <3>1. /\ Len(dbRecent) \in Nat /\ dbRecent = [i \in 1..Len(dbRecent) |-> dbRecent[i]]
          /\ \A i \in 1..Len(dbRecent) : dbRecent[i] \in Time
      BY <2>1
    <3>2. \A i \in 1..Len(dbRecent) : dbRecent[i] \in Nat
      BY <2>2, <3>1
    <3> QED
      BY <3>1, <3>2
  <2>4. latencies \in Seq(Nat)
    <3>1. \A i \in 1..Len(recent) : recent[i].latency \in Nat
      <4>1. \A i \in 1..Len(recent) : recent[i] \in Attempt
        BY <2>1
      <4>2. \A a \in Attempt : a.latency \in Nat
        BY <2>2 DEF Attempt
      <4> QED
        BY <4>1, <4>2
    <3>2. Len(recent) \in Nat /\ DOMAIN recent = 1..Len(recent)
      BY <2>1
    <3> QED
      BY <3>1, <3>2
  <2> HIDE DEF latencies
  <2>5. AreOrderStatistics(dbRecent) /\ AreOrderStatistics(latencies)
    BY <2>3, <2>4, PercentileIsRight
  <2>6. SamplesAreRight
    <3>1. ASSUME NEW k \in 0..MaxSample, NEW v \in [1..k -> Time]
          PROVE  v \in Seq(Nat)
      <4>1. k \in Nat
        BY Bounds
      <4>2. v = [i \in 1..k |-> v[i]] /\ \A i \in 1..k : v[i] \in Nat
        BY <2>2
      <4> QED
        BY <4>1, <4>2
    <3> QED
      BY <3>1, PercentileIsRight DEF SamplesAreRight
  <2> QED
    BY <2>5, <2>6 DEF PercentilesAreOrderStatistics, latencies
<1> QED
  BY Invariant, <1>1, PTL

=============================================================================
