------------------------------- MODULE Metrics -------------------------------
(***************************************************************************)
(* The in-process metrics behind GET /stats: MetricsTracker, shared by the *)
(* request threads under one threading.Lock, and the statement timer of    *)
(* db_metrics.py, whose two engine listeners keep the start times of a     *)
(* connection's statements in a list of that connection.                   *)
(*                                                                         *)
(* A thread reads a counter and writes it back in two steps, as the        *)
(* interpreter does; the lock is a variable, so what it protects is        *)
(* checked and not assumed.  log, contended and timed are histories.       *)
(***************************************************************************)
EXTENDS Integers, Sequences, FiniteSets, SequencesExt

CONSTANTS
    Thread,         \* threads that run requests
    NoThread,       \* the tracker's lock is free
    Conn,           \* pooled database connections
    NoConn,         \* the thread runs no statement
    WindowSize,     \* settings.metrics_window_size
    Trailing,       \* _THROUGHPUT_WINDOW_SECONDS, in clock ticks
    MaxAttempts,    \* bound: match_ride calls
    MaxCalls,       \* bound: statements and lost candidates, together
    MaxClock,       \* bound: clock ticks
    MaxSample       \* bound: length of the samples percentile is tried on

ASSUME NoThreadAssumption == NoThread \notin Thread
ASSUME BoundsAssumption ==
    /\ WindowSize \in Nat \ {0}
    /\ {Trailing, MaxAttempts, MaxCalls, MaxClock, MaxSample} \subseteq Nat

VARIABLES
    clock,      \* time.monotonic
    holder,     \* who holds MetricsTracker._lock
    recent,     \* _recent, a deque with maxlen
    failed,     \* _failed_matches_total
    contention, \* _lock_contention_total
    pc,         \* what each thread does next
    started,    \* when its match_ride call began
    attempt,    \* outcome and latency it is about to record
    reg,        \* the counter value it has read and not yet written back
    snap,       \* what its snapshot has copied
    log,        \* history: every attempt ever recorded
    contended,  \* history: calls of record_lock_contention that returned
    conn,       \* the connection a thread's statement runs on
    starts,     \* conn.info["query_start_times"]
    begun,      \* history: start of the statement running on a connection
    dbRecent,   \* DbLatencyTracker._recent_ms
    timed,      \* history: the true duration of every recorded statement
    calls       \* statements and lost candidates so far

tracker == <<recent, failed, contention, log, contended>>
threads == <<holder, pc, started, attempt, reg, snap>>
timer == <<conn, starts, begun, dbRecent, timed>>
vars == <<clock, calls, tracker, threads, timer>>

Outcomes == {"matched", "unmatched", "error"}
Time == 0..MaxClock
NoAttempt == [outcome |-> "error", latency |-> 0]
NoSnap == [recent |-> <<>>, failed |-> 0, contention |-> 0, now |-> 0, n |-> 0]
Idle == -1      \* no statement is running

Attempt == [outcome : Outcomes, latency : Time, at : Time]
Snap == [recent : Seq(Attempt), failed : Nat, contention : Nat, now : Time, n : Nat]

TypeOK ==
    /\ clock \in Time
    /\ holder \in Thread \cup {NoThread}
    /\ recent \in Seq(Attempt) /\ log \in Seq(Attempt)
    /\ failed \in Nat /\ contention \in Nat /\ contended \in Nat
    /\ pc \in [Thread -> {"idle", "matching", "executing", "contend", "record", "count", "totals", "compute"}]
    /\ started \in [Thread -> Time]
    /\ attempt \in [Thread -> [outcome : Outcomes, latency : Time]]
    /\ reg \in [Thread -> Nat]
    /\ snap \in [Thread -> Snap]
    /\ conn \in [Thread -> Conn \cup {NoConn}]
    /\ starts \in [Conn -> Seq(Time)]
    /\ begun \in [Conn -> Time \cup {Idle}]
    /\ dbRecent \in Seq(Time) /\ timed \in Seq(Time)
    /\ Len(recent) <= WindowSize /\ Len(dbRecent) <= WindowSize
    /\ calls \in 0..MaxCalls

Init ==
    /\ clock = 0
    /\ holder = NoThread
    /\ recent = <<>> /\ failed = 0 /\ contention = 0
    /\ pc = [t \in Thread |-> "idle"]
    /\ started = [t \in Thread |-> 0]
    /\ attempt = [t \in Thread |-> NoAttempt]
    /\ reg = [t \in Thread |-> 0]
    /\ snap = [t \in Thread |-> NoSnap]
    /\ log = <<>> /\ contended = 0
    /\ conn = [t \in Thread |-> NoConn]
    /\ starts = [c \in Conn |-> <<>>]
    /\ begun = [c \in Conn |-> Idle]
    /\ dbRecent = <<>> /\ timed = <<>> /\ calls = 0

-----------------------------------------------------------------------------
\* deque(maxlen): a full window drops its oldest element.
Push(window, x) ==
    Append(IF Len(window) = WindowSize THEN Tail(window) ELSE window, x)

Free == holder = NoThread

Goto(t, l) == pc' = [pc EXCEPT ![t] = l]

-----------------------------------------------------------------------------
\* request_ride around match_ride.

StartMatch(t) ==
    /\ pc[t] = "idle"
    /\ Len(log) + Cardinality({u \in Thread : pc[u] \in {"matching", "executing", "contend", "record"}})
         < MaxAttempts
    /\ started' = [started EXCEPT ![t] = clock]
    /\ Goto(t, "matching")
    /\ UNCHANGED <<clock, calls, tracker, holder, attempt, reg, snap, timer>>

\* The call returned or raised; the latency is computed before record waits
\* for the lock.
EndMatch(t, o) ==
    /\ pc[t] = "matching"
    /\ attempt' = [attempt EXCEPT ![t] = [outcome |-> o, latency |-> clock - started[t]]]
    /\ started' = [started EXCEPT ![t] = 0]
    /\ Goto(t, "record")
    /\ UNCHANGED <<clock, calls, tracker, holder, reg, snap, timer>>

\* Mutant: the counter is incremented without the lock.
ContentionReadUnlocked(t) ==
    /\ pc[t] = "matching"
    /\ calls < MaxCalls
    /\ calls' = calls + 1
    /\ reg' = [reg EXCEPT ![t] = contention]
    /\ Goto(t, "contend")
    /\ UNCHANGED <<clock, tracker, holder, started, attempt, snap, timer>>

\* record_lock_contention, from inside match_ride: take the lock and read.
ContentionRead(t) ==
    /\ pc[t] = "matching"
    /\ calls < MaxCalls
    /\ calls' = calls + 1
    /\ Free
    /\ holder' = t
    /\ reg' = [reg EXCEPT ![t] = contention]
    /\ Goto(t, "contend")
    /\ UNCHANGED <<clock, tracker, started, attempt, snap, timer>>

\* ... write back and leave the with block.
ContentionWrite(t) ==
    /\ pc[t] = "contend"
    /\ contention' = reg[t] + 1
    /\ contended' = contended + 1
    /\ holder' = NoThread
    /\ reg' = [reg EXCEPT ![t] = 0]
    /\ Goto(t, "matching")
    /\ UNCHANGED <<clock, calls, recent, failed, log, started, attempt, snap, timer>>

\* record: the attempt enters the window stamped with the time under the
\* lock.  An unmatched one goes on to the counter, still under the lock.
RecordAppend(t) ==
    /\ pc[t] = "record"
    /\ Free
    /\ LET a == [outcome |-> attempt[t].outcome, latency |-> attempt[t].latency, at |-> clock]
       IN  recent' = Push(recent, a) /\ log' = Append(log, a)
    /\ IF attempt[t].outcome = "unmatched"
         THEN holder' = t /\ reg' = [reg EXCEPT ![t] = failed] /\ Goto(t, "count")
         ELSE UNCHANGED <<holder, reg>> /\ Goto(t, "idle")
    /\ attempt' = [attempt EXCEPT ![t] = NoAttempt]
    /\ UNCHANGED <<clock, calls, failed, contention, contended, started, snap, timer>>

RecordCount(t) ==
    /\ pc[t] = "count"
    /\ failed' = reg[t] + 1
    /\ holder' = NoThread
    /\ reg' = [reg EXCEPT ![t] = 0]
    /\ Goto(t, "idle")
    /\ UNCHANGED <<clock, calls, recent, contention, log, contended, started, attempt, snap, timer>>

-----------------------------------------------------------------------------
\* snapshot, from GET /stats.

\* Mutant: the window is copied before the lock is taken.
SnapshotCopyUnlocked(t) ==
    /\ pc[t] = "idle"
    /\ snap' = [snap EXCEPT ![t].recent = recent]
    /\ Goto(t, "totals")
    /\ UNCHANGED <<clock, calls, tracker, holder, started, attempt, reg, timer>>

SnapshotCopy(t) ==
    /\ pc[t] = "idle"
    /\ Free
    /\ holder' = t
    /\ snap' = [snap EXCEPT ![t].recent = recent]
    /\ Goto(t, "totals")
    /\ UNCHANGED <<clock, calls, tracker, started, attempt, reg, timer>>

\* The totals and the time; n records how much history they cover.
SnapshotTotals(t) ==
    /\ pc[t] = "totals"
    /\ snap' = [snap EXCEPT ![t].failed = failed, ![t].contention = contention,
                            ![t].now = clock, ![t].n = Len(log)]
    /\ holder' = NoThread
    /\ Goto(t, "compute")
    /\ UNCHANGED <<clock, calls, tracker, started, attempt, reg, timer>>

\* Outside the lock, from the copies alone.
Throughput(s) ==
    Cardinality({i \in DOMAIN s.recent :
        s.recent[i].outcome = "matched" /\ s.now - s.recent[i].at <= Trailing})

\* The response is built from Throughput and Percentile and sent.
SnapshotReturn(t) ==
    /\ pc[t] = "compute"
    /\ snap' = [snap EXCEPT ![t] = NoSnap]
    /\ Goto(t, "idle")
    /\ UNCHANGED <<clock, calls, tracker, holder, started, attempt, reg, timer>>

\* The index permutations that put values in ascending order.
SortingOrders(values) ==
    {p \in Bijection(DOMAIN values, DOMAIN values) :
        \A i, j \in DOMAIN values : i < j => values[p[i]] <= values[p[j]]}

\* sorted(values)
Sorted(values) ==
    LET order == CHOOSE p \in SortingOrders(values) : TRUE
    IN  [i \in DOMAIN values |-> values[order[i]]]

\* Mutant: the list of cut points is indexed by pct itself.
CutIndexLate(pct) == IF pct > 98 THEN 98 ELSE pct

\* min(max(int(pct) - 1, 0), len(quantiles) - 1), of 99 cut points.
CutIndex(pct) ==
    CASE pct < 1 -> 0
      [] pct > 99 -> 98
      [] OTHER -> pct - 1

\* percentile(sorted(values), pct), times 100: of the cut points that
\* statistics.quantiles(n=100, method="inclusive") interpolates, the one at
\* CutIndex.
Percentile(values, pct) ==
    LET v == Sorted(values)
        x == (CutIndex(pct) + 1) * (Len(v) - 1)
    IN  CASE Len(v) = 0 -> 0
          [] Len(v) = 1 -> 100 * v[1]
          [] OTHER -> v[x \div 100 + 1] * (100 - (x % 100)) + v[x \div 100 + 2] * (x % 100)

-----------------------------------------------------------------------------
\* The engine listeners, around each statement of the thread's session.  A
\* connection serves one session at a time and goes back to the pool.

BeforeExecute(t, c) ==
    /\ pc[t] = "matching"
    /\ begun[c] = Idle
    /\ calls < MaxCalls
    /\ starts' = [starts EXCEPT ![c] = Append(@, clock)]
    /\ begun' = [begun EXCEPT ![c] = clock]
    /\ conn' = [conn EXCEPT ![t] = c]
    /\ calls' = calls + 1
    /\ Goto(t, "executing")
    /\ UNCHANGED <<clock, tracker, holder, started, attempt, reg, snap, dbRecent, timed>>

\* The statement of t on its connection is over.
Executed(t) ==
    /\ pc[t] = "executing"
    /\ begun' = [begun EXCEPT ![conn[t]] = Idle]
    /\ conn' = [conn EXCEPT ![t] = NoConn]
    /\ Goto(t, "matching")
    /\ UNCHANGED <<clock, calls, tracker, holder, started, attempt, reg, snap>>

\* Mutant: the oldest start time is popped, pop(0).
AfterExecuteOldest(t) ==
    /\ Executed(t)
    /\ dbRecent' = Push(dbRecent, clock - Head(starts[conn[t]]))
    /\ timed' = Append(timed, clock - begun[conn[t]])
    /\ starts' = [starts EXCEPT ![conn[t]] = Tail(@)]

AfterExecute(t) ==
    /\ Executed(t)
    /\ dbRecent' = Push(dbRecent, clock - Last(starts[conn[t]]))
    /\ timed' = Append(timed, clock - begun[conn[t]])
    /\ starts' = [starts EXCEPT ![conn[t]] = Front(@)]

\* The statement raises: after_cursor_execute is not called, and its start
\* time stays in the connection's list for as long as the connection lives.
ExecuteFails(t) ==
    /\ Executed(t)
    /\ UNCHANGED <<starts, dbRecent, timed>>

Tick ==
    /\ clock < MaxClock
    /\ clock' = clock + 1
    /\ UNCHANGED <<calls, tracker, threads, timer>>

Next ==
    \/ \E t \in Thread :
         \/ StartMatch(t)
         \/ \E o \in Outcomes : EndMatch(t, o)
         \/ ContentionRead(t) \/ ContentionWrite(t)
         \/ RecordAppend(t) \/ RecordCount(t)
         \/ SnapshotCopy(t) \/ SnapshotTotals(t) \/ SnapshotReturn(t)
         \/ \E c \in Conn : BeforeExecute(t, c)
         \/ AfterExecute(t) \/ ExecuteFails(t)
    \/ Tick

Spec == Init /\ [][Next]_vars

-----------------------------------------------------------------------------
(***************************************************************************)
(* Safety.                                                                 *)
(***************************************************************************)

Computing == {t \in Thread : pc[t] = "compute"}

\* The attempts of the first n in the history that satisfy P(_).
CountIn(n, P(_)) == Cardinality({i \in 1..n : P(log[i])})

\* snapshot, match_throughput_per_minute: the count never exceeds the matches of
\* the trailing time, and misses some of them only when more than WindowSize
\* attempts, of any outcome, fell into it.
ThroughputWithinWindow ==
    \A t \in Computing :
        LET s == snap[t]
            InTime(a) == s.now - a.at <= Trailing
            Success(a) == InTime(a) /\ a.outcome = "matched"
        IN  /\ Throughput(s) <= CountIn(s.n, Success)
            /\ CountIn(s.n, InTime) <= WindowSize => Throughput(s) = CountIn(s.n, Success)

\* A snapshot is of one moment: its window is the end of the history its
\* totals cover, as long as the deque allows, the failed total counts that history's unmatched attempts,
\* and no increment of the contention counter was lost to another thread.
SnapshotConsistent ==
    /\ \A t \in Computing :
         LET s == snap[t]
             Unmatched(a) == a.outcome = "unmatched"
         IN  /\ s.recent = SubSeq(log, Max({s.n - WindowSize, 0}) + 1, s.n)
             /\ s.failed = CountIn(s.n, Unmatched)
    /\ Free => contention = contended

\* The places of a window whose value is at or below an answer, or below it.
AtOrBelow(values, p) == {i \in DOMAIN values : 100 * values[i] <= p}
Below(values, p) == {i \in DOMAIN values : 100 * values[i] < p}

\* What percentile promises of its three answers: they are ordered, and each
\* lies between the values around its position x = pct*(n-1)/100: at least
\* floor(x)+1 values are at or below it, at most ceil(x) strictly below.
AreOrderStatistics(values) ==
    /\ Percentile(values, 50) <= Percentile(values, 95)
    /\ Percentile(values, 95) <= Percentile(values, 99)
    /\ \A pct \in {50, 95, 99} :
         LET p == Percentile(values, pct)
             x == pct * (Len(values) - 1)
         IN  Len(values) > 0 =>
               /\ Cardinality(AtOrBelow(values, p)) >= x \div 100 + 1
               /\ Cardinality(Below(values, p)) <= (x + 99) \div 100

\* percentile over every list of values up to a length.
SamplesAreRight == \A n \in 0..MaxSample : \A v \in [1..n -> Time] : AreOrderStatistics(v)

\* percentiles.py: the percentiles of both windows, and of any list of values in
\* whatever order and with whatever repetitions, are order statistics of it.
PercentilesAreOrderStatistics ==
    /\ SamplesAreRight
    /\ AreOrderStatistics(dbRecent)
    /\ AreOrderStatistics([i \in DOMAIN recent |-> recent[i].latency])

\* db_metrics.py: what is recorded for a statement is its own duration,
\* however many failed statements have left their start times on the
\* connection it runs on.
DurationsAreOwn ==
    dbRecent = SubSeq(timed, Len(timed) - Len(dbRecent) + 1, Len(timed))

=============================================================================
