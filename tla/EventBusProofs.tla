--------------------------- MODULE EventBusProofs ---------------------------
(***************************************************************************)
(* Proofs about EventBus, for any threads, sockets, queue size and bounds. *)
(***************************************************************************)
EXTENDS EventBus, SequenceTheorems, FiniteSetTheorems, TLAPS

USE SocketAssumption, SizeAssumption, BoundsAssumption

-----------------------------------------------------------------------------
\* The inductive invariant.

\* The lifespan hook: which loop is open and what the bus is attached to.
Phase ==
    /\ open \subseteq {gen}
    /\ life # "down" => open = {gen}
    /\ busLoop = IF life \in {"starting", "up", "cancelling"} THEN gen ELSE Nothing
    /\ busQueue = IF life \in {"up", "cancelling", "stopping"} THEN gen ELSE Nothing
    /\ life \in {"down", "starting"} => conns = {}

\* publish() reads _loop before _queue, so the queue it has is never older
\* than the loop: on the open loop, it is that loop's own queue.
Publishers ==
    \A t \in Thread :
        /\ pub[t].pc # "idle" => pub[t].loop <= gen
        /\ pub[t].pc = "call" =>
             /\ pub[t].loop \in Lifespan /\ pub[t].queue \in Lifespan
             /\ pub[t].loop <= pub[t].queue /\ pub[t].queue <= gen
             /\ life = "starting" => pub[t].queue < gen

\* A loop's callbacks put into its own queue, and a lifespan starts clean.
OwnQueue ==
    /\ \A g \in Lifespan : \A i \in DOMAIN ready[g] : ready[g][i].queue = g
    /\ \A g \in Lifespan :
         g > gen \/ (g = gen /\ life = "starting") => ready[g] = <<>> /\ queue[g] = <<>>

\* Events that were handed to a loop, wait there or were refused.
Used ==
    {e \in Event :
       \/ \E i \in DOMAIN log : log[i] = e
       \/ \E g \in Lifespan : \E i \in DOMAIN ready[g] : ready[g][i].event = e
       \/ e \in dropped}

\* An event is created once: what a thread is publishing is nowhere else yet.
Fresh ==
    \A t \in Thread : pub[t].pc # "idle" =>
        /\ pub[t].event \in 1..count
        /\ \A u \in Thread : pub[u].pc # "idle" /\ pub[u].event = pub[t].event => u = t
        /\ pub[t].event \notin Used

Counted == Used \subseteq 1..count

\* The broadcast task: it sends the last event it took.
TaskShape ==
    /\ task.pc \in {"none", "get", "next"} => task.to = NoSocket
    /\ task.pc \in {"none", "get"} => task.todo = {}
    /\ task.pc = "send" => task.to \in Socket /\ task.to \notin task.todo
    /\ task.pc \in {"next", "send"} => done # <<>> /\ event = done[Len(done)]

Pending(s) == s = task.to \/ s \in task.todo

\* A socket is in the task's copy only after it registered; one that is alive
\* has been sent done[joined + 1], done[joined + 2], ... up to the last event,
\* without the last one while it is pending.
Stream ==
    \A s \in Socket :
        /\ link[s] = "new" => s \notin conns /\ ~Pending(s) /\ got[s] = <<>>
        /\ s \in conns /\ life = "up" /\ link[s] \in {"up", "stalled"} =>
             /\ joined[s] + Len(got[s]) = Len(done) - IF Pending(s) THEN 1 ELSE 0
             /\ \A i \in DOMAIN got[s] : got[s][i] = done[joined[s] + i]

IInv ==
    /\ TypeOK
    /\ Phase
    /\ Publishers
    /\ OwnQueue
    /\ Fresh
    /\ Counted
    /\ Conserved
    /\ TaskShape
    /\ Stream

-----------------------------------------------------------------------------
\* Sequences.

\* Each element is kept once.
LEMMA KeptOnce ==
  ASSUME NEW S, NEW s \in Seq(S), NEW l \in Seq(S), NEW D, KeepsAllBut(s, l, D),
         NEW i \in DOMAIN s, NEW j \in DOMAIN s, s[i] = s[j]
  PROVE  i = j
<1>1. PICK k \in DOMAIN l : s[i] = l[k]
  BY DEF KeepsAllBut
<1>2. (i < j <=> k < k) /\ (j < i <=> k < k)
  BY <1>1 DEF KeepsAllBut
<1>3. k \in Int /\ i \in Int /\ j \in Int
  OBVIOUS
<1> QED
  BY <1>2, <1>3

\* A new element at both ends.
LEMMA KeepAppend ==
  ASSUME NEW S, NEW s \in Seq(S), NEW l \in Seq(S), NEW D, NEW e \in S,
         KeepsAllBut(s, l, D), \A k \in DOMAIN l : l[k] # e, e \notin D
  PROVE  KeepsAllBut(Append(s, e), Append(l, e), D)
<1> DEFINE t == Append(s, e)
           m == Append(l, e)
<1>1. /\ t \in Seq(S) /\ Len(t) = Len(s) + 1 /\ t[Len(s) + 1] = e
      /\ \A i \in 1..Len(s) : t[i] = s[i]
  OBVIOUS
<1>2. /\ m \in Seq(S) /\ Len(m) = Len(l) + 1 /\ m[Len(l) + 1] = e
      /\ \A k \in 1..Len(l) : m[k] = l[k]
  OBVIOUS
<1>3. /\ DOMAIN s = 1..Len(s) /\ DOMAIN l = 1..Len(l) /\ Len(s) \in Nat /\ Len(l) \in Nat
      /\ DOMAIN t = 1..(Len(s) + 1) /\ DOMAIN m = 1..(Len(l) + 1)
  BY <1>1, <1>2
<1>4. \A i \in 1..Len(s) : s[i] # e
  BY <1>3 DEF KeepsAllBut
<1> HIDE DEF t, m
<1>5. \A i \in DOMAIN t : t[i] \notin D /\ \E k \in DOMAIN m : t[i] = m[k]
  <2> SUFFICES ASSUME NEW i \in DOMAIN t
               PROVE  t[i] \notin D /\ \E k \in DOMAIN m : t[i] = m[k]
    OBVIOUS
  <2>1. CASE i = Len(s) + 1
    BY <1>1, <1>2, <1>3, <2>1
  <2>2. CASE i \in 1..Len(s)
    <3>1. s[i] \notin D /\ \E k \in DOMAIN l : s[i] = l[k]
      BY <1>3, <2>2 DEF KeepsAllBut
    <3> QED
      BY <1>1, <1>2, <1>3, <2>2, <3>1
  <2> QED
    BY <1>3, <2>1, <2>2
<1>6. \A k \in DOMAIN m : m[k] \notin D => \E i \in DOMAIN t : t[i] = m[k]
  <2> SUFFICES ASSUME NEW k \in DOMAIN m, m[k] \notin D
               PROVE  \E i \in DOMAIN t : t[i] = m[k]
    OBVIOUS
  <2>1. CASE k = Len(l) + 1
    <3>1. Len(s) + 1 \in DOMAIN t /\ t[Len(s) + 1] = e /\ m[k] = e
      BY <1>1, <1>2, <1>3, <2>1
    <3> QED
      BY <3>1
  <2>2. CASE k \in 1..Len(l)
    <3>1. \E i \in DOMAIN s : s[i] = l[k]
      BY <1>2, <1>3, <2>2 DEF KeepsAllBut
    <3> QED
      BY <1>1, <1>2, <1>3, <2>2, <3>1
  <2> QED
    BY <1>3, <2>1, <2>2
<1>7. \A i, j \in DOMAIN t, k, n \in DOMAIN m :
        t[i] = m[k] /\ t[j] = m[n] => (i < j <=> k < n)
  <2> SUFFICES ASSUME NEW i \in DOMAIN t, NEW j \in DOMAIN t, NEW k \in DOMAIN m, NEW n \in DOMAIN m,
                      t[i] = m[k], t[j] = m[n]
               PROVE  i < j <=> k < n
    OBVIOUS
  <2>0. /\ \A x \in DOMAIN t : x = Len(s) + 1 <=> t[x] = e
        /\ \A x \in DOMAIN m : x = Len(l) + 1 <=> m[x] = e
    <3>1. \A x \in DOMAIN t : x = Len(s) + 1 \/ x \in 1..Len(s)
      BY <1>3
    <3>2. \A x \in DOMAIN m : x = Len(l) + 1 \/ x \in 1..Len(l)
      BY <1>3
    <3> QED
      BY <1>1, <1>2, <1>3, <1>4, <3>1, <3>2
  <2>1. /\ i = Len(s) + 1 <=> k = Len(l) + 1
        /\ j = Len(s) + 1 <=> n = Len(l) + 1
    BY <2>0
  <2>2. CASE i \in 1..Len(s) /\ j \in 1..Len(s)
    <3>1. k \in 1..Len(l) /\ n \in 1..Len(l)
      BY <1>3, <2>1, <2>2
    <3>2. s[i] = l[k] /\ s[j] = l[n]
      BY <1>1, <1>2, <2>2, <3>1
    <3> QED
      BY <1>3, <2>2, <3>1, <3>2 DEF KeepsAllBut
  <2>3. CASE i = Len(s) + 1 \/ j = Len(s) + 1
    BY <1>3, <2>1, <2>3
  <2> QED
    BY <1>3, <2>2, <2>3
<1> QED
  BY <1>5, <1>6, <1>7 DEF KeepsAllBut, t, m

\* One element is dropped from both.
LEMMA KeepDrop ==
  ASSUME NEW S, NEW s \in Seq(S), NEW l \in Seq(S), NEW D, NEW n \in DOMAIN s, NEW t \in Seq(S),
         KeepsAllBut(s, l, D), Len(t) = Len(s) - 1,
         \A i \in DOMAIN t : t[i] = s[IF i < n THEN i ELSE i + 1]
  PROVE  KeepsAllBut(t, l, D \cup {s[n]})
<1> DEFINE at(i) == IF i < n THEN i ELSE i + 1
<1>1. /\ DOMAIN s = 1..Len(s) /\ DOMAIN t = 1..(Len(s) - 1) /\ Len(s) \in Nat /\ n \in 1..Len(s)
      /\ DOMAIN l = 1..Len(l) /\ Len(l) \in Nat
  OBVIOUS
<1>2. \A i \in DOMAIN t : at(i) \in DOMAIN s /\ at(i) # n /\ t[i] = s[at(i)]
  BY <1>1
<1>3. \A i, j \in DOMAIN t : i < j <=> at(i) < at(j)
  BY <1>1
<1>4. \A i \in DOMAIN s : i # n => \E j \in DOMAIN t : at(j) = i
  <2> SUFFICES ASSUME NEW i \in DOMAIN s, i # n
               PROVE  \E j \in DOMAIN t : at(j) = i
    OBVIOUS
  <2>1. CASE i < n
    BY <1>1, <2>1
  <2>2. CASE i > n
    <3>1. i - 1 \in DOMAIN t /\ at(i - 1) = i
      BY <1>1, <2>2
    <3> QED
      BY <3>1
  <2> QED
    BY <1>1, <2>1, <2>2
<1>5. \A i \in DOMAIN s : s[i] = s[n] => i = n
  BY KeptOnce
<1> HIDE DEF at
<1>6. \A i \in DOMAIN t : t[i] \notin D \cup {s[n]} /\ \E k \in DOMAIN l : t[i] = l[k]
  BY <1>2, <1>5 DEF KeepsAllBut
<1>7. \A k \in DOMAIN l : l[k] \notin D \cup {s[n]} => \E i \in DOMAIN t : t[i] = l[k]
  <2> SUFFICES ASSUME NEW k \in DOMAIN l, l[k] \notin D, l[k] # s[n]
               PROVE  \E i \in DOMAIN t : t[i] = l[k]
    OBVIOUS
  <2>1. PICK i \in DOMAIN s : s[i] = l[k]
    BY DEF KeepsAllBut
  <2>2. PICK j \in DOMAIN t : at(j) = i
    BY <1>4, <2>1
  <2> QED
    BY <1>2, <2>1, <2>2
<1>8. \A i, j \in DOMAIN t, k, m \in DOMAIN l :
        t[i] = l[k] /\ t[j] = l[m] => (i < j <=> k < m)
  <2> SUFFICES ASSUME NEW i \in DOMAIN t, NEW j \in DOMAIN t, NEW k \in DOMAIN l, NEW m \in DOMAIN l,
                      t[i] = l[k], t[j] = l[m]
               PROVE  i < j <=> k < m
    OBVIOUS
  <2>0. \A x, y \in DOMAIN s : s[x] = l[k] /\ s[y] = l[m] => (x < y <=> k < m)
    BY DEF KeepsAllBut
  <2>1. at(i) < at(j) <=> k < m
    BY <1>2, <2>0, Zenon
  <2> QED
    BY <1>3, <2>1
<1> QED
  BY <1>6, <1>7, <1>8 DEF KeepsAllBut

\* Sequences that agree at every index are one.
LEMMA SameSeq ==
  ASSUME NEW S, NEW s \in Seq(S), NEW t \in Seq(S), Len(s) = Len(t),
         \A i \in 1..Len(s) : s[i] = t[i]
  PROVE  s = t
OBVIOUS

\* The three stages an event passes, end to end.
Stages(d, q, r) == d \o q \o [i \in 1..Len(r) |-> r[i].event]

\* Concatenation, by position.
LEMMA ConcatView ==
  ASSUME NEW S, NEW a \in Seq(S), NEW b \in Seq(S)
  PROVE  /\ a \o b \in Seq(S)
         /\ Len(a \o b) = Len(a) + Len(b)
         /\ \A i \in 1..(Len(a) + Len(b)) : (a \o b)[i] = IF i <= Len(a) THEN a[i] ELSE b[i - Len(a)]
OBVIOUS

\* Stages, by position.
LEMMA StagesView ==
  ASSUME NEW d \in Seq(Event), NEW q \in Seq(Event), NEW r \in Seq(Callback)
  PROVE  /\ Stages(d, q, r) \in Seq(Event)
         /\ Len(Stages(d, q, r)) = Len(d) + Len(q) + Len(r)
         /\ \A i \in 1..(Len(d) + Len(q) + Len(r)) :
              Stages(d, q, r)[i] = IF i <= Len(d) THEN d[i]
                                   ELSE IF i <= Len(d) + Len(q) THEN q[i - Len(d)]
                                   ELSE r[i - Len(d) - Len(q)].event
<1> DEFINE e == [i \in 1..Len(r) |-> r[i].event]
           a == d \o q
           t == a \o e
<1>1. \A i \in 1..Len(r) : r[i].event \in Event
  <2>1. \A i \in 1..Len(r) : r[i] \in Callback
    OBVIOUS
  <2>2. \A c \in Callback : c.event \in Event
    BY DEF Callback
  <2> QED
    BY <2>1, <2>2
<1>2. e \in Seq(Event) /\ Len(e) = Len(r) /\ \A i \in 1..Len(r) : e[i] = r[i].event
  BY <1>1
<1>3. /\ a \in Seq(Event) /\ Len(a) = Len(d) + Len(q)
      /\ \A i \in 1..(Len(d) + Len(q)) : a[i] = IF i <= Len(d) THEN d[i] ELSE q[i - Len(d)]
  BY ConcatView
<1> HIDE DEF a, e
<1>4. /\ t \in Seq(Event) /\ Len(t) = Len(a) + Len(e)
      /\ \A i \in 1..(Len(a) + Len(e)) : t[i] = IF i <= Len(a) THEN a[i] ELSE e[i - Len(a)]
  <2>1. a \in Seq(Event) /\ e \in Seq(Event)
    BY <1>2, <1>3
  <2> QED
    BY <2>1, ConcatView
<1>5. Stages(d, q, r) = t
  BY DEF Stages, a, e
<1>6. Len(d) \in Nat /\ Len(q) \in Nat /\ Len(r) \in Nat
  OBVIOUS
<1> HIDE DEF t
<1>7. \A i \in 1..(Len(d) + Len(q)) : t[i] = IF i <= Len(d) THEN d[i] ELSE q[i - Len(d)]
  BY <1>2, <1>3, <1>4, <1>6
<1>8. ASSUME NEW i \in 1..(Len(d) + Len(q) + Len(r)), ~(i <= Len(d) + Len(q))
      PROVE  t[i] = r[i - Len(d) - Len(q)].event
  <2>1. t[i] = e[i - (Len(d) + Len(q))]
    BY <1>2, <1>3, <1>4, <1>6, <1>8
  <2>2. i - (Len(d) + Len(q)) = i - Len(d) - Len(q) /\ i - Len(d) - Len(q) \in 1..Len(r)
    BY <1>6, <1>8
  <2> QED
    BY <1>2, <2>1, <2>2
<1>9. \A i \in 1..(Len(d) + Len(q) + Len(r)) :
        t[i] = IF i <= Len(d) THEN d[i]
               ELSE IF i <= Len(d) + Len(q) THEN q[i - Len(d)]
               ELSE r[i - Len(d) - Len(q)].event
  <2> SUFFICES ASSUME NEW i \in 1..(Len(d) + Len(q) + Len(r))
               PROVE  t[i] = IF i <= Len(d) THEN d[i]
                             ELSE IF i <= Len(d) + Len(q) THEN q[i - Len(d)]
                             ELSE r[i - Len(d) - Len(q)].event
    OBVIOUS
  <2>1. CASE i <= Len(d) + Len(q)
    BY <1>6, <1>7, <2>1
  <2>2. CASE ~(i <= Len(d) + Len(q))
    BY <1>6, <1>8, <2>2
  <2> QED
    BY <2>1, <2>2
<1>10. Len(t) = Len(d) + Len(q) + Len(r)
  BY <1>2, <1>3, <1>4, <1>6
<1> QED
  BY <1>4, <1>5, <1>9, <1>10

\* _put_nowait with room only moves an event along.
LEMMA StagesPut ==
  ASSUME NEW d \in Seq(Event), NEW q \in Seq(Event), NEW r \in Seq(Callback), r # <<>>
  PROVE  Stages(d, Append(q, Head(r).event), Tail(r)) = Stages(d, q, r)
<1> DEFINE q2 == Append(q, Head(r).event)
           r2 == Tail(r)
           s == Stages(d, q, r)
           t == Stages(d, q2, r2)
<1>0. Len(d) \in Nat /\ Len(q) \in Nat /\ Len(r) \in Nat /\ Len(r) >= 1
  OBVIOUS
<1>1. Head(r) \in Callback /\ Head(r) = r[1]
  OBVIOUS
<1>2. Head(r).event \in Event
  BY <1>1 DEF Callback
<1>3. /\ q2 \in Seq(Event) /\ Len(q2) = Len(q) + 1 /\ q2[Len(q) + 1] = r[1].event
      /\ \A i \in 1..Len(q) : q2[i] = q[i]
  BY <1>1, <1>2
<1>4. r2 \in Seq(Callback) /\ Len(r2) = Len(r) - 1 /\ \A i \in 1..(Len(r) - 1) : r2[i] = r[i + 1]
  OBVIOUS
<1> HIDE DEF q2, r2
<1>5. /\ s \in Seq(Event) /\ Len(s) = Len(d) + Len(q) + Len(r)
      /\ \A i \in 1..(Len(d) + Len(q) + Len(r)) :
           s[i] = IF i <= Len(d) THEN d[i]
                  ELSE IF i <= Len(d) + Len(q) THEN q[i - Len(d)]
                  ELSE r[i - Len(d) - Len(q)].event
  BY StagesView
<1>6. /\ t \in Seq(Event) /\ Len(t) = Len(d) + Len(q2) + Len(r2)
      /\ \A i \in 1..(Len(d) + Len(q2) + Len(r2)) :
           t[i] = IF i <= Len(d) THEN d[i]
                  ELSE IF i <= Len(d) + Len(q2) THEN q2[i - Len(d)]
                  ELSE r2[i - Len(d) - Len(q2)].event
  <2>1. q2 \in Seq(Event) /\ r2 \in Seq(Callback)
    BY <1>3, <1>4
  <2> QED
    BY <2>1, StagesView
<1> HIDE DEF s, t
<1>l. Len(q2) = Len(q) + 1 /\ Len(r2) = Len(r) - 1
  BY <1>3, <1>4
<1>7. ASSUME NEW i \in 1..(Len(d) + Len(q) + Len(r))
      PROVE  t[i] = s[i]
  <2>s. s[i] = IF i <= Len(d) THEN d[i]
                ELSE IF i <= Len(d) + Len(q) THEN q[i - Len(d)]
                ELSE r[i - Len(d) - Len(q)].event
    BY <1>5
  <2>t. t[i] = IF i <= Len(d) THEN d[i]
                ELSE IF i <= Len(d) + Len(q2) THEN q2[i - Len(d)]
                ELSE r2[i - Len(d) - Len(q2)].event
    <3>1. i \in 1..(Len(d) + Len(q2) + Len(r2))
      BY <1>0, <1>l
    <3> QED
      BY <1>6, <3>1
  <2>1. CASE i <= Len(d)
    BY <2>1, <2>s, <2>t
  <2>2. CASE i > Len(d) /\ i <= Len(d) + Len(q)
    <3>1. i - Len(d) \in 1..Len(q) /\ i <= Len(d) + Len(q2) /\ ~(i <= Len(d))
      BY <1>0, <1>l, <2>2
    <3>2. q2[i - Len(d)] = q[i - Len(d)]
      BY <1>3, <3>1
    <3> QED
      BY <2>2, <2>s, <2>t, <3>1, <3>2
  <2>3. CASE i = Len(d) + Len(q) + 1
    <3>1. /\ i - Len(d) = Len(q) + 1 /\ i - Len(d) - Len(q) = 1
          /\ i <= Len(d) + Len(q2) /\ ~(i <= Len(d)) /\ ~(i <= Len(d) + Len(q))
      BY <1>0, <1>l, <2>3
    <3>2. t[i] = q2[Len(q) + 1] /\ s[i] = r[1].event
      BY <2>s, <2>t, <3>1
    <3> QED
      BY <1>3, <3>2
  <2>4. CASE i > Len(d) + Len(q) + 1
    <3> DEFINE j == i - Len(d) - Len(q2)
    <3>1. /\ j \in 1..(Len(r) - 1) /\ j + 1 = i - Len(d) - Len(q)
          /\ ~(i <= Len(d)) /\ ~(i <= Len(d) + Len(q)) /\ ~(i <= Len(d) + Len(q2))
      BY <1>0, <1>l, <2>4
    <3>2. r2[j] = r[j + 1]
      BY <1>4, <3>1
    <3>3. t[i] = r2[j].event /\ s[i] = r[i - Len(d) - Len(q)].event
      BY <2>s, <2>t, <3>1
    <3> HIDE DEF j
    <3> QED
      BY <3>1, <3>2, <3>3
  <2> QED
    BY <1>0, <2>1, <2>2, <2>3, <2>4
<1>8. Len(t) = Len(s) /\ Len(s) = Len(d) + Len(q) + Len(r)
  BY <1>0, <1>l, <1>5, <1>6
<1>9. t = s
  BY <1>5, <1>6, <1>7, <1>8, SameSeq
<1> QED
  BY <1>9 DEF s, t, q2, r2

\* So does the task's get().
LEMMA StagesGet ==
  ASSUME NEW d \in Seq(Event), NEW q \in Seq(Event), NEW r \in Seq(Callback), q # <<>>
  PROVE  Stages(Append(d, Head(q)), Tail(q), r) = Stages(d, q, r)
<1> DEFINE d2 == Append(d, Head(q))
           q2 == Tail(q)
           s == Stages(d, q, r)
           t == Stages(d2, q2, r)
<1>0. Len(d) \in Nat /\ Len(q) \in Nat /\ Len(r) \in Nat /\ Len(q) >= 1
  OBVIOUS
<1>1. Head(q) \in Event /\ Head(q) = q[1]
  OBVIOUS
<1>3. /\ d2 \in Seq(Event) /\ Len(d2) = Len(d) + 1 /\ d2[Len(d) + 1] = q[1]
      /\ \A i \in 1..Len(d) : d2[i] = d[i]
  BY <1>1
<1>4. q2 \in Seq(Event) /\ Len(q2) = Len(q) - 1 /\ \A i \in 1..(Len(q) - 1) : q2[i] = q[i + 1]
  OBVIOUS
<1> HIDE DEF d2, q2
<1>5. /\ s \in Seq(Event) /\ Len(s) = Len(d) + Len(q) + Len(r)
      /\ \A i \in 1..(Len(d) + Len(q) + Len(r)) :
           s[i] = IF i <= Len(d) THEN d[i]
                  ELSE IF i <= Len(d) + Len(q) THEN q[i - Len(d)]
                  ELSE r[i - Len(d) - Len(q)].event
  BY StagesView
<1>6. /\ t \in Seq(Event) /\ Len(t) = Len(d2) + Len(q2) + Len(r)
      /\ \A i \in 1..(Len(d2) + Len(q2) + Len(r)) :
           t[i] = IF i <= Len(d2) THEN d2[i]
                  ELSE IF i <= Len(d2) + Len(q2) THEN q2[i - Len(d2)]
                  ELSE r[i - Len(d2) - Len(q2)].event
  <2>1. d2 \in Seq(Event) /\ q2 \in Seq(Event)
    BY <1>3, <1>4
  <2> QED
    BY <2>1, StagesView
<1> HIDE DEF s, t
<1>l. Len(d2) = Len(d) + 1 /\ Len(q2) = Len(q) - 1
  BY <1>3, <1>4
<1>7. ASSUME NEW i \in 1..(Len(d) + Len(q) + Len(r))
      PROVE  t[i] = s[i]
  <2>s. s[i] = IF i <= Len(d) THEN d[i]
                ELSE IF i <= Len(d) + Len(q) THEN q[i - Len(d)]
                ELSE r[i - Len(d) - Len(q)].event
    BY <1>5
  <2>t. t[i] = IF i <= Len(d2) THEN d2[i]
                ELSE IF i <= Len(d2) + Len(q2) THEN q2[i - Len(d2)]
                ELSE r[i - Len(d2) - Len(q2)].event
    <3>1. i \in 1..(Len(d2) + Len(q2) + Len(r))
      BY <1>0, <1>l
    <3> QED
      BY <1>6, <3>1
  <2>1. CASE i <= Len(d)
    <3>1. i <= Len(d2) /\ i \in 1..Len(d)
      BY <1>0, <1>l, <2>1
    <3>2. d2[i] = d[i]
      BY <1>3, <3>1
    <3> QED
      BY <2>1, <2>s, <2>t, <3>1, <3>2
  <2>2. CASE i = Len(d) + 1
    <3>1. i - Len(d) = 1 /\ i <= Len(d2) /\ ~(i <= Len(d)) /\ i <= Len(d) + Len(q)
      BY <1>0, <1>l, <2>2
    <3>2. t[i] = d2[i] /\ s[i] = q[1]
      BY <2>s, <2>t, <3>1
    <3> QED
      BY <1>3, <2>2, <3>2
  <2>3. CASE i > Len(d) + 1 /\ i <= Len(d) + Len(q)
    <3> DEFINE j == i - Len(d2)
    <3>1. /\ j \in 1..(Len(q) - 1) /\ j + 1 = i - Len(d)
          /\ ~(i <= Len(d)) /\ ~(i <= Len(d2)) /\ i <= Len(d2) + Len(q2)
      BY <1>0, <1>l, <2>3
    <3>2. q2[j] = q[j + 1]
      BY <1>4, <3>1
    <3>3. t[i] = q2[j] /\ s[i] = q[i - Len(d)]
      BY <2>s, <2>t, <2>3, <3>1
    <3> HIDE DEF j
    <3> QED
      BY <3>1, <3>2, <3>3
  <2>4. CASE i > Len(d) + Len(q)
    <3>1. /\ i - Len(d2) - Len(q2) = i - Len(d) - Len(q)
          /\ ~(i <= Len(d)) /\ ~(i <= Len(d2)) /\ ~(i <= Len(d2) + Len(q2)) /\ ~(i <= Len(d) + Len(q))
      BY <1>0, <1>l, <2>4
    <3> QED
      BY <2>s, <2>t, <3>1
  <2> QED
    BY <1>0, <2>1, <2>2, <2>3, <2>4
<1>8. Len(t) = Len(s) /\ Len(s) = Len(d) + Len(q) + Len(r)
  BY <1>0, <1>l, <1>5, <1>6
<1>9. t = s
  BY <1>5, <1>6, <1>7, <1>8, SameSeq
<1> QED
  BY <1>9 DEF s, t, d2, q2

\* A callback handed to the loop adds its event at the end.
LEMMA StagesAppend ==
  ASSUME NEW d \in Seq(Event), NEW q \in Seq(Event), NEW r \in Seq(Callback), NEW c \in Callback
  PROVE  Stages(d, q, Append(r, c)) = Append(Stages(d, q, r), c.event)
<1> DEFINE r2 == Append(r, c)
           s == Stages(d, q, r)
           t == Stages(d, q, r2)
           u == Append(s, c.event)
<1>0. Len(d) \in Nat /\ Len(q) \in Nat /\ Len(r) \in Nat
  OBVIOUS
<1>1. /\ r2 \in Seq(Callback) /\ Len(r2) = Len(r) + 1 /\ r2[Len(r) + 1] = c
      /\ \A i \in 1..Len(r) : r2[i] = r[i]
  OBVIOUS
<1>2. c.event \in Event
  BY DEF Callback
<1> HIDE DEF r2
<1>5. /\ s \in Seq(Event) /\ Len(s) = Len(d) + Len(q) + Len(r)
      /\ \A i \in 1..(Len(d) + Len(q) + Len(r)) :
           s[i] = IF i <= Len(d) THEN d[i]
                  ELSE IF i <= Len(d) + Len(q) THEN q[i - Len(d)]
                  ELSE r[i - Len(d) - Len(q)].event
  BY StagesView
<1>6. /\ t \in Seq(Event) /\ Len(t) = Len(d) + Len(q) + Len(r2)
      /\ \A i \in 1..(Len(d) + Len(q) + Len(r2)) :
           t[i] = IF i <= Len(d) THEN d[i]
                  ELSE IF i <= Len(d) + Len(q) THEN q[i - Len(d)]
                  ELSE r2[i - Len(d) - Len(q)].event
  <2>1. r2 \in Seq(Callback)
    BY <1>1
  <2> QED
    BY <2>1, StagesView
<1> HIDE DEF s, t
<1>l. Len(r2) = Len(r) + 1
  BY <1>1
<1>7. /\ u \in Seq(Event) /\ Len(u) = Len(s) + 1 /\ u[Len(s) + 1] = c.event
      /\ \A i \in 1..Len(s) : u[i] = s[i]
  <2>1. s \in Seq(Event)
    BY <1>5
  <2> QED
    BY <1>2, <2>1
<1> HIDE DEF u
<1>8. ASSUME NEW i \in 1..(Len(d) + Len(q) + Len(r) + 1)
      PROVE  t[i] = u[i]
  <2>t. t[i] = IF i <= Len(d) THEN d[i]
                ELSE IF i <= Len(d) + Len(q) THEN q[i - Len(d)]
                ELSE r2[i - Len(d) - Len(q)].event
    <3>1. i \in 1..(Len(d) + Len(q) + Len(r2))
      BY <1>0, <1>l
    <3> QED
      BY <1>6, <3>1
  <2>1. CASE i \in 1..(Len(d) + Len(q) + Len(r))
    <3>s. s[i] = IF i <= Len(d) THEN d[i]
                ELSE IF i <= Len(d) + Len(q) THEN q[i - Len(d)]
                ELSE r[i - Len(d) - Len(q)].event
      BY <1>5, <2>1
    <3>u. u[i] = s[i]
      BY <1>5, <1>7, <2>1
    <3>1. CASE i <= Len(d) + Len(q)
      BY <2>t, <3>s, <3>u, <3>1
    <3>2. CASE ~(i <= Len(d) + Len(q))
      <4>1. i - Len(d) - Len(q) \in 1..Len(r) /\ ~(i <= Len(d))
        BY <1>0, <2>1, <3>2
      <4>2. r2[i - Len(d) - Len(q)] = r[i - Len(d) - Len(q)]
        BY <1>1, <4>1
      <4> QED
        BY <2>t, <3>s, <3>u, <3>2, <4>1, <4>2
    <3> QED
      BY <3>1, <3>2
  <2>2. CASE i = Len(d) + Len(q) + Len(r) + 1
    <3>1. i - Len(d) - Len(q) = Len(r) + 1 /\ ~(i <= Len(d)) /\ ~(i <= Len(d) + Len(q))
      BY <1>0, <2>2
    <3>2. t[i] = r2[Len(r) + 1].event
      BY <2>t, <3>1
    <3>3. u[i] = c.event
      BY <1>5, <1>7, <2>2
    <3> QED
      BY <1>1, <3>2, <3>3
  <2>3. i \in 1..(Len(d) + Len(q) + Len(r)) \/ i = Len(d) + Len(q) + Len(r) + 1
    BY <1>0, <1>8
  <2> QED
    BY <2>1, <2>2, <2>3
<1>9. Len(t) = Len(u) /\ Len(t) = Len(d) + Len(q) + Len(r) + 1
  BY <1>0, <1>l, <1>5, <1>6, <1>7
<1>10. t = u
  BY <1>6, <1>7, <1>8, <1>9, SameSeq
<1> QED
  BY <1>10 DEF s, t, u, r2

\* A callback refused by a full queue removes its event from the middle.
LEMMA StagesDrop ==
  ASSUME NEW d \in Seq(Event), NEW q \in Seq(Event), NEW r \in Seq(Callback), r # <<>>,
         NEW l \in Seq(Event), NEW D, KeepsAllBut(Stages(d, q, r), l, D)
  PROVE  KeepsAllBut(Stages(d, q, Tail(r)), l, D \cup {Head(r).event})
<1> DEFINE r2 == Tail(r)
           s == Stages(d, q, r)
           t == Stages(d, q, r2)
           n == Len(d) + Len(q) + 1
<1>0. Len(d) \in Nat /\ Len(q) \in Nat /\ Len(r) \in Nat /\ Len(r) >= 1 /\ Head(r) = r[1]
  OBVIOUS
<1>1. r2 \in Seq(Callback) /\ Len(r2) = Len(r) - 1 /\ \A i \in 1..(Len(r) - 1) : r2[i] = r[i + 1]
  OBVIOUS
<1> HIDE DEF r2
<1>5. /\ s \in Seq(Event) /\ Len(s) = Len(d) + Len(q) + Len(r)
      /\ \A i \in 1..(Len(d) + Len(q) + Len(r)) :
           s[i] = IF i <= Len(d) THEN d[i]
                  ELSE IF i <= Len(d) + Len(q) THEN q[i - Len(d)]
                  ELSE r[i - Len(d) - Len(q)].event
  BY StagesView
<1>6. /\ t \in Seq(Event) /\ Len(t) = Len(d) + Len(q) + Len(r2)
      /\ \A i \in 1..(Len(d) + Len(q) + Len(r2)) :
           t[i] = IF i <= Len(d) THEN d[i]
                  ELSE IF i <= Len(d) + Len(q) THEN q[i - Len(d)]
                  ELSE r2[i - Len(d) - Len(q)].event
  <2>1. r2 \in Seq(Callback)
    BY <1>1
  <2> QED
    BY <2>1, StagesView
<1>7. KeepsAllBut(s, l, D)
  OBVIOUS
<1> HIDE DEF s, t
<1>l. Len(r2) = Len(r) - 1
  BY <1>1
<1>8. n \in DOMAIN s /\ s[n] = Head(r).event
  <2>1. /\ n - Len(d) - Len(q) = 1 /\ n \in 1..(Len(d) + Len(q) + Len(r))
        /\ ~(n <= Len(d)) /\ ~(n <= Len(d) + Len(q))
    BY <1>0
  <2> HIDE DEF n
  <2>2. s[n] = IF n <= Len(d) THEN d[n]
                ELSE IF n <= Len(d) + Len(q) THEN q[n - Len(d)]
                ELSE r[n - Len(d) - Len(q)].event
    BY <1>5, <2>1
  <2>3. n \in DOMAIN s
    BY <1>5, <2>1
  <2> QED
    BY <1>0, <2>1, <2>2, <2>3
<1>9. ASSUME NEW i \in DOMAIN t
      PROVE  t[i] = s[IF i < n THEN i ELSE i + 1]
  <2>0. i \in 1..(Len(d) + Len(q) + Len(r) - 1) /\ i \in 1..(Len(d) + Len(q) + Len(r2))
    BY <1>0, <1>l, <1>6
  <2>t. t[i] = IF i <= Len(d) THEN d[i]
                ELSE IF i <= Len(d) + Len(q) THEN q[i - Len(d)]
                ELSE r2[i - Len(d) - Len(q)].event
    BY <1>6, <2>0
  <2>1. CASE i < n
    <3>1. i \in 1..(Len(d) + Len(q) + Len(r)) /\ i <= Len(d) + Len(q)
      BY <1>0, <2>0, <2>1
    <3>s. s[i] = IF i <= Len(d) THEN d[i]
                ELSE IF i <= Len(d) + Len(q) THEN q[i - Len(d)]
                ELSE r[i - Len(d) - Len(q)].event
      BY <1>5, <3>1
    <3> QED
      BY <2>t, <2>1, <3>1, <3>s
  <2>2. CASE ~(i < n)
    <3> DEFINE j == i - Len(d) - Len(q)
               k == i + 1
    <3>1. /\ j \in 1..(Len(r) - 1) /\ j + 1 = k - Len(d) - Len(q)
          /\ ~(i <= Len(d)) /\ ~(i <= Len(d) + Len(q)) /\ ~(k <= Len(d)) /\ ~(k <= Len(d) + Len(q))
          /\ k \in 1..(Len(d) + Len(q) + Len(r))
      <4>1. i \in Int /\ i >= Len(d) + Len(q) + 1 /\ i <= Len(d) + Len(q) + Len(r) - 1
        BY <1>0, <2>0, <2>2
      <4>2. Len(d) \in Nat /\ Len(q) \in Nat /\ Len(r) \in Nat
        BY <1>0
      <4>3. j \in 1..(Len(r) - 1) /\ j + 1 = k - Len(d) - Len(q)
        BY ONLY <4>1, <4>2
      <4>4. ~(i <= Len(d)) /\ ~(i <= Len(d) + Len(q)) /\ ~(k <= Len(d)) /\ ~(k <= Len(d) + Len(q))
        BY ONLY <4>1, <4>2
      <4>5. k \in 1..(Len(d) + Len(q) + Len(r))
        BY ONLY <4>1, <4>2
      <4> QED
        BY ONLY <4>3, <4>4, <4>5
    <3>2. r2[j] = r[j + 1]
      BY <1>1, <3>1
    <3>3. t[i] = r2[j].event
      BY <2>t, <3>1
    <3> HIDE DEF j, k, n
    <3>s. s[k] = IF k <= Len(d) THEN d[k]
                ELSE IF k <= Len(d) + Len(q) THEN q[k - Len(d)]
                ELSE r[k - Len(d) - Len(q)].event
      BY <1>5, <3>1
    <3>4. t[i] = s[k]
      BY <3>1, <3>2, <3>3, <3>s
    <3>5. k = i + 1
      BY DEF k
    <3>6. s[IF i < n THEN i ELSE i + 1] = s[i + 1]
      BY <2>2
    <3> QED
      BY <3>4, <3>5, <3>6
  <2> QED
    BY <2>1, <2>2
<1>10. Len(t) = Len(s) - 1
  BY <1>0, <1>l, <1>5, <1>6
<1> HIDE DEF n
<1>11. KeepsAllBut(t, l, D \cup {s[n]})
  <2>1. s \in Seq(Event) /\ t \in Seq(Event)
    BY <1>5, <1>6
  <2> QED
    BY <1>7, <1>8, <1>9, <1>10, <2>1, KeepDrop
<1> QED
  BY <1>8, <1>11 DEF r2, t

-----------------------------------------------------------------------------
\* The lifespan hook and the publishers.

\* While a lifespan is up its loop is the open one.
LEMMA UpIsOpen ==
  ASSUME TypeOK, Phase, life # "down" \/ open # {}
  PROVE  gen \in Lifespan /\ open = {gen}
<1>1. open \subseteq Lifespan /\ open \subseteq {gen}
  BY DEF TypeOK, Phase
<1>2. open = {gen}
  <2>1. CASE life # "down"
    BY <2>1 DEF Phase
  <2>2. CASE open # {}
    BY <1>1, <2>2
  <2> QED
    BY <2>1, <2>2
<1> QED
  BY <1>1, <1>2

\* Every step keeps what the bus is attached to in line with the hook.
LEMMA PhaseStep ==
  ASSUME TypeOK, Phase, [Next]_vars
  PROVE  Phase'
<1> USE DEF TypeOK, Phase
<1>1. CASE Attach \/ AttachQueue \/ Shutdown
  BY <1>1 DEF Attach, AttachQueue, Shutdown, bus, Nothing
<1>2. CASE Stop \/ CloseLoop
  BY <1>2 DEF Stop, TaskCancelled, Detach, CloseLoop, bus, Nothing
<1>3. ASSUME NEW t \in Thread, Emit(t) \/ ReadQueue(t) \/ Schedule(t)
      PROVE  Phase'
  BY <1>3 DEF Emit, ReadQueue, Schedule, bus
<1>4. ASSUME NEW g \in Lifespan, PutNowait(g)
      PROVE  Phase'
  BY <1>4 DEF PutNowait, bus
<1>5. CASE Broadcast
  BY <1>5 DEF Broadcast, Get, NextSocket, Send, SendFails, bus
<1>6. ASSUME NEW s \in Socket, Register(s) \/ Stall(s) \/ Resume(s) \/ Disconnect(s) \/ Unregister(s)
      PROVE  Phase'
  BY <1>6 DEF Register, Stall, Resume, Disconnect, Unregister, bus
<1>7. CASE UNCHANGED vars
  BY <1>7 DEF vars
<1> QED
  BY <1>1, <1>2, <1>3, <1>4, <1>5, <1>6, <1>7 DEF Next

\* Every step keeps the queue a publisher has read at least as new as its loop.
LEMMA PublishersStep ==
  ASSUME TypeOK, Phase, Publishers, [Next]_vars
  PROVE  Publishers'
<1>0. /\ gen \in Nat /\ busLoop \in Nat /\ DOMAIN pub = Thread
      /\ \A t \in Thread : pub[t].loop \in Nat /\ pub[t].queue \in Nat
  BY DEF TypeOK, Lifespan, Nothing
<1>1. CASE Attach
  <2>1. UNCHANGED pub /\ gen' = gen + 1
    BY <1>1 DEF Attach
  <2> QED
    BY <1>0, <2>1 DEF Publishers
<1>2. CASE AttachQueue \/ Shutdown \/ Stop \/ CloseLoop
  <2>1. UNCHANGED <<pub, gen>> /\ life' # "starting"
    BY <1>2 DEF AttachQueue, Shutdown, Stop, TaskCancelled, Detach, CloseLoop
  <2> QED
    BY <2>1 DEF Publishers
<1>3. ASSUME NEW t \in Thread, Emit(t)
      PROVE  Publishers'
  <2>1. /\ pub' = [pub EXCEPT ![t] = [pc |-> "queue", loop |-> busLoop, queue |-> Nothing,
                                      event |-> count + 1]]
        /\ UNCHANGED <<gen, life>> /\ busLoop <= gen
    BY <1>0, <1>3 DEF Emit, Phase, Nothing
  <2>2. \A u \in Thread : u # t => pub'[u] = pub[u]
    BY <2>1
  <2>3. pub'[t].pc = "queue" /\ pub'[t].loop = busLoop
    BY <1>0, <2>1
  <2> QED
    BY <2>1, <2>2, <2>3 DEF Publishers
<1>4. ASSUME NEW t \in Thread, ReadQueue(t)
      PROVE  Publishers'
  <2>1. /\ UNCHANGED <<gen, life>> /\ pub[t].pc = "queue"
        /\ \A u \in Thread : u # t => pub'[u] = pub[u]
    BY <1>4 DEF ReadQueue
  <2>2. CASE pub[t].loop = Nothing \/ busQueue = Nothing
    <3>1. pub'[t] = Idle
      BY <1>0, <1>4, <2>2 DEF ReadQueue
    <3> QED
      BY <2>1, <3>1 DEF Idle, Publishers
  <2>3. CASE pub[t].loop # Nothing /\ busQueue # Nothing
    <3>1. pub'[t].pc = "call" /\ pub'[t].loop = pub[t].loop /\ pub'[t].queue = busQueue
      <4>1. pub[t] \in [pc : {"idle", "queue", "call"}, loop : Lifespan \cup {Nothing},
                        queue : Lifespan \cup {Nothing}, event : Event \cup {Nothing}]
        BY DEF TypeOK
      <4>2. pub'[t] = [pub[t] EXCEPT !.pc = "call", !.queue = busQueue]
        BY <1>0, <1>4, <2>3 DEF ReadQueue
      <4> QED
        BY <4>1, <4>2
    <3>2. busQueue = gen /\ life # "starting"
      BY <2>3 DEF Phase
    <3>3. busQueue \in Lifespan /\ pub[t].loop \in Lifespan
      BY <2>3 DEF TypeOK
    <3>4. pub[t].loop <= gen
      BY <2>1 DEF Publishers
    <3> QED
      BY <1>0, <2>1, <3>1, <3>2, <3>3, <3>4 DEF Publishers
  <2> QED
    BY <2>2, <2>3
<1>5. ASSUME NEW t \in Thread, Schedule(t)
      PROVE  Publishers'
  BY <1>0, <1>5 DEF Schedule, Idle, Publishers
<1>6. CASE UNCHANGED <<pub, gen, life>>
  BY <1>6 DEF Publishers
<1>7. ASSUME NEW g \in Lifespan, PutNowait(g)
      PROVE  UNCHANGED <<pub, gen, life>>
  BY <1>7 DEF PutNowait
<1>8. CASE Broadcast
  BY <1>6, <1>8 DEF Broadcast, Get, NextSocket, Send, SendFails
<1>9. ASSUME NEW s \in Socket, Register(s) \/ Stall(s) \/ Resume(s) \/ Disconnect(s) \/ Unregister(s)
      PROVE  UNCHANGED <<pub, gen, life>>
  BY <1>9 DEF Register, Stall, Resume, Disconnect, Unregister
<1>10. CASE UNCHANGED vars
  BY <1>6, <1>10 DEF vars
<1> QED
  BY <1>1, <1>2, <1>3, <1>4, <1>5, <1>6, <1>7, <1>8, <1>9, <1>10 DEF Next

\* A publisher whose loop is open hands over to that loop's own queue.
LEMMA ScheduleTarget ==
  ASSUME TypeOK, Phase, Publishers, Fresh,
         NEW t \in Thread, pub[t].pc = "call", pub[t].loop \in open
  PROVE  /\ pub[t].loop = gen /\ pub[t].queue = gen /\ gen \in Lifespan /\ life # "starting"
         /\ pub[t].event \in Event
         /\ [queue |-> pub[t].queue, event |-> pub[t].event] \in Callback
<1>1. pub[t].loop = gen /\ gen \in Lifespan
  BY DEF TypeOK, Phase
<1>2. pub[t].queue \in Lifespan /\ pub[t].loop <= pub[t].queue /\ pub[t].queue <= gen
      /\ (life = "starting" => pub[t].queue < gen)
  BY DEF Publishers
<1>3. pub[t].queue = gen /\ life # "starting"
  BY <1>1, <1>2 DEF Lifespan
<1>4. pub[t].event \in 1..count /\ count \in 0..MaxEvents
  BY DEF TypeOK, Fresh
<1>5. pub[t].event \in Event
  BY <1>4 DEF Event
<1> QED
  BY <1>1, <1>2, <1>3, <1>5 DEF Callback

-----------------------------------------------------------------------------
\* The callbacks, the queues and the events in them.

\* What is in a sequence after Append and after Tail.
LEMMA Elements ==
  ASSUME NEW S, NEW r \in Seq(S)
  PROVE  /\ \A c \in S : \A i \in DOMAIN Append(r, c) :
              Append(r, c)[i] = c \/ (i \in DOMAIN r /\ Append(r, c)[i] = r[i])
         /\ r # <<>> => 1 \in DOMAIN r /\ Head(r) = r[1] /\ Head(r) \in S /\ Tail(r) \in Seq(S)
         /\ r # <<>> => \A i \in DOMAIN Tail(r) : i + 1 \in DOMAIN r /\ Tail(r)[i] = r[i + 1]
OBVIOUS

\* A callback that runs is the first of the open loop's and puts into that
\* loop's queue; the lifespan has left its start.
LEMMA PutTarget ==
  ASSUME TypeOK, Phase, OwnQueue, NEW g \in Lifespan, PutNowait(g)
  PROVE  /\ g = gen /\ life # "starting" /\ ready[gen] \in Seq(Callback) /\ queue[gen] \in Seq(Event)
         /\ ready[gen] # <<>> /\ Head(ready[gen]).queue = gen /\ Head(ready[gen]).event \in Event
         /\ ready' = [ready EXCEPT ![gen] = Tail(@)]
         /\ IF Len(queue[gen]) < QueueSize
              THEN queue' = [queue EXCEPT ![gen] = Append(@, Head(ready[gen]).event)] /\ dropped' = dropped
              ELSE dropped' = dropped \cup {Head(ready[gen]).event} /\ queue' = queue
<1>1. g = gen
  BY DEF PutNowait, Phase
<1>2. ready[gen] \in Seq(Callback) /\ ready[gen] # <<>> /\ queue[gen] \in Seq(Event)
  BY <1>1 DEF PutNowait, TypeOK
<1>3. 1 \in DOMAIN ready[gen] /\ Head(ready[gen]) = ready[gen][1] /\ Head(ready[gen]) \in Callback
  BY <1>2, Elements
<1>4. Head(ready[gen]).queue = gen /\ Head(ready[gen]).event \in Event
  BY <1>1, <1>3 DEF OwnQueue, Callback
<1>5. life # "starting"
  BY <1>1, <1>2 DEF OwnQueue
<1>6. /\ ready' = [ready EXCEPT ![g] = Tail(@)]
      /\ LET q == Head(ready[g]).queue
             e == Head(ready[g]).event
         IN  IF Len(queue[q]) < QueueSize
               THEN queue' = [queue EXCEPT ![q] = Append(@, e)] /\ dropped' = dropped
               ELSE dropped' = dropped \cup {e} /\ queue' = queue
  BY DEF PutNowait
<1> QED
  BY <1>1, <1>2, <1>4, <1>5, <1>6

\* The steps that touch neither a loop's callbacks nor its queue.
LEMMA LoopsFrame ==
  ASSUME [Next]_vars,
         ~ \E t \in Thread : Emit(t) \/ ReadQueue(t) \/ Schedule(t),
         ~ \E g \in Lifespan : PutNowait(g),
         ~ Attach, ~ AttachQueue, ~ CloseLoop, ~ Get
  PROVE  /\ UNCHANGED <<ready, queue, log, dropped, pub, count, gen, done>>
         /\ life' = life \/ life' \in {"cancelling", "stopping", "down"}
<1>1. CASE Shutdown \/ Stop
  BY <1>1 DEF Shutdown, Stop, TaskCancelled, Detach, loops, sender
<1>2. CASE NextSocket \/ Send \/ SendFails
  BY <1>2 DEF NextSocket, Send, SendFails, loops
<1>3. ASSUME NEW s \in Socket, Register(s) \/ Stall(s) \/ Resume(s) \/ Disconnect(s) \/ Unregister(s)
      PROVE  UNCHANGED <<ready, queue, log, dropped, pub, count, gen, done, life>>
  BY <1>3 DEF Register, Stall, Resume, Disconnect, Unregister, loops, sender
<1>4. CASE UNCHANGED vars
  BY <1>4 DEF vars
<1> QED
  BY <1>1, <1>2, <1>3, <1>4 DEF Next, Broadcast

\* Every step keeps the callbacks with their own queue and new lifespans clean.
LEMMA OwnQueueStep ==
  ASSUME TypeOK, Phase, Publishers, OwnQueue, Fresh, [Next]_vars
  PROVE  OwnQueue'
<1>0. /\ gen \in Nat
      /\ ready \in [Lifespan -> Seq(Callback)] /\ queue \in [Lifespan -> Seq(Event)]
      /\ \A g \in Lifespan : g \in Nat
  BY DEF TypeOK, Lifespan
<1>1. CASE Attach
  <2>1. gen' = gen + 1 /\ UNCHANGED <<ready, queue>>
    BY <1>1 DEF Attach, loops
  <2> QED
    BY <1>0, <2>1 DEF OwnQueue
<1>2. CASE AttachQueue
  BY <1>2 DEF AttachQueue, OwnQueue
<1>3. CASE CloseLoop
  <2>1. gen \in Lifespan
    BY <1>3, UpIsOpen DEF CloseLoop
  <2>2. ready' = [ready EXCEPT ![gen] = <<>>] /\ UNCHANGED <<queue, gen, life>>
    BY <1>3 DEF CloseLoop
  <2>3. \A g \in Lifespan : ready'[g] = IF g = gen THEN <<>> ELSE ready[g]
    BY <1>0, <2>2
  <2> QED
    BY <2>1, <2>2, <2>3 DEF OwnQueue
<1>4. ASSUME NEW t \in Thread, Emit(t) \/ ReadQueue(t)
      PROVE  OwnQueue'
  BY <1>4 DEF Emit, ReadQueue, loops, OwnQueue
<1>5. ASSUME NEW t \in Thread, Schedule(t)
      PROVE  OwnQueue'
  <2>1. CASE pub[t].loop \in open
    <3> DEFINE c == [queue |-> pub[t].queue, event |-> pub[t].event]
    <3>1. pub[t].pc = "call" /\ UNCHANGED <<queue, gen, life>>
          /\ ready' = [ready EXCEPT ![pub[t].loop] = Append(@, c)]
      BY <1>5, <2>1 DEF Schedule
    <3>2. pub[t].loop = gen /\ pub[t].queue = gen /\ gen \in Lifespan /\ life # "starting"
          /\ c \in Callback
      BY <2>1, <3>1, ScheduleTarget
    <3>3. \A g \in Lifespan : ready'[g] = IF g = gen THEN Append(ready[g], c) ELSE ready[g]
      BY <1>0, <3>1, <3>2
    <3>4. c.queue = gen
      BY <3>2
    <3> HIDE DEF c
    <3>5. \A i \in DOMAIN ready'[gen] : ready'[gen][i].queue = gen
      <4>1. ready[gen] \in Seq(Callback) /\ c \in Callback
        BY <1>0, <3>2
      <4>2. \A i \in DOMAIN Append(ready[gen], c) :
              Append(ready[gen], c)[i] = c \/ (i \in DOMAIN ready[gen] /\ Append(ready[gen], c)[i] = ready[gen][i])
        BY <4>1, Elements
      <4>3. ready'[gen] = Append(ready[gen], c) /\ \A i \in DOMAIN ready[gen] : ready[gen][i].queue = gen
        BY <3>2, <3>3 DEF OwnQueue
      <4> QED
        BY <3>4, <4>2, <4>3
    <3> QED
      BY <1>0, <3>1, <3>2, <3>3, <3>5 DEF OwnQueue
  <2>2. CASE pub[t].loop \notin open
    BY <1>5, <2>2 DEF Schedule, OwnQueue
  <2> QED
    BY <2>1, <2>2
<1>6. ASSUME NEW g \in Lifespan, PutNowait(g)
      PROVE  OwnQueue'
  <2>1. /\ gen \in Lifespan /\ life # "starting" /\ ready[gen] # <<>>
        /\ ready' = [ready EXCEPT ![gen] = Tail(@)]
        /\ \A h \in Lifespan : h # gen => queue'[h] = queue[h]
    BY <1>0, <1>6, PutTarget
  <2>2. UNCHANGED <<gen, life>>
    BY <1>6 DEF PutNowait
  <2>3. \A i \in DOMAIN Tail(ready[gen]) : Tail(ready[gen])[i].queue = gen
    <3>1. ready[gen] \in Seq(Callback)
      BY <1>0, <2>1
    <3>2. \A i \in DOMAIN Tail(ready[gen]) :
            i + 1 \in DOMAIN ready[gen] /\ Tail(ready[gen])[i] = ready[gen][i + 1]
      BY <2>1, <3>1, Elements
    <3> QED
      BY <2>1, <3>2 DEF OwnQueue
  <2>4. \A h \in Lifespan : ready'[h] = IF h = gen THEN Tail(ready[gen]) ELSE ready[h]
    BY <1>0, <2>1
  <2> QED
    BY <1>0, <2>1, <2>2, <2>3, <2>4 DEF OwnQueue
<1>7. CASE Get
  <2>1. /\ life = "up" /\ UNCHANGED <<ready, gen, life>>
        /\ queue' = [queue EXCEPT ![gen] = Tail(@)]
    BY <1>7 DEF Get
  <2>2. \A h \in Lifespan : h # gen => queue'[h] = queue[h]
    BY <1>0, <2>1
  <2> QED
    BY <1>0, <2>1, <2>2 DEF OwnQueue
<1>8. CASE /\ UNCHANGED <<ready, queue, gen>>
           /\ life' = life \/ life' \in {"cancelling", "stopping", "down"}
  BY <1>8 DEF OwnQueue
<1> QED
  BY <1>1, <1>2, <1>3, <1>4, <1>5, <1>6, <1>7, <1>8, LoopsFrame

\* Only call_soon_threadsafe makes an event used, the one it hands over.
LEMMA UsedStep ==
  ASSUME TypeOK, Phase, Publishers, OwnQueue, Fresh, [Next]_vars, NEW e \in Used', e \notin Used
  PROVE  \E t \in Thread : Schedule(t) /\ e = pub[t].event
<1>0. /\ ready \in [Lifespan -> Seq(Callback)] /\ e \in Event /\ log \in Seq(Event)
      /\ \/ \E i \in DOMAIN log' : log'[i] = e
         \/ \E g \in Lifespan : \E i \in DOMAIN ready'[g] : ready'[g][i].event = e
         \/ e \in dropped'
  BY DEF TypeOK, Used
<1>1. /\ ~ \E i \in DOMAIN log : log[i] = e
      /\ ~ \E g \in Lifespan : \E i \in DOMAIN ready[g] : ready[g][i].event = e
      /\ e \notin dropped
  BY <1>0 DEF Used
<1>2. CASE UNCHANGED <<ready, log, dropped>>
  BY <1>0, <1>1, <1>2
<1>3. CASE Attach \/ AttachQueue
  BY <1>0, <1>1, <1>3 DEF Attach, AttachQueue, loops
<1>4. CASE CloseLoop
  <2>1. UNCHANGED <<log, dropped>> /\ ready' = [ready EXCEPT ![gen] = <<>>]
    BY <1>4 DEF CloseLoop
  <2>2. \A g \in Lifespan : ready'[g] = <<>> \/ ready'[g] = ready[g]
    BY <1>0, <2>1
  <2> QED
    BY <1>0, <1>1, <2>1, <2>2
<1>5. ASSUME NEW t \in Thread, Schedule(t)
      PROVE  e = pub[t].event
  <2>1. CASE pub[t].loop \in open
    <3> DEFINE c == [queue |-> pub[t].queue, event |-> pub[t].event]
    <3>1. pub[t].pc = "call" /\ dropped' = dropped /\ log' = Append(log, pub[t].event)
          /\ ready' = [ready EXCEPT ![pub[t].loop] = Append(@, c)]
      BY <1>5, <2>1 DEF Schedule
    <3>2. pub[t].loop = gen /\ gen \in Lifespan /\ pub[t].event \in Event /\ c \in Callback
      BY <2>1, <3>1, ScheduleTarget
    <3>3. c.event = pub[t].event
      OBVIOUS
    <3> HIDE DEF c
    <3>4. \A g \in Lifespan : ready'[g] = ready[g] \/ (g = gen /\ ready'[g] = Append(ready[gen], c))
      BY <1>0, <3>1, <3>2
    <3>5. CASE \E i \in DOMAIN log' : log'[i] = e
      <4>1. \A i \in DOMAIN Append(log, pub[t].event) :
              Append(log, pub[t].event)[i] = pub[t].event
                \/ (i \in DOMAIN log /\ Append(log, pub[t].event)[i] = log[i])
        BY <1>0, <3>2, Elements
      <4> QED
        BY <1>1, <3>1, <3>5, <4>1
    <3>6. CASE \E g \in Lifespan : \E i \in DOMAIN ready'[g] : ready'[g][i].event = e
      <4>0. ready[gen] \in Seq(Callback) /\ c \in Callback
        BY <1>0, <3>2
      <4>1. \A i \in DOMAIN Append(ready[gen], c) :
              Append(ready[gen], c)[i] = c \/ (i \in DOMAIN ready[gen] /\ Append(ready[gen], c)[i] = ready[gen][i])
        BY <4>0, Elements
      <4>2. PICK g \in Lifespan : \E i \in DOMAIN ready'[g] : ready'[g][i].event = e
        BY <3>6
      <4>3. g = gen /\ ready'[g] = Append(ready[gen], c)
        BY <1>1, <3>4, <4>2
      <4>4. PICK i \in DOMAIN Append(ready[gen], c) : Append(ready[gen], c)[i].event = e
        BY <4>2, <4>3
      <4> QED
        BY <1>1, <3>2, <3>3, <4>1, <4>4
    <3> QED
      BY <1>0, <1>1, <3>1, <3>5, <3>6
  <2>2. CASE pub[t].loop \notin open
    BY <1>0, <1>1, <1>5, <2>2 DEF Schedule
  <2> QED
    BY <2>1, <2>2
<1>6. ASSUME NEW g \in Lifespan, PutNowait(g)
      PROVE  FALSE
  <2>1. /\ ready[gen] # <<>> /\ ready' = [ready EXCEPT ![gen] = Tail(@)]
        /\ gen \in Lifespan /\ ready[gen] \in Seq(Callback)
        /\ dropped' = dropped \/ dropped' = dropped \cup {Head(ready[gen]).event}
    BY <1>6, PutTarget
  <2>2. log' = log
    BY <1>6 DEF PutNowait
  <2>3. /\ \A i \in DOMAIN Tail(ready[gen]) :
             i + 1 \in DOMAIN ready[gen] /\ Tail(ready[gen])[i] = ready[gen][i + 1]
        /\ 1 \in DOMAIN ready[gen] /\ Head(ready[gen]) = ready[gen][1]
    BY <2>1, Elements
  <2>4. \A h \in Lifespan : ready'[h] = IF h = gen THEN Tail(ready[gen]) ELSE ready[h]
    BY <1>0, <2>1
  <2>5. ~ \E h \in Lifespan : \E i \in DOMAIN ready'[h] : ready'[h][i].event = e
    BY <1>1, <2>1, <2>3, <2>4
  <2>6. e \notin dropped'
    BY <1>1, <2>1, <2>3
  <2> QED
    BY <1>0, <1>1, <2>2, <2>5, <2>6
<1>7. ASSUME NEW t \in Thread, Emit(t) \/ ReadQueue(t)
      PROVE  UNCHANGED <<ready, log, dropped>>
  BY <1>7 DEF Emit, ReadQueue, loops
<1>8. CASE Get
  BY <1>2, <1>8 DEF Get
<1> QED
  BY <1>2, <1>3, <1>4, <1>5, <1>6, <1>7, <1>8, LoopsFrame

\* Every step keeps what is being published new, and everything counted.
LEMMA FreshStep ==
  ASSUME TypeOK, Phase, Publishers, OwnQueue, Fresh, Counted, [Next]_vars
  PROVE  Fresh' /\ Counted'
<1>0. count \in Nat /\ DOMAIN pub = Thread
  BY DEF TypeOK
<1>1. ASSUME NEW t \in Thread, Emit(t)
      PROVE  Fresh' /\ Counted'
  <2>1. /\ count' = count + 1 /\ \A u \in Thread : u # t => pub'[u] = pub[u]
        /\ pub'[t].event = count + 1 /\ UNCHANGED <<ready, log, dropped>>
    BY <1>0, <1>1 DEF Emit, loops
  <2>2. Used' = Used
    BY <2>1 DEF Used
  <2>3. Counted' /\ count + 1 \notin Used
    BY <1>0, <2>1, <2>2 DEF Counted
  <2>4. \A u \in Thread : u # t /\ pub[u].pc # "idle" => pub[u].event # count + 1
    BY <1>0 DEF Fresh
  <2> QED
    BY <1>0, <2>1, <2>2, <2>3, <2>4 DEF Fresh
<1>2. ASSUME NEW t \in Thread, ReadQueue(t)
      PROVE  Fresh' /\ Counted'
  <2>1. /\ count' = count /\ \A u \in Thread : u # t => pub'[u] = pub[u]
        /\ UNCHANGED <<ready, log, dropped>> /\ pub[t].pc = "queue"
    BY <1>0, <1>2 DEF ReadQueue, loops
  <2>2. pub'[t].pc = "idle" \/ pub'[t].event = pub[t].event
    <3>1. pub[t] \in [pc : {"idle", "queue", "call"}, loop : Lifespan \cup {Nothing},
                      queue : Lifespan \cup {Nothing}, event : Event \cup {Nothing}]
      BY DEF TypeOK
    <3>2. pub'[t] = Idle \/ pub'[t] = [pub[t] EXCEPT !.pc = "call", !.queue = busQueue]
      BY <1>0, <1>2 DEF ReadQueue
    <3>3. CASE pub'[t] = Idle
      BY <3>3 DEF Idle
    <3>4. CASE pub'[t] = [pub[t] EXCEPT !.pc = "call", !.queue = busQueue]
      BY <3>1, <3>4
    <3> QED
      BY <3>2, <3>3, <3>4
  <2>3. Used' = Used
    BY <2>1 DEF Used
  <2> QED
    BY <2>1, <2>2, <2>3 DEF Fresh, Counted
<1>3. ASSUME NEW t \in Thread, Schedule(t)
      PROVE  Fresh' /\ Counted'
  <2>1. /\ count' = count /\ \A u \in Thread : u # t => pub'[u] = pub[u]
        /\ pub'[t].pc = "idle" /\ pub[t].pc # "idle"
    BY <1>0, <1>3 DEF Schedule, Idle
  <2>2. \A e \in Used' : e \in Used \/ e = pub[t].event
    <3> SUFFICES ASSUME NEW e \in Used', e \notin Used
                 PROVE  e = pub[t].event
      OBVIOUS
    <3>1. PICK u \in Thread : Schedule(u) /\ e = pub[u].event
      BY UsedStep
    <3>2. u = t
      BY <1>0, <2>1, <3>1 DEF Schedule, Idle
    <3> QED
      BY <3>1, <3>2
  <2>3. /\ pub[t].event \in 1..count
        /\ \A u \in Thread : u # t /\ pub[u].pc # "idle" => pub[u].event # pub[t].event
    BY <2>1 DEF Fresh
  <2>4. Counted'
    BY <2>1, <2>2, <2>3 DEF Counted
  <2>5. \A u \in Thread : pub'[u].pc # "idle" => u # t /\ pub'[u] = pub[u] /\ pub[u].event \notin Used'
    BY <2>1, <2>2, <2>3 DEF Fresh
  <2>6. Fresh'
    BY <2>1, <2>5 DEF Fresh
  <2> QED
    BY <2>4, <2>6
<1>4. ASSUME UNCHANGED <<pub, count>>
      PROVE  Fresh' /\ Counted'
  <2>1. ASSUME NEW t \in Thread, Schedule(t)
        PROVE  FALSE
    <3>1. pub[t].pc = "call" /\ pub'[t] = Idle
      BY <1>0, <2>1 DEF Schedule
    <3>2. Idle.pc = "idle"
      BY DEF Idle
    <3> QED
      BY <1>4, <3>1, <3>2
  <2>2. Used' \subseteq Used
    BY <2>1, UsedStep
  <2> QED
    BY <1>4, <2>2 DEF Fresh, Counted
<1>5. CASE Attach \/ AttachQueue \/ CloseLoop \/ Get
  BY <1>4, <1>5 DEF Attach, AttachQueue, CloseLoop, Get
<1>6. ASSUME NEW g \in Lifespan, PutNowait(g)
      PROVE  UNCHANGED <<pub, count>>
  BY <1>6 DEF PutNowait
<1> QED
  BY <1>1, <1>2, <1>3, <1>4, <1>5, <1>6, LoopsFrame

\* Every step keeps the events of a lifespan that is up in order and accounted
\* for: publish() adds one at the end, _put_nowait and get() move or refuse one.
LEMMA ConservedStep ==
  ASSUME TypeOK, Phase, Publishers, OwnQueue, Fresh, Conserved, [Next]_vars
  PROVE  Conserved'
<1> SUFFICES ASSUME life' = "up"
             PROVE  KeepsAllBut(Through', log', dropped')
  BY DEF Conserved
<1>0. /\ ready \in [Lifespan -> Seq(Callback)] /\ queue \in [Lifespan -> Seq(Event)]
      /\ log \in Seq(Event) /\ done \in Seq(Event)
  BY DEF TypeOK
<1>a. Through = Stages(done, queue[gen], ready[gen])
  BY DEF Through, Stages
<1>b. Through' = Stages(done', queue'[gen'], ready'[gen'])
  BY DEF Through, Stages
<1>c. ASSUME life = "up"
      PROVE  /\ gen \in Lifespan /\ ready[gen] \in Seq(Callback) /\ queue[gen] \in Seq(Event)
             /\ KeepsAllBut(Stages(done, queue[gen], ready[gen]), log, dropped)
  <2>1. gen \in Lifespan
    BY <1>c, UpIsOpen
  <2> QED
    BY <1>0, <1>a, <1>c, <2>1 DEF Conserved
<1>1. CASE Attach
  BY <1>1 DEF Attach
<1>2. CASE AttachQueue
  <2>1. life = "starting" /\ log' = <<>> /\ done' = <<>> /\ UNCHANGED <<gen, ready, queue>>
    BY <1>2 DEF AttachQueue
  <2>2. gen \in Lifespan
    BY <2>1, UpIsOpen
  <2>3. ready[gen] = <<>> /\ queue[gen] = <<>>
    BY <2>1, <2>2 DEF OwnQueue
  <2>4. Through' = Stages(<<>>, <<>>, <<>>)
    BY <1>b, <2>1, <2>3
  <2>5. Stages(<<>>, <<>>, <<>>) \in Seq(Event) /\ Len(Stages(<<>>, <<>>, <<>>)) = 0
    <3>1. <<>> \in Seq(Event) /\ <<>> \in Seq(Callback) /\ Len(<<>>) = 0
      OBVIOUS
    <3>2. /\ Stages(<<>>, <<>>, <<>>) \in Seq(Event)
          /\ Len(Stages(<<>>, <<>>, <<>>)) = Len(<<>>) + Len(<<>>) + Len(<<>>)
      BY <3>1, StagesView
    <3> QED
      BY <3>1, <3>2
  <2>6. DOMAIN Through' = {} /\ DOMAIN log' = {}
    <3>1. \A x \in Seq(Event) : Len(x) = 0 => DOMAIN x = {}
      OBVIOUS
    <3> QED
      BY <2>1, <2>4, <2>5, <3>1
  <2> QED
    BY <2>6 DEF KeepsAllBut
<1>3. CASE CloseLoop
  BY <1>3 DEF CloseLoop
<1>4. ASSUME NEW t \in Thread, Emit(t) \/ ReadQueue(t)
      PROVE  KeepsAllBut(Through', log', dropped')
  <2>1. UNCHANGED <<life, gen, ready, queue, log, dropped, done>>
    BY <1>4 DEF Emit, ReadQueue, loops, sender
  <2> QED
    BY <1>b, <1>c, <2>1
<1>5. ASSUME NEW t \in Thread, Schedule(t)
      PROVE  KeepsAllBut(Through', log', dropped')
  <2>1. CASE pub[t].loop \in open
    <3> DEFINE c == [queue |-> pub[t].queue, event |-> pub[t].event]
    <3>1. /\ pub[t].pc = "call" /\ UNCHANGED <<life, gen, queue, dropped, done>>
          /\ log' = Append(log, pub[t].event)
          /\ ready' = [ready EXCEPT ![pub[t].loop] = Append(@, c)]
      BY <1>5, <2>1 DEF Schedule, sender
    <3>2. pub[t].loop = gen /\ gen \in Lifespan /\ pub[t].event \in Event /\ c \in Callback
      BY <2>1, <3>1, ScheduleTarget
    <3>3. c.event = pub[t].event
      OBVIOUS
    <3> HIDE DEF c
    <3>4. ready'[gen] = Append(ready[gen], c)
      BY <1>0, <3>1, <3>2
    <3>5. /\ ready[gen] \in Seq(Callback) /\ queue[gen] \in Seq(Event)
          /\ KeepsAllBut(Stages(done, queue[gen], ready[gen]), log, dropped)
      BY <1>c, <3>1
    <3>6. Through' = Append(Stages(done, queue[gen], ready[gen]), pub[t].event)
      <4>1. Through' = Stages(done, queue[gen], Append(ready[gen], c))
        BY <1>b, <3>1, <3>4
      <4> QED
        BY <1>0, <3>2, <3>3, <3>5, <4>1, StagesAppend
    <3>7. (\A k \in DOMAIN log : log[k] # pub[t].event) /\ pub[t].event \notin dropped
      <4>1. pub[t].event \notin Used
        BY <3>1 DEF Fresh
      <4> QED
        BY <3>2, <4>1 DEF Used
    <3>8. Stages(done, queue[gen], ready[gen]) \in Seq(Event)
      BY <1>0, <3>5, StagesView
    <3>9. KeepsAllBut(Append(Stages(done, queue[gen], ready[gen]), pub[t].event),
                      Append(log, pub[t].event), dropped)
      BY <1>0, <3>2, <3>5, <3>7, <3>8, KeepAppend
    <3> QED
      BY <3>1, <3>6, <3>9
  <2>2. CASE pub[t].loop \notin open
    <3>1. UNCHANGED <<life, gen, ready, queue, log, dropped, done>>
      BY <1>5, <2>2 DEF Schedule, sender
    <3> QED
      BY <1>b, <1>c, <3>1
  <2> QED
    BY <2>1, <2>2
<1>6. ASSUME NEW g \in Lifespan, PutNowait(g)
      PROVE  KeepsAllBut(Through', log', dropped')
  <2>1. UNCHANGED <<life, gen, log, done>>
    BY <1>6 DEF PutNowait, sender
  <2>2. /\ gen \in Lifespan /\ ready[gen] \in Seq(Callback) /\ queue[gen] \in Seq(Event)
        /\ KeepsAllBut(Stages(done, queue[gen], ready[gen]), log, dropped)
    BY <1>c, <2>1
  <2>3. /\ ready[gen] # <<>> /\ ready' = [ready EXCEPT ![gen] = Tail(@)]
        /\ IF Len(queue[gen]) < QueueSize
             THEN queue' = [queue EXCEPT ![gen] = Append(@, Head(ready[gen]).event)] /\ dropped' = dropped
             ELSE dropped' = dropped \cup {Head(ready[gen]).event} /\ queue' = queue
    BY <1>6, PutTarget
  <2>4. ready'[gen] = Tail(ready[gen])
    BY <1>0, <2>2, <2>3
  <2>5. CASE Len(queue[gen]) < QueueSize
    <3>1. queue'[gen] = Append(queue[gen], Head(ready[gen]).event) /\ dropped' = dropped
      BY <1>0, <2>2, <2>3, <2>5
    <3>2. Through' = Stages(done, Append(queue[gen], Head(ready[gen]).event), Tail(ready[gen]))
      BY <1>b, <2>1, <2>4, <3>1
    <3>3. Through' = Stages(done, queue[gen], ready[gen])
      BY <1>0, <2>2, <2>3, <3>2, StagesPut
    <3> QED
      BY <2>1, <2>2, <3>1, <3>3
  <2>6. CASE ~(Len(queue[gen]) < QueueSize)
    <3>1. queue' = queue /\ dropped' = dropped \cup {Head(ready[gen]).event}
      BY <2>3, <2>6
    <3>2. Through' = Stages(done, queue[gen], Tail(ready[gen]))
      BY <1>b, <2>1, <2>4, <3>1
    <3>3. KeepsAllBut(Stages(done, queue[gen], Tail(ready[gen])), log,
                      dropped \cup {Head(ready[gen]).event})
      BY <1>0, <2>2, <2>3, StagesDrop
    <3> QED
      BY <2>1, <3>1, <3>2, <3>3
  <2> QED
    BY <2>5, <2>6
<1>7. CASE Get
  <2>1. /\ UNCHANGED <<life, gen, ready, log, dropped>> /\ queue[gen] # <<>>
        /\ queue' = [queue EXCEPT ![gen] = Tail(@)] /\ done' = Append(done, Head(queue[gen]))
    BY <1>7 DEF Get
  <2>2. /\ gen \in Lifespan /\ ready[gen] \in Seq(Callback) /\ queue[gen] \in Seq(Event)
        /\ KeepsAllBut(Stages(done, queue[gen], ready[gen]), log, dropped)
    BY <1>c, <2>1
  <2>3. queue'[gen] = Tail(queue[gen])
    BY <1>0, <2>1, <2>2
  <2>4. Through' = Stages(Append(done, Head(queue[gen])), Tail(queue[gen]), ready[gen])
    BY <1>b, <2>1, <2>3
  <2>5. Through' = Stages(done, queue[gen], ready[gen])
    BY <1>0, <2>1, <2>2, <2>4, StagesGet
  <2> QED
    BY <2>1, <2>2, <2>5
<1>8. ASSUME /\ UNCHANGED <<ready, queue, log, dropped, gen, done>>
             /\ life' = life \/ life' \in {"cancelling", "stopping", "down"}
      PROVE  KeepsAllBut(Through', log', dropped')
  BY <1>b, <1>c, <1>8
<1> QED
  BY <1>1, <1>2, <1>3, <1>4, <1>5, <1>6, <1>7, <1>8, LoopsFrame

\* No more events are broadcast in a lifespan than were ever created.
LEMMA DoneBounded ==
  ASSUME TypeOK, Phase, Conserved, life = "up"
  PROVE  Len(done) \in 0..MaxEvents
<1>0. /\ ready \in [Lifespan -> Seq(Callback)] /\ queue \in [Lifespan -> Seq(Event)]
      /\ log \in Seq(Event) /\ done \in Seq(Event) /\ gen \in Lifespan
  <2>1. gen \in Lifespan
    BY UpIsOpen
  <2> QED
    BY <2>1 DEF TypeOK
<1> DEFINE n == Len(done)
           s == Stages(done, queue[gen], ready[gen])
<1>1. ready[gen] \in Seq(Callback) /\ queue[gen] \in Seq(Event)
  BY <1>0
<1>2. /\ s \in Seq(Event) /\ Len(s) = Len(done) + Len(queue[gen]) + Len(ready[gen])
      /\ \A i \in 1..(Len(done) + Len(queue[gen]) + Len(ready[gen])) :
           s[i] = IF i <= Len(done) THEN done[i]
                  ELSE IF i <= Len(done) + Len(queue[gen]) THEN queue[gen][i - Len(done)]
                  ELSE ready[gen][i - Len(done) - Len(queue[gen])].event
  <2>1. done \in Seq(Event)
    BY <1>0
  <2> QED
    BY <1>1, <2>1, StagesView
<1>3. KeepsAllBut(s, log, dropped)
  BY DEF Conserved, Through, Stages
<1>4. n \in Nat /\ Len(queue[gen]) \in Nat /\ Len(ready[gen]) \in Nat
  BY <1>0, <1>1
<1> HIDE DEF s
<1>5. ASSUME NEW i \in 1..n
      PROVE  i \in DOMAIN s /\ done[i] = s[i]
  <2> DEFINE q == Len(queue[gen])
             r == Len(ready[gen])
  <2>0. q \in Nat /\ r \in Nat
    BY <1>4
  <2> HIDE DEF q, r
  <2>1. i \in 1..(n + q + r) /\ i <= n
    BY <1>4, <2>0
  <2>2. DOMAIN s = 1..(n + q + r)
    BY <1>2 DEF q, r
  <2>3. s[i] = IF i <= n THEN done[i]
               ELSE IF i <= n + q THEN queue[gen][i - n] ELSE ready[gen][i - n - q].event
    BY <1>2, <2>1 DEF q, r
  <2> QED
    BY <2>1, <2>2, <2>3
<1>6. \A i, j \in 1..n : done[i] = done[j] => i = j
  <2> SUFFICES ASSUME NEW i \in 1..n, NEW j \in 1..n, done[i] = done[j]
               PROVE  i = j
    OBVIOUS
  <2>1. s \in Seq(Event)
    BY <1>2
  <2>2. i \in DOMAIN s /\ j \in DOMAIN s /\ s[i] = s[j]
    BY <1>5
  <2> QED
    BY <1>0, <1>3, <2>1, <2>2, KeptOnce
<1>7. IsFiniteSet(Event) /\ Cardinality(Event) = MaxEvents
  <2>1. MaxEvents \in Nat /\ (IF MaxEvents >= 1 THEN MaxEvents - 1 + 1 ELSE 0) = MaxEvents
    OBVIOUS
  <2>2. /\ IsFiniteSet(1..MaxEvents)
        /\ Cardinality(1..MaxEvents) = IF 1 > MaxEvents THEN 0 ELSE MaxEvents - 1 + 1
    BY FS_Interval
  <2> QED
    BY <2>2 DEF Event
<1>8. IsFiniteSet(1..n) /\ Cardinality(1..n) = n
  <2>1. n \in Int /\ 1 \in Int
    BY <1>4
  <2>2. /\ IsFiniteSet(1..n)
        /\ Cardinality(1..n) = IF 1 > n THEN 0 ELSE n - 1 + 1
    BY <2>1, FS_Interval
  <2> QED
    BY <1>4, <2>2
<1>9. done \in [1..n -> Event]
  BY <1>0
<1>10. n <= MaxEvents
  <2>1. IsInjective(done)
    BY <1>6, <1>9 DEF IsInjective
  <2>2. done \in Injection(1..n, Event)
    BY <1>9, <2>1 DEF Injection
  <2>4. Cardinality(1..n) <= Cardinality(Event)
    BY <1>7, <2>2, FS_Injection
  <2> QED
    BY <1>7, <1>8, <2>4
<1> QED
  BY <1>4, <1>10

-----------------------------------------------------------------------------
\* Types.

\* Every step keeps the types: a queue within its maxsize, a callback with a
\* real queue and event, and what a socket is sent a real event.
LEMMA TypeStep ==
  ASSUME TypeOK, Phase, Publishers, OwnQueue, Fresh, Conserved, TaskShape, [Next]_vars
  PROVE  TypeOK'
<1>0. /\ gen \in 0..MaxLifespans /\ 0..MaxLifespans \subseteq Lifespan \cup {Nothing}
      /\ gen \in Nat /\ count \in Nat
  BY DEF TypeOK, Lifespan, Nothing
<1>1. CASE Attach
  <2>1. gen + 1 \in Lifespan /\ gen + 1 \in 0..MaxLifespans
    BY <1>0, <1>1 DEF Attach, Lifespan
  <2> QED
    BY <1>1, <2>1 DEF Attach, TypeOK, loops, sender, sockets
<1>2. CASE AttachQueue
  <2>1. gen \in Lifespan \cup {Nothing} /\ <<>> \in Seq(Event)
    BY <1>0
  <2>2. task' \in [pc : {"none", "get", "next", "send"}, to : Socket \cup {NoSocket},
                   todo : SUBSET Socket]
    BY <1>2 DEF AttachQueue, Getting
  <2> QED
    BY <1>2, <2>1, <2>2 DEF AttachQueue, TypeOK, sockets
<1>3. CASE Shutdown
  BY <1>3 DEF Shutdown, TypeOK, bus, loops, sender, sockets
<1>4. CASE TaskCancelled
  <2>1. task' \in [pc : {"none", "get", "next", "send"}, to : Socket \cup {NoSocket},
                   todo : SUBSET Socket]
    BY <1>4 DEF TaskCancelled, NoTask
  <2> QED
    BY <1>4, <2>1 DEF TaskCancelled, TypeOK, loops, sockets
<1>5. CASE Detach
  BY <1>5 DEF Detach, TypeOK, loops, sender, sockets
<1>6. CASE CloseLoop
  <2>1. ready' \in [Lifespan -> Seq(Callback)]
    <3>1. ready \in [Lifespan -> Seq(Callback)] /\ <<>> \in Seq(Callback)
      BY DEF TypeOK
    <3> QED
      BY <1>6, <3>1 DEF CloseLoop
  <2> QED
    BY <1>6, <2>1 DEF CloseLoop, TypeOK, bus, sender, sockets
<1>7. ASSUME NEW t \in Thread, Emit(t) \/ ReadQueue(t)
      PROVE  TypeOK'
  <2> DEFINE R == [pc : {"idle", "queue", "call"}, loop : Lifespan \cup {Nothing},
                   queue : Lifespan \cup {Nothing}, event : Event \cup {Nothing}]
  <2>0. pub \in [Thread -> R] /\ busLoop \in Lifespan \cup {Nothing}
        /\ busQueue \in Lifespan \cup {Nothing} /\ Idle \in R
    BY DEF TypeOK, Idle
  <2>1. CASE Emit(t)
    <3>1. count + 1 \in Event /\ count + 1 \in 0..MaxEvents
      BY <1>0, <2>1 DEF Emit, Event
    <3>2. [pc |-> "queue", loop |-> busLoop, queue |-> Nothing, event |-> count + 1] \in R
      BY <2>0, <3>1
    <3> HIDE DEF R
    <3>3. pub' \in [Thread -> R]
      BY <2>0, <2>1, <3>2 DEF Emit
    <3> QED
      BY <2>1, <3>1, <3>3 DEF Emit, TypeOK, R, bus, loops, sender, sockets
  <2>2. CASE ReadQueue(t)
    <3>1. [pub[t] EXCEPT !.pc = "call", !.queue = busQueue] \in R
      BY <2>0
    <3> HIDE DEF R
    <3>2. pub' \in [Thread -> R]
      BY <2>0, <2>2, <3>1 DEF ReadQueue
    <3> QED
      BY <2>2, <3>2 DEF ReadQueue, TypeOK, R, bus, loops, sender, sockets
  <2> QED
    BY <1>7, <2>1, <2>2
<1>8. ASSUME NEW t \in Thread, Schedule(t)
      PROVE  TypeOK'
  <2>1. pub' \in [Thread -> [pc : {"idle", "queue", "call"}, loop : Lifespan \cup {Nothing},
                             queue : Lifespan \cup {Nothing}, event : Event \cup {Nothing}]]
    BY <1>8 DEF Schedule, Idle, TypeOK
  <2>2. ready' \in [Lifespan -> Seq(Callback)] /\ log' \in Seq(Event)
    <3>0. ready \in [Lifespan -> Seq(Callback)] /\ log \in Seq(Event)
      BY DEF TypeOK
    <3>1. CASE pub[t].loop \in open
      <4> DEFINE c == [queue |-> pub[t].queue, event |-> pub[t].event]
      <4>1. pub[t].pc = "call" /\ log' = Append(log, pub[t].event)
            /\ ready' = [ready EXCEPT ![pub[t].loop] = Append(@, c)]
        BY <1>8, <3>1 DEF Schedule
      <4>2. pub[t].loop \in Lifespan /\ pub[t].event \in Event /\ c \in Callback
        BY <3>1, <4>1, ScheduleTarget
      <4> HIDE DEF c
      <4>3. Append(ready[pub[t].loop], c) \in Seq(Callback)
        BY <3>0, <4>2
      <4> QED
        BY <3>0, <4>1, <4>2, <4>3
    <3>2. CASE pub[t].loop \notin open
      BY <1>8, <3>0, <3>2 DEF Schedule
    <3> QED
      BY <3>1, <3>2
  <2> QED
    BY <1>8, <2>1, <2>2 DEF Schedule, TypeOK, bus, sender, sockets
<1>9. ASSUME NEW g \in Lifespan, PutNowait(g)
      PROVE  TypeOK'
  <2>0. /\ ready \in [Lifespan -> Seq(Callback)] /\ queue \in [Lifespan -> Seq(Event)]
        /\ \A h \in Lifespan : Len(queue[h]) <= QueueSize
        /\ dropped \subseteq Event
    BY DEF TypeOK
  <2>1. /\ gen \in Lifespan /\ ready[gen] \in Seq(Callback) /\ queue[gen] \in Seq(Event)
        /\ ready[gen] # <<>> /\ Head(ready[gen]).event \in Event
        /\ ready' = [ready EXCEPT ![gen] = Tail(@)]
        /\ IF Len(queue[gen]) < QueueSize
             THEN queue' = [queue EXCEPT ![gen] = Append(@, Head(ready[gen]).event)] /\ dropped' = dropped
             ELSE dropped' = dropped \cup {Head(ready[gen]).event} /\ queue' = queue
    BY <1>9, PutTarget
  <2>2. ready' \in [Lifespan -> Seq(Callback)]
    <3>1. Tail(ready[gen]) \in Seq(Callback)
      BY <2>1
    <3> QED
      BY <2>0, <2>1, <3>1
  <2>3. queue' \in [Lifespan -> Seq(Event)] /\ dropped' \subseteq Event
        /\ \A h \in Lifespan : Len(queue'[h]) <= QueueSize
    <3>1. CASE Len(queue[gen]) < QueueSize
      <4> DEFINE q == Append(queue[gen], Head(ready[gen]).event)
      <4>1. q \in Seq(Event) /\ Len(q) = Len(queue[gen]) + 1 /\ Len(queue[gen]) \in Nat
        BY <2>1
      <4>2. queue' = [queue EXCEPT ![gen] = q] /\ dropped' = dropped
        BY <2>1, <3>1
      <4> HIDE DEF q
      <4>3. queue' \in [Lifespan -> Seq(Event)]
        BY <2>0, <4>1, <4>2
      <4>4. \A h \in Lifespan : queue'[h] = IF h = gen THEN q ELSE queue[h]
        BY <2>0, <4>2
      <4>5. Len(q) <= QueueSize
        BY <3>1, <4>1
      <4> QED
        BY <2>0, <4>2, <4>3, <4>4, <4>5
    <3>2. CASE ~(Len(queue[gen]) < QueueSize)
      BY <2>0, <2>1, <3>2
    <3> QED
      BY <3>1, <3>2
  <2> QED
    BY <1>9, <2>2, <2>3 DEF PutNowait, TypeOK, bus, sender, sockets
<1>10. CASE Get
  <2>0. /\ queue \in [Lifespan -> Seq(Event)] /\ done \in Seq(Event) /\ conns \subseteq Socket
        /\ \A h \in Lifespan : Len(queue[h]) <= QueueSize
    BY DEF TypeOK
  <2>1. gen \in Lifespan
    BY <1>10, UpIsOpen DEF Get
  <2>2. queue[gen] \in Seq(Event) /\ queue[gen] # <<>>
    BY <1>10, <2>0, <2>1 DEF Get
  <2>3. /\ Head(queue[gen]) \in Event /\ Tail(queue[gen]) \in Seq(Event)
        /\ Len(Tail(queue[gen])) = Len(queue[gen]) - 1 /\ Len(queue[gen]) \in Nat
    BY <2>2
  <2>4. /\ queue' = [queue EXCEPT ![gen] = Tail(@)] /\ done' = Append(done, Head(queue[gen]))
        /\ event' = Head(queue[gen]) /\ task' = [pc |-> "next", to |-> NoSocket, todo |-> conns]
    BY <1>10 DEF Get
  <2>5. queue' \in [Lifespan -> Seq(Event)] /\ done' \in Seq(Event) /\ event' \in Event
    BY <2>0, <2>1, <2>3, <2>4
  <2>6. \A h \in Lifespan : Len(queue'[h]) <= QueueSize
    <3>1. \A h \in Lifespan : queue'[h] = IF h = gen THEN Tail(queue[gen]) ELSE queue[h]
      BY <2>0, <2>4
    <3>2. Len(queue[gen]) <= QueueSize
      BY <2>0, <2>1
    <3>3. Len(Tail(queue[gen])) <= QueueSize
      BY <2>3, <3>2
    <3> QED
      BY <2>0, <3>1, <3>3
  <2>7. task' \in [pc : {"none", "get", "next", "send"}, to : Socket \cup {NoSocket},
                   todo : SUBSET Socket]
    BY <2>0, <2>4
  <2> QED
    BY <1>10, <2>5, <2>6, <2>7 DEF Get, TypeOK, bus, sockets
<1>11. CASE NextSocket \/ Send \/ SendFails
  <2> DEFINE T == [pc : {"none", "get", "next", "send"}, to : Socket \cup {NoSocket},
                   todo : SUBSET Socket]
  <2>0. task \in T /\ got \in [Socket -> Seq(Event)]
    BY DEF TypeOK
  <2>1. CASE NextSocket
    <3>1. task' \in T
      BY <2>0, <2>1 DEF NextSocket, Getting
    <3>2. event' \in Event \cup {Nothing}
      BY <2>1 DEF NextSocket, TypeOK
    <3> HIDE DEF T
    <3> QED
      BY <2>1, <3>1, <3>2 DEF NextSocket, TypeOK, T, bus, loops, sockets
  <2>2. [task EXCEPT !.pc = "next", !.to = NoSocket] \in T
    BY <2>0
  <2>3. CASE Send
    <3>1. task.to \in Socket /\ done # <<>> /\ event = done[Len(done)]
      BY <2>3 DEF Send, TaskShape
    <3>2. event \in Event
      BY <3>1 DEF TypeOK
    <3>3. Append(got[task.to], event) \in Seq(Event)
      BY <2>0, <3>1, <3>2
    <3>4. got' \in [Socket -> Seq(Event)]
      BY <2>0, <2>3, <3>3 DEF Send
    <3>5. task' \in T
      BY <2>2, <2>3 DEF Send
    <3> HIDE DEF T
    <3> QED
      BY <2>3, <3>4, <3>5 DEF Send, TypeOK, T, bus, loops
  <2>4. CASE SendFails
    <3>1. task' \in T
      BY <2>2, <2>4 DEF SendFails
    <3> HIDE DEF T
    <3> QED
      BY <2>4, <3>1 DEF SendFails, TypeOK, T, bus, loops, sockets
  <2> QED
    BY <1>11, <2>1, <2>3, <2>4
<1>12. ASSUME NEW s \in Socket, Register(s)
       PROVE  TypeOK'
  <2>1. Len(done) \in 0..MaxEvents
    BY <1>12, DoneBounded DEF Register
  <2>2. joined' \in [Socket -> 0..MaxEvents]
    BY <1>12, <2>1 DEF Register, TypeOK
  <2>3. link' \in [Socket -> {"new", "up", "stalled", "broken", "closed"}]
    BY <1>12 DEF Register, TypeOK
  <2> QED
    BY <1>12, <2>2, <2>3 DEF Register, TypeOK, bus, loops, sender
<1>13. ASSUME NEW s \in Socket, Stall(s) \/ Resume(s) \/ Disconnect(s) \/ Unregister(s)
       PROVE  TypeOK'
  <2>1. link' \in [Socket -> {"new", "up", "stalled", "broken", "closed"}]
    BY <1>13 DEF Stall, Resume, Disconnect, Unregister, TypeOK
  <2> QED
    BY <1>13, <2>1 DEF Stall, Resume, Disconnect, Unregister, TypeOK, bus, loops, sender
<1>14. CASE UNCHANGED vars
  BY <1>14 DEF vars, TypeOK
<1> QED
  BY <1>1, <1>2, <1>3, <1>4, <1>5, <1>6, <1>7, <1>8, <1>9, <1>10, <1>11, <1>12, <1>13, <1>14
     DEF Next, Stop, Broadcast

-----------------------------------------------------------------------------
\* The broadcast.

\* Every step keeps the task sending the last event it took.
LEMMA TaskShapeStep ==
  ASSUME TypeOK, Phase, TaskShape, [Next]_vars
  PROVE  TaskShape'
<1> DEFINE T == [pc : {"none", "get", "next", "send"}, to : Socket \cup {NoSocket},
                 todo : SUBSET Socket]
<1>0. task \in T /\ done \in Seq(Event)
  BY DEF TypeOK
<1>1. CASE AttachQueue
  BY <1>1 DEF AttachQueue, Getting, TaskShape
<1>2. CASE TaskCancelled
  BY <1>2 DEF TaskCancelled, NoTask, TaskShape
<1>3. CASE Get
  <2>0. gen \in Lifespan
    BY <1>3, UpIsOpen DEF Get
  <2>1. queue[gen] \in Seq(Event) /\ queue[gen] # <<>>
    BY <1>3, <2>0 DEF Get, TypeOK
  <2>2. Head(queue[gen]) \in Event
    BY <2>1
  <2>3. /\ Append(done, Head(queue[gen])) # <<>>
        /\ Append(done, Head(queue[gen]))[Len(Append(done, Head(queue[gen])))] = Head(queue[gen])
    BY <1>0, <2>2
  <2>4. /\ done' = Append(done, Head(queue[gen])) /\ event' = Head(queue[gen])
        /\ task'.pc = "next" /\ task'.to = NoSocket
    BY <1>3 DEF Get
  <2> QED
    BY <2>3, <2>4 DEF TaskShape
<1>4. CASE NextSocket
  <2>1. CASE task' = Getting
    BY <2>1 DEF Getting, TaskShape
  <2>2. ASSUME NEW s \in task.todo, event' = event,
               task' = [pc |-> "send", to |-> s, todo |-> task.todo \ {s}]
        PROVE  TaskShape'
    <3>1. task.pc = "next" /\ done' = done /\ s \in Socket
      BY <1>0, <1>4 DEF NextSocket
    <3> QED
      BY <2>2, <3>1 DEF TaskShape
  <2> QED
    BY <1>4, <2>1, <2>2 DEF NextSocket
<1>5. CASE Send \/ SendFails
  <2>1. task' = [task EXCEPT !.pc = "next", !.to = NoSocket] /\ UNCHANGED <<done, event>>
        /\ task.pc = "send"
    BY <1>5 DEF Send, SendFails
  <2>2. task'.pc = "next" /\ task'.to = NoSocket
    BY <1>0, <2>1
  <2> QED
    BY <2>1, <2>2 DEF TaskShape
<1>6. CASE UNCHANGED <<task, event, done>>
  BY <1>6 DEF TaskShape
<1>7. CASE Attach \/ Shutdown \/ Detach \/ CloseLoop
  BY <1>6, <1>7 DEF Attach, Shutdown, Detach, CloseLoop, sender
<1>8. ASSUME NEW t \in Thread, Emit(t) \/ ReadQueue(t) \/ Schedule(t)
      PROVE  UNCHANGED <<task, event, done>>
  BY <1>8 DEF Emit, ReadQueue, Schedule, sender
<1>9. ASSUME NEW g \in Lifespan, PutNowait(g)
      PROVE  UNCHANGED <<task, event, done>>
  BY <1>9 DEF PutNowait, sender
<1>10. ASSUME NEW s \in Socket, Register(s) \/ Stall(s) \/ Resume(s) \/ Disconnect(s) \/ Unregister(s)
       PROVE  UNCHANGED <<task, event, done>>
  BY <1>10 DEF Register, Stall, Resume, Disconnect, Unregister, sender
<1>11. CASE UNCHANGED vars
  BY <1>6, <1>11 DEF vars
<1> QED
  BY <1>1, <1>2, <1>3, <1>4, <1>5, <1>6, <1>7, <1>8, <1>9, <1>10, <1>11 DEF Next, Stop, Broadcast

\* What Stream says of one socket.
StreamOf(s) ==
    /\ link[s] = "new" => s \notin conns /\ ~Pending(s) /\ got[s] = <<>>
    /\ s \in conns /\ life = "up" /\ link[s] \in {"up", "stalled"} =>
         /\ joined[s] + Len(got[s]) = Len(done) - IF Pending(s) THEN 1 ELSE 0
         /\ \A i \in DOMAIN got[s] : got[s][i] = done[joined[s] + i]

\* A step that changes nothing of a socket's stream, except that the socket may
\* leave the connections or its link may change among the states after "new".
LEMMA StreamFrame ==
  ASSUME NEW s \in Socket, StreamOf(s), UNCHANGED <<done, got[s], joined[s]>>,
         Pending(s)' => Pending(s), s \in conns /\ life' = "up" => (Pending(s) => Pending(s)'),
         s \in conns' => s \in conns, life' = "up" => life = "up",
         link[s]' = "new" => link[s] = "new",
         link[s]' \in {"up", "stalled"} => link[s] \in {"up", "stalled"}
  PROVE  StreamOf(s)'
BY DEF StreamOf

\* Every step keeps each socket's stream without a gap.
LEMMA StreamStep ==
  ASSUME TypeOK, Phase, TaskShape, Stream, [Next]_vars
  PROVE  Stream'
<1> DEFINE T == [pc : {"none", "get", "next", "send"}, to : Socket \cup {NoSocket},
                 todo : SUBSET Socket]
<1>0. /\ task \in T /\ done \in Seq(Event) /\ conns \subseteq Socket
      /\ got \in [Socket -> Seq(Event)] /\ joined \in [Socket -> 0..MaxEvents]
      /\ link \in [Socket -> {"new", "up", "stalled", "broken", "closed"}]
  BY DEF TypeOK
<1> SUFFICES ASSUME NEW s \in Socket
             PROVE  StreamOf(s)'
  BY DEF Stream, StreamOf
<1>a. StreamOf(s)
  BY DEF Stream, StreamOf
<1>b. s # NoSocket
  OBVIOUS
<1>c. joined[s] \in Nat /\ Len(got[s]) \in Nat /\ Len(done) \in Nat /\ got[s] \in Seq(Event)
  BY <1>0
<1>1. CASE Attach
  <2>1. life' # "up" /\ UNCHANGED <<conns, task, link, got>>
    BY <1>1 DEF Attach, sender, sockets
  <2> QED
    BY <1>a, <2>1 DEF StreamOf, Pending
<1>2. CASE AttachQueue
  <2>1. conns = {} /\ UNCHANGED <<conns, link, got>> /\ task'.to = NoSocket /\ task'.todo = {}
    BY <1>2 DEF AttachQueue, Phase, Getting, sockets
  <2> QED
    BY <1>a, <1>b, <2>1 DEF StreamOf, Pending
<1>3. CASE TaskCancelled
  <2>1. life' # "up" /\ UNCHANGED <<conns, link, got>> /\ task'.to = NoSocket /\ task'.todo = {}
    BY <1>3 DEF TaskCancelled, NoTask, sockets
  <2> QED
    BY <1>a, <1>b, <2>1 DEF StreamOf, Pending
<1>4. CASE Shutdown \/ Detach \/ CloseLoop
  <2>1. life' # "up" /\ UNCHANGED <<task, link, got>> /\ conns' \subseteq conns
    BY <1>4 DEF Shutdown, Detach, CloseLoop, sender, sockets
  <2> QED
    BY <1>a, <2>1 DEF StreamOf, Pending
<1>5. CASE Get
  <2>0. gen \in Lifespan
    BY <1>5, UpIsOpen DEF Get
  <2>1. queue[gen] \in Seq(Event) /\ queue[gen] # <<>>
    BY <1>5, <2>0 DEF Get, TypeOK
  <2>2. Head(queue[gen]) \in Event
    BY <2>1
  <2>3. /\ Len(Append(done, Head(queue[gen]))) = Len(done) + 1
        /\ \A i \in 1..Len(done) : Append(done, Head(queue[gen]))[i] = done[i]
    BY <1>0, <2>2
  <2>4. /\ done' = Append(done, Head(queue[gen])) /\ UNCHANGED <<life, conns, link, got, joined>>
        /\ task'.to = NoSocket /\ task'.todo = conns /\ task.pc = "get"
    BY <1>5 DEF Get, sockets
  <2>5. ~Pending(s) /\ (Pending(s)' <=> s \in conns)
    BY <1>b, <2>4 DEF Pending, TaskShape
  <2>6. ASSUME s \in conns, life = "up", link[s] \in {"up", "stalled"}
        PROVE  /\ joined[s] + Len(got[s]) = Len(done') - 1
               /\ \A i \in DOMAIN got[s] : got[s][i] = done'[joined[s] + i]
    <3>1. /\ joined[s] + Len(got[s]) = Len(done)
          /\ \A i \in DOMAIN got[s] : got[s][i] = done[joined[s] + i]
      BY <1>a, <1>c, <2>5, <2>6 DEF StreamOf
    <3>2. \A i \in DOMAIN got[s] : joined[s] + i \in 1..Len(done)
      BY <1>c, <3>1
    <3> QED
      BY <1>c, <2>3, <2>4, <3>1, <3>2
  <2> QED
    BY <1>a, <2>4, <2>5, <2>6 DEF StreamOf
<1>6. CASE NextSocket
  <2>1. UNCHANGED <<life, conns, done, link, got, joined>> /\ task.pc = "next"
    BY <1>6 DEF NextSocket, sockets
  <2>2. task.to = NoSocket
    BY <2>1 DEF TaskShape
  <2>3. CASE task.todo = {} /\ task' = Getting
    <3>1. ~Pending(s) /\ ~Pending(s)'
      BY <1>b, <2>2, <2>3 DEF Pending, Getting
    <3> QED
      BY <1>a, <2>1, <3>1, StreamFrame
  <2>4. ASSUME NEW x \in task.todo, task' = [pc |-> "send", to |-> x, todo |-> task.todo \ {x}]
        PROVE  StreamOf(s)'
    <3>1. Pending(s)' <=> Pending(s)
      BY <1>b, <2>2, <2>4 DEF Pending
    <3> QED
      BY <1>a, <2>1, <3>1, StreamFrame
  <2> QED
    BY <1>6, <2>3, <2>4 DEF NextSocket
<1>7. CASE Send \/ SendFails
  <2>1. /\ task.pc = "send" /\ UNCHANGED <<life, done, link, joined>>
        /\ task' = [task EXCEPT !.pc = "next", !.to = NoSocket] /\ conns' \subseteq conns
    BY <1>7 DEF Send, SendFails, sockets
  <2>2. task'.to = NoSocket /\ task'.todo = task.todo
    BY <1>0, <2>1
  <2>3. /\ task.to \in Socket /\ task.to \notin task.todo
        /\ done # <<>> /\ event = done[Len(done)] /\ link[task.to] # "new"
    BY <1>7, <2>1 DEF TaskShape, Send, SendFails
  <2>4. CASE s # task.to
    <3>1. Pending(s)' <=> Pending(s)
      BY <1>b, <2>2, <2>4 DEF Pending
    <3>2. got'[s] = got[s]
      BY <1>0, <1>7, <2>4 DEF Send, SendFails, sockets
    <3> QED
      BY <1>a, <2>1, <3>1, <3>2, StreamFrame
  <2>5. CASE s = task.to /\ SendFails
    BY <2>1, <2>3, <2>5 DEF SendFails, StreamOf
  <2>6. CASE s = task.to /\ Send
    <3>1. got'[s] = Append(got[s], event) /\ event \in Event /\ conns' = conns
      BY <1>0, <2>3, <2>6 DEF Send
    <3>2. ~Pending(s)' /\ Pending(s)
      BY <1>b, <2>2, <2>3, <2>6 DEF Pending
    <3>3. ASSUME s \in conns, life = "up", link[s] \in {"up", "stalled"}
          PROVE  /\ joined[s] + Len(got'[s]) = Len(done)
                 /\ \A i \in DOMAIN got'[s] : got'[s][i] = done[joined[s] + i]
      <4>0. (IF Pending(s) THEN 1 ELSE 0) = 1
        BY <3>2
      <4>1. /\ joined[s] + Len(got[s]) = Len(done) - 1
            /\ \A i \in DOMAIN got[s] : got[s][i] = done[joined[s] + i]
        BY <1>a, <3>3, <4>0 DEF StreamOf
      <4>2. /\ Len(got'[s]) = Len(got[s]) + 1 /\ DOMAIN got'[s] = 1..(Len(got[s]) + 1)
            /\ DOMAIN got[s] = 1..Len(got[s])
            /\ got'[s][Len(got[s]) + 1] = event
            /\ \A i \in 1..Len(got[s]) : got'[s][i] = got[s][i]
        <5>1. got[s] \in Seq(Event) /\ Len(got[s]) \in Nat
          BY <1>c
        <5>2. /\ Append(got[s], event) \in Seq(Event) /\ Len(Append(got[s], event)) = Len(got[s]) + 1
              /\ Append(got[s], event)[Len(got[s]) + 1] = event
              /\ \A i \in 1..Len(got[s]) : Append(got[s], event)[i] = got[s][i]
          BY <3>1, <5>1
        <5> QED
          BY <3>1, <5>1, <5>2
      <4>3. joined[s] + Len(got'[s]) = Len(done) /\ Len(done) = joined[s] + (Len(got[s]) + 1)
        <5>1. joined[s] \in Int /\ Len(got[s]) \in Int /\ Len(done) \in Int
          BY <1>c
        <5>2. joined[s] + Len(got[s]) = Len(done) - 1
          BY <4>1
        <5>3. Len(got'[s]) = Len(got[s]) + 1
          BY <4>2
        <5> QED
          BY <5>1, <5>2, <5>3
      <4>4. got'[s][Len(got[s]) + 1] = done[joined[s] + (Len(got[s]) + 1)]
        BY <2>3, <4>2, <4>3
      <4>5. \A i \in DOMAIN got'[s] : i \in DOMAIN got[s] \/ i = Len(got[s]) + 1
        BY <1>c, <4>2
      <4>6. \A i \in DOMAIN got'[s] : got'[s][i] = done[joined[s] + i]
        BY <4>1, <4>2, <4>4, <4>5
      <4> QED
        BY <4>3, <4>6
    <3>4. ~Pending(s)' /\ conns' = conns /\ life' = life /\ link' = link /\ link[s] # "new"
          /\ done' = done /\ joined' = joined
      BY <2>1, <2>3, <2>6, <3>1, <3>2
    <3>5. Len(done) - 0 = Len(done)
      BY <1>c
    <3> QED
      BY <3>3, <3>4, <3>5 DEF StreamOf
  <2> QED
    BY <1>7, <2>4, <2>5, <2>6
<1>8. ASSUME NEW x \in Socket, Register(x)
      PROVE  StreamOf(s)'
  <2>1. UNCHANGED <<life, done, task, got>> /\ link[x] = "new" /\ conns' = conns \cup {x}
    BY <1>8 DEF Register, sender
  <2>2. Pending(s)' <=> Pending(s)
    BY <2>1 DEF Pending
  <2>3. CASE s # x
    <3>1. link'[s] = link[s] /\ joined'[s] = joined[s] /\ (s \in conns' <=> s \in conns)
      BY <1>0, <1>8, <2>1, <2>3 DEF Register
    <3> QED
      BY <1>a, <2>1, <2>2, <3>1, StreamFrame
  <2>4. CASE s = x
    <3>1. link'[s] = "up" /\ joined'[s] = Len(done)
      BY <1>0, <1>8, <2>4 DEF Register
    <3>2. ~Pending(s) /\ got[s] = <<>>
      BY <1>a, <2>1, <2>4 DEF StreamOf
    <3>3. Len(got[s]) = 0 /\ DOMAIN got[s] = {}
      BY <3>2
    <3> QED
      BY <1>c, <2>1, <2>2, <3>1, <3>2, <3>3 DEF StreamOf
  <2> QED
    BY <2>3, <2>4
<1>9. ASSUME NEW x \in Socket, Stall(x) \/ Resume(x) \/ Disconnect(x) \/ Unregister(x)
      PROVE  StreamOf(s)'
  <2>1. UNCHANGED <<life, done, task, got, joined>> /\ conns' \subseteq conns
    BY <1>9 DEF Stall, Resume, Disconnect, Unregister, sender
  <2>2. Pending(s)' <=> Pending(s)
    BY <2>1 DEF Pending
  <2>3. CASE s # x
    <3>1. link'[s] = link[s]
      BY <1>0, <1>9, <2>3 DEF Stall, Resume, Disconnect, Unregister
    <3> QED
      BY <1>a, <2>1, <2>2, <3>1, StreamFrame
  <2>4. CASE s = x
    <3>1. link'[s] # "new" /\ (link'[s] \in {"up", "stalled"} => link[s] \in {"up", "stalled"})
      BY <1>0, <1>9, <2>4 DEF Stall, Resume, Disconnect, Unregister
    <3> QED
      BY <1>a, <2>1, <2>2, <3>1, StreamFrame
  <2> QED
    BY <2>3, <2>4
<1>10. CASE UNCHANGED <<life, conns, done, task, link, got, joined>>
  BY <1>a, <1>10 DEF StreamOf, Pending
<1>11. ASSUME NEW t \in Thread, Emit(t) \/ ReadQueue(t) \/ Schedule(t)
       PROVE  UNCHANGED <<life, conns, done, task, link, got, joined>>
  BY <1>11 DEF Emit, ReadQueue, Schedule, sender, sockets
<1>12. ASSUME NEW g \in Lifespan, PutNowait(g)
       PROVE  UNCHANGED <<life, conns, done, task, link, got, joined>>
  BY <1>12 DEF PutNowait, sender, sockets
<1>13. CASE UNCHANGED vars
  BY <1>10, <1>13 DEF vars
<1> QED
  BY <1>1, <1>2, <1>3, <1>4, <1>5, <1>6, <1>7, <1>8, <1>9, <1>10, <1>11, <1>12, <1>13
     DEF Next, Stop, Broadcast

-----------------------------------------------------------------------------
\* The theorems.

\* The invariant holds initially and every step keeps it.
LEMMA Inductive ==
  /\ Init => IInv
  /\ IInv /\ [Next]_vars => IInv'
<1>1. ASSUME Init
      PROVE  IInv
  <2> USE <1>1 DEF Init
  <2>1. TypeOK
    <3>1. ready \in [Lifespan -> Seq(Callback)] /\ queue \in [Lifespan -> Seq(Event)]
          /\ got \in [Socket -> Seq(Event)] /\ log \in Seq(Event) /\ done \in Seq(Event)
      OBVIOUS
    <3>2. \A g \in Lifespan : Len(queue[g]) <= QueueSize
      OBVIOUS
    <3>3. pub \in [Thread -> [pc : {"idle", "queue", "call"}, loop : Lifespan \cup {Nothing},
                              queue : Lifespan \cup {Nothing}, event : Event \cup {Nothing}]]
      BY DEF Idle
    <3>4. task \in [pc : {"none", "get", "next", "send"}, to : Socket \cup {NoSocket},
                    todo : SUBSET Socket]
      BY DEF NoTask
    <3>5. joined \in [Socket -> 0..MaxEvents] /\ count \in 0..MaxEvents /\ gen \in 0..MaxLifespans
          /\ link \in [Socket -> {"new", "up", "stalled", "broken", "closed"}]
      OBVIOUS
    <3> QED
      BY <3>1, <3>2, <3>3, <3>4, <3>5 DEF TypeOK
  <2>2. Phase
    BY DEF Phase
  <2>3. Publishers /\ Fresh
    BY DEF Publishers, Fresh, Idle
  <2>4. OwnQueue
    BY DEF OwnQueue
  <2>5. Counted
    BY DEF Counted, Used
  <2>6. Conserved
    BY DEF Conserved
  <2>7. TaskShape
    BY DEF TaskShape, NoTask
  <2>8. Stream
    BY DEF Stream, Pending, NoTask
  <2> QED
    BY <2>1, <2>2, <2>3, <2>4, <2>5, <2>6, <2>7, <2>8 DEF IInv
<1>2. ASSUME IInv, [Next]_vars
      PROVE  IInv'
  BY <1>2, TypeStep, PhaseStep, PublishersStep, OwnQueueStep, FreshStep, ConservedStep,
     TaskShapeStep, StreamStep DEF IInv
<1> QED
  BY <1>1, <1>2

\* Whatever the threads, the loop and the sockets do, the queue stays within
\* dashboard_event_queue_size and every callback, event and socket is real.
THEOREM BusIsTyped == Spec => []TypeOK
<1>1. IInv => TypeOK
  BY DEF IInv
<1> QED
  BY Inductive, <1>1, PTL DEF Spec

\* While a lifespan is up, the events handed to its loop that no full queue
\* refused are broadcast, queued or with the loop, in the order handed over:
\* the unlocked reads of publish() lose, repeat and reorder nothing, and bring
\* nothing over from an earlier lifespan.
THEOREM NothingIsLost == Spec => []Conserved
<1>1. IInv => Conserved
  BY DEF IInv
<1> QED
  BY Inductive, <1>1, PTL DEF Spec

\* A stream that agrees with done position by position is a piece of it.
LEMMA StreamIsGapless ==
  ASSUME TypeOK, Stream
  PROVE  Gapless
<1> SUFFICES ASSUME NEW s \in conns, life = "up", link[s] \in {"up", "stalled"}
             PROVE  got[s] = SubSeq(done, joined[s] + 1,
                                    Len(done) - IF s = task.to \/ s \in task.todo THEN 1 ELSE 0)
  BY DEF Gapless
<1> DEFINE k == Len(done) - IF s = task.to \/ s \in task.todo THEN 1 ELSE 0
           j == joined[s]
           g == got[s]
<1>1. s \in Socket /\ done \in Seq(Event) /\ g \in Seq(Event) /\ j \in Nat /\ Len(done) \in Nat
  BY DEF TypeOK
<1>2. /\ j + Len(g) = k
      /\ \A i \in DOMAIN g : g[i] = done[j + i]
  BY <1>1 DEF Stream, Pending
<1>3. k \in Int /\ k <= Len(done) /\ Len(g) \in Nat /\ DOMAIN g = 1..Len(g)
  BY <1>1
<1> HIDE DEF k, j, g
<1>4. g = SubSeq(done, j + 1, k)
  <2>1. \A i \in (j + 1)..k : done[i] \in Event
    BY <1>1, <1>3
  <2>2. /\ SubSeq(done, j + 1, k) \in Seq(Event)
        /\ Len(SubSeq(done, j + 1, k)) = Len(g)
        /\ \A i \in 1..Len(g) : SubSeq(done, j + 1, k)[i] = done[j + i]
    BY <1>1, <1>2, <1>3, <2>1
  <2> QED
    BY <1>1, <1>2, <1>3, <2>2, SameSeq
<1> QED
  BY <1>4 DEF k, j, g

\* A socket that is registered and alive has been sent every event broadcast
\* since it registered, in order, however other sockets stall or break.
THEOREM EverySocketSeesAll == Spec => []Gapless
<1>1. IInv => Gapless
  BY StreamIsGapless DEF IInv
<1> QED
  BY Inductive, <1>1, PTL DEF Spec

\* A publisher about to call a loop that is not closed holds that loop's own
\* queue, although it read the two attributes one after the other.
LoopAndQueueMatch ==
    \A t \in Thread :
        pub[t].pc = "call" /\ pub[t].loop \in open => pub[t].queue = pub[t].loop

\* events.py's publish(): the order of its reads and of the assignments in
\* attach() and detach() makes the lock unnecessary, over any number of restarts.
THEOREM UnlockedReadsAreSafe == Spec => []LoopAndQueueMatch
<1>1. ASSUME IInv
      PROVE  LoopAndQueueMatch
  <2> SUFFICES ASSUME NEW t \in Thread, pub[t].pc = "call", pub[t].loop \in open
               PROVE  pub[t].queue = pub[t].loop
    BY DEF LoopAndQueueMatch
  <2>1. /\ pub[t].loop \in Lifespan /\ pub[t].queue \in Lifespan
        /\ pub[t].loop <= pub[t].queue /\ pub[t].queue <= gen
    BY <1>1 DEF IInv, Publishers
  <2>2. pub[t].loop = gen
    BY <1>1 DEF IInv, Phase
  <2> QED
    BY <2>1, <2>2 DEF Lifespan
<1> QED
  BY Inductive, <1>1, PTL DEF Spec

\* While the application is up the broadcast task is there, and the socket it
\* sends to was registered: it is up, gone or stalled, and Send or SendFails
\* goes on in the first two cases.
BroadcasterLives ==
    life = "up" => /\ task.pc # "none"
                   /\ task.pc = "send" => task.to \in Socket /\ link[task.to] # "new"

\* The task ends by its cancellation only.
LEMMA TaskStaysStep ==
  ASSUME TypeOK, life = "up" => task.pc # "none", [Next]_vars
  PROVE  life' = "up" => task'.pc # "none"
<1>1. CASE AttachQueue
  BY <1>1 DEF AttachQueue, Getting
<1>2. CASE Broadcast
  <2>1. CASE Get
    BY <2>1 DEF Get
  <2>2. CASE NextSocket
    BY <2>2 DEF NextSocket, Getting
  <2>3. CASE Send \/ SendFails
    <3>1. task' = [task EXCEPT !.pc = "next", !.to = NoSocket]
      BY <2>3 DEF Send, SendFails
    <3>2. task'.pc = "next"
      BY <3>1 DEF TypeOK
    <3> QED
      BY <3>2
  <2> QED
    BY <1>2, <2>1, <2>2, <2>3 DEF Broadcast
<1>3. CASE ~AttachQueue /\ ~Broadcast
  <2>1. life' = "up" => life = "up" /\ task' = task
    BY <1>3 DEF Next, Attach, Shutdown, Stop, TaskCancelled, Detach, CloseLoop, Emit, ReadQueue,
       Schedule, PutNowait, Register, Stall, Resume, Disconnect, Unregister, sender, vars
  <2> QED
    BY <2>1
<1> QED
  BY <1>1, <1>2, <1>3

\* run_broadcast_loop: no exception of a send, no client and no full queue ends
\* the task before shutdown, and only a peer that does not read makes it wait.
THEOREM NothingStopsTheBroadcaster == Spec => []BroadcasterLives
<1> DEFINE Alive == life = "up" => task.pc # "none"
<1>1. Init => Alive
  BY DEF Init
<1>2. IInv /\ Alive /\ [Next]_vars => Alive'
  BY TaskStaysStep DEF IInv
<1>3. ASSUME IInv, Alive
      PROVE  BroadcasterLives
  <2>1. task.pc = "send" => task.to \in Socket /\ link[task.to] # "new"
    BY <1>3 DEF IInv, TaskShape, Stream, Pending
  <2> QED
    BY <1>3, <2>1 DEF BroadcasterLives
<1> QED
  BY <1>1, <1>2, <1>3, Inductive, PTL DEF Spec

=============================================================================
