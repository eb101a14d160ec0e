--------------------------- MODULE DashboardProofs ---------------------------
(***************************************************************************)
(* Proofs about Dashboard, for any panels, polls, sockets and rides and    *)
(* any length of the log.                                                  *)
(***************************************************************************)
EXTENDS Dashboard, FiniteSetTheorems, TLAPS

USE DashboardAssumption

-----------------------------------------------------------------------------
\* The inductive invariant.

\* One socket and no timer, or one timer and no socket.
Single ==
    \/ timers = 1 /\ \A s \in Sock : sock[s] = "none"
    \/ timers = 0 /\ \E s \in Sock : sock[s] # "none" /\ \A t \in Sock : t # s => sock[t] = "none"

\* Event numbers rise along a sequence.
Rising(q) == \A i, j \in DOMAIN q : i < j => q[i].n < q[j].n

\* What is on its way to an open socket is newer than what was received; a
\* socket that is not open has nothing on its way.
Flow ==
    /\ \A s \in Sock : sock[s] # "open" => inbox[s] = <<>>
    /\ \A s \in Sock : Rising(inbox[s])
    /\ \A s \in Sock : \A i \in DOMAIN inbox[s] :
         /\ inbox[s][i].n <= sent
         /\ \A j \in DOMAIN received : received[j].n < inbox[s][i].n
    /\ Rising(received)
    /\ \A j \in DOMAIN received : received[j].n <= sent

\* The log is the end of what was received, position by position.
LogTail ==
    /\ Len(log) <= Len(received)
    /\ Len(log) = MaxLog \/ Len(log) = Len(received)
    /\ \A i \in 1..Len(log) : log[i] = received[Len(received) - Len(log) + i]

\* Labels are numbers up to the count of labelled rides, each given once.
Labels ==
    /\ \A r \in Ride : label[r] <= Cardinality(Labelled)
    /\ \A r, q \in Labelled : label[r] = label[q] => r = q
    /\ \A i \in DOMAIN received : received[i].ride \in Labelled

IInv == TypeOK /\ Single /\ Flow /\ LogTail /\ Labels

-----------------------------------------------------------------------------
\* Sequences.

\* A newer event at the end keeps the numbers rising.
LEMMA RisingAppend ==
  ASSUME NEW q \in Seq(Event), NEW e \in Event, Rising(q), \A i \in DOMAIN q : q[i].n < e.n
  PROVE  Rising(Append(q, e))
<1> DEFINE p == Append(q, e)
<1>1. /\ DOMAIN p = 1..(Len(q) + 1) /\ DOMAIN q = 1..Len(q) /\ Len(q) \in Nat
      /\ p[Len(q) + 1] = e /\ \A i \in 1..Len(q) : p[i] = q[i]
  OBVIOUS
<1> HIDE DEF p
<1>2. ASSUME NEW i \in DOMAIN p, NEW j \in DOMAIN p, i < j
      PROVE  p[i].n < p[j].n
  <2>1. i \in 1..Len(q) /\ p[i] = q[i]
    BY <1>1, <1>2
  <2>2. CASE j = Len(q) + 1
    BY <1>1, <2>1, <2>2
  <2>3. CASE j \in 1..Len(q)
    BY <1>1, <1>2, <2>1, <2>3 DEF Rising
  <2> QED
    BY <1>1, <2>2, <2>3
<1> QED
  BY <1>2 DEF Rising, p

\* What follows the first event is newer than it and still rises.
LEMMA RisingTail ==
  ASSUME NEW q \in Seq(Event), q # <<>>, Rising(q)
  PROVE  /\ Head(q) \in Event /\ Head(q) = q[1] /\ 1 \in DOMAIN q /\ Tail(q) \in Seq(Event)
         /\ Rising(Tail(q))
         /\ \A i \in DOMAIN Tail(q) :
              i + 1 \in DOMAIN q /\ Tail(q)[i] = q[i + 1] /\ Head(q).n < Tail(q)[i].n
<1>1. /\ Head(q) \in Event /\ Head(q) = q[1] /\ 1 \in DOMAIN q /\ Tail(q) \in Seq(Event)
      /\ DOMAIN q = 1..Len(q) /\ Len(q) \in Nat /\ DOMAIN Tail(q) = 1..(Len(q) - 1)
  OBVIOUS
<1>2. \A i \in DOMAIN Tail(q) : i + 1 \in DOMAIN q /\ Tail(q)[i] = q[i + 1] /\ 1 < i + 1
  OBVIOUS
<1>3. \A i \in DOMAIN Tail(q) : Head(q).n < Tail(q)[i].n
  <2>1. \A i \in DOMAIN Tail(q) : q[1].n < q[i + 1].n
    BY <1>1, <1>2 DEF Rising
  <2> QED
    BY <1>1, <1>2, <2>1
<1>4. Rising(Tail(q))
  <2> SUFFICES ASSUME NEW i \in DOMAIN Tail(q), NEW j \in DOMAIN Tail(q), i < j
               PROVE  Tail(q)[i].n < Tail(q)[j].n
    BY DEF Rising
  <2>1. i + 1 \in DOMAIN q /\ j + 1 \in DOMAIN q /\ i + 1 < j + 1
    BY <1>1, <1>2
  <2>2. q[i + 1].n < q[j + 1].n
    BY <2>1 DEF Rising
  <2> QED
    BY <1>2, <2>2
<1> QED
  BY <1>1, <1>2, <1>3, <1>4

\* The parts of an event.
LEMMA EventParts ==
  ASSUME NEW e \in Event
  PROVE  e.n \in 1..MaxEvents /\ e.ride \in Ride /\ e.labelled \in BOOLEAN
BY DEF Event

-----------------------------------------------------------------------------
\* The steps, by what they touch.

\* Polling touches the panels only.
LEMMA PollFrame ==
  ASSUME ServerChanges \/ \E p \in Panel, i \in Poll :
           StartPoll(p, i) \/ AnswerPoll(p, i) \/ Redraw(p, i) \/ PollFails(p, i)
  PROVE  UNCHANGED <<sock, timers, inbox, sent, log, label, received>>
BY DEF ServerChanges, StartPoll, AnswerPoll, Redraw, PollFails, socket, events

\* Every step keeps the types.
LEMMA TypeStep ==
  ASSUME TypeOK, Single, LogTail, [Next]_vars
  PROVE  TypeOK'
<1>0. /\ truth \in Version /\ poll \in [Panel -> [Poll -> Version \cup {Free, Asked}]]
      /\ shown \in [Panel -> Version \cup {Blank}]
      /\ tooltip \in [Driver -> Version \cup {Blank}] /\ born \in [Driver -> Version]
      /\ sock \in [Sock -> {"none", "connecting", "open", "closing"}]
      /\ timers \in Nat /\ inbox \in [Sock -> Seq(Event)] /\ sent \in 0..MaxEvents
      /\ log \in Seq(Event) /\ Len(log) <= MaxLog
      /\ label \in [Ride -> 0..Cardinality(Ride)] /\ received \in Seq(Event)
  BY DEF TypeOK
<1>1. CASE ServerChanges
  <2>1. truth' \in Version /\ UNCHANGED <<panels, socket, events>>
    BY <1>0, <1>1 DEF ServerChanges, Version
  <2> QED
    BY <1>0, <2>1 DEF TypeOK, panels, drawn, socket, events
<1>2. ASSUME NEW p \in Panel, NEW i \in Poll,
             StartPoll(p, i) \/ AnswerPoll(p, i) \/ Redraw(p, i) \/ PollFails(p, i)
      PROVE  TypeOK'
  <2>1. \E v \in Version \cup {Free, Asked} : poll' = [poll EXCEPT ![p][i] = v]
    BY <1>0, <1>2 DEF StartPoll, AnswerPoll, Redraw, PollFails, SetPoll
  <2>2. poll' \in [Panel -> [Poll -> Version \cup {Free, Asked}]]
    BY <1>0, <2>1
  <2>3. shown' \in [Panel -> Version \cup {Blank}] /\ UNCHANGED <<truth, born, socket, events>>
    BY <1>0, <1>2 DEF StartPoll, AnswerPoll, Redraw, PollFails, drawn
  <2>4. tooltip' \in [Driver -> Version \cup {Blank}]
    <3>1. \A v \in Version : Tooltips(v) \in [Driver -> Version \cup {Blank}]
      BY <1>0 DEF Tooltips
    <3>2. tooltip' = tooltip \/ \E v \in Version : tooltip' = Tooltips(v)
      BY <1>2 DEF StartPoll, AnswerPoll, Redraw, PollFails, drawn
    <3> QED
      BY <1>0, <3>1, <3>2
  <2> QED
    BY <1>0, <2>2, <2>3, <2>4 DEF TypeOK, socket, events
<1>3. ASSUME NEW s \in Sock, OnOpen(s) \/ OnError(s) \/ OnClose(s) \/ Connect(s)
      PROVE  TypeOK'
  <2>1. sock' \in [Sock -> {"none", "connecting", "open", "closing"}]
    BY <1>0, <1>3 DEF OnOpen, OnError, OnClose, Connect, SetSock
  <2>2. timers' \in Nat
    BY <1>0, <1>3 DEF OnOpen, OnError, OnClose, Connect
  <2>3. inbox' \in [Sock -> Seq(Event)]
    <3>1. <<>> \in Seq(Event)
      OBVIOUS
    <3>2. inbox' = inbox \/ inbox' = [inbox EXCEPT ![s] = <<>>]
      BY <1>3 DEF OnOpen, OnError, OnClose, Connect
    <3> QED
      BY <1>0, <3>1, <3>2
  <2>4. UNCHANGED <<truth, panels, events>>
    BY <1>3 DEF OnOpen, OnError, OnClose, Connect
  <2> QED
    BY <1>0, <2>1, <2>2, <2>3, <2>4 DEF TypeOK, panels, drawn, events
<1>4. ASSUME NEW r \in Ride, NEW b \in BOOLEAN, Broadcast(r, b)
      PROVE  TypeOK'
  <2> DEFINE e == [n |-> sent + 1, ride |-> r, labelled |-> b]
  <2>1. sent + 1 \in 1..MaxEvents /\ sent' = sent + 1
    BY <1>0, <1>4 DEF Broadcast
  <2>2. e \in Event
    BY <2>1 DEF Event
  <2>3. inbox' = [s \in Sock |-> IF sock[s] = "open" THEN Append(inbox[s], e) ELSE inbox[s]]
    BY <1>4 DEF Broadcast
  <2> HIDE DEF e
  <2>4. inbox' \in [Sock -> Seq(Event)]
    <3>1. \A s \in Sock : Append(inbox[s], e) \in Seq(Event) /\ inbox[s] \in Seq(Event)
      BY <1>0, <2>2
    <3> QED
      BY <2>3, <3>1
  <2>5. UNCHANGED <<truth, panels, sock, timers, log, label, received>>
    BY <1>4 DEF Broadcast
  <2> QED
    BY <1>0, <2>1, <2>4, <2>5 DEF TypeOK, panels, drawn
<1>5. ASSUME NEW s \in Sock, OnMessage(s)
      PROVE  TypeOK'
  <2> DEFINE e == Head(inbox[s])
  <2>1. inbox[s] \in Seq(Event) /\ inbox[s] # <<>>
    BY <1>0, <1>5 DEF OnMessage
  <2>2. e \in Event /\ Tail(inbox[s]) \in Seq(Event)
    BY <2>1
  <2>3. /\ inbox' = [inbox EXCEPT ![s] = Tail(@)]
        /\ UNCHANGED <<truth, panels, sock, timers, sent>>
        /\ \/ UNCHANGED <<label, log, received>>
           \/ label' = RideLabel(e.ride) /\ log' = Trim(Append(log, e)) /\ received' = Append(received, e)
    BY <1>5 DEF OnMessage
  <2> HIDE DEF e
  <2>4. inbox' \in [Sock -> Seq(Event)]
    BY <1>0, <2>2, <2>3
  <2>5. Append(received, e) \in Seq(Event)
    BY <1>0, <2>2
  <2>6. Trim(Append(log, e)) \in Seq(Event) /\ Len(Trim(Append(log, e))) <= MaxLog
    <3>1. Append(log, e) \in Seq(Event) /\ Len(Append(log, e)) = Len(log) + 1 /\ Len(log) \in Nat
      BY <1>0, <2>2
    <3>2. Append(log, e) # <<>> => /\ Tail(Append(log, e)) \in Seq(Event)
                                   /\ Len(Tail(Append(log, e))) = Len(Append(log, e)) - 1
      BY <3>1
    <3>3. Append(log, e) # <<>>
      BY <3>1
    <3> QED
      BY <1>0, <3>1, <3>2, <3>3 DEF Trim
  <2>7. RideLabel(e.ride) \in [Ride -> 0..Cardinality(Ride)]
    <3>0. e.ride \in Ride
      BY <2>2, EventParts
    <3>1. CASE label[e.ride] # 0
      BY <1>0, <3>1 DEF RideLabel
    <3>2. CASE label[e.ride] = 0
      <4>1. Labelled \in SUBSET Ride /\ e.ride \notin Labelled
        BY <3>2 DEF Labelled
      <4>2. IsFiniteSet(Labelled) /\ Cardinality(Labelled) <= Cardinality(Ride)
            /\ (Cardinality(Ride) = Cardinality(Labelled) => Ride = Labelled)
        BY <4>1, FS_Subset
      <4>3. Cardinality(Labelled) \in Nat /\ Cardinality(Ride) \in Nat
        BY <4>2, FS_CardinalityType
      <4>4. Cardinality(Labelled) # Cardinality(Ride)
        BY <3>0, <4>1, <4>2
      <4>5. Cardinality(Labelled) + 1 \in 0..Cardinality(Ride)
        BY <4>2, <4>3, <4>4
      <4> QED
        BY <1>0, <3>0, <3>2, <4>5 DEF RideLabel
    <3> QED
      BY <3>1, <3>2
  <2> QED
    BY <1>0, <2>3, <2>4, <2>5, <2>6, <2>7 DEF TypeOK, panels, drawn
<1>6. CASE UNCHANGED vars
  BY <1>6 DEF vars, TypeOK, panels, drawn, socket, events
<1> QED
  BY <1>1, <1>2, <1>3, <1>4, <1>5, <1>6 DEF Next

\* Every step keeps one socket or one timer.
LEMMA SingleStep ==
  ASSUME TypeOK, Single, [Next]_vars
  PROVE  Single'
<1>0. sock \in [Sock -> {"none", "connecting", "open", "closing"}] /\ timers \in Nat
  BY DEF TypeOK
<1>1. CASE UNCHANGED <<sock, timers>>
  BY <1>1 DEF Single
<1>2. ASSUME NEW s \in Sock, OnOpen(s) \/ OnError(s)
      PROVE  Single'
  <2>1. /\ timers' = timers /\ sock[s] # "none" /\ sock'[s] # "none"
        /\ \A t \in Sock : t # s => sock'[t] = sock[t]
    BY <1>0, <1>2 DEF OnOpen, OnError, SetSock
  <2> QED
    BY <2>1 DEF Single
<1>3. ASSUME NEW s \in Sock, OnClose(s)
      PROVE  Single'
  <2>1. /\ timers' = timers + 1 /\ sock[s] # "none" /\ sock'[s] = "none"
        /\ \A t \in Sock : t # s => sock'[t] = sock[t]
    BY <1>0, <1>3 DEF OnClose, SetSock
  <2> QED
    BY <1>0, <2>1 DEF Single
<1>4. ASSUME NEW s \in Sock, Connect(s)
      PROVE  Single'
  <2>1. /\ timers > 0 /\ timers' = timers - 1 /\ sock[s] = "none" /\ sock'[s] # "none"
        /\ \A t \in Sock : t # s => sock'[t] = sock[t]
    BY <1>0, <1>4 DEF Connect, SetSock
  <2> QED
    BY <1>0, <2>1 DEF Single
<1>5. ASSUME NEW s \in Sock, OnMessage(s)
      PROVE  UNCHANGED <<sock, timers>>
  BY <1>5 DEF OnMessage
<1>6. ASSUME NEW r \in Ride, NEW b \in BOOLEAN, Broadcast(r, b)
      PROVE  UNCHANGED <<sock, timers>>
  BY <1>6 DEF Broadcast
<1>7. CASE UNCHANGED vars
  BY <1>1, <1>7 DEF vars, socket
<1> QED
  BY <1>1, <1>2, <1>3, <1>4, <1>5, <1>6, <1>7, PollFrame DEF Next

\* A message is taken from the front of the one open socket's inbox; it is
\* logged and received, or has no entry in EVENT_LABELS.
LEMMA MessageParts ==
  ASSUME TypeOK, Single, NEW s \in Sock, OnMessage(s)
  PROVE  /\ inbox[s] \in Seq(Event) /\ inbox[s] # <<>> /\ Head(inbox[s]) \in Event
         /\ inbox'[s] = Tail(inbox[s])
         /\ \A t \in Sock : t # s => sock[t] = "none" /\ inbox'[t] = inbox[t]
         /\ sock[s] = "open" /\ UNCHANGED <<sock, timers, sent>>
         /\ \/ UNCHANGED <<label, log, received>>
            \/ /\ label' = RideLabel(Head(inbox[s]).ride)
               /\ log' = Trim(Append(log, Head(inbox[s])))
               /\ received' = Append(received, Head(inbox[s]))
<1>1. inbox \in [Sock -> Seq(Event)]
  BY DEF TypeOK
<1>2. inbox[s] \in Seq(Event) /\ inbox[s] # <<>> /\ sock[s] = "open"
  BY <1>1 DEF OnMessage
<1>3. Head(inbox[s]) \in Event
  BY <1>2
<1>4. inbox' = [inbox EXCEPT ![s] = Tail(@)]
  BY DEF OnMessage
<1>5. inbox'[s] = Tail(inbox[s]) /\ \A t \in Sock : t # s => inbox'[t] = inbox[t]
  BY <1>1, <1>4
<1>6. \A t \in Sock : t # s => sock[t] = "none"
  BY <1>2 DEF Single
<1>7. /\ UNCHANGED <<sock, timers, sent>>
      /\ \/ UNCHANGED <<label, log, received>>
         \/ /\ label' = RideLabel(Head(inbox[s]).ride)
            /\ log' = Trim(Append(log, Head(inbox[s])))
            /\ received' = Append(received, Head(inbox[s]))
  BY DEF OnMessage
<1> QED
  BY <1>2, <1>3, <1>5, <1>6, <1>7

\* What is in a sequence after Append.
LEMMA Appended ==
  ASSUME NEW q \in Seq(Event), NEW e \in Event
  PROVE  /\ Append(q, e) \in Seq(Event) /\ Len(Append(q, e)) = Len(q) + 1
         /\ Append(q, e)[Len(q) + 1] = e
         /\ \A i \in 1..Len(q) : Append(q, e)[i] = q[i]
         /\ \A i \in DOMAIN Append(q, e) : i = Len(q) + 1 \/ i \in DOMAIN q
OBVIOUS

\* Every step keeps the stream's order over errors, closes and reconnects.
LEMMA FlowStep ==
  ASSUME TypeOK, Single, Flow, [Next]_vars
  PROVE  Flow'
<1>0. /\ sock \in [Sock -> {"none", "connecting", "open", "closing"}]
      /\ inbox \in [Sock -> Seq(Event)] /\ sent \in Nat /\ received \in Seq(Event)
  BY DEF TypeOK
<1>1. CASE UNCHANGED <<sock, inbox, sent, received>>
  BY <1>1 DEF Flow
<1>2. ASSUME NEW s \in Sock, OnOpen(s) \/ Connect(s)
      PROVE  Flow'
  <2>1. /\ UNCHANGED <<inbox, sent, received>> /\ sock[s] # "open"
        /\ \A t \in Sock : t # s => sock'[t] = sock[t]
    BY <1>0, <1>2 DEF OnOpen, Connect, SetSock, events
  <2>2. inbox[s] = <<>>
    BY <2>1 DEF Flow
  <2> QED
    BY <2>1, <2>2 DEF Flow
<1>3. ASSUME NEW s \in Sock, OnError(s) \/ OnClose(s)
      PROVE  Flow'
  <2>1. /\ UNCHANGED <<sent, received>> /\ inbox'[s] = <<>>
        /\ \A t \in Sock : t # s => sock'[t] = sock[t] /\ inbox'[t] = inbox[t]
    BY <1>0, <1>3 DEF OnError, OnClose, SetSock, events
  <2>2. DOMAIN inbox'[s] = {}
    BY <2>1
  <2>3. \A t \in Sock : \/ t = s
                        \/ sock'[t] = sock[t] /\ inbox'[t] = inbox[t]
    BY <2>1
  <2>4. Rising(inbox'[s])
    BY <2>2 DEF Rising
  <2> QED
    BY <2>1, <2>2, <2>3, <2>4 DEF Flow
<1>4. ASSUME NEW r \in Ride, NEW b \in BOOLEAN, Broadcast(r, b)
      PROVE  Flow'
  <2> DEFINE e == [n |-> sent + 1, ride |-> r, labelled |-> b]
  <2>1. /\ sent' = sent + 1 /\ UNCHANGED <<sock, received>> /\ sent < MaxEvents
        /\ inbox' = [s \in Sock |-> IF sock[s] = "open" THEN Append(inbox[s], e) ELSE inbox[s]]
    BY <1>4 DEF Broadcast
  <2>2. e \in Event /\ e.n = sent + 1
    BY <1>0, <2>1 DEF Event
  <2> HIDE DEF e
  <2>3. \A j \in DOMAIN received : received[j].n <= sent /\ received[j].n \in Nat
    <3>1. \A j \in DOMAIN received : received[j] \in Event
      BY <1>0
    <3> QED
      BY <3>1, EventParts DEF Flow
  <2>4. ASSUME NEW s \in Sock
        PROVE  /\ sock'[s] # "open" => inbox'[s] = <<>>
               /\ Rising(inbox'[s])
               /\ \A i \in DOMAIN inbox'[s] :
                    /\ inbox'[s][i].n <= sent'
                    /\ \A j \in DOMAIN received : received[j].n < inbox'[s][i].n
    <3>0. inbox[s] \in Seq(Event) /\ \A i \in DOMAIN inbox[s] : inbox[s][i] \in Event
      BY <1>0
    <3>a. \A i \in DOMAIN inbox[s] : inbox[s][i].n \in Nat
      BY <3>0, EventParts
    <3>b. /\ Rising(inbox[s])
          /\ sock[s] # "open" => inbox[s] = <<>>
          /\ \A i \in DOMAIN inbox[s] :
               /\ inbox[s][i].n <= sent
               /\ \A j \in DOMAIN received : received[j].n < inbox[s][i].n
      BY DEF Flow
    <3>1. CASE sock[s] # "open"
      <4>1. inbox'[s] = inbox[s] /\ inbox[s] = <<>>
        BY <2>1, <3>1, <3>b
      <4> QED
        BY <3>b, <4>1
    <3>2. CASE sock[s] = "open"
      <4>1. inbox'[s] = Append(inbox[s], e)
        BY <2>1, <3>2
      <4>2. \A i \in DOMAIN inbox[s] : inbox[s][i].n < e.n
        BY <1>0, <2>2, <3>a, <3>b
      <4>3. Rising(Append(inbox[s], e))
        BY <2>2, <3>0, <3>b, <4>2, RisingAppend
      <4>4. \A i \in DOMAIN Append(inbox[s], e) :
              Append(inbox[s], e)[i] = e \/ (i \in DOMAIN inbox[s] /\ Append(inbox[s], e)[i] = inbox[s][i])
        BY <2>2, <3>0, Appended
      <4>5. ASSUME NEW i \in DOMAIN Append(inbox[s], e)
            PROVE  /\ Append(inbox[s], e)[i].n <= sent'
                   /\ \A j \in DOMAIN received : received[j].n < Append(inbox[s], e)[i].n
        <5>1. CASE Append(inbox[s], e)[i] = e
          BY <1>0, <2>1, <2>2, <2>3, <5>1
        <5>2. CASE i \in DOMAIN inbox[s] /\ Append(inbox[s], e)[i] = inbox[s][i]
          BY <1>0, <2>1, <3>a, <3>b, <5>2
        <5> QED
          BY <4>4, <5>1, <5>2
      <4> QED
        BY <2>1, <3>2, <4>1, <4>3, <4>5
    <3> QED
      BY <3>1, <3>2
  <2>5. \A j \in DOMAIN received : received[j].n <= sent'
    BY <1>0, <2>1, <2>3
  <2> QED
    BY <2>1, <2>4, <2>5 DEF Flow
<1>5. ASSUME NEW s \in Sock, OnMessage(s)
      PROVE  Flow'
  <2> DEFINE e == Head(inbox[s])
  <2>1. /\ inbox[s] \in Seq(Event) /\ inbox[s] # <<>> /\ e \in Event
        /\ inbox'[s] = Tail(inbox[s])
        /\ \A t \in Sock : t # s => sock[t] = "none" /\ inbox'[t] = inbox[t]
        /\ sock[s] = "open" /\ UNCHANGED <<sock, sent>>
        /\ received' = received \/ received' = Append(received, e)
    BY <1>5, MessageParts
  <2>2. /\ Rising(inbox[s])
        /\ \A i \in DOMAIN inbox[s] :
             /\ inbox[s][i].n <= sent
             /\ \A j \in DOMAIN received : received[j].n < inbox[s][i].n
        /\ Rising(received) /\ \A j \in DOMAIN received : received[j].n <= sent
    BY DEF Flow
  <2>3. /\ e = inbox[s][1] /\ 1 \in DOMAIN inbox[s] /\ Rising(Tail(inbox[s]))
        /\ \A i \in DOMAIN Tail(inbox[s]) :
             i + 1 \in DOMAIN inbox[s] /\ Tail(inbox[s])[i] = inbox[s][i + 1] /\ e.n < Tail(inbox[s])[i].n
    BY <2>1, <2>2, RisingTail
  <2> HIDE DEF e
  <2>4. e.n <= sent /\ \A j \in DOMAIN received : received[j].n < e.n
    BY <2>2, <2>3
  <2>5. \A j \in DOMAIN received' : received'[j] = e \/ (j \in DOMAIN received /\ received'[j] = received[j])
    <3>1. \A j \in DOMAIN Append(received, e) :
            Append(received, e)[j] = e \/ (j \in DOMAIN received /\ Append(received, e)[j] = received[j])
      BY <1>0, <2>1, Appended
    <3> QED
      BY <2>1, <3>1
  <2>6. Rising(received') /\ \A j \in DOMAIN received' : received'[j].n <= sent
    <3>1. Rising(Append(received, e))
      BY <1>0, <2>1, <2>2, <2>4, RisingAppend
    <3>2. \A j \in DOMAIN received' : received'[j].n <= sent
      BY <2>2, <2>4, <2>5
    <3> QED
      BY <2>1, <2>2, <3>1, <3>2
  <2>7. ASSUME NEW i \in DOMAIN Tail(inbox[s])
        PROVE  /\ Tail(inbox[s])[i].n <= sent
               /\ \A j \in DOMAIN received' : received'[j].n < Tail(inbox[s])[i].n
    <3>1. i + 1 \in DOMAIN inbox[s] /\ Tail(inbox[s])[i] = inbox[s][i + 1] /\ e.n < Tail(inbox[s])[i].n
      BY <2>3
    <3> QED
      BY <2>2, <2>5, <3>1
  <2>8. \A t \in Sock : t # s => sock[t] # "open" /\ inbox'[t] = <<>> /\ DOMAIN inbox'[t] = {}
    <3>1. \A t \in Sock : t # s => sock[t] # "open" /\ inbox'[t] = <<>>
      BY <2>1 DEF Flow
    <3>2. DOMAIN <<>> = {}
      OBVIOUS
    <3> QED
      BY <3>1, <3>2
  <2>9. ASSUME NEW t \in Sock
        PROVE  /\ sock'[t] # "open" => inbox'[t] = <<>>
               /\ Rising(inbox'[t])
               /\ \A i \in DOMAIN inbox'[t] :
                    /\ inbox'[t][i].n <= sent'
                    /\ \A j \in DOMAIN received' : received'[j].n < inbox'[t][i].n
    <3>1. CASE t = s
      BY <2>1, <2>3, <2>7, <3>1
    <3>2. CASE t # s
      BY <2>8, <3>2 DEF Rising
    <3> QED
      BY <3>1, <3>2
  <2> QED
    BY <2>1, <2>6, <2>9 DEF Flow
<1>6. CASE UNCHANGED vars
  BY <1>1, <1>6 DEF vars, socket, events
<1> QED
  BY <1>1, <1>2, <1>3, <1>4, <1>5, <1>6, PollFrame DEF Next

\* Only a message changes the log, the labels or what was received.
LEMMA LogFrame ==
  ASSUME [Next]_vars, ~ \E s \in Sock : OnMessage(s)
  PROVE  UNCHANGED <<log, label, received>>
<1>1. ASSUME NEW s \in Sock, OnOpen(s) \/ OnError(s) \/ OnClose(s) \/ Connect(s)
      PROVE  UNCHANGED <<log, label, received>>
  BY <1>1 DEF OnOpen, OnError, OnClose, Connect, events
<1>2. ASSUME NEW r \in Ride, NEW b \in BOOLEAN, Broadcast(r, b)
      PROVE  UNCHANGED <<log, label, received>>
  BY <1>2 DEF Broadcast
<1>3. CASE UNCHANGED vars
  BY <1>3 DEF vars, events
<1> QED
  BY <1>1, <1>2, <1>3, PollFrame DEF Next

\* Every step keeps the log the end of what was received.
LEMMA LogTailStep ==
  ASSUME TypeOK, Single, LogTail, [Next]_vars
  PROVE  LogTail'
<1>0. log \in Seq(Event) /\ received \in Seq(Event) /\ Len(log) <= MaxLog
      /\ Len(log) \in Nat /\ Len(received) \in Nat
  BY DEF TypeOK
<1>1. CASE UNCHANGED <<log, received>>
  BY <1>1 DEF LogTail
<1>2. ASSUME NEW e \in Event, log' = Trim(Append(log, e)), received' = Append(received, e)
      PROVE  LogTail'
  <2> DEFINE l == Append(log, e)
             m == Len(log)
             k == Len(received)
  <2>1. /\ l \in Seq(Event) /\ Len(l) = m + 1 /\ l[m + 1] = e /\ \A i \in 1..m : l[i] = log[i]
    BY <1>0
  <2>2. /\ Len(received') = k + 1 /\ received'[k + 1] = e /\ \A i \in 1..k : received'[i] = received[i]
    BY <1>0, <1>2
  <2>3. m <= k /\ (m = MaxLog \/ m = k) /\ \A i \in 1..m : log[i] = received[k - m + i]
    BY DEF LogTail
  <2>4. \A i \in 1..(m + 1) : l[i] = received'[(k + 1) - (m + 1) + i]
    <3> SUFFICES ASSUME NEW i \in 1..(m + 1)
                 PROVE  l[i] = received'[(k + 1) - (m + 1) + i]
      OBVIOUS
    <3>0. m \in Nat /\ k \in Nat
      BY <1>0
    <3> HIDE DEF l, m, k
    <3>1. CASE i = m + 1
      <4>1. (k + 1) - (m + 1) + i = k + 1
        BY <3>0, <3>1
      <4> QED
        BY <2>1, <2>2, <3>1, <4>1
    <3>2. CASE i \in 1..m
      <4>1. (k + 1) - (m + 1) + i = k - m + i /\ k - m + i \in 1..k
        BY <2>3, <3>0, <3>2
      <4> QED
        BY <2>1, <2>2, <2>3, <3>2, <4>1
    <3> QED
      BY <3>0, <3>1, <3>2
  <2>5. CASE ~(Len(l) > MaxLog)
    <3>1. log' = l /\ m # MaxLog
      BY <1>0, <1>2, <2>1, <2>5 DEF Trim
    <3>2. Len(log') = m + 1 /\ m = k
      BY <2>1, <2>3, <3>1
    <3>3. \A i \in 1..Len(log') : log'[i] = received'[Len(received') - Len(log') + i]
      BY <2>2, <2>4, <3>1, <3>2
    <3> HIDE DEF l, m, k
    <3>4. Len(log') = Len(received')
      BY <2>2, <3>2
    <3>5. Len(log') <= Len(received')
      BY <1>0, <2>2, <3>2, <3>4 DEF k
    <3> QED
      BY <3>3, <3>4, <3>5 DEF LogTail
  <2>6. CASE Len(l) > MaxLog
    <3>1. log' = Tail(l) /\ m = MaxLog
      BY <1>0, <1>2, <2>1, <2>6 DEF Trim
    <3>2. Len(log') = m /\ \A i \in 1..m : log'[i] = l[i + 1]
      <4>1. l # <<>>
        BY <1>0, <2>1
      <4>2. Len(Tail(l)) = Len(l) - 1 /\ \A i \in 1..(Len(l) - 1) : Tail(l)[i] = l[i + 1]
        BY <2>1, <4>1
      <4>3. Len(l) - 1 = m
        BY <1>0, <2>1
      <4> QED
        BY <3>1, <4>2, <4>3
    <3>3. ASSUME NEW i \in 1..m
          PROVE  log'[i] = received'[(k + 1) - m + i]
      <4>0. m \in Nat /\ k \in Nat
        BY <1>0
      <4> HIDE DEF l, m, k
      <4>1. i + 1 \in 1..(m + 1) /\ (k + 1) - (m + 1) + (i + 1) = (k + 1) - m + i
        BY <4>0
      <4>2. l[i + 1] = received'[(k + 1) - (m + 1) + (i + 1)]
        BY <2>4, <4>1
      <4> QED
        BY <3>2, <4>1, <4>2
    <3>4. Len(log') <= Len(received')
      BY <1>0, <2>2, <2>3, <3>2
    <3>5. \A i \in 1..Len(log') : log'[i] = received'[Len(received') - Len(log') + i]
      <4>1. Len(log') = m /\ Len(received') = k + 1
        BY <2>2, <3>2
      <4> QED
        BY <3>3, <4>1
    <3> QED
      BY <3>1, <3>2, <3>4, <3>5 DEF LogTail
  <2> QED
    BY <2>5, <2>6
<1>3. ASSUME NEW s \in Sock, OnMessage(s)
      PROVE  LogTail'
  <2>1. /\ Head(inbox[s]) \in Event
        /\ \/ UNCHANGED <<log, received>>
           \/ /\ log' = Trim(Append(log, Head(inbox[s])))
              /\ received' = Append(received, Head(inbox[s]))
    BY <1>3, MessageParts
  <2> QED
    BY <1>1, <1>2, <2>1
<1> QED
  BY <1>1, <1>3, LogFrame

\* A label is given once: it is the next number, and no other changes.
LEMMA NewLabel ==
  ASSUME TypeOK, Labels, NEW r \in Ride, label' = RideLabel(r)
  PROVE  /\ \A q \in Labelled : label'[q] = label[q]
         /\ Labelled' = Labelled \cup {r}
         /\ \A q \in Ride : label'[q] <= Cardinality(Labelled')
         /\ \A p, q \in Labelled' : label'[p] = label'[q] => p = q
<1>0. label \in [Ride -> 0..Cardinality(Ride)] /\ Labelled \in SUBSET Ride
  BY DEF TypeOK, Labelled
<1>1. IsFiniteSet(Labelled) /\ IsFiniteSet(Ride)
  BY <1>0, FS_Subset
<1>2. Cardinality(Labelled) \in Nat /\ Cardinality(Ride) \in Nat
  BY <1>1, FS_CardinalityType
<1>3. \A q \in Ride : label[q] \in Nat
  BY <1>0, <1>2
<1>4. CASE label[r] # 0
  <2>1. label' = label /\ r \in Labelled
    BY <1>4 DEF RideLabel, Labelled
  <2>2. Labelled' = Labelled
    BY <2>1 DEF Labelled
  <2> QED
    BY <2>1, <2>2 DEF Labels
<1>5. CASE label[r] = 0
  <2> DEFINE c == Cardinality(Labelled)
  <2>1. label' = [label EXCEPT ![r] = c + 1] /\ r \notin Labelled
    BY <1>5 DEF RideLabel, Labelled
  <2>2. label'[r] = c + 1 /\ \A q \in Ride : q # r => label'[q] = label[q]
    BY <1>0, <2>1
  <2>3. \A q \in Ride : q \in Labelled' <=> label'[q] # 0
    BY DEF Labelled
  <2>4. Labelled' \subseteq Ride
    BY DEF Labelled
  <2>5. Labelled' = Labelled \cup {r}
    <3>1. \A q \in Ride : q \in Labelled <=> label[q] # 0
      BY DEF Labelled
    <3>2. c + 1 # 0
      BY <1>2
    <3> QED
      BY <1>0, <2>2, <2>3, <2>4, <3>1, <3>2
  <2>6. Cardinality(Labelled') = c + 1
    <3>1. Cardinality(Labelled \cup {r}) = IF r \in Labelled THEN Cardinality(Labelled) ELSE Cardinality(Labelled) + 1
      BY <1>1, FS_AddElement
    <3> QED
      BY <2>1, <2>5, <3>1
  <2>7. \A q \in Ride : label[q] <= c
    BY DEF Labels
  <2> HIDE DEF c
  <2>8. c \in Nat
    BY <1>2 DEF c
  <2>9. \A q \in Ride : label'[q] <= Cardinality(Labelled')
    BY <1>3, <2>2, <2>6, <2>7, <2>8
  <2>10. \A q \in Labelled : q # r /\ q \in Ride /\ label'[q] = label[q] /\ label[q] # c + 1
    BY <1>0, <1>3, <2>1, <2>2, <2>7, <2>8
  <2>11. \A p, q \in Labelled' : label'[p] = label'[q] => p = q
    BY <2>2, <2>5, <2>10 DEF Labels
  <2> QED
    BY <2>5, <2>9, <2>10, <2>11
<1> QED
  BY <1>4, <1>5

\* What a step may do to the labels.
LabelStep ==
    /\ \A r \in Labelled : label'[r] = label[r]
    /\ \A r, q \in Labelled' : label'[r] = label'[q] => r = q
    /\ \A i \in DOMAIN received' : received'[i].ride \in Labelled'

\* Every step keeps the labels distinct and complete.
LEMMA LabelsStep ==
  ASSUME TypeOK, Single, Labels, [Next]_vars
  PROVE  Labels' /\ LabelStep
<1>0. received \in Seq(Event)
  BY DEF TypeOK
<1>1. CASE UNCHANGED <<label, received>>
  <2>1. Labelled' = Labelled
    BY <1>1 DEF Labelled
  <2> QED
    BY <1>1, <2>1 DEF Labels, LabelStep
<1>2. ASSUME NEW e \in Event, label' = RideLabel(e.ride), received' = Append(received, e)
      PROVE  Labels' /\ LabelStep
  <2>1. e.ride \in Ride
    BY EventParts
  <2>2. /\ \A q \in Labelled : label'[q] = label[q]
        /\ Labelled' = Labelled \cup {e.ride}
        /\ \A q \in Ride : label'[q] <= Cardinality(Labelled')
        /\ \A p, q \in Labelled' : label'[p] = label'[q] => p = q
    BY <1>2, <2>1, NewLabel
  <2>3. \A i \in DOMAIN Append(received, e) :
          Append(received, e)[i] = e \/ (i \in DOMAIN received /\ Append(received, e)[i] = received[i])
    BY <1>0, Appended
  <2>4. \A i \in DOMAIN received : received[i].ride \in Labelled
    BY DEF Labels
  <2>5. \A i \in DOMAIN received' : received'[i].ride \in Labelled'
    BY <1>2, <2>2, <2>3, <2>4
  <2> QED
    BY <2>2, <2>5 DEF Labels, LabelStep
<1>3. ASSUME NEW s \in Sock, OnMessage(s)
      PROVE  Labels' /\ LabelStep
  <2>1. /\ Head(inbox[s]) \in Event
        /\ \/ UNCHANGED <<label, received>>
           \/ /\ label' = RideLabel(Head(inbox[s]).ride)
              /\ received' = Append(received, Head(inbox[s]))
    BY <1>3, MessageParts
  <2> QED
    BY <1>1, <1>2, <2>1
<1> QED
  BY <1>1, <1>3, LogFrame

-----------------------------------------------------------------------------
\* The theorems.

\* The invariant holds initially and every step keeps it.
LEMMA Inductive ==
  /\ Init => IInv
  /\ IInv /\ [Next]_vars => IInv'
<1>1. ASSUME Init
      PROVE  IInv
  <2>0. Cardinality(Ride) \in Nat
    BY FS_CardinalityType
  <2>1. TypeOK
    <3>1. poll \in [Panel -> [Poll -> Version \cup {Free, Asked}]]
      BY <1>1 DEF Init
    <3>2. log \in Seq(Event) /\ received \in Seq(Event) /\ Len(log) <= MaxLog
          /\ inbox \in [Sock -> Seq(Event)]
      BY <1>1 DEF Init
    <3>3. sock \in [Sock -> {"none", "connecting", "open", "closing"}]
      BY <1>1 DEF Init
    <3> QED
      BY <1>1, <2>0, <3>1, <3>2, <3>3 DEF Init, TypeOK, Version
  <2>2. Single
    BY <1>1 DEF Init, Single
  <2>3. Flow /\ LogTail
    <3>1. log = <<>> /\ received = <<>> /\ \A s \in Sock : inbox[s] = <<>>
      BY <1>1 DEF Init
    <3>2. DOMAIN <<>> = {} /\ Len(<<>>) = 0 /\ 1..0 = {}
      OBVIOUS
    <3> QED
      BY <3>1, <3>2 DEF Flow, LogTail, Rising
  <2>4. Labels
    <3>1. Labelled = {} /\ received = <<>> /\ \A r \in Ride : label[r] = 0
      BY <1>1 DEF Init, Labelled
    <3>2. Cardinality({}) = 0 /\ DOMAIN <<>> = {}
      BY FS_EmptySet
    <3> QED
      BY <3>1, <3>2 DEF Labels
  <2> QED
    BY <2>1, <2>2, <2>3, <2>4 DEF IInv
<1>2. ASSUME IInv, [Next]_vars
      PROVE  IInv'
  BY <1>2, TypeStep, SingleStep, FlowStep, LogTailStep, LabelsStep DEF IInv
<1> QED
  BY <1>1, <1>2

\* Whatever the server, the network and the timers do, the log never grows
\* past MAX_LOG_ENTRIES and no panel shows an answer that was never given.
THEOREM DashboardIsTyped == Spec => []TypeOK
<1>1. IInv => TypeOK
  BY DEF IInv
<1> QED
  BY Inductive, <1>1, PTL DEF Spec

\* However errors, closes and timers come, connectWebSocket leaves the page
\* with one socket or one timer that will make one.
THEOREM OneStream == Spec => []OneConnection
<1>1. IInv => OneConnection
  <2> SUFFICES ASSUME IInv
               PROVE  Cardinality({s \in Sock : sock[s] # "none"}) + timers = 1
    BY DEF OneConnection
  <2>1. CASE timers = 1 /\ \A s \in Sock : sock[s] = "none"
    <3>1. {s \in Sock : sock[s] # "none"} = {}
      BY <2>1
    <3>2. Cardinality({}) = 0
      BY FS_EmptySet
    <3> QED
      BY <2>1, <3>1, <3>2
  <2>2. ASSUME timers = 0, NEW s \in Sock, sock[s] # "none", \A t \in Sock : t # s => sock[t] = "none"
        PROVE  Cardinality({t \in Sock : sock[t] # "none"}) + timers = 1
    <3>1. {t \in Sock : sock[t] # "none"} = {s}
      BY <2>2
    <3>2. Cardinality({s}) = 1
      BY FS_Singleton
    <3> QED
      BY <2>2, <3>1, <3>2
  <2> QED
    BY <2>1, <2>2 DEF IInv, Single
<1> QED
  BY Inductive, <1>1, PTL DEF Spec

\* The log is the newest of the events received, in the order they happened,
\* over any number of reconnects and for any MAX_LOG_ENTRIES.
THEOREM LogShowsTheNewest == Spec => []LogIsNewest
<1>1. ASSUME IInv
      PROVE  LogIsNewest
  <2> DEFINE m == Len(log)
             k == Len(received)
  <2>0. log \in Seq(Event) /\ received \in Seq(Event) /\ m \in Nat /\ k \in Nat
    BY <1>1 DEF IInv, TypeOK
  <2>1. m <= k /\ (m = MaxLog \/ m = k) /\ \A i \in 1..m : log[i] = received[k - m + i]
    BY <1>1 DEF IInv, LogTail
  <2> HIDE DEF m, k
  <2>2. log = SubSeq(received, k - m + 1, k)
    <3> DEFINE t == SubSeq(received, k - m + 1, k)
    <3>1. k - m + 1 \in 1..(k + 1) /\ k \in 0..k /\ k - (k - m + 1) + 1 = m
      BY <2>0, <2>1
    <3>2. t \in Seq(Event) /\ Len(t) = m
      BY <2>0, <3>1 DEF k
    <3>3. \A i \in 1..m : t[i] = received[k - m + i]
      <4> SUFFICES ASSUME NEW i \in 1..m
                   PROVE  t[i] = received[k - m + i]
        OBVIOUS
      <4>1. t[i] = received[(k - m + 1) + i - 1] /\ (k - m + 1) + i - 1 = k - m + i
        BY <2>0, <3>1 DEF k
      <4> QED
        BY <4>1
    <3> HIDE DEF t
    <3>4. Len(log) = m
      BY DEF m
    <3>5. log = t
      BY <2>0, <2>1, <3>2, <3>3, <3>4
    <3> QED
      BY <3>5 DEF t
  <2>3. m = k => log = received
    <3> SUFFICES ASSUME m = k
                 PROVE  log = received
      OBVIOUS
    <3>1. \A i \in 1..m : log[i] = received[i]
      BY <2>0, <2>1
    <3> QED
      BY <2>0, <3>1 DEF m, k
  <2>4. \A i \in 1..(k - 1) : received[i].n < received[i + 1].n
    <3>1. \A i \in 1..(k - 1) : i \in DOMAIN received /\ i + 1 \in DOMAIN received /\ i < i + 1
      BY <2>0 DEF k
    <3> QED
      BY <1>1, <3>1 DEF IInv, Flow, Rising
  <2> QED
    BY <2>1, <2>2, <2>3, <2>4 DEF LogIsNewest, m, k
<1> QED
  BY Inductive, <1>1, PTL DEF Spec

\* rideLabel gives every ride it sees a label of its own and never changes it,
\* also for rides whose lines the log has dropped.
THEOREM LabelsAreStable == Spec => LabelsIdentify
<1>1. IInv /\ [Next]_vars => [LabelStep]_vars
  BY LabelsStep DEF IInv
<1> QED
  BY Inductive, <1>1, PTL DEF Spec, LabelsIdentify, LabelStep

-----------------------------------------------------------------------------
\* Stale panels.

\* Answers in flight that no longer say what the server would.
Stale(p) == {i \in Poll : poll[p][i] \in Version /\ poll[p][i] # truth}

\* While the server's state rests, no new stale answer comes up, and a panel
\* that is up to date falls back only by drawing one of those left, which is
\* then gone.
FallBack ==
    truth' = truth =>
        \A p \in Panel :
            /\ Stale(p)' \subseteq Stale(p)
            /\ shown[p] = truth /\ shown'[p] # truth =>
                 \E i \in Stale(p) : shown'[p] = poll[p][i] /\ i \notin Stale(p)'

\* Nothing that is shown or on its way is ahead of the server.
NotAhead ==
    \A p \in Panel :
        /\ shown[p] # Blank => shown[p] <= truth
        /\ \A i \in Poll : poll[p][i] \in Version => poll[p][i] <= truth

\* The map has a marker for exactly the drivers of the answer it was redrawn
\* from.  A marker's tooltip is of some moment of its driver's life that the
\* server has passed, and that may be older or newer than that answer.
Markers ==
    \A d \in Driver :
        /\ tooltip[d] # Blank <=> shown[Map] # Blank /\ born[d] <= shown[Map]
        /\ tooltip[d] # Blank => born[d] <= tooltip[d] /\ tooltip[d] <= truth

\* The steps that touch a panel's polls touch one of them.
LEMMA PollMoves ==
  ASSUME TypeOK, NEW p \in Panel, NEW i \in Poll,
         StartPoll(p, i) \/ AnswerPoll(p, i) \/ Redraw(p, i) \/ PollFails(p, i)
  PROVE  /\ truth' = truth
         /\ \A q \in Panel, j \in Poll : q # p \/ j # i => poll'[q][j] = poll[q][j]
         /\ poll'[p][i] \in {Free, Asked, truth}
         /\ \/ shown' = shown
            \/ /\ poll[p][i] \in Version /\ poll'[p][i] = Free
               /\ shown' = [shown EXCEPT ![p] = poll[p][i]]
BY DEF TypeOK, StartPoll, AnswerPoll, Redraw, PollFails, SetPoll, drawn

\* The other steps touch none.
LEMMA PollRests ==
  ASSUME [Next]_vars,
         ~ \E p \in Panel, i \in Poll :
             StartPoll(p, i) \/ AnswerPoll(p, i) \/ Redraw(p, i) \/ PollFails(p, i)
  PROVE  UNCHANGED panels /\ (truth' = truth \/ ServerChanges)
BY DEF Next, ServerChanges, OnOpen, OnError, OnClose, Connect, OnMessage, Broadcast, vars

\* The argument of EventuallyFresh step by step.
LEMMA FallBackStep ==
  ASSUME TypeOK, [Next]_vars
  PROVE  FallBack
<1>1. CASE UNCHANGED panels
  BY <1>1 DEF FallBack, Stale, panels, drawn
<1>2. ASSUME NEW p \in Panel, NEW i \in Poll,
             StartPoll(p, i) \/ AnswerPoll(p, i) \/ Redraw(p, i) \/ PollFails(p, i)
      PROVE  FallBack
  <2>1. /\ truth' = truth
        /\ \A q \in Panel, j \in Poll : q # p \/ j # i => poll'[q][j] = poll[q][j]
        /\ poll'[p][i] \in {Free, Asked, truth}
        /\ \/ shown' = shown
           \/ /\ poll[p][i] \in Version /\ poll'[p][i] = Free
              /\ shown' = [shown EXCEPT ![p] = poll[p][i]]
    BY <1>2, PollMoves
  <2>2. Free \notin Version /\ Asked \notin Version
    BY DEF Free, Asked, Version
  <2>3. \A q \in Panel : Stale(q)' \subseteq Stale(q)
    BY <2>1, <2>2 DEF Stale
  <2>4. ASSUME NEW q \in Panel, shown[q] = truth, shown'[q] # truth
        PROVE  \E j \in Stale(q) : shown'[q] = poll[q][j] /\ j \notin Stale(q)'
    <3>1. q = p /\ shown'[p] = poll[p][i] /\ poll[p][i] \in Version /\ poll'[p][i] = Free
      BY <2>1, <2>4 DEF TypeOK
    <3> QED
      BY <2>1, <2>2, <2>4, <3>1 DEF Stale
  <2> QED
    BY <2>3, <2>4 DEF FallBack
<1> QED
  BY <1>1, <1>2, PollRests

\* Only the server moves on by itself, and it moves ahead.
LEMMA NotAheadStep ==
  ASSUME TypeOK, NotAhead, [Next]_vars
  PROVE  NotAhead'
<1> USE DEF NotAhead, Version, Blank
<1>0. truth \in Int /\ shown \in [Panel -> Version \cup {Blank}]
  BY DEF TypeOK
<1>1. ASSUME UNCHANGED panels, truth' = truth \/ ServerChanges
      PROVE  NotAhead'
  <2>1. truth' = truth \/ truth' = truth + 1
    BY <1>1 DEF ServerChanges
  <2>2. \A p \in Panel : shown[p] # Blank => shown[p] \in Int
    BY <1>0
  <2> QED
    BY <1>0, <1>1, <2>1, <2>2 DEF panels, drawn
<1>2. ASSUME NEW p \in Panel, NEW i \in Poll,
             StartPoll(p, i) \/ AnswerPoll(p, i) \/ Redraw(p, i) \/ PollFails(p, i)
      PROVE  NotAhead'
  <2>1. /\ truth' = truth
        /\ \A q \in Panel, j \in Poll : q # p \/ j # i => poll'[q][j] = poll[q][j]
        /\ poll'[p][i] \in {Free, Asked, truth}
        /\ \/ shown' = shown
           \/ /\ poll[p][i] \in Version /\ poll'[p][i] = Free
              /\ shown' = [shown EXCEPT ![p] = poll[p][i]]
    BY <1>2, PollMoves
  <2> QED
    BY <1>0, <2>1 DEF Free, Asked
<1> QED
  BY <1>1, <1>2, PollRests

\* A redrawn map makes and drops markers, nothing else touches them.
LEMMA MarkersStep ==
  ASSUME TypeOK, NotAhead, Markers, [Next]_vars
  PROVE  Markers'
<1>0. /\ truth \in Version /\ Version \subseteq Nat /\ Blank \notin Version
      /\ shown \in [Panel -> Version \cup {Blank}] /\ Map \in Panel
      /\ tooltip \in [Driver -> Version \cup {Blank}] /\ born \in [Driver -> Version]
  BY DEF TypeOK, Version, Blank
<1>1. ASSUME tooltip' = tooltip, born' = born, shown'[Map] = shown[Map],
             truth' = truth \/ truth' = truth + 1
      PROVE  Markers'
  <2>1. \A d \in Driver : tooltip[d] # Blank => tooltip[d] \in Nat /\ tooltip[d] <= truth
    BY <1>0 DEF Markers
  <2>2. \A d \in Driver : tooltip[d] # Blank => tooltip[d] <= truth'
    BY <1>0, <1>1, <2>1
  <2> QED
    BY <1>1, <2>2 DEF Markers
<1>2. CASE UNCHANGED panels /\ (truth' = truth \/ ServerChanges)
  <2>1. truth' = truth \/ truth' = truth + 1
    BY <1>2 DEF ServerChanges
  <2> QED
    BY <1>1, <1>2, <2>1 DEF panels, drawn
<1>3. ASSUME NEW p \in Panel, NEW i \in Poll, StartPoll(p, i) \/ AnswerPoll(p, i) \/ PollFails(p, i)
      PROVE  Markers'
  BY <1>1, <1>3 DEF StartPoll, AnswerPoll, PollFails, drawn
<1>4. ASSUME NEW p \in Panel, NEW i \in Poll, Redraw(p, i)
      PROVE  Markers'
  <2>1. CASE p # Map
    <3>1. shown'[Map] = shown[Map] /\ tooltip' = tooltip /\ born' = born /\ truth' = truth
      BY <1>0, <1>4, <2>1 DEF Redraw
    <3> QED
      BY <1>1, <3>1
  <2>2. CASE p = Map
    <3> DEFINE v == poll[p][i]
    <3>1. /\ v \in Version /\ v <= truth /\ truth' = truth /\ born' = born
          /\ shown'[Map] = v /\ tooltip' = Tooltips(v)
      BY <1>0, <1>4, <2>2 DEF Redraw, NotAhead
    <3> HIDE DEF v
    <3>2. ASSUME NEW d \in Driver
          PROVE  /\ tooltip'[d] # Blank <=> shown'[Map] # Blank /\ born'[d] <= shown'[Map]
                 /\ tooltip'[d] # Blank => born'[d] <= tooltip'[d] /\ tooltip'[d] <= truth'
      <4>1. tooltip'[d] = IF v < born[d] THEN Blank
                          ELSE IF tooltip[d] = Blank THEN v ELSE tooltip[d]
        BY <3>1 DEF Tooltips
      <4>2. born[d] \in Nat /\ v \in Nat /\ truth \in Nat /\ v # Blank
        BY <1>0, <3>1
      <4>3. tooltip[d] # Blank => tooltip[d] \in Nat /\ born[d] <= tooltip[d] /\ tooltip[d] <= truth
        BY <1>0 DEF Markers
      <4> QED
        BY <3>1, <4>1, <4>2, <4>3
    <3> QED
      BY <3>2 DEF Markers
  <2> QED
    BY <2>1, <2>2
<1> QED
  BY <1>2, <1>3, <1>4, PollRests

\* app.js's overlapping polls: a late answer may overwrite a newer one, but
\* what a panel was redrawn from was true once, the map has the markers of
\* that moment, and once the server rests a panel can fall back at most as
\* often as there were stale answers in flight.  Of a tooltip, bound once,
\* only this is left: it was true at some moment of its driver's life.
THEOREM PanelsSettle == Spec => [](NotAhead /\ Markers) /\ [][FallBack]_vars
<1>1. Init => NotAhead /\ Markers
  <2>1. Init => NotAhead
    BY DEF Init, NotAhead, Version, Free, Asked, Blank
  <2>2. Init => Markers
    BY DEF Init, Markers, Blank
  <2> QED
    BY <2>1, <2>2
<1>2. IInv /\ NotAhead /\ Markers /\ [Next]_vars => NotAhead' /\ Markers'
  BY NotAheadStep, MarkersStep DEF IInv
<1>3. IInv /\ [Next]_vars => [FallBack]_vars
  BY FallBackStep DEF IInv
<1> QED
  BY <1>1, <1>2, <1>3, Inductive, PTL DEF Spec

=============================================================================
