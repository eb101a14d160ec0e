------------------------------ MODULE Dashboard ------------------------------
(***************************************************************************)
(* dashboard/app.js in the browser: two panels (the driver map and the     *)
(* statistics) polled over REST by timers that do not wait for the last    *)
(* answer, and an event log fed by a WebSocket that reconnects.  Callbacks *)
(* run one at a time; between them requests, answers, socket events and    *)
(* timers come in any order.                                               *)
(*                                                                         *)
(* truth counts the changes of what the server would answer to a poll.  An *)
(* answer redraws all of the statistics and every marker's position and    *)
(* colour; a marker's tooltip is bound when the marker is made and stays.  *)
(***************************************************************************)
EXTENDS Integers, Sequences, FiniteSets, SequencesExt

CONSTANTS
    Panel,      \* what is polled: GET /drivers, GET /stats
    Map,        \* the panel with the drivers' markers
    Driver,     \* drivers on the map
    Poll,       \* bound: polls of a panel in flight at once
    Sock,       \* bound: WebSocket objects alive at once
    Ride,       \* rides the events are about
    MaxChanges, \* bound: changes of the server's state
    MaxEvents,  \* bound: events broadcast
    MaxLog      \* MAX_LOG_ENTRIES

ASSUME DashboardAssumption ==
    /\ MaxChanges \in Nat /\ MaxEvents \in Nat /\ MaxLog \in Nat \ {0}
    /\ IsFiniteSet(Ride)
    /\ Map \in Panel

VARIABLES
    truth,      \* the server's state, as a version number
    poll,       \* poll[p][i]: a fetch of panel p, and the version it carries
    shown,      \* the version panel p was redrawn from, Blank before its first answer
    tooltip,    \* driverMarkers: the version a marker's tooltip is of, Blank without one
    born,       \* the version that first has the driver; drivers are not deleted
    sock,       \* each WebSocket object
    timers,     \* setTimeout(connectWebSocket) calls that have not fired
    inbox,      \* messages on their way to a socket
    sent,       \* events broadcast so far
    log,        \* the lines of #event-log, oldest first
    label,      \* rideLabels
    received    \* history: every event a handler logged

drawn == <<shown, tooltip, born>>
panels == <<poll, drawn>>
socket == <<sock, timers, inbox>>
events == <<sent, log, label, received>>
vars == <<truth, panels, socket, events>>

Free == -1      \* no fetch
Asked == -2     \* sent, the server has not read its tables yet
Blank == -1

Version == 0..MaxChanges

\* CANDIDATES_FOUND and LOCK_ACQUIRED have no entry in EVENT_LABELS.
Event == [n : 1..MaxEvents, ride : Ride, labelled : BOOLEAN]

TypeOK ==
    /\ truth \in Version
    /\ poll \in [Panel -> [Poll -> Version \cup {Free, Asked}]]
    /\ shown \in [Panel -> Version \cup {Blank}]
    /\ tooltip \in [Driver -> Version \cup {Blank}]
    /\ born \in [Driver -> Version]
    /\ sock \in [Sock -> {"none", "connecting", "open", "closing"}]
    /\ timers \in Nat
    /\ inbox \in [Sock -> Seq(Event)]
    /\ sent \in 0..MaxEvents
    /\ log \in Seq(Event) /\ Len(log) <= MaxLog
    /\ label \in [Ride -> 0..Cardinality(Ride)]
    /\ received \in Seq(Event)

\* The page is loaded: a first fetch of each panel, a first socket.
Init ==
    /\ truth = 0
    /\ \E i \in Poll : poll = [p \in Panel |-> [j \in Poll |-> IF j = i THEN Asked ELSE Free]]
    /\ shown = [p \in Panel |-> Blank]
    /\ tooltip = [d \in Driver |-> Blank] /\ born \in [Driver -> Version]
    /\ \E s \in Sock : sock = [t \in Sock |-> IF t = s THEN "connecting" ELSE "none"]
    /\ timers = 0
    /\ inbox = [s \in Sock |-> <<>>]
    /\ sent = 0 /\ log = <<>> /\ received = <<>>
    /\ label = [r \in Ride |-> 0]

-----------------------------------------------------------------------------
\* Polling.

SetPoll(p, i, v) == poll' = [poll EXCEPT ![p][i] = v]

ServerChanges ==
    /\ truth < MaxChanges
    /\ truth' = truth + 1
    /\ UNCHANGED <<panels, socket, events>>

\* Mutant: a poll starts the next one when it has been shown, instead of
\* setInterval; one that fails ends the chain.
StartPollChained(p, i) ==
    /\ \A j \in Poll : poll[p][j] = Free
    /\ shown[p] # Blank
    /\ SetPoll(p, i, Asked)
    /\ UNCHANGED <<truth, drawn, socket, events>>

\* setInterval fires, whatever has become of earlier polls.
StartPoll(p, i) ==
    /\ poll[p][i] = Free
    /\ SetPoll(p, i, Asked)
    /\ UNCHANGED <<truth, drawn, socket, events>>

\* The server reads its tables; the answer takes its time.
AnswerPoll(p, i) ==
    /\ poll[p][i] = Asked
    /\ SetPoll(p, i, truth)
    /\ UNCHANGED <<truth, drawn, socket, events>>

\* The markers an answer of version v leaves: a new driver's is made and its
\* tooltip bound, one there already keeps its tooltip, and the marker of a
\* driver the answer does not list is dropped.
Tooltips(v) ==
    [d \in Driver |->
       IF v < born[d] THEN Blank ELSE IF tooltip[d] = Blank THEN v ELSE tooltip[d]]

\* refreshDrivers, refreshStats after their awaits: the panel is redrawn from
\* this answer, even if a later poll's was drawn before.
Redraw(p, i) ==
    /\ poll[p][i] \in Version
    /\ shown' = [shown EXCEPT ![p] = poll[p][i]]
    /\ tooltip' = IF p = Map THEN Tooltips(poll[p][i]) ELSE tooltip
    /\ SetPoll(p, i, Free)
    /\ UNCHANGED <<truth, born, socket, events>>

\* fetch rejects or !res.ok: nothing is drawn.
PollFails(p, i) ==
    /\ poll[p][i] # Free
    /\ SetPoll(p, i, Free)
    /\ UNCHANGED <<truth, drawn, socket, events>>

-----------------------------------------------------------------------------
\* The WebSocket.

SetSock(s, x) == sock' = [sock EXCEPT ![s] = x]

OnOpen(s) ==
    /\ sock[s] = "connecting"
    /\ SetSock(s, "open")
    /\ UNCHANGED <<truth, panels, timers, inbox, events>>

\* Mutant: onerror reconnects by itself, besides the close event to come.
OnErrorReconnects(s) ==
    /\ sock[s] \in {"connecting", "open"}
    /\ SetSock(s, "closing")
    /\ timers' = timers + 1
    /\ inbox' = [inbox EXCEPT ![s] = <<>>]
    /\ UNCHANGED <<truth, panels, events>>

\* ws.onerror: ws.close().  A socket that is not open delivers no message.
OnError(s) ==
    /\ sock[s] \in {"connecting", "open"}
    /\ SetSock(s, "closing")
    /\ inbox' = [inbox EXCEPT ![s] = <<>>]
    /\ UNCHANGED <<truth, panels, timers, events>>

\* Mutant: only an open socket that is closed is replaced.
OnCloseOnce(s) ==
    /\ sock[s] \in {"open", "closing"}
    /\ SetSock(s, "none")
    /\ timers' = IF sock[s] = "open" THEN timers + 1 ELSE timers
    /\ inbox' = [inbox EXCEPT ![s] = <<>>]
    /\ UNCHANGED <<truth, panels, events>>

\* ws.onclose, after an error or because the server went away.
OnClose(s) ==
    /\ sock[s] \in {"open", "closing"}
    /\ SetSock(s, "none")
    /\ timers' = timers + 1
    /\ inbox' = [inbox EXCEPT ![s] = <<>>]
    /\ UNCHANGED <<truth, panels, events>>

\* The timer fires: connectWebSocket.
Connect(s) ==
    /\ timers > 0
    /\ sock[s] = "none"
    /\ SetSock(s, "connecting")
    /\ timers' = timers - 1
    /\ UNCHANGED <<truth, panels, inbox, events>>

\* The server's bus sends an event to every socket it has (module EventBus).
Broadcast(r, b) ==
    /\ sent < MaxEvents
    /\ sent' = sent + 1
    /\ inbox' = [s \in Sock |->
                   IF sock[s] = "open"
                     THEN Append(inbox[s], [n |-> sent + 1, ride |-> r, labelled |-> b])
                     ELSE inbox[s]]
    /\ UNCHANGED <<truth, panels, sock, timers, log, label, received>>

Labelled == {r \in Ride : label[r] # 0}

\* Mutant: labels are kept only for the rides the trimmed log still shows.
RideLabelForgets(r) ==
    [q \in Ride |->
       IF q = r /\ label[r] = 0 THEN Cardinality(Labelled) + 1
       ELSE IF q = r \/ \E i \in DOMAIN log : log[i].ride = q /\ (i > 1 \/ Len(log) < MaxLog)
         THEN label[q]
       ELSE 0]

\* rideLabel: a ride seen for the first time gets the next number.
RideLabel(r) ==
    IF label[r] # 0 THEN label ELSE [label EXCEPT ![r] = Cardinality(Labelled) + 1]

\* Mutant: the trim removes the newest line.
TrimNewest(lines) == IF Len(lines) > MaxLog THEN SubSeq(lines, 1, MaxLog) ELSE lines

\* while (children.length > MAX_LOG_ENTRIES) removeChild(firstChild)
Trim(lines) == IF Len(lines) > MaxLog THEN Tail(lines) ELSE lines

\* ws.onmessage: handleEvent, logEvent.
OnMessage(s) ==
    /\ sock[s] = "open"
    /\ inbox[s] # <<>>
    /\ inbox' = [inbox EXCEPT ![s] = Tail(@)]
    /\ LET e == Head(inbox[s])
       IN  IF e.labelled
             THEN /\ label' = RideLabel(e.ride)
                  /\ log' = Trim(Append(log, e))
                  /\ received' = Append(received, e)
             ELSE UNCHANGED <<label, log, received>>
    /\ UNCHANGED <<truth, panels, sock, timers, sent>>

-----------------------------------------------------------------------------
Next ==
    \/ ServerChanges
    \/ \E p \in Panel, i \in Poll :
         StartPoll(p, i) \/ AnswerPoll(p, i) \/ Redraw(p, i) \/ PollFails(p, i)
    \/ \E s \in Sock : OnOpen(s) \/ OnError(s) \/ OnClose(s) \/ Connect(s) \/ OnMessage(s)
    \/ \E r \in Ride, b \in BOOLEAN : Broadcast(r, b)

Spec == Init /\ [][Next]_vars

\* Timers fire, a closing socket closes, and the network is not down for
\* ever: a fetch or a connection that is tried again and again succeeds again
\* and again.
Fairness ==
    /\ \A p \in Panel, i \in Poll :
         /\ WF_vars(StartPoll(p, i))
         /\ SF_vars(AnswerPoll(p, i))
         /\ SF_vars(Redraw(p, i))
    /\ \A s \in Sock : WF_vars(OnClose(s) /\ sock[s] = "closing")
    /\ WF_vars(\E s \in Sock : Connect(s))
    /\ SF_vars(\E s \in Sock : OnOpen(s))

FairSpec == Spec /\ Fairness

-----------------------------------------------------------------------------
(***************************************************************************)
(* Safety.                                                                 *)
(***************************************************************************)

\* At every moment there is one socket, or one timer that will make one:
\* however errors and closes come, the page never ends up with two streams,
\* which would log every event twice, nor with none.
OneConnection ==
    Cardinality({s \in Sock : sock[s] # "none"}) + timers = 1

\* app.js: the log is bounded and oldest at the top: it is the newest of the
\* events received, in the order in which the server broadcast them, which
\* never repeat or go back over any reconnect.
LogIsNewest ==
    /\ log = SubSeq(received, Len(received) - Len(log) + 1, Len(received))
    /\ Len(log) = MaxLog \/ log = received
    /\ \A i \in 1..(Len(received) - 1) : received[i].n < received[i + 1].n

\* rideLabel: "the same ride always gets the same label ... and different
\* rides always get different labels", also for rides whose lines the log has
\* dropped.
LabelsIdentify ==
    [][/\ \A r \in Labelled : label'[r] = label[r]
       /\ \A r, q \in Labelled' : label'[r] = label'[q] => r = q
       /\ \A i \in DOMAIN received' : received'[i].ride \in Labelled']_vars

-----------------------------------------------------------------------------
(***************************************************************************)
(* Liveness, under Fairness.                                               *)
(***************************************************************************)

\* Polls overlap and an old answer can overwrite a newer one, but once the
\* server is quiet all that answers redraw (the statistics, the markers'
\* positions and colours) comes to show its state and keeps showing it, and
\* the map has a marker for each driver there is.  Nothing is said of the
\* tooltips, which no later answer renews.
EventuallyFresh ==
    /\ \A p \in Panel : <>[](shown[p] = truth)
    /\ \A d \in Driver : <>[](tooltip[d] # Blank <=> truth >= born[d])

\* The live stream always comes back.
Reconnects == []<>(\E s \in Sock : sock[s] = "open")

=============================================================================
