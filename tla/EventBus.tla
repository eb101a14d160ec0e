------------------------------ MODULE EventBus ------------------------------
(***************************************************************************)
(* The bus between request threads and dashboard WebSockets.  publish()    *)
(* runs on any thread and hands each event to the event loop, which puts   *)
(* it into a bounded asyncio.Queue; one broadcast task sends it to every   *)
(* connected socket.  Each application lifespan has a loop and a queue of  *)
(* its own, numbered by the lifespan; a Python attribute that is None is   *)
(* Nothing.                                                                *)
(*                                                                         *)
(* Steps on the loop's thread are atomic up to the next await, except that *)
(* attach() and detach() assign attributes publishers read without a lock. *)
(***************************************************************************)
EXTENDS Integers, Sequences

CONSTANTS
    Thread,         \* request threads that call emit()
    Socket,         \* WebSocket connections, each used once
    NoSocket,
    QueueSize,      \* settings.dashboard_event_queue_size
    MaxEvents,      \* bound: events published
    MaxLifespans    \* bound: starts of the application in one process

ASSUME SocketAssumption == NoSocket \notin Socket
ASSUME SizeAssumption == QueueSize \in Nat \ {0}
ASSUME BoundsAssumption == MaxEvents \in Nat /\ MaxLifespans \in Nat

Nothing == 0
Lifespan == 1..MaxLifespans
Event == 1..MaxEvents

VARIABLES
    life,       \* where the lifespan is: down, starting, up, cancelling, stopping
    gen,        \* the current lifespan
    open,       \* event loops that are not closed
    busLoop,    \* EventBus._loop
    busQueue,   \* EventBus._queue
    conns,      \* EventBus._connections
    ready,      \* ready[g]: callbacks handed to loop g and not run yet
    queue,      \* queue[g]: the asyncio.Queue of lifespan g
    pub,        \* each thread inside publish(): what it has read so far
    count,      \* events created so far
    task,       \* run_broadcast_loop: where it is, the socket it is sending
                \* to, and the rest of its copy of the connections
    event,      \* the event it is broadcasting
    link,       \* state of each socket
    got,        \* what each socket was sent
    log,        \* history: events of this lifespan in the order scheduled
    dropped,    \* history: events refused by a full queue
    done,       \* history: events of this lifespan taken from the queue
    joined      \* history: Len(done) when each socket was registered

bus == <<busLoop, busQueue>>
loops == <<ready, queue, log, dropped>>
sender == <<task, event, done>>
sockets == <<link, got, joined>>
vars == <<life, gen, open, busLoop, busQueue, conns, ready, queue, pub, count,
          task, event, link, got, log, dropped, done, joined>>

Callback == [queue : Lifespan, event : Event]

TypeOK ==
    /\ life \in {"down", "starting", "up", "cancelling", "stopping"}
    /\ gen \in 0..MaxLifespans
    /\ open \subseteq Lifespan
    /\ busLoop \in Lifespan \cup {Nothing}
    /\ busQueue \in Lifespan \cup {Nothing}
    /\ conns \subseteq Socket
    /\ ready \in [Lifespan -> Seq(Callback)]
    /\ queue \in [Lifespan -> Seq(Event)]
    /\ \A g \in Lifespan : Len(queue[g]) <= QueueSize
    /\ pub \in [Thread -> [pc : {"idle", "queue", "call"},
                           loop : Lifespan \cup {Nothing},
                           queue : Lifespan \cup {Nothing},
                           event : Event \cup {Nothing}]]
    /\ count \in 0..MaxEvents
    /\ task \in [pc : {"none", "get", "next", "send"}, to : Socket \cup {NoSocket},
                 todo : SUBSET Socket]
    /\ event \in Event \cup {Nothing}
    /\ link \in [Socket -> {"new", "up", "stalled", "broken", "closed"}]
    /\ got \in [Socket -> Seq(Event)]
    /\ log \in Seq(Event)
    /\ dropped \subseteq Event
    /\ done \in Seq(Event)
    /\ joined \in [Socket -> 0..MaxEvents]

Idle == [pc |-> "idle", loop |-> Nothing, queue |-> Nothing, event |-> Nothing]
NoTask == [pc |-> "none", to |-> NoSocket, todo |-> {}]
Getting == [pc |-> "get", to |-> NoSocket, todo |-> {}]

Init ==
    /\ life = "down"
    /\ gen = 0
    /\ open = {}
    /\ busLoop = Nothing
    /\ busQueue = Nothing
    /\ conns = {}
    /\ ready = [g \in Lifespan |-> <<>>]
    /\ queue = [g \in Lifespan |-> <<>>]
    /\ pub = [t \in Thread |-> Idle]
    /\ count = 0
    /\ task = NoTask
    /\ event = Nothing
    /\ link = [s \in Socket |-> "new"]
    /\ got = [s \in Socket |-> <<>>]
    /\ log = <<>>
    /\ dropped = {}
    /\ done = <<>>
    /\ joined = [s \in Socket |-> 0]

-----------------------------------------------------------------------------
\* The lifespan hook of main.py.

\* attach: first _loop ...
Attach ==
    /\ life = "down"
    /\ open = {}
    /\ gen < MaxLifespans
    /\ gen' = gen + 1
    /\ open' = {gen + 1}
    /\ busLoop' = gen + 1
    /\ life' = "starting"
    /\ UNCHANGED <<busQueue, conns, pub, count, loops, sender, sockets>>

\* ... then a new _queue; then the broadcast task is created.
AttachQueue ==
    /\ life = "starting"
    /\ busQueue' = gen
    /\ life' = "up"
    /\ task' = Getting
    /\ log' = <<>>
    /\ done' = <<>>
    /\ UNCHANGED <<gen, open, busLoop, conns, ready, queue, pub, count, event, dropped, sockets>>

\* Shutdown: broadcast_task.cancel().
Shutdown ==
    /\ life = "up"
    /\ life' = "cancelling"
    /\ UNCHANGED <<gen, open, bus, conns, pub, count, loops, sender, sockets>>

\* Mutant: the except clause around send_json also swallows CancelledError.
TaskCancelledSwallowed ==
    /\ life = "cancelling"
    /\ task.pc = "get"
    /\ task' = NoTask
    /\ event' = Nothing
    /\ busLoop' = Nothing
    /\ life' = "stopping"
    /\ UNCHANGED <<gen, open, busQueue, conns, pub, count, loops, done, sockets>>

\* CancelledError ends the task at its await, get() or send_json() alike: it
\* is no Exception, so no handler of the task catches it.  Then detach(): _loop.
TaskCancelled ==
    /\ life = "cancelling"
    /\ task' = NoTask
    /\ event' = Nothing
    /\ busLoop' = Nothing
    /\ life' = "stopping"
    /\ UNCHANGED <<gen, open, busQueue, conns, pub, count, loops, done, sockets>>

\* ... then _queue and the connections.
Detach ==
    /\ life = "stopping"
    /\ busQueue' = Nothing
    /\ conns' = {}
    /\ life' = "down"
    /\ UNCHANGED <<gen, open, busLoop, pub, count, loops, sender, sockets>>

\* The server closes its loop; callbacks it has not run are lost.
CloseLoop ==
    /\ life = "down"
    /\ open # {}
    /\ open' = {}
    /\ ready' = [ready EXCEPT ![gen] = <<>>]
    /\ UNCHANGED <<life, gen, bus, conns, queue, pub, count, log, dropped, sender, sockets>>

-----------------------------------------------------------------------------
\* publish(), on a request thread: two unlocked reads, then the hand-off.

\* emit() builds an event; publish() loads self._loop ...
Emit(t) ==
    /\ pub[t].pc = "idle"
    /\ count < MaxEvents
    /\ count' = count + 1
    /\ pub' = [pub EXCEPT ![t] = [pc |-> "queue", loop |-> busLoop, queue |-> Nothing,
                                  event |-> count + 1]]
    /\ UNCHANGED <<life, gen, open, bus, conns, loops, sender, sockets>>

\* ... then self._queue, and returns if either is None.
ReadQueue(t) ==
    /\ pub[t].pc = "queue"
    /\ pub' = [pub EXCEPT ![t] = IF @.loop = Nothing \/ busQueue = Nothing
                                   THEN Idle
                                   ELSE [@ EXCEPT !.pc = "call", !.queue = busQueue]]
    /\ UNCHANGED <<life, gen, open, bus, conns, count, loops, sender, sockets>>

\* loop.call_soon_threadsafe(_put_nowait, queue, event).  On a closed loop it
\* raises into the request that emits; nothing is scheduled.
Schedule(t) ==
    /\ pub[t].pc = "call"
    /\ pub' = [pub EXCEPT ![t] = Idle]
    /\ IF pub[t].loop \in open
         THEN /\ ready' = [ready EXCEPT ![pub[t].loop] =
                             Append(@, [queue |-> pub[t].queue, event |-> pub[t].event])]
              /\ log' = Append(log, pub[t].event)
         ELSE UNCHANGED <<ready, log>>
    /\ UNCHANGED <<life, gen, open, bus, conns, queue, count, dropped, sender, sockets>>

\* Mutant: a full queue makes room by losing its oldest event.
PutNowaitOldest(g) ==
    /\ g \in open
    /\ ready[g] # <<>>
    /\ ready' = [ready EXCEPT ![g] = Tail(@)]
    /\ LET q == Head(ready[g]).queue
           e == Head(ready[g]).event
       IN  queue' = [queue EXCEPT ![q] = Append(IF Len(@) < QueueSize THEN @ ELSE Tail(@), e)]
    /\ UNCHANGED <<life, gen, open, bus, conns, pub, count, log, dropped, sender, sockets>>

\* Mutant: the queue has no maxsize.
PutNowaitUnbounded(g) ==
    /\ g \in open
    /\ ready[g] # <<>>
    /\ ready' = [ready EXCEPT ![g] = Tail(@)]
    /\ LET q == Head(ready[g]).queue
           e == Head(ready[g]).event
       IN  queue' = [queue EXCEPT ![q] = Append(@, e)]
    /\ UNCHANGED <<life, gen, open, bus, conns, pub, count, log, dropped, sender, sockets>>

\* _put_nowait on loop g: a full queue refuses the new event.
PutNowait(g) ==
    /\ g \in open
    /\ ready[g] # <<>>
    /\ ready' = [ready EXCEPT ![g] = Tail(@)]
    /\ LET q == Head(ready[g]).queue
           e == Head(ready[g]).event
       IN  IF Len(queue[q]) < QueueSize
             THEN queue' = [queue EXCEPT ![q] = Append(@, e)] /\ UNCHANGED dropped
             ELSE dropped' = dropped \cup {e} /\ UNCHANGED queue
    /\ UNCHANGED <<life, gen, open, bus, conns, pub, count, log, sender, sockets>>

-----------------------------------------------------------------------------
\* run_broadcast_loop.

\* An event is there: take it and copy the connections.
Get ==
    /\ life = "up"
    /\ task.pc = "get"
    /\ queue[gen] # <<>>
    /\ event' = Head(queue[gen])
    /\ queue' = [queue EXCEPT ![gen] = Tail(@)]
    /\ done' = Append(done, Head(queue[gen]))
    /\ task' = [pc |-> "next", to |-> NoSocket, todo |-> conns]
    /\ UNCHANGED <<life, gen, open, bus, conns, ready, pub, count, log, dropped, sockets>>

\* The next socket of the copy (a set: in any order), or back to get().
NextSocket ==
    /\ life = "up"
    /\ task.pc = "next"
    /\ \/ /\ task.todo = {}
          /\ task' = Getting
          /\ event' = Nothing
       \/ \E s \in task.todo :
            /\ task' = [pc |-> "send", to |-> s, todo |-> task.todo \ {s}]
            /\ UNCHANGED event
    /\ UNCHANGED <<life, gen, open, bus, conns, pub, count, loops, done, sockets>>

\* send_json returns once the socket's buffer takes the payload.
Send ==
    /\ life = "up"
    /\ task.pc = "send"
    /\ link[task.to] = "up"
    /\ got' = [got EXCEPT ![task.to] = Append(@, event)]
    /\ task' = [task EXCEPT !.pc = "next", !.to = NoSocket]
    /\ UNCHANGED <<life, gen, open, bus, conns, pub, count, loops, event, done, link, joined>>

\* Mutant: the first broken socket ends the round.
SendFailsBreak ==
    /\ life = "up"
    /\ task.pc = "send"
    /\ link[task.to] \in {"broken", "closed"}
    /\ conns' = conns \ {task.to}
    /\ task' = Getting
    /\ event' = Nothing
    /\ UNCHANGED <<life, gen, open, bus, pub, count, loops, done, sockets>>

\* Mutant: the exception is not caught and the task dies.
SendFailsUncaught ==
    /\ life = "up"
    /\ task.pc = "send"
    /\ link[task.to] \in {"broken", "closed"}
    /\ conns' = conns \ {task.to}
    /\ task' = [task EXCEPT !.pc = "none"]
    /\ UNCHANGED <<life, gen, open, bus, pub, count, loops, event, done, sockets>>

\* It raises for a socket that is gone: only that socket is forgotten.
SendFails ==
    /\ life = "up"
    /\ task.pc = "send"
    /\ link[task.to] \in {"broken", "closed"}
    /\ conns' = conns \ {task.to}
    /\ task' = [task EXCEPT !.pc = "next", !.to = NoSocket]
    /\ UNCHANGED <<life, gen, open, bus, pub, count, loops, event, done, sockets>>

-----------------------------------------------------------------------------
\* websocket_endpoint and the network behind it.

\* accept and register; the server takes connections while the lifespan is up.
Register(s) ==
    /\ life = "up"
    /\ link[s] = "new"
    /\ link' = [link EXCEPT ![s] = "up"]
    /\ conns' = conns \cup {s}
    /\ joined' = [joined EXCEPT ![s] = Len(done)]
    /\ UNCHANGED <<life, gen, open, bus, pub, count, loops, sender, got>>

\* The peer stops reading, so the buffer stays full, and may read on.
Stall(s) ==
    /\ link[s] = "up"
    /\ link' = [link EXCEPT ![s] = "stalled"]
    /\ UNCHANGED <<life, gen, open, bus, conns, pub, count, loops, sender, got, joined>>

Resume(s) ==
    /\ link[s] = "stalled"
    /\ link' = [link EXCEPT ![s] = "up"]
    /\ UNCHANGED <<life, gen, open, bus, conns, pub, count, loops, sender, got, joined>>

Disconnect(s) ==
    /\ link[s] \in {"up", "stalled"}
    /\ link' = [link EXCEPT ![s] = "broken"]
    /\ UNCHANGED <<life, gen, open, bus, conns, pub, count, loops, sender, got, joined>>

\* WebSocketDisconnect reaches the endpoint: finally, unregister.
Unregister(s) ==
    /\ link[s] = "broken"
    /\ link' = [link EXCEPT ![s] = "closed"]
    /\ conns' = conns \ {s}
    /\ UNCHANGED <<life, gen, open, bus, pub, count, loops, sender, got, joined>>

-----------------------------------------------------------------------------
Stop == TaskCancelled \/ Detach

Broadcast == Get \/ NextSocket \/ Send \/ SendFails

Next ==
    \/ Attach \/ AttachQueue \/ Shutdown \/ Stop \/ CloseLoop
    \/ \E t \in Thread : Emit(t) \/ ReadQueue(t) \/ Schedule(t)
    \/ \E g \in Lifespan : PutNowait(g)
    \/ Broadcast
    \/ \E s \in Socket :
         Register(s) \/ Stall(s) \/ Resume(s) \/ Disconnect(s) \/ Unregister(s)

Spec == Init /\ [][Next]_vars

\* The loop runs its callbacks and every task that can go on; a send that waits
\* for room is woken whenever the peer reads on, hence SF.  Nothing is assumed
\* of request threads, of clients or of the server's shutdown.
Fairness ==
    /\ WF_vars(AttachQueue)
    /\ WF_vars(Stop)
    /\ WF_vars(Broadcast)
    /\ SF_vars(Send)
    /\ \A g \in Lifespan : WF_vars(PutNowait(g))
    /\ \A s \in Socket : WF_vars(Unregister(s))

FairSpec == Spec /\ Fairness

-----------------------------------------------------------------------------
(***************************************************************************)
(* Properties.                                                             *)
(***************************************************************************)

\* What became of the events of this lifespan that no full queue refused, in
\* order: broadcast, in the queue, still with the loop.
Through == done \o queue[gen] \o [i \in 1..Len(ready[gen]) |-> ready[gen][i].event]

\* s has the elements of l that are not in D, each once and in l's order.
KeepsAllBut(s, l, D) ==
    /\ \A i \in DOMAIN s : s[i] \notin D /\ \E k \in DOMAIN l : s[i] = l[k]
    /\ \A k \in DOMAIN l : l[k] \notin D => \E i \in DOMAIN s : s[i] = l[k]
    /\ \A i, j \in DOMAIN s, k, m \in DOMAIN l :
         s[i] = l[k] /\ s[j] = l[m] => (i < j <=> k < m)

\* Every event handed to this lifespan's loop is, in the order it was handed
\* over, either refused by a full queue, or still with the loop, or in the
\* queue, or broadcast: none is lost, repeated, overtaken or left over from an
\* earlier lifespan, however two threads' publish() calls interleave.
Conserved == life = "up" => KeepsAllBut(Through, log, dropped)

\* A socket that is registered and alive has been sent exactly the events
\* broadcast since it registered, in order, up to the one being broadcast:
\* another socket's failure costs it nothing, and no event of an earlier
\* lifespan reaches it.
Gapless ==
    \A s \in conns :
        life = "up" /\ link[s] \in {"up", "stalled"} =>
            got[s] = SubSeq(done, joined[s] + 1,
                            Len(done) - IF s = task.to \/ s \in task.todo THEN 1 ELSE 0)

\* main.py: shutdown never hangs, whatever the sockets do.
ShutdownEnds == life = "cancelling" ~> life = "down"

\* Only a peer that does not read can hold the loop up; a broken one cannot.
BroadcastProgress ==
    \A e \in Event :
        (life = "up" /\ \E i \in DOMAIN queue[gen] : queue[gen][i] = e)
          ~> \/ life # "up"
             \/ \E i \in DOMAIN done : done[i] = e
             \/ \E s \in Socket : link[s] = "stalled"

=============================================================================
