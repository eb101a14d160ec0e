# Formal verification of the ride-matching engine

TLA+ models of `realtime-ride-matching-engine` (FastAPI workers over one Postgres and one
Redis), checked with TLC on small instances and proved with TLAPS for every number of
workers, rides, drivers and keys. All paths below are relative to the repository.

## 1. The system

| Part | State it keeps | Operations | Talks to |
|---|---|---|---|
| Rides API (`app/api/rides.py`, `app/main.py`) | none; one SQLAlchemy session per request | `POST /rides` (create, then match), `/cancel`, `/complete`; exception handlers turn errors into a response | ride service, matcher |
| Ride service (`app/services/ride_service.py`) | none | `create_ride`, `cancel_ride`, `complete_ride`, `_transition_or_raise` | repositories, surge, event bus |
| Matcher (`app/matching/matcher.py`) | none | `match_ride`: discover, rank, lock, re-check, write, commit, release | Redis lock, repositories |
| Candidate search (`candidate_search.py`, `ranking.py`, `geo.py`) | the session's identity map | ring by ring `SELECT`s, haversine ranking | drivers table |
| Tables (`app/models`, `app/storage`) | `rides`, `drivers`, `riders` | conditional `UPDATE` (`transition_status`), inserts, `get_by_id(fresh=True)` | Postgres at READ COMMITTED |
| Driver lock (`app/redis/lock.py`) | `lock:driver:{id}` holding a token, with a TTL | `SET NX PX`, compare-and-delete script | Redis |
| Surge (`app/pricing`) | none | two reads and a formula | tables |
| Event bus (`app/observability/events.py`) and WebSocket | bounded queue, set of clients | `publish` from request threads, broadcast task, attach/detach | dashboard |
| Metrics (`app/observability`) | bounded window, lifetime counters | `record_*`, `snapshot`, percentile | stats API |
| Statistics (`app/api/stats.py`, `app/api/zones.py`) | none | `GET /stats`, `GET /zones/{id}/surge`: one count after the other | tables, metrics, surge |
| Simulation (`app/simulation`) | pending lifecycle list, report | request loop, lifecycle loop, movement | the HTTP API |
| Dashboard (`dashboard/app.js`) | what the panels show, event log, ride labels | polls by timers, WebSocket with reconnect | stats and drivers API, event bus |

What makes it hard. Request threads of several server processes interleave at every database
and Redis call. A driver is protected three times (Redis lock, re-check under the lock, partial
unique index), but the lock may expire under a stalled holder. A ride row is protected by a
conditional `UPDATE` only; the driver row is written blindly at commit. Processes die with a
transaction open or a lock held. Connections break and leave a statement or a `COMMIT` in doubt. Replies of `COMMIT`, `SET` and the release script can be lost.
Clients retry while the first attempt is running. `PROJECT.json` lists the hazards line by line.

What makes it correct. Tables: no driver on two active rides; a driver row is busy exactly while
an active ride has it; a ride moves only requested → matched → closed, and a close frees exactly
its driver. Locks: only the owner (or its death, or the TTL) ends a lock, and no lock is leaked
for good. Requests: what a response claims is durable, and every request ends. Creation: one
ride, one event and one answer per idempotency key. Search: a driver that keeps still in range is
found whatever the others do, and the derived cell should follow the coordinates (it does only while no
PATCH is flushed over a location it has not loaded, section 5). Event bus: no event is
lost but by a full queue, no client sees a gap, and no broken client can stop shutdown or the others (a connected one that does not read can stop the others).
Statistics: reads made at different moments still miss no ride and no lasting demand. Metrics: a
snapshot is of one moment and a statement is charged its own time only. Simulation: outcomes are
neither lost nor doubled, the summary and the server differ by the reported errors at most, no
matched ride is dropped between its threads, and a run ends. Dashboard: what polls redraw becomes
fresh, one stream at a time.

## 2. Modules

| Module | Role |
|---|---|
| `RideTypes` | status sets shared by the next three |
| `RideDispatch` | abstract specification: `Request`, `Match`, `Close` as atomic steps on the committed tables |
| `RideMatching` | `match_ride`, `cancel_ride`, `complete_ride` and the orchestration in `request_ride`, statement by statement, with faults |
| `MCRideMatching` | symmetry sets for TLC |
| `RideCreation`, `MCRideCreation` | `create_ride` and the unique key |
| `CandidateSearch`, `MCCandidateSearch` | `find_ranked_candidates` against a drivers table that changes between its ring queries; `POST /drivers` and `PATCH /drivers/{id}/location` |
| `EventBus` | `publish` on request threads, the bounded queue, the broadcast task, WebSocket clients, and the lifespan hook; its run checks it directly |
| `Stats`, `MCStats` | `get_stats`, `surge_by_zone` and `zone_surge` statement by statement over tables that move by `RideDispatch`'s steps; the surge formula |
| `Metrics`, `MCMetrics` | `MetricsTracker` with its lock as a variable, the statement timer of `db_metrics.py`, `percentile` |
| `Simulation` | `app/simulation` as a client of `RideDispatch`, with calls that time out |
| `Dashboard` | `app.js`: polls in flight, the WebSocket, the event log, ride labels |
| `RideMatchingProofs` | safety and refinement theorems of `RideMatching`; the Redis lock alone is enough until a lock ends before the transaction it protects |
| `RideCreationProofs`, `CandidateSearchProofs`, `EventBusProofs`, `SimulationProofs`, `DashboardProofs`, `MetricsProofs`, `StatsProofs` | theorems of the module each extends |

`RideMatching` composes the API, the service, the matcher, the tables and the lock. Its discovery
step admits every outcome of `CandidateSearch`, and `CandidateSearch`'s `ChangeStatus` every booking
or release of `RideMatching`, so each is the other's environment; `RideCreation` ends where
`RideMatching`'s `CreateRide` begins; `EventBus` receives what both emit and `Dashboard` shows it.
`Stats` and `Simulation` are composed with `RideDispatch` (`INSTANCE ... WITH`): they see the service
as the atomic steps that `RideMatching` is proved to implement.

### RideMatching and the code

A worker is one request thread. `pc[w]` names the next call that reaches Postgres or Redis, and
everything between two such calls is one step.

| `pc` | Code |
|---|---|
| `load` | `request_ride` reads `ride.status` (rides.py:57) |
| `search` | `find_candidate_drivers`; `ScanDriver` reads one driver at some moment, `EndSearch` ends it |
| `pick` | the candidate loop: `AcquireLock`, `LockContended`, `NoDriverAvailable` |
| `recheck` | `get_by_id(fresh=True)` under the lock |
| `update` | `transition_status`: `TransitionRide` (rowcount 1) or `TransitionLost` (0, then rollback) |
| `index` | the same `UPDATE` entering the new row version into `ux_rides_one_active_ride_per_driver` |
| `free` | cancel/complete: refresh and load of the ride's driver inside the transaction |
| `commit` | flush of `driver.status` and `COMMIT`: `ApplyCommit` |
| `refresh`, `release`, `respond` | `db.refresh`, `finally: release_lock`, the response and `get_db`'s close |

`rideStatus`, `rideDriver`, `driverStatus` are the committed rows. Uncommitted writes are not
stored: a transaction at `index`, `free` or `commit` holds the row lock of its ride (`HoldsRow`), and a
matcher's at `commit` holds an uncommitted index entry for its candidate (`EntryInDoubt`). `Stage(w)` is
where the server's transaction is: at `pc[w]`, or at `lost[w]` once the client is gone, which the server
does not know yet. A unique
check waits for transactions that inserted or are removing an entry for the same driver, then
succeeds (`IndexInsert`) or raises (`IndexConflict`). Since the check belongs to the `UPDATE`, the
exception leaves `match_ride` through `finally`, not through the handler around `db.commit()`.
`Unwind` is that `finally`, for a worker inside the `try`; `LOCK_ACQUIRED` is emitted between the `SET`
and the `try`, so an emit that raises there leaves a lock nobody releases (`EmitFails`). `ApplyCommit` writes `driver.status` only if it differs from what the
session loaded, as SQLAlchemy does.

Candidates are a set tried in any order, found at any moments: a superset of what rings and
ranking produce. `in_progress` and `offline` are statuses no code path writes for an existing row
here, so they are reachable in no run; the sets that mention them (`RideStatus`, `DriverStatus`,
`ActiveStatuses`, `CompletableStatuses`) are kept as written. Drivers
do not register, move or go offline during a run.

Faults, each enabled by a member of `Faults`: `stall` (TTL elapses under a live holder); `crash` (the
process dies with its transaction open); `net` (the connection breaks under a writing transaction: the
thread gets its exception and goes on, through `finally`, while the server's side stays at the statement
it was given); `db` (the server refuses a statement or the `COMMIT`, or the pool has no connection);
`redis` (`SET` or the release script fails with or without taking effect); `bus` (an emit raises). After
`crash` or `net` the transaction is on its own: `Adrift` is the server finishing an `UPDATE` it was given,
row lock and index entry included, and `Reap` its noticing, any time later, that the client is gone:
it rolls back, or applies a `COMMIT` that had arrived. Until then the lock may have been released,
acquired by another matcher and so on.
A worker stands for its request until its transaction has ended too.

`locks` is a history variable, recorded when `Watch` is set: it turns to `disturbed` when a lock expires
under its holder, or a matcher's transaction outlives its client. `LockSuffices` is what holds until then.

### RideCreation and the code

A request carries a fixed key and payload and is sent at any moment. `Lookup` is the key look-up
with the payload comparison; `Quote` the surge reads; `Insert` waits while another transaction
holds the key uncommitted, then passes or loses; `CheckRider` is the foreign key, checked at the
end of the same statement; `Winner` the `except IntegrityError` branch; `Emit` the event and the
return. A retry is another request with the same key. A ride is named after its inserter. Faults are
`crash`, `net`, `db` and `bus` as above: the client of a request in `gone` has its error or is dead, while the
transaction is where `pc` says; `Adrift` lets its `INSERT` enter the key, `Reap` ends it, with its `COMMIT` if
that had arrived. `EmitFails` is the exception of an `emit` after the commit.

### CandidateSearch and the code

`QueryRing` is one turn of the loop of `find_ranked_candidates`: one `SELECT` of the available
drivers in the cells of one ring, then the test against `match_target_candidates`. A row that the
session already holds keeps the values it was loaded with (SQLAlchemy's identity map), so `found`
keeps a driver's first place. `RankCandidates` sorts by the distance of that place. Places, cells,
rings and distances are constants that say only what the code uses: `CellOf` (`latlng_to_h3`),
`RingOf` (`grid_disk`), `DistOf` (`haversine_km`). A location update is two steps, `LoadDriver` and
`UpdateLocation`, since the row is read without a lock and the flush writes only the columns whose
value changed; `zone_id` is written like `h3_index`, so `cell` stands for both. Any number of requests may
have loaded one driver: neither the repository nor the endpoint prevents it, and the simulation's own
movement thread does it when a PATCH times out on the client and is still being handled by the server. `steady` is a history
variable: the drivers whose row did not change since the search began.

### EventBus and the code

Each lifespan of the application has its own loop and queue. On the loop's thread a step runs to
the next `await`; request threads run `publish` in three steps, the two attribute reads (`Emit`,
`ReadQueue`) and `call_soon_threadsafe` (`Schedule`), interleaved with the two assignments of
`attach` and `detach`. `PutNowait` is a callback run by the loop, in the order handed over. The
broadcast task takes an event and copies the connections (`Get`), and then awaits one `send_json`
after the other (`NextSocket`, `Send`, `SendFails`); a cancellation reaches it at any of its awaits
(`TaskCancelled`). A socket is `up`, `stalled` (the peer does not read, so a write waits), `broken`
or `closed`. `log`, `done`, `dropped` and `joined` are history variables.

### Stats and the code

`Plan` is the order in which `get_stats` evaluates its queries: the three active statuses (the order
of the tuple `ACTIVE_RIDE_STATUSES`), the zones and their surge, then available, busy, completed and
cancelled. Each count is one statement at READ COMMITTED, hence one step; between two of them rides
are requested, matched and closed and drivers cross zones. The demand window is fixed once
(`OpenWindow`) and passed on to each `zone_surge`, which reads demand (`CountDemand`) and supply
(`CountSupply`) apart. `GET /zones/{id}/surge` and `create_ride`'s quote enter at `BeginZoneSurge`.
`created_at` is the start of the inserting transaction, so a ride may become visible a tick late.
Multipliers are integers in units of 1/`Unit`, where `Unit` is twice the constant `Sensitivity`, which every
supply up to `MaxSupply + 1` divides (`UnitsAssumption`): each quotient of the formula is exact, for a fleet
of any size, as far as the code's floats are.
`existed` and `held` are history variables.

### Metrics and the code

`+=` on a counter is a read and a write-back, and the `threading.Lock` is the variable `holder`, so
mutual exclusion is something the run checks. `snapshot` copies the window, then the totals, under
the lock, and computes outside it. `BeforeExecute` and `AfterExecute` are the two engine listeners;
`starts[c]` is `conn.info["query_start_times"]`. A statement that raises (`ExecuteFails`) calls no
second listener and leaves its start time there. `DbLatencyTracker`'s lock covers one append or one
sort, so these are single steps. `Percentile` is `statistics.quantiles(n=100, method="inclusive")`
of the sorted values (`Sorted`) at the cut point the code selects (`CutIndex`), times 100 so that it stays
an integer. Besides the two windows the property looks at every list of up to `MaxSample` values.

### Simulation and the code

The main thread creates drivers, starts the movement and the lifecycle thread, and fires bursts: riders one by one,
then a barrier of as many parties as riders and a pool of as many threads. A worker's `POST /rides`
is handled by `RideDispatch` in two commits (`ServerCreates`, `ServerMatches`) or refused, and the
worker may give up at any moment (`RequestRaises`): the server goes on without it. The lifecycle
thread computes the list of remaining rides (`TakeDue`) and assigns it (`AssignPending`) under
`_pending_lock`, then makes one call after the other; a call that raises may have been done, not
done, or still to be done (`CloseRaises`). The movement thread alternates between its ticks (`BeginMove`,
`EndMove`: one `PATCH` per driver in a pool, each of which returns or raises) and its sleep, and looks at
the stop event between the two only. `run()` waits at most five seconds for each thread.

### Dashboard and the code

A poll is asked, answered with the server's version at that moment, and drawn, failing anywhere in
between; `setInterval` starts the next one regardless. The version numbers stand for the contents of
a panel: `shown[p]` is the version panel `p` was redrawn from. On the map that is the markers' positions,
colours and presence; a tooltip is bound when its marker is made, so `tooltip[d]` is a version of its own
that later answers leave alone (`Tooltips`), and `born[d]` the first version that lists the driver. The highest
multiplier of the session and the zone labels are not modelled. A socket is connecting, open or closing until its `close` event, whose handler sets the
two-second timer; `onerror` only closes. An event with no entry in `EVENT_LABELS` is dropped before
it is labelled or logged.

## 3. Runs

| Run | Instance | Shows |
|---|---|---|
| `matching_faults` | 2 workers, 2 rides, 2 drivers, all six faults | `TypeOK`, `OneActiveRidePerDriver`, `BusyIffActive`, `OneWriterPerDriver`, `AnswersAreTrue`, `LockSuffices`, `NoForeignRelease`, `ImplementsDispatch` |
| `matching_live` | 2 workers, 2 rides, 1 driver, crash + redis + bus, with fairness | `RequestAnswered`, `LockEventuallyFree` |
| `creation` | 3 requests, 1 key or none, 1 valid payload and the unknown rider, crash + net + db + bus, with fairness | `TypeOK`, `OneRidePerKey`, `SameKeySameRide`, `ConflictIsReal`, `OneEventPerKey`, `RequestEnds` |
| `event_bus` | 2 threads, 2 sockets, a queue of 1, 2 events, 2 lifespans, with fairness | `TypeOK`, `Conserved`, `Gapless`, `ShutdownEnds`, `BroadcastProgress` |
| `search` | 3 drivers, 4 places in 3 cells, 1 PATCH at a time, rings 0-1 of 0-2, target 2 | `TypeOK`, `StayersAreFound`, `NearestOfSearched` |
| `metrics` | 2 threads, 1 connection, window of 2, 3 attempts, 2 statements or contentions, 2 ticks, samples of up to 4 values | `ThroughputWithinWindow`, `SnapshotConsistent`, `PercentilesAreOrderStatistics`, `DurationsAreOwn` |
| `stats` | 2 rides, 1 driver, 2 zones, window of 1 of 2 ticks; formula up to 3 drivers and 12 rides more | `EveryRideCounted`, `QuoteReflectsDemand`, `SurgeFormula` |
| `simulation` | 3 riders in bursts of 2, 2 drivers, with fairness | `CrossCheck`, `BusyIsAccountedFor`, `RunEnds` |
| `dashboard` | the map with 1 driver and 2 polls in flight, 2 sockets, 2 rides, 3 events, a log of 2, with fairness | `OneConnection`, `LogIsNewest`, `LabelsIdentify`, `EventuallyFresh`, `Reconnects` |
| `finding_index`, `finding_reuse`, `finding_cells` | smallest instance | one documented statement each that the code does not keep (section 5) |

Bounds. Nothing in the matching, creation and search models counts, so their state space is finite
without caps; only the sets are small. A double booking needs two rides and one driver, and two matchers. Two drivers are needed only for
going on to another candidate. `matching_live` has no `net`: a lost connection leaves the same kind of
transaction as a crash, which `Reap` ends; the instance that has it as well was checked apart, as it takes
more than twice the time. Three requests with one key give an original, a concurrent duplicate and a
late retry. The safety runs are backed by proofs for sets of any size. Rides are not recycled, so
`CreateRide` happens once per ride; replays, cancels and completes repeat without limit.
In `search` one place is nearer than another although in a farther cell, one ring lies beyond
`MaxRing`, and three drivers are one more than the target, so that a search can stop early, miss a
moving driver and rank a moved one. `EventBus` has the two named caps `MaxEvents` and
`MaxLifespans`: two events fill a queue of one while a third place, the callback, is taken, and two
lifespans let a publisher that read the first one's loop meet the second's queue.
Deadlock is checked in the matching runs (a closed ride can always be replayed); `creation` says
`CHECK_DEADLOCK FALSE` because it ends when all requests have, `event_bus` because its last
lifespan may end, `simulation` because a run ends, and `metrics` because its named caps
(`MaxAttempts`, `MaxCalls`, `MaxClock`) are used up. In `metrics` three attempts overflow a window of
two and age out of a trailing time of one tick, and one connection is shared so that a start time
left by a failed statement is met by a later one. In `stats` a ride can be in the window, on its edge
or past it, and each zone can be with or without the driver; two rides alone would never reach the cap,
so `SurgeFormula` looks at every demand up to `MaxDemand` above the one in hand (the cap is at four rides
per driver, 12 for the three drivers of `MaxSupply`). In `simulation` three riders give a full
burst and a short one, and any of them may be skipped. The two panels of the dashboard do not
interact, so one is checked, the map, which also has markers; three events for a
log of two make order and trimming visible at once; `MaxChanges` and `MaxEvents` are its caps, `Poll` and `Sock` bound what
is alive at once (`OneConnection` shows that one socket is).

Symmetry is used in safety runs only: workers, rides and drivers are interchangeable there.

Fairness. `WF Proceed(w)`: a live thread keeps running its request (these steps never block).
`SF (TransitionRide or IndexInsert or IndexConflict)`: a statement waiting for a row or an index
entry is in Postgres's lock queue, which serves waiters in order, while the row may be taken and
released in between; weak fairness would be too little. `WF Reap`: Postgres notices a dead
client (gone or dead). `WF Expire`: Redis expires keys; for a lock with a live holder and no `stall` the action
is disabled. `RideCreation` needs weak fairness only. `EventBus`: the loop runs its callbacks
(`WF PutNowait`), every task that can go on (`WF Broadcast`, `WF Unregister`) and the shutdown hook
(`WF Stop`); `SF Send`, because a write that waits for room is woken each time the peer reads on.
`Simulation`: every thread runs (`WF`, the movement thread's ticks included), and a worker gets `_pending_lock`, free again and again
(`SF`); its server needs no fairness, because httpx gives every call a timeout. `Dashboard`: timers
fire and a closing socket closes (`WF`), and the network is not down for good: a fetch or a
connection tried again and again succeeds again and again (`SF`).
Nothing is assumed about clients, request threads' `publish`, shutdown being asked for, or faults.

`Stats`, `Metrics`, `Simulation` and `Dashboard` state their variables' types as `TypeOK` too; it holds
on the same instances (add it to the cfg's INVARIANTS), but is not one of the questions those
runs ask.

Every property has a mutant in `PROJECT.json`: a definition with a plausible bug (kept beside
the original, marked `Mutant:`) under which the property fails.

## 4. Proofs

Every safety invariant and action property of the passing runs is a theorem for all values of
the constants; further theorems state what no run asks, above all why the liveness properties hold as
far as that is safety: who can wait for whom, and what cannot happen twice. Each proofs module defines an inductive invariant `IInv`, a conjunction of named parts;
TLC checked each `IInv` as an invariant of the module's run instance before it was proved. A step
lemma per part goes through the actions, and the theorems follow from `Spec => []IInv`.

**RideMatching** (`IInv == TypeOK /\ Shape /\ Store`).

* `Store` is what the tables must satisfy by themselves: a ride has a driver only from `matched`
  on, active rides have distinct drivers, and a driver is busy exactly while an active ride has it.
* `Shape` ties each worker's program counter to what its open transaction knows: at `index`,
  `free` and `commit` the committed ride still has a status the operation may leave (the row lock
  keeps it so), no two workers hold one row, and a closer's `cand` is the ride's current driver;
  at `commit` a matcher's driver has no committed entry, no other matcher at `commit` has it, and
  no closer is removing it; `seen` agrees with the driver row, so the conditional flush writes
  exactly when it must.

The named properties alone are not inductive: `BusyIffActive` survives a commit only because the
committing transaction's view is still true, which is what the row lock and the unique entry
give.

* `TypeCorrect`, `NoDoubleBooking`, `TablesAgree`, `SingleDriverWriter`: `Spec => []P`.
* `DispatchRefinement`: `Spec => Dispatch!Spec`; each `ApplyCommit` is a `Match` or a `Close`,
  `CreateRide` is `Request`, everything else stutters.
* `LocksAreOwned`: the action property `NoForeignRelease`.
* `ResponsesAreTrue` (`AnswersAreTrue`): what the tables say of a ride only moves forward, so an answer
  that was true when it was given stays true until the worker is reused.
* `LockIsEnough` (`LockSuffices`), whatever `Faults` is: until a lock expires under its holder or a matcher's
  transaction outlives its client, no matcher at the unique index meets an entry or another transaction.
  The invariant adds that a matcher between `recheck` and `release` owns its driver's lock, so the
  re-checked status cannot be changed by another matcher before its commit (closers can only make a driver
  available), and that no matcher's transaction has been left behind. The condition is needed: after a lost
  connection `finally` releases the lock while the `COMMIT` is in doubt, and the next matcher may meet its entry.
* `NoDeadlock` (`WaitsEnd`): `WaitsFor` is the waiting of one open transaction for another, and
  `WaitsAreAll` says there is no other waiting. Nobody waits for a request that is itself waiting, but
  for a matcher at the unique index; what such a matcher waits for is past its last wait. Chains of
  three do occur (a closer behind a matcher behind a committing matcher), longer ones and cycles do not.
* `NoLockIsLeaked` (`LocksAreInUse`): a token in Redis belongs to a live request inside `try ... finally`
  with that driver in hand. Together with `Orphan` (a lost reply, a dead holder, an emit that raised before
  the `try`), which only the TTL clears, this is the safety part of
  `LockEventuallyFree`.
* `HistoryStands` (`History`, an action property): at most one ride moves per step, along an edge of its
  life; its driver is written once; a driver's status moves only with a ride of that driver.
* `DispatchIsSafe`: `RideDispatch` alone implies `OneActiveRidePerDriver` and `BusyIffActive`, so what
  `Stats` and `Simulation` are composed with promises what the tables do.

**RideCreation**: `WellTyped`, `KeysAreUnique`, `RetriesReturnTheRide`, `ConflictsAreDeserved`,
`EventsAreUnique`. A conflict is deserved because the stored ride it was compared with is never
changed or removed. `LosersGetTheRide` (`ErrorIsAboutRider`): for the same reason the `except
IntegrityError` branch, entered for a taken key, finds that key taken, and an `IntegrityError` that
leaves `create_ride` is always about the rider.

**CandidateSearch**: `SearchIsTyped`; `SearchIsComplete` (`StayersAreFound`), whose invariant says, at
every turn of the loop, that each steady available driver in a ring already queried was found;
`NearestComesFirst` (`NearestOfSearched`), which adds that a steady driver's place is still the one it
was found at and that ranking orders by it; and `CellsFollowLocations`: PATCHes of one driver may
overlap, but as long as none is flushed over a place or a cell other than those it loaded (`WriteOver`),
`CellOfLocation` holds. Nothing in the code ensures the condition; `finding_cells` breaks it.

**EventBus**: `BusIsTyped`, `NothingIsLost` (`Conserved`), `EverySocketSeesAll` (`Gapless`).

* `Publishers`, `OwnQueue`, `Phase`: a publisher between reading `_loop` and scheduling holds the loop
  and queue of some lifespan, and the broadcast task reads only its own lifespan's queue.
* `Fresh`, `Counted`: an event is handed over at most once, and the ones under way are in the history.
* `Conserved` itself is inductive with them: what is with the loop, in the queue and broadcast, put end
  to end (`Through`), is the history without the dropped events, element for element and in order
  (`KeepsAllBut`). Moving an event from one part to the next leaves `Through` as it is.
* `TaskShape`, `Stream`: for every live socket the events sent, plus the one pending in this round of
  the broadcast, are `done` from where it registered, position by position.
* `UnlockedReadsAreSafe` (`LoopAndQueueMatch`): `publish()` reads `_loop` before `_queue`, `attach` and
  `detach` assign them in the same order, so a loop that is still open is met with its own queue only.
* `NothingStopsTheBroadcaster` (`BroadcasterLives`), the safety part of `BroadcastProgress`: the task ends by
  its cancellation only, and the only step of it that can wait is a send to a stalled peer.

**Simulation**: `SimulationIsTyped`, `NoDriverIsForgotten` (`BusyIsAccountedFor`), `SummaryAgreesWithServer`
(`CrossCheck`). `Bursts` and `Workers` say what each rider's slot means for its ride on the server and
for its recorded outcome; `Tick` says that while the thread holds the lock to replace `_pending_rides`
every pending ride is either due or kept, and `Handover` that a ride reported as matched is pending,
in the lifecycle thread's hands or given up by it (`lost`) until it is closed. The count in `CrossCheck` follows from a map of the matched rides into
the recorded ones.

* `BurstsAreSimultaneous` (`AllAtOnce`): no request of a burst is sent while one of its workers has not
  reached the barrier. `Together` adds what the creation of riders leaves in the slots.
* `BurstIsNeverStuck` (`SomebodyGoesOn`), the safety part of `RunEnds`: as the pool is as large as the
  barrier, the workers that hold a thread are a proper subset of the parties as long as one has none.
* `PoolDoesNotDeplete` (`PoolIsAccountedFor`): `BusyIsAccountedFor` is about rides; that every busy driver
  has exactly one active ride (`Tables`) makes it a statement about drivers.

**Dashboard**: `DashboardIsTyped`, `OneStream` (`OneConnection`), `LogShowsTheNewest` (`LogIsNewest`) and the
action property `LabelsAreStable` (`LabelsIdentify`). `Flow` says that what is on its way to the open
socket is newer than all that was received and that a socket that is not open has nothing on its way,
so a reconnect cannot repeat an event; `LogTail` is the log position by position; `Labels` bounds every
label by the number of labelled rides, so the next label is new. `PanelsSettle` (`NotAhead`, `Markers`, `FallBack`)
is the safety part of `EventuallyFresh`: what a panel was redrawn from was true once, the map has the markers
of that moment, and while the server rests the set of stale answers only shrinks, and a panel that falls back
uses one up. Of a tooltip it says no more than that it was true at some moment of its driver's life.

**Metrics**: `MetricsAreTyped`, `TimerIsHonest` (`DurationsAreOwn`), `SnapshotIsOfOneMoment`
(`SnapshotConsistent`), `ThroughputIsOfTheWindow` (`ThroughputWithinWindow`), `PercentilesAreRight` (`PercentilesAreOrderStatistics`).

* `Mutex` and `Counters`: the lock belongs to the one thread inside a `with` block, so what a thread has
  read is still the counter's value when it writes, and `failed` lacks at most the attempt whose thread
  is about to count it.
* `Windows`: a deque with `maxlen` is the end of the history of what was pushed to it.
* `Statements`: a running statement has its connection to itself, and the last start time on that
  connection's list is its own, above those that failed statements have left.
* `Past`: nothing is stamped with a time ahead of the clock, and the history's stamps are in order.
  `ThroughputWithinWindow` needs the order: if an attempt the deque has forgotten were in the trailing time, so
  would be all after it, which are more than `WindowSize`.
* `PercentilesAreRight` needs nothing of the state but its types. `Sorted` applies an order taken from
  `SortingOrders`; that one exists for every window (`OrdersExist`) is an induction over its length, made
  as the search for a least counterexample (`WFMin`), as the library's induction rules cannot be
  instantiated here. Then the values at or below a place are counted by the places themselves
  (`CountByPlaces`), and a cut point lies between its two neighbours (`Interpolation`, `Between`).

**Stats**: `StatsAreTyped`, `NoRideIsMissed` (`EveryRideCounted`), `QuotesShowDemand` (`QuoteReflectsDemand`),
`FormulaIsRight` (`SurgeFormula`). Which rides a count met is not part of the state, so `Counting` says
that *some* set of rides no larger than the sum so far leaves, of those that existed, only rides whose
status a later count will still meet; that a ride only moves forward through the order of the plan keeps
it so (`LifeGoesOn`). `Held` and `Covered` carry the demand of the rides held from the window's start through the
demand query to the quote, by the monotonicity of the formula in demand and supply (`SurgeMonotone`, for
every demand and supply). `FormulaIsRight` rests on `ExactShare`: the units make each quotient an integer, so
that below the cap the multiplier is the exact share of a driver and the cap is met at four rides per driver.

Assumptions: the constants' null values are distinct (`NoDriverAssumption`, `WorkerAssumption`, ...),
`Faults` names known faults, bounds are natural numbers and a window is not empty, and the tables are
finite where their rows are counted or ranked (`DriverAssumption` of `CandidateSearch`, `TablesAssumption` of
`Stats`, `DashboardAssumption`); `UnitsAssumption` of `Stats` says that the fleet is at most `MaxSupply` and that
`Sensitivity` is a multiple of every supply (such a number exists for every fleet). TLC evaluates them in every run.

Model-checked only: the liveness properties `RequestAnswered`, `LockEventuallyFree`, `RequestEnds`,
`ShutdownEnds`, `BroadcastProgress`, `RunEnds`, `EventuallyFresh` and `Reconnects` (fairness and `ENABLED` are outside
the prover); the theorems above on waiting, locks, the broadcaster, bursts and panels are their safety parts.

## 5. Where the code and its documentation disagree

* `finding_index`: matcher.py:26-28 says an index rejection is treated as a lost race and the next
  candidate is tried. The `UPDATE`, not the commit, raises `IntegrityError`; the request ends with
  a 503. Safety is kept.
* `finding_reuse`: README.md:86 says reuse of a key with another payload is 409. The loser of an
  insert race gets the winner's ride without the comparison.
* `finding_cells`: models/driver.py:26 calls `h3_index` the cell of the driver's current location. Two
  overlapping PATCHes can leave the coordinates of one with the cell of the other, until the driver moves
  to another cell; `CellsFollowLocations` says what would prevent it.

Also visible in the models, and not stated as runs:

* ride_service.py:7-8 says a retry with the same key returns the same ride. A retry that overlaps the
  original's match runs `match_ride` on the same ride and can get 409 for a ride that is matched
  (`TransitionLost`); `AnswersAreTrue` says what such an answer does mean.
* events.py:95-96 says one slow client must never stop the broadcast loop for the others. A client
  that stays connected and stops reading does, until it reads on or disconnects; `BroadcastProgress`
  says that it is the only thing that can.
* metrics.py:21-22 calls the throughput an exact count of the trailing minute. It is, as long as at
  most `metrics_window_size` attempts fell into it; beyond that it undercounts. `ThroughputWithinWindow`
  claims no more than the first half.
* runner.py:123-134: a ride whose closing call failed is never tried again, and one whose `POST` timed
  out is never scheduled, so their drivers stay busy, as do those of the rides still pending when the
  run stops. `BusyIsAccountedFor` says there are no others.
* app.js:48 binds a marker's tooltip when it is created; a poll updates the colour (51-52) and not
  the tooltip, which then names an old status for good, although app.js:1-5 wants the state eventually fresh.
  `EventuallyFresh` is about what a poll does redraw.
* app.js:242-243 says the log reads in the order things happened. It is the order of the broadcasts
  (`LogIsNewest`): two requests emit after their commits without a common lock, so a cancel can be logged
  before the match it follows.

A 503 after `COMMIT` does not mean that nothing
was committed, nor that nothing will be (`ConnectionLost`, then `Reap`), and a lost `SET` reply, or an
emit that raises before the `try` (matcher.py:141-146), leaves the driver locked by a token nobody
knows until its TTL (`AcquireFails`, `EmitFails`); `LockEventuallyFree` says that this ends. main.py:72-73 says every error is a
structured envelope, but an exception of `release_lock` is not mapped and replaces even a committed
match's result (`ReleaseFails`, result `unhandled`). A publisher that read the loop before shutdown
and calls it after it was closed gets a `RuntimeError` (`Schedule`), which fails a request whose
transaction may be committed (`EmitFails` of both modules).

## 6. Not modelled, and the plan

Out of reach or without behaviour of their own: H3, haversine and random-walk arithmetic (`geo.py`,
`generators.py`, `movement.py`), argument parsing and settings, response schemas, HTML/CSS and the
map's transient animations, migrations, load tests, the read-only endpoints and `/health`. Of a
movement tick of the simulation only its beginning and end are modelled; the PATCHes it sends are
`CandidateSearch`'s. The connection pool has no module: its timeout is a failing statement. After a
commit or rollback `match_ride` takes a connection again while it holds the driver lock, so this wait, like
any other delay, can outlast the lock's TTL (`stall`); no row lock is held while waiting for a connection, so
the wait cannot be part of a cycle.

Open: the composition of `RideMatching` with `Stats` and `Simulation` as one theorem. It now rests on
`DispatchRefinement`, on `DispatchIsSafe` and on both modules taking `RideDispatch`'s steps.
