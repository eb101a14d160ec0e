-------------------------------- MODULE Stats --------------------------------
(***************************************************************************)
(* GET /stats and GET /zones/{id}/surge: a reader that asks Postgres one   *)
(* count after the other, each a statement with a snapshot of its own,     *)
(* while the dispatch service (RideDispatch) goes on changing the tables.  *)
(* The floats of the surge formula are integers in units of 1/Unit, chosen  *)
(* so that every quotient of a demand by a supply of the fleet is exact.    *)
(***************************************************************************)
EXTENDS RideTypes, Integers, Sequences, FiniteSets, FiniteSetsExt

CONSTANTS
    Zone,           \* surge zones, H3 cells at surge_zone_resolution
    NoZone,         \* no zone in hand; the zone of a row that does not exist
    DemandWindow,   \* settings.surge_demand_window_seconds, in clock ticks
    MaxClock,       \* bound: clock ticks
    Sensitivity,    \* settings.surge_sensitivity, 0.5
    MaxSupply,      \* bound: drivers in a zone, for which the units are exact
    MaxDemand       \* bound: rides in a zone, where the formula alone is examined

ASSUME NoZoneAssumption == NoZone \notin Zone
ASSUME ClockAssumption == DemandWindow \in Nat /\ MaxClock \in Nat
ASSUME TablesAssumption == IsFiniteSet(Ride) /\ IsFiniteSet(Driver)
ASSUME UnitsAssumption ==
    /\ Sensitivity \in Nat \ {0} /\ MaxSupply \in Nat /\ MaxDemand \in Nat
    /\ Cardinality(Driver) <= MaxSupply
    /\ \A sup \in 1..(MaxSupply + 1) : Sensitivity % sup = 0

Unit == 2 * Sensitivity             \* 1.0
MaxMultiplier == 6 * Sensitivity    \* settings.surge_max_multiplier, 3.0

VARIABLES
    rideStatus, rideDriver, driverStatus,
    rideZone,       \* rides.zone_id
    createdAt,      \* rides.created_at
    driverZone,     \* drivers.zone_id
    clock,
    pc,             \* position in Plan, 0 when no request is served
    kind,           \* which endpoint it is
    since,          \* start of the demand window, fixed at the first surge query
    todo,           \* zones whose surge is still to be computed
    zone,           \* the zone between its two counts
    demand,         \* its demand
    count,          \* counts answered so far, by status
    quote,          \* multipliers computed so far, by zone
    existed,        \* history: rides that existed when the request began
    held            \* history: rides in the window at its start, active ever since

tables == <<rideStatus, rideDriver, driverStatus, rideZone, createdAt, driverZone>>
reader == <<pc, kind, since, todo, zone, demand, count, quote>>
vars == <<tables, clock, reader, existed, held>>

Dispatch == INSTANCE RideDispatch WITH
    rideStatus <- rideStatus, rideDriver <- rideDriver, driverStatus <- driverStatus

\* Mutant: the statuses are summed from the last to the first.
ActiveOrderReversed == <<"in_progress", "matched", "requested">>

\* sum(... for status in ACTIVE_RIDE_STATUSES), a tuple.
ActiveOrder == <<"requested", "matched", "in_progress">>

\* The queries of get_stats in the order they are made.
Plan == ActiveOrder \o <<"zones", "surge", "available", "busy", "completed", "cancelled">>

\* Where the plan enters surge_by_zone, and the loop over its zones.
ZonesStep == 4
SurgeStep == 5

Counted == RideStatus \cup DriverStatus

TypeOK ==
    /\ rideStatus \in [Ride -> RideStatus]
    /\ rideDriver \in [Ride -> Driver \cup {NoDriver}]
    /\ driverStatus \in [Driver -> DriverStatus]
    /\ rideZone \in [Ride -> Zone \cup {NoZone}]
    /\ createdAt \in [Ride -> 0..MaxClock]
    /\ driverZone \in [Driver -> Zone]
    /\ clock \in 0..MaxClock
    /\ pc \in 0..(Len(Plan) + 1)
    /\ kind \in {"stats", "zone"}
    /\ since \in (-DemandWindow)..MaxClock
    /\ todo \subseteq Zone
    /\ zone \in Zone \cup {NoZone}
    /\ demand \in 0..Cardinality(Ride)
    /\ count \in [Counted -> 0..(Cardinality(Ride) + Cardinality(Driver))]
    /\ quote \in [Zone -> {0} \cup (Unit..MaxMultiplier)]
    /\ existed \subseteq Ride
    /\ held \subseteq Ride

Nothing == [s \in Counted |-> 0]
NoQuotes == [z \in Zone |-> 0]

Init ==
    /\ Dispatch!Init
    /\ rideZone = [r \in Ride |-> NoZone]
    /\ createdAt = [r \in Ride |-> 0]
    /\ driverZone \in [Driver -> Zone]
    /\ clock = 0
    /\ pc = 0 /\ kind = "stats" /\ since = 0 /\ todo = {} /\ zone = NoZone /\ demand = 0
    /\ count = Nothing /\ quote = NoQuotes
    /\ existed = {} /\ held = {}

-----------------------------------------------------------------------------
\* The tables change: the atomic steps of RideDispatch.

\* created_at is now(), the start of the inserting transaction, so a ride can
\* be older than the moment it becomes visible.
Request(r, z, t) ==
    /\ Dispatch!Request(r)
    /\ t \in {clock - 1, clock} \cap Nat
    /\ rideZone' = [rideZone EXCEPT ![r] = z]
    /\ createdAt' = [createdAt EXCEPT ![r] = t]
    /\ UNCHANGED <<driverZone, clock, reader, existed, held>>

Match(r, d) ==
    /\ Dispatch!Match(r, d)
    /\ UNCHANGED <<rideZone, createdAt, driverZone, clock, reader, existed, held>>

Close(r) ==
    /\ Dispatch!Cancel(r) \/ Dispatch!Complete(r)
    /\ held' = held \ {r}
    /\ UNCHANGED <<rideZone, createdAt, driverZone, clock, reader, existed>>

\* PATCH /drivers/{id}/location across a zone border.
MoveDriver(d, z) ==
    /\ driverZone[d] # z
    /\ driverZone' = [driverZone EXCEPT ![d] = z]
    /\ UNCHANGED <<rideStatus, rideDriver, driverStatus, rideZone, createdAt, clock,
                   reader, existed, held>>

Tick ==
    /\ clock < MaxClock
    /\ clock' = clock + 1
    /\ UNCHANGED <<tables, reader, existed, held>>

-----------------------------------------------------------------------------
\* The queries.

CountByStatus(s) ==
    IF s \in RideStatus THEN Cardinality({r \in Ride : rideStatus[r] = s})
                        ELSE Cardinality({d \in Driver : driverStatus[d] = s})

Recent(r, t) == rideStatus[r] # "none" /\ createdAt[r] >= t

CountRecentActiveInZone(z, t) ==
    Cardinality({r \in Ride : rideZone[r] = z /\ Recent(r, t) /\ rideStatus[r] \in ActiveStatuses})

CountAvailableInZone(z) ==
    Cardinality({d \in Driver : driverStatus[d] = "available" /\ driverZone[d] = z})

ListRecentZoneIds(t) == {rideZone[r] : r \in {s \in Ride : Recent(s, t)}}

\* Mutant: the multiplier is not capped.
SurgeMultiplierUncapped(dem, sup) ==
    Max({Unit + (Sensitivity * dem) \div Max({sup, 1}), Unit})

\* The formula: clamp(1 + sensitivity * demand / max(supply, 1), 1, max).
SurgeMultiplier(dem, sup) ==
    LET raw == Unit + (Sensitivity * dem) \div Max({sup, 1})
    IN  Min({Max({raw, Unit}), MaxMultiplier})

-----------------------------------------------------------------------------
\* The reader.

\* now - surge_demand_window_seconds, and which rides count from here on.
OpenWindow ==
    /\ since' = clock - DemandWindow
    /\ held' = {r \in Ride : Recent(r, clock - DemandWindow) /\ rideStatus[r] \in ActiveStatuses}

BeginStats ==
    /\ pc = 0
    /\ pc' = 1
    /\ kind' = "stats"
    /\ existed' = {r \in Ride : rideStatus[r] # "none"}
    /\ UNCHANGED <<tables, clock, since, todo, zone, demand, count, quote, held>>

\* GET /zones/{z}/surge, and create_ride's quote: zone_surge alone.
BeginZoneSurge(z) ==
    /\ pc = 0
    /\ OpenWindow
    /\ pc' = SurgeStep
    /\ kind' = "zone"
    /\ todo' = {z}
    /\ UNCHANGED <<tables, clock, zone, demand, count, quote, existed>>

\* count_by_status
CountRows ==
    /\ pc \in 1..Len(Plan)
    /\ Plan[pc] \in Counted
    /\ count' = [count EXCEPT ![Plan[pc]] = CountByStatus(Plan[pc])]
    /\ pc' = pc + 1
    /\ UNCHANGED <<tables, clock, kind, since, todo, zone, demand, quote, existed, held>>

\* surge_by_zone: which zones to report.
ListZones ==
    /\ pc = ZonesStep
    /\ OpenWindow
    /\ todo' = ListRecentZoneIds(clock - DemandWindow)
    /\ pc' = SurgeStep
    /\ UNCHANGED <<tables, clock, kind, zone, demand, count, quote, existed>>

\* Mutant: zone_surge(db, zone_id) without now, so the window starts later.
CountDemandNow(z) ==
    /\ pc = SurgeStep
    /\ zone = NoZone
    /\ z \in todo
    /\ zone' = z
    /\ demand' = CountRecentActiveInZone(z, clock - DemandWindow)
    /\ UNCHANGED <<tables, clock, pc, kind, since, todo, count, quote, existed, held>>

\* zone_surge: the demand, with the window of the whole request ...
CountDemand(z) ==
    /\ pc = SurgeStep
    /\ zone = NoZone
    /\ z \in todo
    /\ zone' = z
    /\ demand' = CountRecentActiveInZone(z, since)
    /\ UNCHANGED <<tables, clock, pc, kind, since, todo, count, quote, existed, held>>

\* ... then the supply, a statement later, and the formula.
CountSupply ==
    /\ zone # NoZone
    /\ quote' = [quote EXCEPT ![zone] = SurgeMultiplier(demand, CountAvailableInZone(zone))]
    /\ todo' = todo \ {zone}
    /\ zone' = NoZone
    /\ UNCHANGED <<tables, clock, pc, kind, since, demand, count, existed, held>>

EndSurge ==
    /\ pc = SurgeStep
    /\ todo = {}
    /\ pc' = IF kind = "stats" THEN pc + 1 ELSE Len(Plan) + 1
    /\ UNCHANGED <<tables, clock, kind, since, todo, zone, demand, count, quote, existed, held>>

Respond ==
    /\ pc = Len(Plan) + 1
    /\ pc' = 0 /\ kind' = "stats" /\ since' = 0 /\ demand' = 0
    /\ count' = Nothing /\ quote' = NoQuotes
    /\ existed' = {} /\ held' = {}
    /\ UNCHANGED <<tables, clock, todo, zone>>

Next ==
    \/ \E r \in Ride :
         \/ \E z \in Zone, t \in 0..MaxClock : Request(r, z, t)
         \/ \E d \in Driver : Match(r, d)
         \/ Close(r)
    \/ \E d \in Driver, z \in Zone : MoveDriver(d, z)
    \/ Tick
    \/ BeginStats
    \/ \E z \in Zone : BeginZoneSurge(z) \/ CountDemand(z)
    \/ CountRows \/ ListZones \/ CountSupply \/ EndSurge \/ Respond

Spec == Init /\ [][Next]_vars

-----------------------------------------------------------------------------
(***************************************************************************)
(* Safety.                                                                 *)
(***************************************************************************)

Answered(k) == pc = Len(Plan) + 1 /\ kind = k

\* stats.py makes its five ride counts at five moments, in the order of a
\* ride's life, so a ride that moves on meanwhile may be counted twice but no
\* ride that existed when the request began is missing from the answer.
EveryRideCounted ==
    Answered("stats") =>
        count["requested"] + count["matched"] + count["in_progress"]
          + count["completed"] + count["cancelled"] >= Cardinality(existed)

\* surge.py: demand and supply are read at different moments, for a list of
\* zones read earlier still, but with one window.  A ride that was in the
\* window when the request fixed it and stays active is in its zone's quote,
\* so the quote is at least what those rides would give if every driver of
\* the fleet were available in the zone; and GET /stats covers "every zone
\* with at least one ride requested in the current demand window".
QuoteReflectsDemand ==
    /\ \A z \in Zone :
         quote[z] # 0 =>
             quote[z] >= SurgeMultiplier(Cardinality({r \in held : rideZone[r] = z}),
                                         Cardinality(Driver))
    /\ Answered("stats") => \A r \in held : quote[rideZone[r]] # 0

\* surge_multiplier, wherever a quote is about to be computed, at the demand
\* in hand and at any up to MaxDemand more: never below 1.0 and exactly 1.0 without demand, at the
\* cap from four rides per driver on and not before, and below the cap the
\* exact share of a driver; it rises with demand and falls with supply, and
\* an empty zone is priced like one with a single driver.
SurgeFormula ==
    zone # NoZone => \A dem \in 0..(demand + MaxDemand), sup \in 0..MaxSupply :
        LET m == SurgeMultiplier(dem, sup)
            drivers == Max({sup, 1})
        IN  /\ m \in Unit..MaxMultiplier
            /\ dem = 0 <=> m = Unit
            /\ dem >= 4 * drivers <=> m = MaxMultiplier
            /\ m < MaxMultiplier => drivers * (m - Unit) = Sensitivity * dem
            /\ m <= SurgeMultiplier(dem + 1, sup)
            /\ m >= SurgeMultiplier(dem, sup + 1)
            /\ SurgeMultiplier(dem, 0) = SurgeMultiplier(dem, 1)

=============================================================================
