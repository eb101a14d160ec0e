----------------------------- MODULE StatsProofs -----------------------------
(***************************************************************************)
(* Proofs about Stats, for any rides, drivers and zones and any demand     *)
(* window.                                                                 *)
(***************************************************************************)
EXTENDS Stats, FiniteSetTheorems, TLAPS

-----------------------------------------------------------------------------
\* The inductive invariant.

\* Rides of the demand window that have been active ever since it was fixed.
HeldIn(z) == {r \in held : rideZone[r] = z}

\* A row that exists has a zone.
Zoned == \A r \in Ride : rideStatus[r] # "none" => rideZone[r] \in Zone

\* Outside surge_by_zone no zone is in hand, and before it there are no
\* quotes.
Shape ==
    /\ pc # SurgeStep => zone = NoZone /\ todo = {}
    /\ pc < SurgeStep => quote = NoQuotes
    /\ zone # NoZone => zone \in todo

\* A ride that is held is still one its zone's demand query counts.
Held == \A r \in held : rideStatus[r] \in ActiveStatuses /\ createdAt[r] >= since

\* The demand in hand and every quote cover the rides held.
Covered ==
    /\ zone # NoZone => Cardinality(HeldIn(zone)) <= demand
    /\ \A z \in Zone : quote[z] # 0 =>
         quote[z] >= SurgeMultiplier(Cardinality(HeldIn(z)), Cardinality(Driver))

\* GET /stats still has a zone to do, or has its quote.
Listed ==
    kind = "stats" /\ pc >= SurgeStep =>
        \A r \in held : rideZone[r] \in todo \/ quote[rideZone[r]] # 0

\* The rides a count made at plan step p or later can still meet.
Later(p) ==
    CASE p <= 1 -> {"requested", "matched", "in_progress", "completed", "cancelled"}
      [] p = 2 -> {"matched", "in_progress", "completed", "cancelled"}
      [] p = 3 -> {"in_progress", "completed", "cancelled"}
      [] p \in 4..8 -> {"completed", "cancelled"}
      [] p = 9 -> {"cancelled"}
      [] OTHER -> {}

Total ==
    count["requested"] + count["matched"] + count["in_progress"]
      + count["completed"] + count["cancelled"]

\* The counts made so far add up to at least some set of rides that leaves,
\* of those that existed, only rides a later count will still meet.
Counting ==
    kind = "stats" /\ pc > 0 =>
        /\ \A s \in Later(pc) : count[s] = 0
        /\ \E seen \in SUBSET Ride :
             /\ Cardinality(seen) <= Total
             /\ \A r \in existed \ seen : rideStatus[r] \in Later(pc)

Blank == pc = 0 => count = Nothing

IInv == TypeOK /\ Zoned /\ Shape /\ Held /\ Covered /\ Listed /\ Counting /\ Blank

-----------------------------------------------------------------------------
\* The surge formula.

\* The larger and the smaller of two integers.
LEMMA MaxMin ==
  ASSUME NEW a \in Int, NEW b \in Int
  PROVE  /\ Max({a, b}) = IF a >= b THEN a ELSE b
         /\ Min({a, b}) = IF a <= b THEN a ELSE b
<1> DEFINE m == IF a >= b THEN a ELSE b
           n == IF a <= b THEN a ELSE b
<1>1. m \in {a, b} /\ \A y \in {a, b} : m >= y
  OBVIOUS
<1>2. \A x \in {a, b} : (\A y \in {a, b} : x >= y) => x = m
  OBVIOUS
<1>3. n \in {a, b} /\ \A y \in {a, b} : n <= y
  OBVIOUS
<1>4. \A x \in {a, b} : (\A y \in {a, b} : x <= y) => x = n
  OBVIOUS
<1> HIDE DEF m, n
<1>5. Max({a, b}) = m
  BY <1>1, <1>2 DEF Max
<1>6. Min({a, b}) = n
  BY <1>3, <1>4 DEF Min
<1> QED
  BY <1>5, <1>6 DEF m, n

\* More demand over fewer drivers is a larger quotient.
LEMMA Quotient ==
  ASSUME NEW a \in Nat, NEW b \in Nat, NEW s \in Nat, NEW t \in Nat, a <= b, 1 <= s, s <= t
  PROVE  a \div t \in Nat /\ b \div s \in Nat /\ a \div t <= b \div s
<1> DEFINE q == a \div t
           p == b \div s
<1>1. q \in Nat /\ p \in Nat /\ t * q <= a /\ b < s * (p + 1)
  OBVIOUS
<1> HIDE DEF q, p
<1>2. SUFFICES ASSUME q > p
               PROVE  FALSE
  BY <1>1, <1>2 DEF q, p
<1>3. s * (p + 1) <= s * q
  BY <1>1, <1>2
<1>4. s * q <= t * q
  BY <1>1
<1>5. s * (p + 1) \in Nat /\ s * q \in Nat /\ t * q \in Nat
  BY <1>1
<1> QED
  BY <1>1, <1>3, <1>4, <1>5

\* The units, one by one.
LEMMA Units ==
  /\ Sensitivity \in Nat /\ Sensitivity > 0
  /\ Unit \in Nat /\ Unit = 2 * Sensitivity /\ Unit > 0
  /\ MaxMultiplier \in Nat /\ MaxMultiplier = 6 * Sensitivity /\ Unit < MaxMultiplier
  /\ MaxSupply \in Nat /\ MaxDemand \in Nat
  /\ Unit..MaxMultiplier \subseteq Nat
BY UnitsAssumption DEF Unit, MaxMultiplier

\* The product of natural numbers is one and rises with each of them.
LEMMA Product ==
  ASSUME NEW k \in Nat, NEW a \in Nat, NEW b \in Nat
  PROVE  /\ k * a \in Nat /\ k * b \in Nat
         /\ a <= b => k * a <= k * b
         /\ (k > 0 /\ a < b) => k * a < k * b
OBVIOUS

\* What the floor of one driver leaves of the supply, and what the formula
\* adds to 1.0 before it is capped.
Floor(sup) == IF sup >= 1 THEN sup ELSE 1

Extra(dem, sup) == (Sensitivity * dem) \div Floor(sup)

Capped(x) == IF Unit + x <= MaxMultiplier THEN Unit + x ELSE MaxMultiplier

\* The formula without its clamp below, which never binds.
LEMMA SurgeIs ==
  ASSUME NEW dem \in Nat, NEW sup \in Nat
  PROVE  /\ Extra(dem, sup) \in Nat
         /\ SurgeMultiplier(dem, sup) = Capped(Extra(dem, sup))
<1> DEFINE f == Max({sup, 1})
           n == Sensitivity * dem
           raw == Unit + n \div f
<1>1. f \in Nat /\ 1 <= f /\ f = Floor(sup)
  BY MaxMin DEF Floor
<1>2. n \in Nat
  BY Units, Product
<1>6. SurgeMultiplier(dem, sup) = Min({Max({raw, Unit}), MaxMultiplier})
  BY DEF SurgeMultiplier
<1> HIDE DEF f
<1>9. Extra(dem, sup) = n \div f
  BY <1>1 DEF Extra
<1> HIDE DEF n
<1>3. n \div f \in Nat
  <2>1. n <= n /\ f <= f
    BY <1>1, <1>2
  <2> QED
    BY <1>1, <1>2, <2>1, Quotient, Zenon
<1>4. raw \in Nat /\ raw >= Unit
  BY <1>3, Units
<1> HIDE DEF raw
<1>7. Max({raw, Unit}) = raw
  BY <1>4, Units, MaxMin
<1>8. Min({raw, MaxMultiplier}) = IF raw <= MaxMultiplier THEN raw ELSE MaxMultiplier
  <2>1. MaxMultiplier \in Nat
    BY Units
  <2> QED
    BY <1>4, <2>1, MaxMin
<1>10. SurgeMultiplier(dem, sup) = IF raw <= MaxMultiplier THEN raw ELSE MaxMultiplier
  BY <1>6, <1>7, <1>8
<1>11. raw = Unit + Extra(dem, sup)
  BY <1>9 DEF raw
<1> QED
  BY <1>3, <1>9, <1>10, <1>11 DEF Capped

\* A multiplier lies between 1.0 and the cap, and rises with demand and falls
\* with supply.
LEMMA SurgeMonotone ==
  ASSUME NEW d1 \in Nat, NEW d2 \in Nat, NEW s1 \in Nat, NEW s2 \in Nat, d1 <= d2, s2 <= s1
  PROVE  /\ SurgeMultiplier(d1, s1) \in Unit..MaxMultiplier
         /\ SurgeMultiplier(d1, s1) <= SurgeMultiplier(d2, s2)
<1> DEFINE a == Sensitivity * d1
           b == Sensitivity * d2
           f == Floor(s1)
           g == Floor(s2)
<1>1. a \in Nat /\ b \in Nat /\ a <= b
  BY Units, Product
<1>2. f \in Nat /\ g \in Nat /\ 1 <= g /\ g <= f
  BY DEF Floor
<1>3. Extra(d1, s1) = a \div f /\ Extra(d2, s2) = b \div g
  BY DEF Extra
<1> HIDE DEF a, b, f, g
<1>4. Extra(d1, s1) \in Nat /\ Extra(d2, s2) \in Nat /\ Extra(d1, s1) <= Extra(d2, s2)
  <2>1. a \div f \in Nat /\ b \div g \in Nat /\ a \div f <= b \div g
    BY <1>1, <1>2, Quotient, Zenon
  <2> QED
    BY <1>3, <2>1
<1>5. /\ SurgeMultiplier(d1, s1) = Capped(Extra(d1, s1))
      /\ SurgeMultiplier(d2, s2) = Capped(Extra(d2, s2))
  BY SurgeIs
<1> QED
  BY <1>4, <1>5, Units DEF Capped

\* The quotient of the formula is exact at every supply the units were chosen
\* for.
LEMMA ExactShare ==
  ASSUME NEW dem \in Nat, NEW sup \in 0..MaxSupply
  PROVE  Floor(sup) * Extra(dem, sup) = Sensitivity * dem
<1> DEFINE f == Floor(sup)
           q == Sensitivity \div f
<1>1. f \in 1..(MaxSupply + 1) /\ f \in Nat /\ f >= 1
  BY Units DEF Floor
<1>2. Sensitivity % f = 0
  BY <1>1, UnitsAssumption
<1>6. Extra(dem, sup) = (Sensitivity * dem) \div f
  BY DEF Extra
<1> HIDE DEF f
<1>3. q \in Nat /\ Sensitivity = f * q
  BY <1>1, <1>2, Units
<1> HIDE DEF q
<1>4. q * dem \in Nat /\ Sensitivity * dem = f * (q * dem)
  BY <1>1, <1>3
<1>5. ASSUME NEW m \in Nat
      PROVE  (f * m) \div f = m
  BY <1>1
<1>7. Extra(dem, sup) = q * dem
  BY <1>4, <1>5, <1>6
<1> QED
  BY <1>4, <1>7 DEF f

\* surge.py's formula at every demand and every supply: 1.0 exactly with no
\* demand, the cap exactly from four rides per driver, the exact share in
\* between, rising with demand, falling with supply, and an empty zone priced
\* like one with a single driver.
LEMMA FormulaHolds ==
  ASSUME NEW dem \in Nat, NEW sup \in 0..MaxSupply
  PROVE  LET m == SurgeMultiplier(dem, sup)
             drivers == Max({sup, 1})
         IN  /\ m \in Unit..MaxMultiplier
             /\ dem = 0 <=> m = Unit
             /\ dem >= 4 * drivers <=> m = MaxMultiplier
             /\ m < MaxMultiplier => drivers * (m - Unit) = Sensitivity * dem
             /\ m <= SurgeMultiplier(dem + 1, sup)
             /\ m >= SurgeMultiplier(dem, sup + 1)
             /\ SurgeMultiplier(dem, 0) = SurgeMultiplier(dem, 1)
<1>0. sup \in Nat /\ sup + 1 \in Nat /\ dem + 1 \in Nat /\ sup <= sup /\ sup <= sup + 1
      /\ dem <= dem /\ dem <= dem + 1
  BY Units
<1>1. /\ SurgeMultiplier(dem, sup) \in Unit..MaxMultiplier
      /\ SurgeMultiplier(dem, sup) <= SurgeMultiplier(dem + 1, sup)
      /\ SurgeMultiplier(dem, sup) >= SurgeMultiplier(dem, sup + 1)
  <2>2. /\ SurgeMultiplier(dem, sup) \in Unit..MaxMultiplier
        /\ SurgeMultiplier(dem, sup) <= SurgeMultiplier(dem + 1, sup)
    BY <1>0, SurgeMonotone
  <2>3. SurgeMultiplier(dem, sup + 1) \in Unit..MaxMultiplier
    BY <1>0, SurgeMonotone
  <2>4. SurgeMultiplier(dem, sup + 1) <= SurgeMultiplier(dem, sup)
    BY <1>0, SurgeMonotone
  <2> QED
    BY <2>2, <2>3, <2>4, Units
<1> DEFINE x == Extra(dem, sup)
           f == Floor(sup)
           m == SurgeMultiplier(dem, sup)
<1>2. x \in Nat /\ m = Capped(x)
  BY <1>0, SurgeIs, Zenon
<1>3. f \in Nat /\ f >= 1 /\ f = Max({sup, 1})
  BY <1>0, MaxMin DEF Floor
<1>4. f * x = Sensitivity * dem
  BY ExactShare
<1> HIDE DEF x, f, m
<1>5. dem = 0 <=> m = Unit
  <2>1. CASE dem = 0
    <3>1. f * x = 0
      BY <1>4, <2>1, Units
    <3>2. x = 0
      BY <1>2, <1>3, <3>1
    <3> QED
      BY <1>2, <2>1, <3>2, Units DEF Capped
  <2>2. CASE dem > 0
    <3>1. Sensitivity * dem > 0
      BY <2>2, Units, Product
    <3>2. x # 0
      BY <1>3, <1>4, <3>1
    <3> QED
      BY <1>2, <2>2, <3>2, Units DEF Capped
  <2> QED
    BY <2>1, <2>2
<1>6. dem >= 4 * f <=> m = MaxMultiplier
  <2>1. m = MaxMultiplier <=> x >= 4 * Sensitivity
    BY <1>2, Units DEF Capped
  <2>2. 4 * f \in Nat /\ 4 * Sensitivity \in Nat
    BY <1>3, Units
  <2>3. Sensitivity * (4 * f) = f * (4 * Sensitivity)
    BY <1>3, Units
  <2>4. CASE dem >= 4 * f
    <3>1. Sensitivity * (4 * f) <= Sensitivity * dem
      BY <2>2, <2>4, Units, Product
    <3>2. f * (4 * Sensitivity) <= f * x
      BY <1>4, <2>3, <3>1
    <3>3. ~(x < 4 * Sensitivity)
      <4>1. SUFFICES ASSUME x < 4 * Sensitivity
                     PROVE  FALSE
        OBVIOUS
      <4>2. f * x < f * (4 * Sensitivity) /\ f * x \in Nat /\ f * (4 * Sensitivity) \in Nat
        BY <1>2, <1>3, <2>2, <4>1, Product
      <4> QED
        BY <3>2, <4>2
    <3> QED
      BY <1>2, <2>1, <2>2, <2>4, <3>3
  <2>5. CASE dem < 4 * f
    <3>1. Sensitivity * dem < Sensitivity * (4 * f)
      BY <2>2, <2>5, Units, Product
    <3>2. f * x < f * (4 * Sensitivity)
      BY <1>4, <2>3, <3>1
    <3>3. ~(4 * Sensitivity <= x)
      <4>1. SUFFICES ASSUME 4 * Sensitivity <= x
                     PROVE  FALSE
        OBVIOUS
      <4>2. f * (4 * Sensitivity) <= f * x /\ f * x \in Nat /\ f * (4 * Sensitivity) \in Nat
        BY <1>2, <1>3, <2>2, <4>1, Product
      <4> QED
        BY <3>2, <4>2
    <3> QED
      BY <1>2, <2>1, <2>2, <2>5, <3>3
  <2> QED
    BY <2>2, <2>4, <2>5
<1>7. m < MaxMultiplier => f * (m - Unit) = Sensitivity * dem
  <2>1. SUFFICES ASSUME m < MaxMultiplier
                 PROVE  f * (m - Unit) = Sensitivity * dem
    OBVIOUS
  <2>2. m - Unit = x
    BY <1>2, <2>1, Units DEF Capped
  <2> QED
    BY <1>4, <2>2
<1>8. SurgeMultiplier(dem, 0) = SurgeMultiplier(dem, 1)
  <2>1. Extra(dem, 0) = Extra(dem, 1)
    BY DEF Extra, Floor
  <2>2. 0 \in Nat /\ 1 \in Nat
    OBVIOUS
  <2>3. SurgeMultiplier(dem, 0) = Capped(Extra(dem, 0))
    BY <2>2, SurgeIs, Zenon
  <2>4. SurgeMultiplier(dem, 1) = Capped(Extra(dem, 1))
    BY <2>2, SurgeIs, Zenon
  <2> QED
    BY <2>1, <2>3, <2>4, Zenon
<1> QED
  BY <1>1, <1>3, <1>5, <1>6, <1>7, <1>8 DEF m

-----------------------------------------------------------------------------
\* Sizes and the plan.

\* A set of rows is finite and no larger than its table.
LEMMA Rows ==
  /\ Cardinality(Ride) \in Nat /\ Cardinality(Driver) \in Nat
  /\ \A S \in SUBSET Ride : IsFiniteSet(S) /\ Cardinality(S) \in 0..Cardinality(Ride)
  /\ \A S \in SUBSET Driver : IsFiniteSet(S) /\ Cardinality(S) \in 0..Cardinality(Driver)
<1>1. Cardinality(Ride) \in Nat /\ Cardinality(Driver) \in Nat
  BY TablesAssumption, FS_CardinalityType
<1>2. ASSUME NEW S \in SUBSET Ride
      PROVE  IsFiniteSet(S) /\ Cardinality(S) \in Nat /\ Cardinality(S) <= Cardinality(Ride)
  BY TablesAssumption, FS_Subset, FS_CardinalityType
<1>3. ASSUME NEW S \in SUBSET Driver
      PROVE  IsFiniteSet(S) /\ Cardinality(S) \in Nat /\ Cardinality(S) <= Cardinality(Driver)
  BY TablesAssumption, FS_Subset, FS_CardinalityType
<1> QED
  BY <1>1, <1>2, <1>3

\* A smaller set of rides has no more of them, and two sets together no more
\* than both.
LEMMA RowSets ==
  ASSUME NEW S \in SUBSET Ride, NEW T \in SUBSET Ride
  PROVE  /\ Cardinality(S) \in Nat /\ Cardinality(T) \in Nat
         /\ S \subseteq T => Cardinality(S) <= Cardinality(T)
         /\ Cardinality(S \cup T) <= Cardinality(S) + Cardinality(T)
<1>1. IsFiniteSet(S) /\ IsFiniteSet(T) /\ Cardinality(S) \in Nat /\ Cardinality(T) \in Nat
  BY Rows
<1>2. S \subseteq T => Cardinality(S) <= Cardinality(T)
  BY <1>1, FS_Subset
<1>3. /\ Cardinality(S \cup T) = Cardinality(S) + Cardinality(T) - Cardinality(S \cap T)
  BY <1>1, FS_Union
<1>4. S \cap T \in SUBSET Ride
  OBVIOUS
<1>5. Cardinality(S \cap T) \in Nat
  BY <1>4, Rows
<1> QED
  BY <1>1, <1>2, <1>3, <1>5

\* get_stats step by step.
LEMMA PlanIs ==
  /\ Len(Plan) = 9
  /\ Plan[1] = "requested" /\ Plan[2] = "matched" /\ Plan[3] = "in_progress"
  /\ Plan[4] = "zones" /\ Plan[5] = "surge" /\ Plan[6] = "available" /\ Plan[7] = "busy"
  /\ Plan[8] = "completed" /\ Plan[9] = "cancelled"
  /\ "zones" \notin Counted /\ "surge" \notin Counted
<1>1. Len(Plan) = 9
  BY DEF Plan, ActiveOrder
<1>2. Plan[1] = "requested" /\ Plan[2] = "matched" /\ Plan[3] = "in_progress"
  BY DEF Plan, ActiveOrder
<1>3. Plan[4] = "zones" /\ Plan[5] = "surge" /\ Plan[6] = "available"
  BY DEF Plan, ActiveOrder
<1>4. Plan[7] = "busy" /\ Plan[8] = "completed" /\ Plan[9] = "cancelled"
  BY DEF Plan, ActiveOrder
<1>5. "zones" \notin Counted /\ "surge" \notin Counted
  BY DEF Counted, RideStatus, DriverStatus
<1> QED
  BY <1>1, <1>2, <1>3, <1>4, <1>5

\* The rows a query counts.
LEMMA Counts ==
  ASSUME TypeOK
  PROVE  /\ \A s \in Counted : CountByStatus(s) \in 0..(Cardinality(Ride) + Cardinality(Driver))
         /\ \A z, t : CountRecentActiveInZone(z, t) \in 0..Cardinality(Ride)
         /\ \A z : CountAvailableInZone(z) \in 0..Cardinality(Driver)
<1>1. ASSUME NEW s \in Counted
      PROVE  CountByStatus(s) \in 0..(Cardinality(Ride) + Cardinality(Driver))
  <2> DEFINE S == {r \in Ride : rideStatus[r] = s}
             D == {d \in Driver : driverStatus[d] = s}
  <2>1. CountByStatus(s) = Cardinality(S) \/ CountByStatus(s) = Cardinality(D)
    BY DEF CountByStatus
  <2>2. S \in SUBSET Ride /\ D \in SUBSET Driver
    OBVIOUS
  <2> HIDE DEF S, D
  <2>3. Cardinality(S) \in 0..Cardinality(Ride) /\ Cardinality(D) \in 0..Cardinality(Driver)
    BY <2>2, Rows
  <2> QED
    BY <2>1, <2>3, Rows
<1>2. ASSUME NEW z, NEW t
      PROVE  CountRecentActiveInZone(z, t) \in 0..Cardinality(Ride)
  <2> DEFINE S == {r \in Ride : rideZone[r] = z /\ Recent(r, t) /\ rideStatus[r] \in ActiveStatuses}
  <2>1. S \in SUBSET Ride
    OBVIOUS
  <2> HIDE DEF S
  <2>2. Cardinality(S) \in 0..Cardinality(Ride)
    BY <2>1, Rows
  <2> QED
    BY <2>2 DEF S, CountRecentActiveInZone
<1>3. ASSUME NEW z
      PROVE  CountAvailableInZone(z) \in 0..Cardinality(Driver)
  <2> DEFINE S == {d \in Driver : driverStatus[d] = "available" /\ driverZone[d] = z}
  <2>1. S \in SUBSET Driver
    OBVIOUS
  <2> HIDE DEF S
  <2>2. Cardinality(S) \in 0..Cardinality(Driver)
    BY <2>1, Rows
  <2> QED
    BY <2>2 DEF S, CountAvailableInZone
<1> QED
  BY <1>1, <1>2, <1>3

-----------------------------------------------------------------------------
\* A step of the tables, as the reader sees it.
TablesMove ==
    /\ UNCHANGED <<reader, existed>>
    /\ held' \subseteq held
    /\ \A r \in Ride :
         \/ rideStatus'[r] = rideStatus[r]
         \/ rideStatus[r] = "none" /\ rideStatus'[r] = "requested"
         \/ rideStatus[r] = "requested" /\ rideStatus'[r] = "matched"
         \/ rideStatus[r] \in ActiveStatuses /\ rideStatus'[r] \in TerminalStatuses
    /\ \A r \in Ride : rideStatus[r] # "none" => rideZone'[r] = rideZone[r] /\ createdAt'[r] = createdAt[r]
    /\ \A r \in Ride : rideStatus'[r] # "none" => rideStatus[r] # "none" \/ rideZone'[r] \in Zone
    /\ \A r \in held' : rideStatus[r] \in ActiveStatuses => rideStatus'[r] \in ActiveStatuses

\* The reader's own steps.
Reads ==
    \/ BeginStats \/ CountRows \/ ListZones \/ CountSupply \/ EndSurge \/ Respond
    \/ \E z \in Zone : BeginZoneSurge(z) \/ CountDemand(z)

\* The service moves the tables, or the reader reads them.
LEMMA StepKinds ==
  ASSUME TypeOK, [Next]_vars
  PROVE  TablesMove \/ (Reads /\ UNCHANGED <<tables, clock>>)
<1> USE DEF TypeOK
<1>1. ASSUME NEW r \in Ride, NEW z \in Zone, NEW t \in 0..MaxClock, Request(r, z, t)
      PROVE  TablesMove
  <2>1. /\ rideStatus[r] = "none" /\ rideStatus' = [rideStatus EXCEPT ![r] = "requested"]
        /\ rideZone' = [rideZone EXCEPT ![r] = z] /\ createdAt' = [createdAt EXCEPT ![r] = t]
        /\ UNCHANGED <<reader, existed, held>>
    BY <1>1 DEF Request, Dispatch!Request
  <2> QED
    BY <2>1 DEF TablesMove, ActiveStatuses
<1>2. ASSUME NEW r \in Ride, NEW d \in Driver, Match(r, d)
      PROVE  TablesMove
  <2>1. /\ rideStatus[r] = "requested" /\ rideStatus' = [rideStatus EXCEPT ![r] = "matched"]
        /\ UNCHANGED <<reader, existed, held, rideZone, createdAt>>
    BY <1>2 DEF Match, Dispatch!Match
  <2> QED
    BY <2>1 DEF TablesMove, ActiveStatuses
<1>3. ASSUME NEW r \in Ride, Close(r)
      PROVE  TablesMove
  <2>1. /\ rideStatus[r] \in ActiveStatuses
        /\ \E s \in TerminalStatuses : rideStatus' = [rideStatus EXCEPT ![r] = s]
        /\ held' = held \ {r} /\ UNCHANGED <<reader, existed, rideZone, createdAt>>
    BY <1>3 DEF Close, Dispatch!Cancel, Dispatch!Complete, Dispatch!Close, Dispatch!ActiveStatuses,
                Dispatch!CompletableStatuses, ActiveStatuses, TerminalStatuses
  <2> QED
    BY <2>1 DEF TablesMove, ActiveStatuses
<1>4. ASSUME NEW d \in Driver, NEW z \in Zone, MoveDriver(d, z)
      PROVE  TablesMove
  BY <1>4 DEF MoveDriver, TablesMove
<1>5. CASE Tick
  BY <1>5 DEF Tick, TablesMove, tables
<1>6. CASE UNCHANGED vars
  BY <1>6 DEF vars, TablesMove, tables
<1>7. CASE Reads
  BY <1>7 DEF Reads, BeginStats, CountRows, ListZones, CountSupply, EndSurge, Respond,
              BeginZoneSurge, CountDemand
<1> QED
  BY <1>1, <1>2, <1>3, <1>4, <1>5, <1>6, <1>7 DEF Next, Reads

-----------------------------------------------------------------------------
\* Every step keeps the types.
LEMMA TypeStep ==
  ASSUME IInv, [Next]_vars
  PROVE  TypeOK'
<1>0. /\ TypeOK /\ ClockAssumption /\ Len(Plan) = 9
  BY ClockAssumption, PlanIs DEF IInv
<1> USE DEF TypeOK
<1>1. ASSUME NEW r \in Ride, NEW z \in Zone, NEW t \in 0..MaxClock, Request(r, z, t)
      PROVE  TypeOK'
  <2>1. /\ rideStatus' = [rideStatus EXCEPT ![r] = "requested"]
        /\ rideZone' = [rideZone EXCEPT ![r] = z] /\ createdAt' = [createdAt EXCEPT ![r] = t]
        /\ UNCHANGED <<rideDriver, driverStatus, driverZone, clock, reader, existed, held>>
    BY <1>1 DEF Request, Dispatch!Request
  <2> QED
    BY <1>0, <2>1 DEF reader, RideStatus
<1>2. ASSUME NEW r \in Ride, NEW d \in Driver, Match(r, d)
      PROVE  TypeOK'
  <2>1. /\ rideStatus' = [rideStatus EXCEPT ![r] = "matched"]
        /\ rideDriver' = [rideDriver EXCEPT ![r] = d]
        /\ driverStatus' = [driverStatus EXCEPT ![d] = "busy"]
        /\ UNCHANGED <<rideZone, createdAt, driverZone, clock, reader, existed, held>>
    BY <1>2 DEF Match, Dispatch!Match
  <2> QED
    BY <1>0, <2>1 DEF reader, RideStatus, DriverStatus
<1>3. ASSUME NEW r \in Ride, Close(r)
      PROVE  TypeOK'
  <2>1. /\ \E s \in {"completed", "cancelled"} : rideStatus' = [rideStatus EXCEPT ![r] = s]
        /\ driverStatus' = [d \in Driver |->
                              IF d = rideDriver[r] THEN "available" ELSE driverStatus[d]]
        /\ held' = held \ {r}
        /\ UNCHANGED <<rideDriver, rideZone, createdAt, driverZone, clock, reader, existed>>
    BY <1>3 DEF Close, Dispatch!Cancel, Dispatch!Complete, Dispatch!Close
  <2>2. rideStatus' \in [Ride -> RideStatus] /\ driverStatus' \in [Driver -> DriverStatus]
    BY <1>0, <2>1 DEF RideStatus, DriverStatus
  <2> QED
    BY <1>0, <2>1, <2>2 DEF reader
<1>4. ASSUME NEW d \in Driver, NEW z \in Zone, MoveDriver(d, z)
      PROVE  TypeOK'
  BY <1>0, <1>4 DEF MoveDriver, reader
<1>5. CASE Tick
  <2>1. clock' \in 0..MaxClock
    BY <1>0, <1>5 DEF Tick, ClockAssumption
  <2> QED
    BY <1>0, <1>5, <2>1 DEF Tick, tables, reader
<1>6. CASE BeginStats
  <2>1. pc' \in 0..(Len(Plan) + 1) /\ existed' \subseteq Ride
    BY <1>0, <1>6 DEF BeginStats
  <2> QED
    BY <1>0, <1>6, <2>1 DEF BeginStats, tables
<1>7. ASSUME NEW z \in Zone, BeginZoneSurge(z)
      PROVE  TypeOK'
  <2>1. /\ pc' \in 0..(Len(Plan) + 1) /\ held' \subseteq Ride /\ since' \in (-DemandWindow)..MaxClock
    BY <1>0, <1>7 DEF BeginZoneSurge, OpenWindow, SurgeStep, ClockAssumption
  <2> QED
    BY <1>0, <1>7, <2>1 DEF BeginZoneSurge, tables
<1>8. ASSUME NEW z \in Zone, CountDemand(z)
      PROVE  TypeOK'
  <2>1. demand' \in 0..Cardinality(Ride)
    BY <1>0, <1>8, Counts DEF CountDemand
  <2> QED
    BY <1>0, <1>8, <2>1 DEF CountDemand, tables
<1>9. CASE CountRows
  <2>1. pc' \in 0..(Len(Plan) + 1)
    BY <1>0, <1>9 DEF CountRows
  <2>2. CountByStatus(Plan[pc]) \in 0..(Cardinality(Ride) + Cardinality(Driver))
    BY <1>0, <1>9, Counts DEF CountRows
  <2>3. count' \in [Counted -> 0..(Cardinality(Ride) + Cardinality(Driver))]
    BY <1>0, <1>9, <2>2 DEF CountRows
  <2> QED
    BY <1>0, <1>9, <2>1, <2>3 DEF CountRows, tables
<1>10. CASE ListZones
  <2>1. /\ pc' \in 0..(Len(Plan) + 1) /\ held' \subseteq Ride /\ since' \in (-DemandWindow)..MaxClock
    BY <1>0, <1>10 DEF ListZones, OpenWindow, SurgeStep, ClockAssumption
  <2>2. todo' \subseteq Zone
    BY <1>0, <1>10 DEF ListZones, ListRecentZoneIds, Recent, IInv, Zoned
  <2> QED
    BY <1>0, <1>10, <2>1, <2>2 DEF ListZones, tables
<1>11. CASE CountSupply
  <2>1. /\ zone \in Zone /\ todo' \subseteq Zone
        /\ quote' = [quote EXCEPT ![zone] = SurgeMultiplier(demand, CountAvailableInZone(zone))]
    BY <1>0, <1>11 DEF CountSupply
  <2>2. demand \in Nat /\ CountAvailableInZone(zone) \in Nat
    <3>1. CountAvailableInZone(zone) \in 0..Cardinality(Driver) /\ demand \in 0..Cardinality(Ride)
      BY <1>0, Counts
    <3> QED
      BY <3>1, Rows
  <2>3. SurgeMultiplier(demand, CountAvailableInZone(zone)) \in Unit..MaxMultiplier
    <3>1. demand <= demand /\ CountAvailableInZone(zone) <= CountAvailableInZone(zone)
      BY <2>2
    <3> QED
      BY <2>2, <3>1, SurgeMonotone, Zenon
  <2>4. quote' \in [Zone -> {0} \cup (Unit..MaxMultiplier)]
    BY <1>0, <2>1, <2>3
  <2> QED
    BY <1>0, <1>11, <2>1, <2>4 DEF CountSupply, tables
<1>12. CASE EndSurge
  <2>1. pc' \in 0..(Len(Plan) + 1)
    BY <1>0, <1>12 DEF EndSurge, SurgeStep
  <2> QED
    BY <1>0, <1>12, <2>1 DEF EndSurge, tables
<1>13. CASE Respond
  <2>1. /\ count' \in [Counted -> 0..(Cardinality(Ride) + Cardinality(Driver))]
        /\ quote' \in [Zone -> {0} \cup (Unit..MaxMultiplier)]
        /\ demand' \in 0..Cardinality(Ride) /\ pc' \in 0..(Len(Plan) + 1)
        /\ since' \in (-DemandWindow)..MaxClock
    BY <1>0, <1>13, Rows DEF Respond, Nothing, NoQuotes, ClockAssumption
  <2> QED
    BY <1>0, <1>13, <2>1 DEF Respond, tables
<1>14. CASE UNCHANGED vars
  BY <1>0, <1>14 DEF vars, tables, reader
<1> QED
  BY <1>1, <1>2, <1>3, <1>4, <1>5, <1>6, <1>7, <1>8, <1>9, <1>10, <1>11, <1>12, <1>13, <1>14 DEF Next

\* A ride a later count would meet stays one while it moves on.
LEMMA LifeGoesOn ==
  ASSUME TypeOK, TablesMove, NEW r \in Ride, rideStatus[r] \in Later(pc)
  PROVE  rideStatus'[r] \in Later(pc)
<1>1. pc \in 0..10
  BY PlanIs DEF TypeOK
<1>2. \/ rideStatus'[r] = rideStatus[r]
      \/ rideStatus[r] = "none" /\ rideStatus'[r] = "requested"
      \/ rideStatus[r] = "requested" /\ rideStatus'[r] = "matched"
      \/ rideStatus[r] \in {"requested", "matched", "in_progress"} /\ rideStatus'[r] \in {"completed", "cancelled"}
  BY DEF TablesMove, ActiveStatuses, TerminalStatuses
<1>3. CASE pc <= 1
  <2>1. Later(pc) = {"requested", "matched", "in_progress", "completed", "cancelled"}
    BY <1>1, <1>3 DEF Later
  <2> QED
    BY <1>2, <2>1
<1>4. CASE pc = 2
  <2>1. Later(pc) = {"matched", "in_progress", "completed", "cancelled"}
    BY <1>4 DEF Later
  <2> QED
    BY <1>2, <2>1
<1>5. CASE pc = 3
  <2>1. Later(pc) = {"in_progress", "completed", "cancelled"}
    BY <1>5 DEF Later
  <2> QED
    BY <1>2, <2>1
<1>6. CASE pc \in 4..8
  <2>1. Later(pc) = {"completed", "cancelled"}
    BY <1>6 DEF Later
  <2> QED
    BY <1>2, <2>1
<1>7. CASE pc = 9
  <2>1. Later(pc) = {"cancelled"}
    BY <1>7 DEF Later
  <2> QED
    BY <1>2, <2>1
<1>8. CASE pc = 10
  <2>1. Later(pc) = {}
    BY <1>8 DEF Later
  <2> QED
    BY <2>1
<1> QED
  BY <1>1, <1>3, <1>4, <1>5, <1>6, <1>7, <1>8

\* Fewer held rides are covered by the same demand and the same quote.
LEMMA FewerHeld ==
  ASSUME NEW S \in SUBSET Ride, NEW T \in SUBSET Ride, S \subseteq T
  PROVE  /\ Cardinality(S) \in Nat /\ Cardinality(T) \in Nat /\ Cardinality(S) <= Cardinality(T)
         /\ SurgeMultiplier(Cardinality(S), Cardinality(Driver)) \in Unit..MaxMultiplier
         /\ SurgeMultiplier(Cardinality(T), Cardinality(Driver)) \in Unit..MaxMultiplier
         /\ SurgeMultiplier(Cardinality(S), Cardinality(Driver))
              <= SurgeMultiplier(Cardinality(T), Cardinality(Driver))
<1>1. /\ Cardinality(S) \in Nat /\ Cardinality(T) \in Nat /\ Cardinality(S) <= Cardinality(T)
      /\ Cardinality(Driver) \in Nat
  BY RowSets, Rows
<1>2. Cardinality(Driver) <= Cardinality(Driver) /\ Cardinality(T) <= Cardinality(T)
  BY <1>1
<1>3. /\ SurgeMultiplier(Cardinality(S), Cardinality(Driver)) \in Unit..MaxMultiplier
      /\ SurgeMultiplier(Cardinality(S), Cardinality(Driver))
              <= SurgeMultiplier(Cardinality(T), Cardinality(Driver))
  BY <1>1, <1>2, SurgeMonotone, Zenon
<1>4. SurgeMultiplier(Cardinality(T), Cardinality(Driver)) \in Unit..MaxMultiplier
  BY <1>1, <1>2, SurgeMonotone, Zenon
<1> QED
  BY <1>1, <1>3, <1>4

\* The reader's view stays true while the service moves the tables.
LEMMA MoveKeeps ==
  ASSUME IInv, TypeOK', TablesMove
  PROVE  IInv'
<1>0. /\ UNCHANGED <<pc, kind, since, todo, zone, demand, count, quote, existed>>
      /\ held' \subseteq held /\ held \subseteq Ride /\ existed \subseteq Ride
  BY DEF TablesMove, reader, IInv, TypeOK
<1>1. \A r \in held' : /\ r \in held /\ r \in Ride /\ rideStatus[r] \in ActiveStatuses
                       /\ rideStatus'[r] \in ActiveStatuses
                       /\ rideZone'[r] = rideZone[r] /\ createdAt'[r] = createdAt[r]
  BY <1>0 DEF IInv, Held, TablesMove, ActiveStatuses
<1>2. Zoned'
  BY DEF IInv, Zoned, TablesMove
<1>3. Shape' /\ Blank'
  BY <1>0 DEF IInv, Shape, Blank, NoQuotes, Nothing
<1>4. Held'
  BY <1>0, <1>1 DEF IInv, Held
<1>5. Covered'
  <2> DEFINE After(z) == {r \in held' : rideZone'[r] = z}
  <2>1. \A z : After(z) \subseteq HeldIn(z) /\ After(z) \in SUBSET Ride /\ HeldIn(z) \in SUBSET Ride
    BY <1>0, <1>1 DEF HeldIn
  <2>a. \A z : HeldIn(z)' = After(z)
    BY DEF HeldIn
  <2>b. HeldIn(zone)' = After(zone)
    BY <1>0 DEF HeldIn
  <2> HIDE DEF After
  <2>2. zone # NoZone => Cardinality(After(zone)) <= demand
    <3>1. /\ Cardinality(After(zone)) \in Nat /\ Cardinality(HeldIn(zone)) \in Nat
          /\ Cardinality(After(zone)) <= Cardinality(HeldIn(zone))
      BY <2>1, FewerHeld
    <3>2. demand \in Nat
      BY Rows DEF IInv, TypeOK
    <3> QED
      BY <3>1, <3>2 DEF IInv, Covered
  <2>3. ASSUME NEW z \in Zone, quote[z] # 0
        PROVE  quote[z] >= SurgeMultiplier(Cardinality(After(z)), Cardinality(Driver))
    <3> DEFINE a == SurgeMultiplier(Cardinality(After(z)), Cardinality(Driver))
               b == SurgeMultiplier(Cardinality(HeldIn(z)), Cardinality(Driver))
    <3>1. a \in Unit..MaxMultiplier /\ b \in Unit..MaxMultiplier /\ a <= b
      BY <2>1, FewerHeld
    <3>2. quote[z] >= b /\ quote[z] \in {0} \cup (Unit..MaxMultiplier)
      BY <2>3 DEF IInv, Covered, TypeOK
    <3> HIDE DEF a, b
    <3>3. a \in Int /\ b \in Int /\ quote[z] \in Int
      <4>1. quote[z] \in Unit..MaxMultiplier
        BY <2>3, <3>2
      <4>2. Unit..MaxMultiplier \subseteq Int
        BY Units
      <4> QED
        BY <3>1, <4>1, <4>2
    <3>4. quote[z] >= a
      BY <3>1, <3>2, <3>3
    <3> QED
      BY <3>4 DEF a
  <2> QED
    BY <1>0, <2>2, <2>3, <2>a, <2>b DEF Covered
<1>6. Listed'
  BY <1>0, <1>1 DEF IInv, Listed
<1>7. Counting'
  <2> SUFFICES ASSUME kind = "stats", pc > 0
               PROVE  /\ \A s \in Later(pc) : count[s] = 0
                      /\ \E seen \in SUBSET Ride :
                           /\ Cardinality(seen) <= Total
                           /\ \A r \in existed \ seen : rideStatus'[r] \in Later(pc)
    BY <1>0 DEF Counting, Total, Later
  <2>1. PICK seen \in SUBSET Ride :
               /\ Cardinality(seen) <= Total
               /\ \A r \in existed \ seen : rideStatus[r] \in Later(pc)
    BY DEF IInv, Counting
  <2>2. \A r \in existed \ seen : rideStatus'[r] \in Later(pc)
    BY <1>0, <2>1, LifeGoesOn DEF IInv
  <2> QED
    BY <2>1, <2>2 DEF IInv, Counting
<1> QED
  BY <1>2, <1>3, <1>4, <1>5, <1>6, <1>7 DEF IInv

-----------------------------------------------------------------------------
\* The reader's steps.

\* A window that is opened holds what it should.
LEMMA WindowOpens ==
  ASSUME TypeOK, OpenWindow
  PROVE  \A r \in held' : rideStatus[r] \in ActiveStatuses /\ createdAt[r] >= since' /\ r \in Ride
BY DEF OpenWindow, Recent

\* The zones in hand, and when there are quotes.
LEMMA ShapeStep ==
  ASSUME IInv, Reads
  PROVE  Shape' /\ Blank'
<1>0. /\ TypeOK /\ Shape /\ Blank /\ NoZone \notin Zone /\ Len(Plan) = 9 /\ pc \in 0..10
  BY NoZoneAssumption, PlanIs DEF IInv, TypeOK
<1> USE DEF Shape, Blank, SurgeStep, ZonesStep
<1>1. CASE BeginStats
  BY <1>0, <1>1 DEF BeginStats, NoQuotes
<1>2. ASSUME NEW z \in Zone, BeginZoneSurge(z)
      PROVE  Shape' /\ Blank'
  BY <1>0, <1>2 DEF BeginZoneSurge
<1>3. ASSUME NEW z \in Zone, CountDemand(z)
      PROVE  Shape' /\ Blank'
  BY <1>0, <1>3 DEF CountDemand
<1>4. CASE CountRows
  <2>1. pc # 4 /\ pc # 5
    BY <1>4, PlanIs DEF CountRows
  <2> QED
    BY <1>0, <1>4, <2>1 DEF CountRows, NoQuotes
<1>5. CASE ListZones
  BY <1>0, <1>5 DEF ListZones
<1>6. CASE CountSupply
  BY <1>0, <1>6 DEF CountSupply
<1>7. CASE EndSurge
  BY <1>0, <1>7 DEF EndSurge
<1>8. CASE Respond
  BY <1>0, <1>8 DEF Respond, NoQuotes, Nothing
<1> QED
  BY <1>1, <1>2, <1>3, <1>4, <1>5, <1>6, <1>7, <1>8 DEF Reads

\* What is held is still in the window and active.
LEMMA HeldStep ==
  ASSUME IInv, Reads, UNCHANGED tables
  PROVE  Zoned' /\ Held'
<1>0. TypeOK /\ Held /\ UNCHANGED <<rideStatus, rideZone, createdAt>>
  BY DEF IInv, tables
<1>1. Zoned'
  BY <1>0 DEF IInv, Zoned
<1>2. CASE held' = {}
  BY <1>1, <1>2 DEF Held
<1>3. CASE OpenWindow
  BY <1>0, <1>1, <1>3, WindowOpens DEF Held
<1>4. CASE UNCHANGED <<held, since>>
  BY <1>0, <1>1, <1>4 DEF Held
<1> QED
  BY <1>1, <1>2, <1>3, <1>4 DEF Reads, BeginStats, BeginZoneSurge, CountDemand, CountRows, ListZones,
                                CountSupply, EndSurge, Respond

\* The demand counted and the quotes made from it cover the rides held.
LEMMA CoveredStep ==
  ASSUME IInv, Reads, UNCHANGED tables
  PROVE  Covered'
<1>0. /\ TypeOK /\ Shape /\ Covered /\ NoZone \notin Zone /\ UNCHANGED <<rideStatus, rideZone, createdAt>>
      /\ held \subseteq Ride
  BY NoZoneAssumption DEF IInv, tables, TypeOK
<1>1. ASSUME NEW z \in Zone, CountDemand(z)
      PROVE  Covered'
  <2> DEFINE S == {r \in held : rideZone[r] = z}
             T == {r \in Ride : rideZone[r] = z /\ Recent(r, since) /\ rideStatus[r] \in ActiveStatuses}
  <2>1. /\ zone' = z /\ demand' = Cardinality(T) /\ UNCHANGED <<quote, held>>
    BY <1>1 DEF CountDemand, CountRecentActiveInZone
  <2>2. S \subseteq T /\ S \in SUBSET Ride /\ T \in SUBSET Ride
    BY <1>0 DEF IInv, Held, Recent, ActiveStatuses
  <2> HIDE DEF T
  <2>3. Cardinality(S) <= Cardinality(T)
    <3> HIDE DEF S
    <3> QED
      BY <2>2, RowSets
  <2>4. HeldIn(zone)' = S
    BY <1>0, <2>1 DEF HeldIn
  <2>5. \A y : HeldIn(y)' = HeldIn(y)
    BY <1>0, <2>1 DEF HeldIn
  <2> HIDE DEF S
  <2> QED
    BY <1>0, <2>1, <2>3, <2>4, <2>5 DEF Covered
<1>2. CASE CountSupply
  <2>1. /\ zone \in Zone /\ zone' = NoZone /\ UNCHANGED held
        /\ quote' = [quote EXCEPT ![zone] = SurgeMultiplier(demand, CountAvailableInZone(zone))]
    BY <1>0, <1>2 DEF CountSupply, TypeOK
  <2>2. \A y : HeldIn(y)' = HeldIn(y)
    BY <1>0, <2>1 DEF HeldIn
  <2>3. /\ Cardinality(HeldIn(zone)) \in Nat /\ Cardinality(HeldIn(zone)) <= demand /\ demand \in Nat
        /\ CountAvailableInZone(zone) \in Nat /\ CountAvailableInZone(zone) <= Cardinality(Driver)
        /\ Cardinality(Driver) \in Nat
    <3>1. HeldIn(zone) \in SUBSET Ride
      BY <1>0 DEF HeldIn
    <3>2. Cardinality(HeldIn(zone)) \in 0..Cardinality(Ride)
      BY <3>1, Rows
    <3>3. CountAvailableInZone(zone) \in 0..Cardinality(Driver) /\ demand \in 0..Cardinality(Ride)
      BY <1>0, Counts DEF TypeOK
    <3>4. zone # NoZone
      BY <1>0, <2>1
    <3> QED
      BY <1>0, <3>2, <3>3, <3>4, Rows DEF Covered
  <2> DEFINE a == SurgeMultiplier(Cardinality(HeldIn(zone)), Cardinality(Driver))
             b == SurgeMultiplier(demand, CountAvailableInZone(zone))
  <2>4. a <= b
    BY <2>3, SurgeMonotone, Zenon
  <2>5. a \in Unit..MaxMultiplier /\ b \in Unit..MaxMultiplier
    <3>1. demand <= demand /\ CountAvailableInZone(zone) <= CountAvailableInZone(zone)
      BY <2>3
    <3> QED
      BY <2>3, <3>1, SurgeMonotone, Zenon
  <2>6. b >= a
    <3> HIDE DEF a, b
    <3>1. a \in Int /\ b \in Int
      BY <2>5, Units
    <3> QED
      BY <2>4, <3>1
  <2>7. quote \in [Zone -> {0} \cup (Unit..MaxMultiplier)]
    BY <1>0 DEF TypeOK
  <2>8. ASSUME NEW y \in Zone, quote'[y] # 0
        PROVE  quote'[y] >= SurgeMultiplier(Cardinality(HeldIn(y)), Cardinality(Driver))
    <3>1. CASE y = zone
      BY <2>1, <2>6, <2>7, <3>1
    <3>2. CASE y # zone
      <4>1. quote'[y] = quote[y]
        BY <2>1, <2>7, <3>2
      <4> QED
        BY <1>0, <2>8, <4>1 DEF Covered
    <3> QED
      BY <3>1, <3>2
  <2> HIDE DEF a, b
  <2> QED
    BY <2>1, <2>2, <2>8 DEF Covered
<1>3. CASE OpenWindow /\ (ListZones \/ \E z \in Zone : BeginZoneSurge(z))
  <2>1. /\ UNCHANGED <<zone, quote>> /\ pc < SurgeStep
    BY <1>3 DEF ListZones, BeginZoneSurge, SurgeStep, ZonesStep
  <2>2. zone = NoZone /\ quote = NoQuotes
    BY <1>0, <2>1 DEF Shape, SurgeStep
  <2> QED
    BY <2>1, <2>2 DEF Covered, NoQuotes
<1>4. CASE Respond
  <2>1. zone = NoZone
    BY <1>0, <1>4, PlanIs DEF Respond, Shape, SurgeStep
  <2> QED
    BY <1>4, <2>1 DEF Respond, Covered, NoQuotes
<1>5. CASE BeginStats \/ CountRows \/ EndSurge
  <2>1. UNCHANGED <<zone, demand, quote, held>>
    BY <1>5 DEF BeginStats, CountRows, EndSurge
  <2> QED
    BY <1>0, <2>1 DEF Covered, HeldIn
<1> QED
  BY <1>1, <1>2, <1>3, <1>4, <1>5 DEF Reads, ListZones, BeginZoneSurge

\* Every zone with a held ride is still to be quoted or is quoted.
LEMMA ListedStep ==
  ASSUME IInv, Reads, UNCHANGED tables
  PROVE  Listed'
<1>0. /\ TypeOK /\ Shape /\ Listed /\ Zoned /\ Held /\ NoZone \notin Zone /\ Len(Plan) = 9 /\ pc \in 0..10
      /\ UNCHANGED <<rideStatus, rideZone, createdAt>> /\ held \subseteq Ride
  BY NoZoneAssumption, PlanIs DEF IInv, tables, TypeOK
<1> USE DEF SurgeStep, ZonesStep
<1>1. CASE ListZones
  <2>1. /\ todo' = {rideZone[r] : r \in {s \in Ride : Recent(s, clock - DemandWindow)}}
        /\ held' = {r \in Ride : Recent(r, clock - DemandWindow) /\ rideStatus[r] \in ActiveStatuses}
    BY <1>1 DEF ListZones, OpenWindow, ListRecentZoneIds
  <2>2. \A r \in held' : rideZone'[r] \in todo'
    BY <1>0, <2>1
  <2> QED
    BY <2>2 DEF Listed
<1>2. ASSUME NEW z \in Zone, BeginZoneSurge(z)
      PROVE  Listed'
  BY <1>2 DEF BeginZoneSurge, Listed
<1>3. CASE CountSupply
  <2>1. /\ zone \in Zone /\ todo' = todo \ {zone} /\ UNCHANGED <<held, kind, pc>>
        /\ quote' = [quote EXCEPT ![zone] = SurgeMultiplier(demand, CountAvailableInZone(zone))]
    BY <1>0, <1>3 DEF CountSupply, TypeOK
  <2>2. quote'[zone] # 0
    <3> DEFINE b == SurgeMultiplier(demand, CountAvailableInZone(zone))
    <3>1. demand \in Nat /\ CountAvailableInZone(zone) \in Nat
      <4>1. CountAvailableInZone(zone) \in 0..Cardinality(Driver) /\ demand \in 0..Cardinality(Ride)
        BY <1>0, Counts DEF TypeOK
      <4> QED
        BY <4>1, Rows
    <3>2. demand <= demand /\ CountAvailableInZone(zone) <= CountAvailableInZone(zone)
      BY <3>1
    <3>3. b \in Unit..MaxMultiplier
      BY <3>1, <3>2, SurgeMonotone, Zenon
    <3>4. quote'[zone] = b
      BY <1>0, <2>1 DEF TypeOK
    <3> HIDE DEF b
    <3> QED
      BY <3>3, <3>4, Units
  <2>3. \A y \in Zone : y # zone => quote'[y] = quote[y]
    BY <1>0, <2>1 DEF TypeOK
  <2>4. \A r \in held : rideZone[r] \in Zone
    BY <1>0 DEF Zoned, Held, ActiveStatuses
  <2>5. ASSUME kind' = "stats", pc' >= 5, NEW r \in held'
        PROVE  rideZone'[r] \in todo' \/ quote'[rideZone'[r]] # 0
    <3>1. r \in held /\ (rideZone[r] \in todo \/ quote[rideZone[r]] # 0) /\ rideZone[r] \in Zone
      BY <1>0, <2>1, <2>4, <2>5 DEF Listed
    <3> QED
      BY <1>0, <2>1, <2>2, <2>3, <3>1
  <2> QED
    BY <2>5 DEF Listed
<1>4. CASE EndSurge \/ \E z \in Zone : CountDemand(z)
  <2>1. UNCHANGED <<held, todo, quote, kind>> /\ pc = 5
    BY <1>4 DEF EndSurge, CountDemand
  <2> QED
    BY <1>0, <2>1 DEF Listed
<1>5. CASE CountRows
  <2>1. UNCHANGED <<held, todo, quote, kind>> /\ pc' = pc + 1
    BY <1>5 DEF CountRows
  <2>2. pc # 4
    BY <1>5, PlanIs DEF CountRows
  <2> QED
    BY <1>0, <2>1, <2>2 DEF Listed
<1>6. CASE BeginStats
  BY <1>6 DEF BeginStats, Listed
<1>7. CASE Respond
  BY <1>7 DEF Respond, Listed
<1> QED
  BY <1>1, <1>2, <1>3, <1>4, <1>5, <1>6, <1>7 DEF Reads

\* No ride that existed falls between two counts.
LEMMA CountingStep ==
  ASSUME IInv, Reads, UNCHANGED tables
  PROVE  Counting'
<1>0. /\ TypeOK /\ Counting /\ Len(Plan) = 9 /\ pc \in 0..10 /\ rideStatus' = rideStatus
      /\ existed \subseteq Ride
  BY PlanIs DEF IInv, tables, TypeOK
<1> USE DEF SurgeStep, ZonesStep
<1>1. CASE BeginStats
  <2>1. /\ pc' = 1 /\ existed' = {r \in Ride : rideStatus[r] # "none"} /\ count' = Nothing
    BY <1>1 DEF BeginStats, IInv, Blank
  <2>2. Later(pc') = {"requested", "matched", "in_progress", "completed", "cancelled"}
    BY <2>1 DEF Later
  <2>3. \A s \in Later(pc') : count'[s] = 0
    BY <2>1, <2>2 DEF Nothing, Counted, RideStatus
  <2>4. Total' = 0
    BY <2>1 DEF Total, Nothing, Counted, RideStatus
  <2>5. Cardinality({}) <= Total'
    BY <2>4, FS_EmptySet
  <2>6. \A r \in existed' \ {} : rideStatus'[r] \in Later(pc')
    BY <1>0, <2>1, <2>2 DEF TypeOK, RideStatus
  <2>7. \E seen \in SUBSET Ride : /\ Cardinality(seen) <= Total'
                                  /\ \A r \in existed' \ seen : rideStatus'[r] \in Later(pc')
    BY <2>5, <2>6
  <2> QED
    BY <2>3, <2>7 DEF Counting, Total, Later
<1>2. CASE (\E z \in Zone : BeginZoneSurge(z)) \/ Respond
  BY <1>2 DEF BeginZoneSurge, Respond, Counting
<1>3. CASE (\E z \in Zone : CountDemand(z)) \/ CountSupply \/ ListZones \/ EndSurge
  <2>1. UNCHANGED <<existed, count, kind>>
    BY <1>3 DEF CountDemand, CountSupply, ListZones, EndSurge
  <2>2. \/ pc' = pc
        \/ pc = 4 /\ pc' = 5
        \/ pc = 5 /\ (pc' = 6 \/ kind # "stats")
    BY <1>3 DEF CountDemand, CountSupply, ListZones, EndSurge
  <2>3. kind = "stats" => Later(pc') = Later(pc) /\ (pc' > 0 => pc > 0)
    BY <1>0, <2>2 DEF Later
  <2> SUFFICES ASSUME kind = "stats", pc' > 0
               PROVE  /\ \A s \in Later(pc') : count[s] = 0
                      /\ \E seen \in SUBSET Ride :
                           /\ Cardinality(seen) <= Total
                           /\ \A r \in existed \ seen : rideStatus[r] \in Later(pc')
    BY <1>0, <2>1 DEF Counting, Total, Later
  <2> QED
    BY <1>0, <2>3 DEF Counting
<1>4. CASE CountRows
  <2> SUFFICES ASSUME kind = "stats"
               PROVE  /\ \A s \in Later(pc') : count'[s] = 0
                      /\ \E seen \in SUBSET Ride :
                           /\ Cardinality(seen) <= Total'
                           /\ \A r \in existed \ seen : rideStatus[r] \in Later(pc')
    <3>1. UNCHANGED <<existed, kind>>
      BY <1>4 DEF CountRows
    <3> QED
      BY <1>0, <3>1 DEF Counting, Total, Later
  <2> DEFINE s == Plan[pc]
             c == CountByStatus(s)
  <2>1. /\ pc \in 1..9 /\ s \in Counted /\ pc' = pc + 1 /\ count' = [count EXCEPT ![s] = c]
    BY <1>0, <1>4 DEF CountRows
  <2>2. pc \in {1, 2, 3, 6, 7, 8, 9}
    BY <1>0, <2>1, PlanIs
  <2>3. /\ \A u \in Later(pc) : u = s \/ u \in Later(pc')
        /\ Later(pc') \subseteq Later(pc) /\ s \notin Later(pc')
        /\ \/ s \in {"available", "busy"}
           \/ s \in {"requested", "matched", "in_progress", "completed", "cancelled"} /\ s \in Later(pc)
    <3>1. CASE pc = 1
      BY <2>1, <3>1, PlanIs DEF Later
    <3>2. CASE pc = 2
      BY <2>1, <3>2, PlanIs DEF Later
    <3>3. CASE pc = 3
      BY <2>1, <3>3, PlanIs DEF Later
    <3>4. CASE pc \in {6, 7}
      BY <2>1, <3>4, PlanIs DEF Later
    <3>5. CASE pc = 8
      BY <2>1, <3>5, PlanIs DEF Later
    <3>6. CASE pc = 9
      BY <2>1, <3>6, PlanIs DEF Later
    <3> QED
      BY <2>2, <3>1, <3>2, <3>3, <3>4, <3>5, <3>6
  <2>4. PICK seen \in SUBSET Ride :
               /\ Cardinality(seen) <= Total
               /\ \A r \in existed \ seen : rideStatus[r] \in Later(pc)
    BY <1>0, <2>1 DEF Counting
  <2>5. \A u \in Later(pc) : count[u] = 0
    BY <1>0, <2>1 DEF Counting
  <2>6. /\ count["requested"] \in Nat /\ count["matched"] \in Nat /\ count["in_progress"] \in Nat
        /\ count["completed"] \in Nat /\ count["cancelled"] \in Nat
        /\ Total \in Nat
    <3>1. \A u \in Counted : count[u] \in Nat
      BY <1>0, Rows DEF TypeOK
    <3>2. {"requested", "matched", "in_progress", "completed", "cancelled"} \subseteq Counted
      BY DEF Counted, RideStatus
    <3>3. /\ count["requested"] \in Nat /\ count["matched"] \in Nat /\ count["in_progress"] \in Nat
          /\ count["completed"] \in Nat /\ count["cancelled"] \in Nat
      BY <3>1, <3>2
    <3> QED
      BY <3>3 DEF Total
  <2>7. \A u \in Counted : count'[u] = IF u = s THEN c ELSE count[u]
    BY <1>0, <2>1 DEF TypeOK
  <2>a. /\ count'["requested"] = IF "requested" = s THEN c ELSE count["requested"]
        /\ count'["matched"] = IF "matched" = s THEN c ELSE count["matched"]
        /\ count'["in_progress"] = IF "in_progress" = s THEN c ELSE count["in_progress"]
        /\ count'["completed"] = IF "completed" = s THEN c ELSE count["completed"]
        /\ count'["cancelled"] = IF "cancelled" = s THEN c ELSE count["cancelled"]
    <3> HIDE DEF s, c
    <3> QED
      BY <2>7 DEF Counted, RideStatus
  <2>b. c \in Nat
    <3>1. c \in 0..(Cardinality(Ride) + Cardinality(Driver))
      BY <1>0, <2>1, Counts
    <3> QED
      BY <3>1, Rows
  <2>c. s \in Later(pc) => c = Cardinality({r \in Ride : rideStatus[r] = s}) /\ count[s] = 0
    <3>1. s \in Later(pc) => s \in RideStatus
      BY <2>3 DEF RideStatus, Later
    <3> QED
      BY <2>5, <3>1 DEF CountByStatus
  <2>d. \A u \in Later(pc') : u \in Counted
    <3>1. Later(pc') \subseteq {"requested", "matched", "in_progress", "completed", "cancelled"}
      BY DEF Later
    <3> QED
      BY <3>1 DEF Counted, RideStatus
  <2> HIDE DEF s, c
  <2>8. \A u \in Later(pc') : count'[u] = 0
    BY <2>3, <2>5, <2>7, <2>d
  <2>9. CASE s \in {"available", "busy"}
    <3>1. Total' = Total
      BY <2>9, <2>a DEF Total
    <3>2. \A r \in existed \ seen : rideStatus[r] # s
      BY <1>0, <2>9 DEF TypeOK, RideStatus
    <3>3. \A r \in existed \ seen : rideStatus[r] \in Later(pc')
      BY <2>3, <2>4, <3>2
    <3> QED
      BY <2>4, <2>8, <3>1, <3>3
  <2>10. CASE s \in Later(pc) /\ s \in {"requested", "matched", "in_progress", "completed", "cancelled"}
    <3> DEFINE S == {r \in Ride : rideStatus[r] = s}
    <3>1. Total' = Total + c
      BY <2>10, <2>6, <2>a, <2>b, <2>c DEF Total
    <3>2. S \in SUBSET Ride /\ seen \cup S \in SUBSET Ride
      OBVIOUS
    <3>3. \A r \in existed \ (seen \cup S) : rideStatus[r] \in Later(pc')
      BY <1>0, <2>3, <2>4
    <3>4. c = Cardinality(S)
      BY <2>10, <2>c
    <3> HIDE DEF S
    <3>5. /\ Cardinality(seen) \in Nat /\ Cardinality(S) \in Nat
          /\ Cardinality(seen \cup S) <= Cardinality(seen) + Cardinality(S)
      BY <3>2, RowSets
    <3>6. Cardinality(seen \cup S) \in Nat
      BY <3>2, RowSets
    <3>7. Cardinality(seen \cup S) <= Total'
      BY <2>4, <2>6, <2>b, <3>1, <3>4, <3>5, <3>6
    <3> QED
      BY <2>8, <3>2, <3>3, <3>7
  <2> QED
    BY <2>3, <2>9, <2>10
<1> QED
  BY <1>1, <1>2, <1>3, <1>4 DEF Reads

-----------------------------------------------------------------------------
\* It holds at the start.
LEMMA InitIInv == Init => IInv
<1> SUFFICES ASSUME Init PROVE IInv
  OBVIOUS
<1>1. /\ rideStatus = [r \in Ride |-> "none"] /\ rideDriver = [r \in Ride |-> NoDriver]
      /\ driverStatus = [d \in Driver |-> "available"]
  BY DEF Init, Dispatch!Init
<1>2. /\ pc = 0 /\ kind = "stats" /\ since = 0 /\ todo = {} /\ zone = NoZone /\ demand = 0
      /\ count = Nothing /\ quote = NoQuotes /\ existed = {} /\ held = {} /\ clock = 0
      /\ rideZone = [r \in Ride |-> NoZone] /\ createdAt = [r \in Ride |-> 0]
      /\ driverZone \in [Driver -> Zone]
  BY DEF Init
<1>3. /\ count \in [Counted -> 0..(Cardinality(Ride) + Cardinality(Driver))]
      /\ quote \in [Zone -> {0} \cup (Unit..MaxMultiplier)]
      /\ demand \in 0..Cardinality(Ride) /\ pc \in 0..(Len(Plan) + 1)
      /\ since \in (-DemandWindow)..MaxClock /\ clock \in 0..MaxClock
      /\ createdAt \in [Ride -> 0..MaxClock]
  BY <1>2, Rows, PlanIs, ClockAssumption DEF Nothing, NoQuotes
<1>4. TypeOK
  BY <1>1, <1>2, <1>3 DEF TypeOK, RideStatus, DriverStatus
<1>5. Zoned /\ Shape /\ Held /\ Covered /\ Listed /\ Counting /\ Blank
  BY <1>1, <1>2 DEF Zoned, Shape, Held, Covered, Listed, Counting, Blank, NoQuotes, SurgeStep
<1> QED
  BY <1>4, <1>5 DEF IInv

\* The invariant of every behaviour.
LEMMA Inductive == Spec => []IInv
<1>1. IInv /\ [Next]_vars => IInv'
  <2> SUFFICES ASSUME IInv, [Next]_vars PROVE IInv'
    OBVIOUS
  <2>1. TypeOK'
    BY TypeStep
  <2>2. CASE TablesMove
    BY <2>1, <2>2, MoveKeeps
  <2>3. CASE Reads /\ UNCHANGED <<tables, clock>>
    BY <2>1, <2>3, ShapeStep, HeldStep, CoveredStep, ListedStep, CountingStep DEF IInv
  <2> QED
    BY <2>2, <2>3, StepKinds DEF IInv
<1> QED
  BY <1>1, InitIInv, PTL DEF Spec

\* Every variable of the reader and the tables keeps its type; no count
\* exceeds its table and no quote its bounds.
THEOREM StatsAreTyped == Spec => []TypeOK
<1>1. IInv => TypeOK
  BY DEF IInv
<1> QED
  BY Inductive, <1>1, PTL

\* GET /stats, five counts at five moments: no ride that existed when the
\* request began is missing from the sum, for any number of rides and any
\* interleaving with matching and closing.
THEOREM NoRideIsMissed == Spec => []EveryRideCounted
<1>1. ASSUME IInv
      PROVE  EveryRideCounted
  <2> SUFFICES ASSUME Answered("stats")
               PROVE  Total >= Cardinality(existed)
    BY DEF EveryRideCounted, Total
  <2>1. pc = 10 /\ kind = "stats"
    BY PlanIs DEF Answered
  <2>2. Later(pc) = {}
    BY <2>1 DEF Later
  <2>3. PICK seen \in SUBSET Ride : Cardinality(seen) <= Total /\ existed \ seen = {}
    BY <1>1, <2>1, <2>2 DEF IInv, Counting
  <2>4. existed \in SUBSET Ride /\ existed \subseteq seen
    BY <1>1, <2>3 DEF IInv, TypeOK
  <2>5. /\ Cardinality(existed) \in Nat /\ Cardinality(seen) \in Nat
        /\ Cardinality(existed) <= Cardinality(seen)
    BY <2>4, RowSets
  <2>6. Total \in Nat
    <3>1. \A u \in Counted : count[u] \in Nat
      BY <1>1, Rows DEF IInv, TypeOK
    <3>2. {"requested", "matched", "in_progress", "completed", "cancelled"} \subseteq Counted
      BY DEF Counted, RideStatus
    <3> QED
      BY <3>1, <3>2 DEF Total
  <2> QED
    BY <2>3, <2>5, <2>6
<1> QED
  BY Inductive, <1>1, PTL

\* A surge quote shows the demand that was there all along: it is at least
\* what the rides active since the window was fixed would give against the
\* whole fleet, and GET /stats leaves out no zone that has one.
THEOREM QuotesShowDemand == Spec => []QuoteReflectsDemand
<1>1. ASSUME IInv
      PROVE  QuoteReflectsDemand
  <2>1. \A z \in Zone : quote[z] # 0 =>
          quote[z] >= SurgeMultiplier(Cardinality({r \in held : rideZone[r] = z}), Cardinality(Driver))
    BY <1>1 DEF IInv, Covered, HeldIn
  <2>2. ASSUME Answered("stats"), NEW r \in held
        PROVE  quote[rideZone[r]] # 0
    <3>1. pc = 10 /\ kind = "stats"
      BY <2>2, PlanIs DEF Answered
    <3>2. todo = {}
      BY <1>1, <3>1 DEF IInv, Shape, SurgeStep
    <3> QED
      BY <1>1, <3>1, <3>2 DEF IInv, Listed, SurgeStep
  <2> QED
    BY <2>1, <2>2 DEF QuoteReflectsDemand
<1> QED
  BY Inductive, <1>1, PTL

\* The surge formula at every demand a reader can meet, for a fleet of any
\* size.
THEOREM FormulaIsRight == Spec => []SurgeFormula
<1>1. ASSUME IInv
      PROVE  SurgeFormula
  <2>1. demand \in Nat
    BY <1>1, Rows DEF IInv, TypeOK
  <2>2. \A dem \in 0..(demand + MaxDemand) : dem \in Nat
    BY <2>1, Units
  <2> QED
    BY <2>2, FormulaHolds DEF SurgeFormula
<1> QED
  BY Inductive, <1>1, PTL

=============================================================================
