------------------------------ MODULE RideTypes ------------------------------
(***************************************************************************)
(* The vocabulary shared by the specifications of the ride store: the      *)
(* rides and drivers tables' keys and the status enumerations of           *)
(* app/models/ride.py and app/models/driver.py.                            *)
(***************************************************************************)

CONSTANTS
    Ride,       \* primary keys of the rides table
    Driver,     \* primary keys of the drivers table
    NoDriver    \* rides.driver_id IS NULL

ASSUME NoDriverAssumption == NoDriver \notin Driver

\* "none": no such row yet.
RideStatus == {"none", "requested", "matched", "in_progress", "completed", "cancelled"}

\* OFFLINE exists in the enumeration but no code path assigns it.
DriverStatus == {"available", "busy", "offline"}

\* ACTIVE_RIDE_STATUSES: a ride that has not reached a terminal state.  It is
\* also the predicate of the partial unique index on rides.driver_id.
ActiveStatuses == {"requested", "matched", "in_progress"}

\* _COMPLETABLE_STATUSES: the active statuses that have a driver attached.
CompletableStatuses == {"matched", "in_progress"}

TerminalStatuses == {"completed", "cancelled"}

=============================================================================
