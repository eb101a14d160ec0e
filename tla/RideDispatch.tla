---------------------------- MODULE RideDispatch ----------------------------
(***************************************************************************)
(* What the dispatch service promises of its durable state, with no        *)
(* threads, locks, transactions or failures: a ride is requested once, a   *)
(* requested ride may be matched to a driver who is free, and closing a    *)
(* ride frees its driver in the same step.  RideMatching implements it.    *)
(***************************************************************************)
EXTENDS RideTypes

VARIABLES
    rideStatus,     \* rides.status of the committed row
    rideDriver,     \* rides.driver_id of the committed row
    driverStatus    \* drivers.status of the committed row

vars == <<rideStatus, rideDriver, driverStatus>>

Init ==
    /\ rideStatus = [r \in Ride |-> "none"]
    /\ rideDriver = [r \in Ride |-> NoDriver]
    /\ driverStatus = [d \in Driver |-> "available"]

\* create_ride
Request(r) ==
    /\ rideStatus[r] = "none"
    /\ rideStatus' = [rideStatus EXCEPT ![r] = "requested"]
    /\ UNCHANGED <<rideDriver, driverStatus>>

\* match_ride: the ride gets the driver and the driver becomes busy, at once.
Match(r, d) ==
    /\ rideStatus[r] = "requested"
    /\ driverStatus[d] = "available"
    /\ rideStatus' = [rideStatus EXCEPT ![r] = "matched"]
    /\ rideDriver' = [rideDriver EXCEPT ![r] = d]
    /\ driverStatus' = [driverStatus EXCEPT ![d] = "busy"]

\* cancel_ride and complete_ride: the ride reaches terminal status s and the
\* driver it has, if any, is free again.  The row keeps its driver_id.
Close(r, s, from) ==
    /\ rideStatus[r] \in from
    /\ rideStatus' = [rideStatus EXCEPT ![r] = s]
    /\ driverStatus' = [d \in Driver |->
                          IF d = rideDriver[r] THEN "available" ELSE driverStatus[d]]
    /\ UNCHANGED rideDriver

Cancel(r) == Close(r, "cancelled", ActiveStatuses)

Complete(r) == Close(r, "completed", CompletableStatuses)

Next ==
    \E r \in Ride :
        \/ Request(r)
        \/ \E d \in Driver : Match(r, d)
        \/ Cancel(r)
        \/ Complete(r)

Spec == Init /\ [][Next]_vars

=============================================================================
