---------------------------- MODULE RideCreation ----------------------------
(***************************************************************************)
(* create_ride: idempotent insertion of a ride under a unique constraint   *)
(* on rides.idempotency_key.  A request is one POST /rides; a retry is     *)
(* another request with the same key, sent after the first one was         *)
(* answered, failed or died, or while it is still running.  A ride is      *)
(* named after the request that inserted it.                               *)
(***************************************************************************)
EXTENDS FiniteSets

CONSTANTS
    Request,        \* the attempts clients make
    Key,            \* Idempotency-Key values
    NoKey,          \* no (or an empty) Idempotency-Key header
    Params,         \* (rider, pickup) a request may carry
    UnknownRider,   \* a payload whose rider_id violates the foreign key
    NoRide,
    Faults          \* which faults the environment may inject

ASSUME KeyAssumption == NoKey \notin Key
ASSUME ParamsAssumption == UnknownRider \notin Params
ASSUME NoRideAssumption == NoRide \notin Request
ASSUME FaultsAssumption == Faults \subseteq {"crash", "net", "db", "bus"}

VARIABLES
    key,        \* the Idempotency-Key of each request
    params,     \* its payload
    stored,     \* rides whose insert is committed
    pc,         \* the next database call of each request
    got,        \* the ride create_ride returns
    result,     \* how it ended, "none" while it runs
    emitted,    \* rides with a RIDE_REQUESTED event, by the emitting request
    gone        \* requests whose client is gone while the server's transaction,
                \* at pc, is still open

vars == <<key, params, stored, pc, got, result, emitted, gone>>

Payload == Params \cup {UnknownRider}

Steps == {"new", "lookup", "quote", "insert", "check", "commit", "winner", "emit", "done"}

\* The outcomes that return a ride.
Success == {"created", "replayed", "raced"}

Results == Success \cup {"none", "conflict", "integrity_error", "db_error", "unhandled", "died"}

TypeOK ==
    /\ key \in [Request -> Key \cup {NoKey}]
    /\ params \in [Request -> Payload]
    /\ stored \subseteq Request
    /\ pc \in [Request -> Steps]
    /\ got \in [Request -> Request \cup {NoRide}]
    /\ result \in [Request -> Results]
    /\ emitted \subseteq Request \X Request
    /\ gone \subseteq Request

\* What each client will send is fixed beforehand, when it sends it is not.
Init ==
    /\ key \in [Request -> Key \cup {NoKey}]
    /\ params \in [Request -> Payload]
    /\ stored = {}
    /\ pc = [q \in Request |-> "new"]
    /\ got = [q \in Request |-> NoRide]
    /\ result = [q \in Request |-> "none"]
    /\ emitted = {}
    /\ gone = {}

input == <<key, params>>

At(q, l) == q \notin gone /\ pc[q] = l

Goto(q, l) == pc' = [pc EXCEPT ![q] = l]

Finish(q, x, r) ==
    /\ Goto(q, "done")
    /\ result' = [result EXCEPT ![q] = x]
    /\ got' = [got EXCEPT ![q] = r]

\* Committed rides with the key of q: what SELECT ... WHERE idempotency_key
\* finds, and what the unique constraint compares with (NULLs never equal).
SameKey(p, q) == key[p] = key[q] /\ key[q] # NoKey

Holders(q) == {p \in stored : SameKey(p, q)}

\* Mutant: the payload is compared by identity, so a retry never matches.
MatchesNever(r, q) == FALSE

\* _matches: rider_id and pickup of the stored ride against the request's.
Matches(r, q) == params[r] = params[q]

-----------------------------------------------------------------------------
\* POST /rides arrives; without a key there is nothing to look up.
Arrive(q) ==
    /\ At(q, "new")
    /\ Goto(q, IF key[q] = NoKey THEN "quote" ELSE "lookup")
    /\ UNCHANGED <<input, stored, got, result, emitted, gone>>

\* get_by_idempotency_key: an existing ride is returned, or refused when the
\* payload differs.
Lookup(q) ==
    /\ At(q, "lookup")
    /\ \/ /\ Holders(q) = {}
          /\ Goto(q, "quote")
          /\ UNCHANGED <<got, result>>
       \/ \E r \in Holders(q) :
            IF Matches(r, q) THEN Finish(q, "replayed", r) ELSE Finish(q, "conflict", NoRide)
    /\ UNCHANGED <<input, stored, emitted, gone>>

\* The zone and surge quote: two reads, before any row is written.
Quote(q) ==
    /\ At(q, "quote")
    /\ Goto(q, "insert")
    /\ UNCHANGED <<input, stored, got, result, emitted, gone>>

\* Mutant: the INSERT does not wait for an uncommitted duplicate.
KeyInFlightIgnored(q) == FALSE

\* Mutant: two requests about to insert one key wait for each other.
KeyInFlightWide(q) == \E p \in Request \ {q} : SameKey(p, q) /\ pc[p] \in {"insert", "check", "commit"}

\* Another transaction has inserted this key and not ended: the INSERT waits.
KeyInFlight(q) == \E p \in Request \ {q} : SameKey(p, q) /\ pc[p] \in {"check", "commit"}

\* INSERT: the unique key first ...
Insert(q) ==
    /\ At(q, "insert")
    /\ ~KeyInFlight(q)
    /\ Goto(q, IF Holders(q) = {} THEN "check" ELSE "winner")
    /\ UNCHANGED <<input, stored, got, result, emitted, gone>>

\* ... then the foreign key on rider_id, at the end of the same statement.
CheckRider(q) ==
    /\ At(q, "check")
    /\ Goto(q, IF params[q] = UnknownRider THEN "winner" ELSE "commit")
    /\ UNCHANGED <<input, stored, got, result, emitted, gone>>

\* Mutant: the loser of the race returns the ride object it tried to insert.
WinnerOwn(q) ==
    /\ At(q, "winner")
    /\ \/ /\ Holders(q) = {}
          /\ Finish(q, "integrity_error", NoRide)
       \/ Holders(q) # {} /\ Finish(q, "raced", q)
    /\ UNCHANGED <<input, stored, emitted, gone>>

\* Mutant: the loser falls through to the RIDE_REQUESTED event.
WinnerEmits(q) ==
    /\ At(q, "winner")
    /\ \/ /\ Holders(q) = {}
          /\ Finish(q, "integrity_error", NoRide)
          /\ UNCHANGED emitted
       \/ \E r \in Holders(q) : Finish(q, "raced", r) /\ emitted' = emitted \cup {<<q, r>>}
    /\ UNCHANGED <<input, stored, gone>>

\* except IntegrityError: after the rollback, a keyless request re-raises;
\* otherwise whoever has the key now is returned as it is.
Winner(q) ==
    /\ At(q, "winner")
    /\ \/ /\ Holders(q) = {}
          /\ Finish(q, "integrity_error", NoRide)
       \/ \E r \in Holders(q) : Finish(q, "raced", r)
    /\ UNCHANGED <<input, stored, emitted, gone>>

Commit(q) ==
    /\ At(q, "commit")
    /\ stored' = stored \cup {q}
    /\ Goto(q, "emit")
    /\ UNCHANGED <<input, got, result, emitted, gone>>

\* Mutant: create_ride forgets to return the ride (None).
EmitUntyped(q) ==
    /\ At(q, "emit")
    /\ emitted' = emitted \cup {<<q, q>>}
    /\ Finish(q, "created", {})
    /\ UNCHANGED <<input, stored, gone>>

\* emit reads the committed ride back (it expired at commit), publishes
\* RIDE_REQUESTED, and the new ride is returned.
Emit(q) ==
    /\ At(q, "emit")
    /\ emitted' = emitted \cup {<<q, q>>}
    /\ Finish(q, "created", q)
    /\ UNCHANGED <<input, stored, gone>>

-----------------------------------------------------------------------------
\* The server refuses a statement or the COMMIT: rolled back, 503.
StatementFails(q) ==
    /\ "db" \in Faults
    /\ q \notin gone
    /\ pc[q] \notin {"new", "done"}
    /\ Finish(q, "db_error", NoRide)
    /\ UNCHANGED <<input, stored, emitted, gone>>

\* emit raises: the ride is stored, the client gets a 500.
EmitFails(q) ==
    /\ "bus" \in Faults
    /\ At(q, "emit")
    /\ Finish(q, "unhandled", NoRide)
    /\ UNCHANGED <<input, stored, emitted, gone>>

\* The server's transaction is on its own, at the statement it was running.
Abandon(q, x) ==
    /\ q \notin gone
    /\ pc[q] \notin {"new", "done"}
    /\ gone' = gone \cup {q}
    /\ result' = [result EXCEPT ![q] = x]
    /\ UNCHANGED <<input, stored, pc, got, emitted>>

\* The connection breaks: the client gets a 503 at once, and nobody learns
\* whether the statement or the COMMIT arrived and when the server ends it.
ConnectionLost(q) == "net" \in Faults /\ Abandon(q, "db_error")

\* The process dies before the response is out.
Crash(q) == "crash" \in Faults /\ Abandon(q, "died")

\* The server goes on with an INSERT whose client is gone.
Adrift(q) ==
    /\ q \in gone
    /\ pc[q] = "insert"
    /\ ~KeyInFlight(q)
    /\ Holders(q) = {}
    /\ Goto(q, "check")
    /\ UNCHANGED <<input, stored, got, result, emitted, gone>>

\* Postgres ends the abandoned transaction, with its COMMIT if that arrived.
Reap(q) ==
    /\ q \in gone
    /\ stored' \in {stored} \cup (IF pc[q] = "commit" THEN {stored \cup {q}} ELSE {})
    /\ Goto(q, "done")
    /\ gone' = gone \ {q}
    /\ UNCHANGED <<input, got, result, emitted>>

-----------------------------------------------------------------------------
Proceed(q) ==
    Lookup(q) \/ Quote(q) \/ Insert(q) \/ CheckRider(q) \/ Winner(q) \/ Commit(q) \/ Emit(q)

Next ==
    \E q \in Request :
        \/ Arrive(q)
        \/ Proceed(q)
        \/ StatementFails(q)
        \/ EmitFails(q)
        \/ ConnectionLost(q)
        \/ Crash(q)
        \/ Adrift(q)
        \/ Reap(q)

Spec == Init /\ [][Next]_vars

\* A running request keeps running (once the key it waits for is free, so does
\* its INSERT), and Postgres notices gone clients.  Clients need not send anything.
Fairness ==
    \A q \in Request :
        /\ WF_vars(Proceed(q))
        /\ WF_vars(Reap(q))

FairSpec == Spec /\ Fairness

-----------------------------------------------------------------------------
\* README: at most one ride per idempotency key, whoever inserts concurrently,
\* dies or has its commit acknowledgement lost.
OneRidePerKey == \A p, q \in stored : SameKey(p, q) => p = q

\* ride_service.py: retrying with the same key must return the same logical
\* ride.  Two successful answers for one key name the same, durable ride.
SameKeySameRide ==
    \A p, q \in Request :
        /\ result[q] \in Success => got[q] \in stored /\ (got[q] = q \/ SameKey(got[q], q))
        /\ result[p] \in Success /\ result[q] \in Success /\ SameKey(p, q) => got[p] = got[q]

\* A 409 idempotency_key_conflict is deserved: the key has a stored ride, and
\* that ride was made from another payload.
ConflictIsReal ==
    \A q \in Request :
        result[q] = "conflict" => \E r \in Holders(q) : params[r] # params[q]

\* ride_service.py, Slice 8 note: RIDE_REQUESTED is emitted only on a genuine
\* create, so one key never has two events, and an event's ride is durable.
OneEventPerKey ==
    /\ \A e, f \in emitted : (e[2] = f[2] \/ SameKey(e[2], f[2])) => e = f
    /\ \A e \in emitted : e[2] \in stored

\* A request that arrived ends: an INSERT waiting for another request with
\* the same key is always let go, by commit, rollback or the other's death.
RequestEnds == \A q \in Request : pc[q] # "new" ~> pc[q] = "done"

\* README: reusing a key with a different rider or pickup returns 409.
ReuseIsRefused ==
    \A q \in Request : result[q] \in Success => params[got[q]] = params[q]

=============================================================================
