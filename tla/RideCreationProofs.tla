------------------------- MODULE RideCreationProofs -------------------------
(***************************************************************************)
(* Proofs about RideCreation, for any number of requests, keys, payloads   *)
(* and any set of faults.                                                  *)
(***************************************************************************)
EXTENDS RideCreation, TLAPS

InFlight == {"check", "commit"}

\* A transaction past its unique check has its key to itself.
KeyReserved ==
    \A q \in Request : pc[q] \in InFlight =>
        /\ q \notin stored
        /\ Holders(q) = {}
        /\ \A p \in Request : pc[p] \in InFlight /\ SameKey(p, q) => p = q

\* A ride is committed by its own request, once, after which that request
\* only emits and returns.
StoredIsPast == \A q \in Request :
    /\ q \in stored => pc[q] \in {"emit", "done"}
    /\ pc[q] = "emit" => q \in stored

\* A request that returns a ride returns a stored one, its own or its key's.
AnswerStored ==
    \A q \in Request :
        result[q] \in Success => got[q] \in stored /\ (got[q] = q \/ SameKey(got[q], q))

EventsOfCreators == \A e \in emitted : \E q \in stored : e = <<q, q>>

IInv ==
    /\ TypeOK
    /\ KeyReserved
    /\ StoredIsPast
    /\ OneRidePerKey
    /\ AnswerStored
    /\ EventsOfCreators

USE KeyAssumption, ParamsAssumption, NoRideAssumption

\* The request that commits q's row (on its own commit, on a commit whose
\* acknowledgement is lost, or after its death) keeps one ride per key.
LEMMA CommitKeepsKeys ==
  ASSUME IInv, NEW q \in Request, pc[q] = "commit",
         stored' = stored \cup {q}, UNCHANGED input
  PROVE  OneRidePerKey'
BY DEF IInv, TypeOK, KeyReserved, InFlight, OneRidePerKey, Holders, SameKey, input

\* Every step preserves the inductive invariant.
LEMMA InvStep ==
  ASSUME IInv, [Next]_vars
  PROVE  IInv'
<1> USE DEF IInv, TypeOK, KeyReserved, StoredIsPast, AnswerStored, EventsOfCreators, InFlight,
            Steps, Results, Success, At, Goto, Finish, Holders, SameKey, input
<1>1. ASSUME NEW q \in Request, Arrive(q) \/ Quote(q)
      PROVE  IInv'
  BY <1>1 DEF Arrive, Quote, OneRidePerKey
<1>2. ASSUME NEW q \in Request, Lookup(q)
      PROVE  IInv'
  BY <1>2 DEF Lookup, OneRidePerKey
<1>3. ASSUME NEW q \in Request, Insert(q)
      PROVE  IInv'
  BY <1>3 DEF Insert, OneRidePerKey, KeyInFlight
<1>4. ASSUME NEW q \in Request, CheckRider(q)
      PROVE  IInv'
  BY <1>4 DEF CheckRider, OneRidePerKey
<1>5. ASSUME NEW q \in Request, Winner(q)
      PROVE  IInv'
  BY <1>5 DEF Winner, OneRidePerKey
<1>6. ASSUME NEW q \in Request, Commit(q)
      PROVE  IInv'
  BY <1>6, CommitKeepsKeys DEF Commit
<1>7. ASSUME NEW q \in Request, Emit(q)
      PROVE  IInv'
  BY <1>7 DEF Emit, OneRidePerKey
<1>8. ASSUME NEW q \in Request, StatementFails(q) \/ EmitFails(q)
      PROVE  IInv'
  BY <1>8 DEF StatementFails, EmitFails, OneRidePerKey
<1>9. ASSUME NEW q \in Request, ConnectionLost(q) \/ Crash(q)
      PROVE  IInv'
  BY <1>9 DEF ConnectionLost, Crash, Abandon, OneRidePerKey
<1>10. ASSUME NEW q \in Request, Adrift(q)
       PROVE  IInv'
  BY <1>10 DEF Adrift, OneRidePerKey, KeyInFlight
<1>11. ASSUME NEW q \in Request, Reap(q)
       PROVE  IInv'
  <2>1. CASE stored' = stored
    BY <1>11, <2>1 DEF Reap, OneRidePerKey
  <2>2. CASE pc[q] = "commit" /\ stored' = stored \cup {q}
    BY <1>11, <2>2, CommitKeepsKeys DEF Reap
  <2> QED
    BY <1>11, <2>1, <2>2 DEF Reap
<1>12. CASE UNCHANGED vars
  BY <1>12 DEF vars, OneRidePerKey
<1> QED
  BY <1>1, <1>2, <1>3, <1>4, <1>5, <1>6, <1>7, <1>8, <1>9, <1>10, <1>11, <1>12
     DEF Next, Proceed

\* IInv is inductive.
LEMMA Inductive == Spec => []IInv
<1>1. Init => IInv
  BY DEF Init, IInv, TypeOK, KeyReserved, StoredIsPast, AnswerStored, EventsOfCreators,
     OneRidePerKey, InFlight, Steps, Results, Success
<1>2. IInv /\ [Next]_vars => IInv'
  BY InvStep
<1> QED
  BY <1>1, <1>2, PTL DEF Spec

\* At most one ride per idempotency key, whatever create_ride calls race, die
\* or lose their commit's acknowledgement.
THEOREM KeysAreUnique == Spec => []OneRidePerKey
<1>1. IInv => OneRidePerKey
  BY DEF IInv
<1> QED
  BY <1>1, Inductive, PTL

\* All successful answers of create_ride for one key name one durable ride.
THEOREM RetriesReturnTheRide == Spec => []SameKeySameRide
<1>1. IInv => SameKeySameRide
  BY DEF IInv, TypeOK, AnswerStored, OneRidePerKey, SameKeySameRide, SameKey, Success
<1> QED
  BY <1>1, Inductive, PTL

\* RIDE_REQUESTED is published at most once per key, for a durable ride.
THEOREM EventsAreUnique == Spec => []OneEventPerKey
<1>1. IInv => OneEventPerKey
  BY DEF IInv, EventsOfCreators, OneRidePerKey, OneEventPerKey, SameKey
<1> QED
  BY <1>1, Inductive, PTL

\* Every state of create_ride is well typed: in particular what it returns is
\* a ride or nothing, and an event names a request and a ride.
THEOREM WellTyped == Spec => []TypeOK
<1>1. IInv => TypeOK
  BY DEF IInv
<1> QED
  BY <1>1, Inductive, PTL

\* A refusal stays deserved: rides are never deleted and requests keep their
\* payload, so only the step that refuses has to find a differing ride.
LEMMA ConflictStep ==
  ASSUME TypeOK, ConflictIsReal, [Next]_vars
  PROVE  ConflictIsReal'
<1>1. stored \subseteq stored' /\ UNCHANGED input
  BY DEF Next, Proceed, Arrive, Lookup, Quote, Insert, CheckRider, Winner, Commit, Emit,
     StatementFails, EmitFails, ConnectionLost, Crash, Abandon, Adrift, Reap, vars, input
<1>2. \A q \in Request : Holders(q) \subseteq Holders(q)'
  BY <1>1 DEF Holders, SameKey, input
<1>3. ASSUME NEW q \in Request, result'[q] = "conflict", result[q] # "conflict"
      PROVE  \E r \in Holders(q) : params[r] # params[q]
  <2>1. PICK p \in Request : Lookup(p)
    BY <1>3 DEF TypeOK, Next, Proceed, Arrive, Lookup, Quote, Insert, CheckRider, Winner, Commit,
       Emit, StatementFails, EmitFails, ConnectionLost, Crash, Abandon, Adrift, Reap, Finish, vars
  <2> QED
    BY <1>3, <2>1 DEF TypeOK, Lookup, Finish, Matches
<1> QED
  BY <1>1, <1>2, <1>3 DEF ConflictIsReal, input

\* A 409 idempotency_key_conflict is deserved: the key has a stored ride, made
\* from another payload than the refused request's.
THEOREM ConflictsAreDeserved == Spec => []ConflictIsReal
<1>1. Init => ConflictIsReal
  BY DEF Init, ConflictIsReal
<1>2. TypeOK /\ ConflictIsReal /\ [Next]_vars => ConflictIsReal'
  BY ConflictStep
<1> QED
  BY <1>1, <1>2, WellTyped, PTL DEF Spec

\* An IntegrityError that leaves create_ride is about the rider: a request that
\* has only lost its key finds the winner's ride, and no ride is stored for a
\* rider who does not exist.
ErrorIsAboutRider ==
    /\ \A q \in Request : result[q] = "integrity_error" => params[q] = UnknownRider
    /\ \A q \in stored : params[q] # UnknownRider

\* Why a request is in the except branch, and what passed the foreign key.
Losing ==
    \A q \in Request :
        /\ pc[q] = "winner" => Holders(q) # {} \/ params[q] = UnknownRider
        /\ pc[q] = "commit" => params[q] # UnknownRider

\* Committed rides stay, so a key that is taken stays taken.
LEMMA LosingStep ==
  ASSUME TypeOK, Losing, ErrorIsAboutRider, [Next]_vars
  PROVE  Losing' /\ ErrorIsAboutRider'
<1> USE DEF TypeOK, At, Goto, Finish, Success, Results, Steps
<1>1. stored \subseteq stored' /\ UNCHANGED input
  BY DEF Next, Proceed, Arrive, Lookup, Quote, Insert, CheckRider, Winner, Commit, Emit,
     StatementFails, EmitFails, ConnectionLost, Crash, Abandon, Adrift, Reap, vars, input
<1>2. \A q \in Request : Holders(q) \subseteq Holders(q)'
  BY <1>1 DEF Holders, SameKey, input
<1>3. ASSUME NEW q \in Request, pc'[q] = "winner", pc[q] # "winner"
      PROVE  Holders(q) # {} \/ params[q] = UnknownRider
  <2>1. Insert(q) \/ CheckRider(q)
    BY <1>3 DEF Next, Proceed, Arrive, Lookup, Quote, Insert, CheckRider, Winner, Commit, Emit,
       StatementFails, EmitFails, ConnectionLost, Crash, Abandon, Adrift, Reap, vars
  <2> QED
    BY <1>3, <2>1 DEF Insert, CheckRider
<1>4. ASSUME NEW q \in Request, pc'[q] = "commit", pc[q] # "commit"
      PROVE  params[q] # UnknownRider
  <2>1. CheckRider(q)
    BY <1>4 DEF Next, Proceed, Arrive, Lookup, Quote, Insert, CheckRider, Winner, Commit, Emit,
       StatementFails, EmitFails, ConnectionLost, Crash, Abandon, Adrift, Reap, vars
  <2> QED
    BY <1>4, <2>1 DEF CheckRider
<1>5. ASSUME NEW q \in Request, result'[q] = "integrity_error", result[q] # "integrity_error"
      PROVE  params[q] = UnknownRider
  <2>1. Winner(q)
    BY <1>5 DEF Next, Proceed, Arrive, Lookup, Quote, Insert, CheckRider, Winner, Commit, Emit,
       StatementFails, EmitFails, ConnectionLost, Crash, Abandon, Adrift, Reap, vars
  <2>2. pc[q] = "winner" /\ Holders(q) = {}
    BY <1>5, <2>1 DEF Winner
  <2> QED
    BY <2>2 DEF Losing
<1>6. ASSUME NEW q \in stored', q \notin stored
      PROVE  q \in Request /\ params[q] # UnknownRider
  <2>1. PICK p \in Request : pc[p] = "commit" /\ stored' = stored \cup {p}
    BY <1>6 DEF Next, Proceed, Arrive, Lookup, Quote, Insert, CheckRider, Winner, Commit, Emit,
       StatementFails, EmitFails, ConnectionLost, Crash, Abandon, Adrift, Reap, vars
  <2> QED
    BY <1>6, <2>1 DEF Losing
<1>7. Losing'
  BY <1>1, <1>2, <1>3, <1>4 DEF Losing, input
<1>8. ErrorIsAboutRider'
  BY <1>1, <1>5, <1>6 DEF ErrorIsAboutRider, input
<1> QED
  BY <1>7, <1>8

\* ride_service.py's except IntegrityError: losing the race for a key is never
\* an error to the client, whoever else dies or fails meanwhile.
THEOREM LosersGetTheRide == Spec => []ErrorIsAboutRider
<1>1. Init => Losing /\ ErrorIsAboutRider
  BY DEF Init, Losing, ErrorIsAboutRider
<1>2. TypeOK /\ Losing /\ ErrorIsAboutRider /\ [Next]_vars => Losing' /\ ErrorIsAboutRider'
  BY LosingStep
<1> QED
  BY <1>1, <1>2, WellTyped, PTL DEF Spec

=============================================================================
