-------------------- MODULE IdempotencySubscriptionProofs --------------------
(***************************************************************************)
(* Idempotency: an idempotent request runs once, its runner is alone with  *)
(* the key and its response goes to its own payload only, for any number   *)
(* of requests, payloads, records and crashes.  What carries the argument  *)
(* is KeyKept: an execution whose work is to be remembered keeps its row,  *)
(* because every statement that removes a row names the row's own id.      *)
(*                                                                         *)
(* Subscription: changes of the status follow the provider's times, and    *)
(* the subscription agrees with the provider once every event is           *)
(* processed, for any number of processes, events, seconds, deliveries and *)
(* crashes.  What carries the argument is CalmAgrees: the row has reached  *)
(* every event done with, and once it has reached the provider's last      *)
(* event it has its status; "reached" is the place among what the provider *)
(* did, in its true order, which the row's time cannot tell within one     *)
(* second.  An event that leaves no time behind it (Silent) leads where    *)
(* the provider has never been, so that no row can have its status early.  *)
(***************************************************************************)
EXTENDS Idempotency, Subscription, SequenceTheorems, TLAPS

-----------------------------------------------------------------------------
(* Idempotency. *)

\* Ids are issued once, and only issued ones expire or have effects.
IdsIssued ==
  \A i \in expired \cup effective : issuedFor[i] # None

\* A request on its way to a row knows what it asks for.
PayloadKnown ==
  \A r \in Requests :
    stage[r] \in {"deleting", "inserting", "raced"} => payload[r] \in Payloads

\* The row's own columns agree with the history of its id.
RowsHonest ==
  record # None => /\ issuedFor[record.id] = record.payload
                   /\ record.status = "RESOLVED" => record.response = record.id

\* A request at work has a record of its own, not yet executed while it runs.
HeldByOne ==
  \A r \in Requests :
    /\ Working(r) => held[r] \in Ids /\ issuedFor[held[r]] # None
    /\ stage[r] = "running" => held[r] \notin effective
    /\ \A s \in Requests : Working(r) /\ Working(s) /\ held[r] = held[s] => r = s

\* Only what may be removed is about to be: an expired row, or one whose
\* execution had no effect to remember.
RemovalsDue ==
  \A r \in Requests :
    /\ stage[r] = "deleting" => held[r] \in expired
    /\ stage[r] = "releasing" => held[r] \notin effective \ torn

\* The row of an execution to be remembered is the key's.
KeyKept ==
  \A i \in effective \ (expired \cup torn) : Is(i)

IInv == /\ TypeOK /\ IdsIssued /\ PayloadKnown /\ RowsHonest /\ HeldByOne /\ RemovalsDue
        /\ RunnerHoldsKey /\ KeyKept /\ ReplayIsFaithful

\* With no row and nobody at work there is nothing to show.
LEMMA InitIInv ==
  ASSUME Init
  PROVE  IInv
BY IdempotencyAssumption
DEF Init, IInv, TypeOK, Stages, IdsIssued, PayloadKnown, RowsHonest, HeldByOne, Working,
    RemovalsDue, RunnerHoldsKey, KeyKept, ReplayIsFaithful

\* A lookup reads the row; it plans at most the deletion of an expired one.
LEMMA LookupKeepsIInv ==
  ASSUME IInv, NEW r \in Requests, NEW p \in Payloads, Lookup(r, p)
  PROVE  IInv'
<1> USE IdempotencyAssumption DEF IInv, TypeOK, Is, Working, workVars, Stages, Ids
<1>1. TypeOK'
  <2>1. replayed' \in [payload : Payloads, response : Ids] \cup {None}
    <3>1. CASE record # None /\ record.status = "RESOLVED"
      <4>1. record.response \in Ids
        BY <3>1 DEF Records
      <4> QED BY <4>1 DEF Lookup, Serve
    <3>2. CASE ~(record # None /\ record.status = "RESOLVED")
      BY <3>2 DEF Lookup, Serve
    <3> QED BY <3>1, <3>2
  <2>2. record # None => record.id \in Ids
    BY DEF Records
  <2>3. stage' \in [Requests -> Stages] /\ payload' \in [Requests -> Payloads \cup {None}]
    BY DEF Lookup, To
  <2>4. held' \in [Requests -> Ids \cup {None}]
    BY <2>2 DEF Lookup
  <2>5. UNCHANGED <<record, issuedFor, expired, effective, torn, faults>>
    BY DEF Lookup
  <2> QED BY <2>1, <2>3, <2>4, <2>5
<1>2. IdsIssued'
  BY DEF Lookup, To, Serve, IdsIssued, HeldByOne
<1>3. PayloadKnown'
  BY DEF Lookup, To, Serve, PayloadKnown
<1>4. RowsHonest'
  BY DEF Lookup, To, Serve, RowsHonest
<1>5. HeldByOne'
  BY DEF Lookup, To, Serve, HeldByOne, IdsIssued, PayloadKnown
<1>6. RemovalsDue'
  BY DEF Lookup, To, Serve, RemovalsDue, HeldByOne
<1>7. RunnerHoldsKey'
  BY DEF Lookup, To, Serve, RunnerHoldsKey, HeldByOne, RemovalsDue, IdsIssued
<1>8. KeyKept'
  BY DEF Lookup, To, Serve, KeyKept, HeldByOne, RemovalsDue, RunnerHoldsKey
<1>9. ReplayIsFaithful'
  BY DEF Lookup, To, Serve, ReplayIsFaithful, RowsHonest
<1> QED BY <1>1, <1>2, <1>3, <1>4, <1>5, <1>6, <1>7, <1>8, <1>9

\* Deleting by id removes the expired row and no row that took its place.
LEMMA DeleteExpiredKeepsIInv ==
  ASSUME IInv, NEW r \in Requests, DeleteExpired(r)
  PROVE  IInv'
<1> USE IdempotencyAssumption DEF IInv, TypeOK, Is, Working, workVars, Stages, Ids
<1>1. TypeOK'
  BY DEF DeleteExpired, To, Records
<1>2. IdsIssued'
  BY DEF DeleteExpired, To, IdsIssued, HeldByOne
<1>3. PayloadKnown'
  BY DEF DeleteExpired, To, PayloadKnown
<1>4. RowsHonest'
  BY DEF DeleteExpired, To, RowsHonest
<1>5. HeldByOne'
  BY DEF DeleteExpired, To, HeldByOne, IdsIssued, PayloadKnown
<1>6. RemovalsDue'
  BY DEF DeleteExpired, To, RemovalsDue, HeldByOne
<1>7. RunnerHoldsKey'
  BY DEF DeleteExpired, To, RunnerHoldsKey, HeldByOne, RemovalsDue, IdsIssued
<1>8. KeyKept'
  BY DEF DeleteExpired, To, KeyKept, HeldByOne, RemovalsDue, RunnerHoldsKey
<1>9. ReplayIsFaithful'
  BY DEF DeleteExpired, To, ReplayIsFaithful, RowsHonest
<1> QED BY <1>1, <1>2, <1>3, <1>4, <1>5, <1>6, <1>7, <1>8, <1>9

\* The unique index lets a row in only when the key has none.
LEMMA InsertKeepsIInv ==
  ASSUME IInv, NEW r \in Requests, Insert(r)
  PROVE  IInv'
<1> USE IdempotencyAssumption DEF IInv, TypeOK, Is, Working, workVars, Stages, Ids
<1>1. TypeOK'
  <2>1. CASE record # None
    BY <2>1 DEF Insert, To
  <2>2. CASE record = None
    <3>1. PICK i \in Ids :
             /\ record' = [id |-> i, payload |-> payload[r], status |-> "PENDING", response |-> None]
             /\ issuedFor' = [issuedFor EXCEPT ![i] = payload[r]]
             /\ held' = [held EXCEPT ![r] = i]
             /\ To(r, "running")
      BY <2>2 DEF Insert, Created
    <3>2. payload[r] \in Payloads /\ UNCHANGED <<expired, payload, replayed, workVars>>
      BY DEF Insert, PayloadKnown
    <3>3. record' \in Records
      BY <3>1, <3>2 DEF Records
    <3> QED BY <3>1, <3>2, <3>3 DEF To
  <2> QED BY <2>1, <2>2
<1>2. IdsIssued'
  BY DEF Insert, Created, To, IdsIssued, HeldByOne
<1>3. PayloadKnown'
  BY DEF Insert, Created, To, PayloadKnown
<1>4. RowsHonest'
  BY DEF Insert, Created, To, RowsHonest
<1>5. HeldByOne'
  BY DEF Insert, Created, To, HeldByOne, IdsIssued, PayloadKnown
<1>6. RemovalsDue'
  BY DEF Insert, Created, To, RemovalsDue, HeldByOne
<1>7. RunnerHoldsKey'
  <2>1. CASE record # None
    BY <2>1 DEF Insert, To, RunnerHoldsKey
  <2>2. CASE record = None
    <3>1. PICK i \in Ids :
             /\ record' = [id |-> i, payload |-> payload[r], status |-> "PENDING", response |-> None]
             /\ issuedFor' = [issuedFor EXCEPT ![i] = payload[r]]
             /\ held' = [held EXCEPT ![r] = i]
             /\ To(r, "running")
      BY <2>2 DEF Insert, Created
    <3>2. record' \in Records
      BY <3>1 DEF Insert, PayloadKnown, Records
    <3>3. record' # None /\ record'.id = held'[r] /\ record'.status = "PENDING"
      BY <3>1, <3>2
    <3>4. \A s \in Requests : s # r /\ Working(s)' => held'[s] \in expired'
      BY <2>2, <3>1 DEF Insert, To, RunnerHoldsKey
    <3> QED BY <3>3, <3>4 DEF RunnerHoldsKey
  <2> QED BY <2>1, <2>2
<1>8. KeyKept'
  BY DEF Insert, Created, To, KeyKept, HeldByOne, RemovalsDue, RunnerHoldsKey
<1>9. ReplayIsFaithful'
  BY DEF Insert, Created, To, ReplayIsFaithful, RowsHonest
<1> QED BY <1>1, <1>2, <1>3, <1>4, <1>5, <1>6, <1>7, <1>8, <1>9

\* A request that lost the race only reads.
LEMMA RereadKeepsIInv ==
  ASSUME IInv, NEW r \in Requests, Reread(r)
  PROVE  IInv'
<1> USE IdempotencyAssumption DEF IInv, TypeOK, Is, Working, workVars, Stages, Ids
<1>1. TypeOK'
  BY DEF Reread, Finish, To, Serve, Records
<1>2. IdsIssued'
  BY DEF Reread, Finish, To, Serve, IdsIssued, HeldByOne
<1>3. PayloadKnown'
  BY DEF Reread, Finish, To, Serve, PayloadKnown
<1>4. RowsHonest'
  BY DEF Reread, Finish, To, Serve, RowsHonest
<1>5. HeldByOne'
  BY DEF Reread, Finish, To, Serve, HeldByOne, IdsIssued, PayloadKnown
<1>6. RemovalsDue'
  BY DEF Reread, Finish, To, Serve, RemovalsDue, HeldByOne
<1>7. RunnerHoldsKey'
  BY DEF Reread, Finish, To, Serve, RunnerHoldsKey, HeldByOne, RemovalsDue, IdsIssued
<1>8. KeyKept'
  BY DEF Reread, Finish, To, Serve, KeyKept, HeldByOne, RemovalsDue, RunnerHoldsKey
<1>9. ReplayIsFaithful'
  BY DEF Reread, Finish, To, Serve, ReplayIsFaithful, RowsHonest
<1> QED BY <1>1, <1>2, <1>3, <1>4, <1>5, <1>6, <1>7, <1>8, <1>9

\* What is executed is the record held, for the first time.
LEMMA ExecuteKeepsIInv ==
  ASSUME IInv, NEW r \in Requests, NEW o \in Outcomes, Execute(r, o)
  PROVE  IInv'
<1> USE IdempotencyAssumption DEF IInv, TypeOK, Is, Working, workVars, Stages, Ids
<1>1. TypeOK'
  <2>1. held[r] \in Ids
    BY DEF Execute, HeldByOne
  <2> QED BY <2>1 DEF Execute, Finish, To, Outcomes, Records
<1>2. IdsIssued'
  BY DEF Execute, Finish, To, Outcomes, IdsIssued, HeldByOne
<1>3. PayloadKnown'
  BY DEF Execute, Finish, To, Outcomes, PayloadKnown
<1>4. RowsHonest'
  BY DEF Execute, Finish, To, Outcomes, RowsHonest
<1>5. HeldByOne'
  BY DEF Execute, Finish, To, Outcomes, HeldByOne, IdsIssued, PayloadKnown
<1>6. RemovalsDue'
  BY DEF Execute, Finish, To, Outcomes, RemovalsDue, HeldByOne
<1>7. RunnerHoldsKey'
  BY DEF Execute, Finish, To, Outcomes, RunnerHoldsKey, HeldByOne, RemovalsDue, IdsIssued
<1>8. KeyKept'
  <2>1. effective' \subseteq effective \cup {held[r]} /\ torn \subseteq torn' /\ UNCHANGED <<record, expired>>
    BY DEF Execute
  <2>2. held[r] \notin expired => Is(held[r])
    BY DEF Execute, RunnerHoldsKey
  <2> QED BY <2>1, <2>2 DEF KeyKept
<1>9. ReplayIsFaithful'
  BY DEF Execute, Finish, To, Outcomes, ReplayIsFaithful, RowsHonest
<1> QED BY <1>1, <1>2, <1>3, <1>4, <1>5, <1>6, <1>7, <1>8, <1>9

\* Resolving by id changes the runner's own row or none.
LEMMA ResolveKeepsIInv ==
  ASSUME IInv, NEW r \in Requests, Resolve(r)
  PROVE  IInv'
<1> USE IdempotencyAssumption DEF IInv, TypeOK, Is, Working, workVars, Stages, Ids
<1>1. TypeOK'
  BY DEF Resolve, Finish, To, Records
<1>2. IdsIssued'
  BY DEF Resolve, Finish, To, IdsIssued, HeldByOne
<1>3. PayloadKnown'
  BY DEF Resolve, Finish, To, PayloadKnown
<1>4. RowsHonest'
  BY DEF Resolve, Finish, To, RowsHonest
<1>5. HeldByOne'
  BY DEF Resolve, Finish, To, HeldByOne, IdsIssued, PayloadKnown
<1>6. RemovalsDue'
  BY DEF Resolve, Finish, To, RemovalsDue, HeldByOne
<1>7. RunnerHoldsKey'
  BY DEF Resolve, Finish, To, RunnerHoldsKey, HeldByOne, RemovalsDue, IdsIssued
<1>8. KeyKept'
  <2>1. record # None => record' # None /\ record'.id = record.id
    BY DEF Resolve, Records
  <2> QED BY <2>1 DEF Resolve, KeyKept
<1>9. ReplayIsFaithful'
  BY DEF Resolve, Finish, To, ReplayIsFaithful, RowsHonest
<1> QED BY <1>1, <1>2, <1>3, <1>4, <1>5, <1>6, <1>7, <1>8, <1>9

\* What is released had no effect to remember.
LEMMA ReleaseKeepsIInv ==
  ASSUME IInv, NEW r \in Requests, Release(r)
  PROVE  IInv'
<1> USE IdempotencyAssumption DEF IInv, TypeOK, Is, Working, workVars, Stages, Ids
<1>1. TypeOK'
  BY DEF Release, Finish, To, Records
<1>2. IdsIssued'
  BY DEF Release, Finish, To, IdsIssued, HeldByOne
<1>3. PayloadKnown'
  BY DEF Release, Finish, To, PayloadKnown
<1>4. RowsHonest'
  BY DEF Release, Finish, To, RowsHonest
<1>5. HeldByOne'
  BY DEF Release, Finish, To, HeldByOne, IdsIssued, PayloadKnown
<1>6. RemovalsDue'
  BY DEF Release, Finish, To, RemovalsDue, HeldByOne
<1>7. RunnerHoldsKey'
  BY DEF Release, Finish, To, RunnerHoldsKey, HeldByOne, RemovalsDue, IdsIssued
<1>8. KeyKept'
  BY DEF Release, Finish, To, KeyKept, HeldByOne, RemovalsDue, RunnerHoldsKey
<1>9. ReplayIsFaithful'
  BY DEF Release, Finish, To, ReplayIsFaithful, RowsHonest
<1> QED BY <1>1, <1>2, <1>3, <1>4, <1>5, <1>6, <1>7, <1>8, <1>9

\* A crash leaves the row where it is.
LEMMA CrashKeepsIInv ==
  ASSUME IInv, NEW r \in Requests, Crash(r)
  PROVE  IInv'
<1> USE IdempotencyAssumption DEF IInv, TypeOK, Is, Working, workVars, Stages, Ids
<1>1. TypeOK'
  BY DEF Crash, Finish, To, Records
<1>2. IdsIssued'
  BY DEF Crash, Finish, To, IdsIssued, HeldByOne
<1>3. PayloadKnown'
  BY DEF Crash, Finish, To, PayloadKnown
<1>4. RowsHonest'
  BY DEF Crash, Finish, To, RowsHonest
<1>5. HeldByOne'
  BY DEF Crash, Finish, To, HeldByOne, IdsIssued, PayloadKnown
<1>6. RemovalsDue'
  BY DEF Crash, Finish, To, RemovalsDue, HeldByOne
<1>7. RunnerHoldsKey'
  BY DEF Crash, Finish, To, RunnerHoldsKey, HeldByOne, RemovalsDue, IdsIssued
<1>8. KeyKept'
  BY DEF Crash, Finish, To, KeyKept, HeldByOne, RemovalsDue, RunnerHoldsKey
<1>9. ReplayIsFaithful'
  BY DEF Crash, Finish, To, ReplayIsFaithful, RowsHonest
<1> QED BY <1>1, <1>2, <1>3, <1>4, <1>5, <1>6, <1>7, <1>8, <1>9

\* Time takes the row out of the promises, not out of the table.
LEMMA ExpireKeepsIInv ==
  ASSUME IInv, Expire
  PROVE  IInv'
<1> USE IdempotencyAssumption DEF IInv, TypeOK, Is, Working, workVars, Stages, Ids
<1>1. TypeOK'
  BY DEF Expire, Records
<1>2. IdsIssued'
  BY DEF Expire, IdsIssued, RowsHonest, Records
<1>3. PayloadKnown'
  BY DEF Expire, PayloadKnown
<1>4. RowsHonest'
  BY DEF Expire, RowsHonest
<1>5. HeldByOne'
  BY DEF Expire, HeldByOne, IdsIssued, PayloadKnown
<1>6. RemovalsDue'
  BY DEF Expire, RemovalsDue, HeldByOne
<1>7. RunnerHoldsKey'
  BY DEF Expire, RunnerHoldsKey, HeldByOne, RemovalsDue, IdsIssued
<1>8. KeyKept'
  BY DEF Expire, KeyKept, HeldByOne, RemovalsDue, RunnerHoldsKey
<1>9. ReplayIsFaithful'
  BY DEF Expire, ReplayIsFaithful, RowsHonest
<1> QED BY <1>1, <1>2, <1>3, <1>4, <1>5, <1>6, <1>7, <1>8, <1>9

\* Only an expired row is purged.
LEMMA PurgeKeepsIInv ==
  ASSUME IInv, Purge
  PROVE  IInv'
<1> USE IdempotencyAssumption DEF IInv, TypeOK, Is, Working, workVars, Stages, Ids
<1>1. TypeOK'
  BY DEF Purge, Records
<1>2. IdsIssued'
  BY DEF Purge, IdsIssued, HeldByOne
<1>3. PayloadKnown'
  BY DEF Purge, PayloadKnown
<1>4. RowsHonest'
  BY DEF Purge, RowsHonest
<1>5. HeldByOne'
  BY DEF Purge, HeldByOne, IdsIssued, PayloadKnown
<1>6. RemovalsDue'
  BY DEF Purge, RemovalsDue, HeldByOne
<1>7. RunnerHoldsKey'
  BY DEF Purge, RunnerHoldsKey, HeldByOne, RemovalsDue, IdsIssued
<1>8. KeyKept'
  BY DEF Purge, KeyKept, HeldByOne, RemovalsDue, RunnerHoldsKey
<1>9. ReplayIsFaithful'
  BY DEF Purge, ReplayIsFaithful, RowsHonest
<1> QED BY <1>1, <1>2, <1>3, <1>4, <1>5, <1>6, <1>7, <1>8, <1>9

\* Every step of the specification keeps the invariant.
LEMMA NextKeepsIInv ==
  ASSUME IInv, [Next]_vars
  PROVE  IInv'
<1>1. CASE UNCHANGED vars
  BY <1>1 DEF vars, IInv, TypeOK, IdsIssued, PayloadKnown, RowsHonest, HeldByOne, Working, Is,
    RemovalsDue, RunnerHoldsKey, KeyKept, ReplayIsFaithful
<1>2. ASSUME NEW r \in Requests, Step(r)
      PROVE  IInv'
  BY <1>2, DeleteExpiredKeepsIInv, InsertKeepsIInv, RereadKeepsIInv, ExecuteKeepsIInv,
    ResolveKeepsIInv, ReleaseKeepsIInv DEF Step
<1> QED
  BY <1>1, <1>2, LookupKeepsIInv, CrashKeepsIInv, ExpireKeepsIInv, PurgeKeepsIInv DEF Next

\* The invariant holds in every state of every behaviour.
THEOREM Invariance == Spec => []IInv
BY InitIInv, NextKeepsIInv, PTL DEF Spec

\* acquireIdempotencyLock, resolve, release and purge keep the table and the
\* requests' states well formed.
THEOREM TypeCorrect == Spec => []TypeOK
<1>1. IInv => TypeOK
  BY DEF IInv
<1> QED BY <1>1, Invariance, PTL

\* A request repeated under one Idempotency-Key is executed at most once while
\* its record lives, whatever the interleaving of the five statements, unless
\* its handler failed after its service had committed.
THEOREM ExecutedAtMostOnce == Spec => []AtMostOnce
<1>1. IInv => AtMostOnce
  BY DEF IInv, KeyKept, Is, AtMostOnce
<1> QED BY <1>1, Invariance, PTL

\* The request that runs the handler owns the key's row until it expires.
THEOREM RunnersOwnTheKey == Spec => []RunnerHoldsKey
<1>1. IInv => RunnerHoldsKey
  BY DEF IInv
<1> QED BY <1>1, Invariance, PTL

\* A stored response is never given to a request for something else.
THEOREM ReplaysAreFaithful == Spec => []ReplayIsFaithful
<1>1. IInv => ReplayIsFaithful
  BY DEF IInv
<1> QED BY <1>1, Invariance, PTL

-----------------------------------------------------------------------------
(* Subscriptions: what the provider's events and the processes have in common. *)

\* A process that handles an event carries its time, its place and its status; nothing
\* is later than the clock, or than what has happened.
Known(job) ==
  /\ job.ev # 0 => job.ev \in DOMAIN events
  /\ job.at \in {"insert", "again", "read", "finish", "fail"} => job.ev # 0
  /\ job.at \in {"find", "look", "fetch"} => job.ev = 0
  /\ job.ev # 0 /\ job.at \notin {"finish", "fail"} =>
       job.ts = At(job.ev) /\ job.place = Place(job.ev) /\ job.to = events[job.ev].to
  /\ job.ts <= clock
  /\ job.ev = 0 => job.place <= Here

\* What is about to be applied is a change of what was read, and not older by its time.
Changing(job) ==
  job.at = "apply" /\ job.fresh =>
    /\ sub.status # job.to
    /\ job.ts = Untimed \/ job.ts >= sub.synced

JobsKnown == \A p \in Procs : Known(proc[p]) /\ Changing(proc[p])

\* What has not happened is not in the inbox.
InboxKnown == \A e \in 1..MaxEvents : e > Len(events) => inbox[e] = "NONE"

TimesKnown ==
  /\ sub.synced <= clock
  /\ \A e \in DOMAIN events : At(e) <= clock

\* The row is not from the future, and its status is that of the newest change.
NewestSaved ==
  /\ reached <= Here
  /\ overtaken \/ newest.at <= sub.synced
  /\ ~manual /\ newest.ev # 0 =>
       newest.ev \in DOMAIN events /\ sub.status = events[newest.ev].to

\* Events that leave the time of a subscription alone that has their status.
Silent(e) == events[e].kind \in {"CANCELED", "CHECKOUT"}

Early == {"INCOMPLETE", "TRIALING"}

\* The provider is where its last event took it, and a silent event leads to a status that
\* it had never had.
ProviderHistory ==
  /\ Len(events) # 0 => provider = events[Len(events)].to
  /\ \A e \in DOMAIN events : events[e].kind = "PAYMENT_SUCCEEDED" => events[e].to = "ACTIVE"
  /\ \A d, e \in DOMAIN events : d < e /\ Silent(e) => events[d].to # events[e].to
  /\ provider \in Early => \A e \in DOMAIN events : events[e].to \in Early
  /\ provider # "CANCELED" => \A e \in DOMAIN events : events[e].to # "CANCELED"

\* The provider has been in this status, and it is not where a silent event after "place" led.
Past(status, place) ==
  /\ provider \in Early => status \in Early
  /\ provider # "CANCELED" => status # "CANCELED"
  /\ \A e \in DOMAIN events :
       Silent(e) /\ Place(e) > reached /\ Place(e) > place => status # events[e].to

\* The row has reached an event that is done with; once it has reached the provider's last
\* event it agrees with the provider.
RowAgrees ==
  /\ Past(sub.status, 0)
  /\ \A e \in DOMAIN events : inbox[e] = "PROCESSED" => reached >= Place(e)
  /\ reached >= Place(Len(events)) => sub.status = provider

\* What a process does keeps it so.
JobAgrees(job) ==
  /\ job.at = "finish" => reached >= Place(job.ev)
  /\ job.ev = 0 /\ job.at \in {"fetch", "begin", "apply"} => Past(job.to, job.place)
  /\ job.ev = 0 /\ job.place >= Place(Len(events)) =>
       /\ job.at \in {"begin", "apply"} => job.to = provider
       /\ job.at = "stamp" /\ job.fresh => sub.status = provider
  /\ job.at = "fetch" /\ job.fresh => sub.status = job.to
  /\ job.at = "stamp" /\ job.fresh /\ job.ev # 0 /\ job.place > reached => sub.status = job.to
  /\ job.at # "find"
  /\ job.at \in {"look", "fetch", "begin", "apply", "stamp"} => job.ts # Untimed

Calm == calls = 0 /\ ~overtaken /\ ~skipped /\ ~blurred

CalmAgrees == Calm => RowAgrees /\ \A p \in Procs : JobAgrees(proc[p])

SubscriptionInv ==
  /\ SubscriptionTypeOK /\ JobsKnown /\ InboxKnown /\ TimesKnown /\ NewestSaved
  /\ ProviderHistory /\ CalmAgrees

-----------------------------------------------------------------------------
(* The state machine, and what a process turns to. *)

LEMMA TriggerNames ==
  {SUCCEEDED, FAILED, UPDATED, DELETED, COMPLETED, "WEBHOOK", "RECONCILIATION_WORKER",
   "SYNC_RECONCILIATION", "ADMIN_OVERRIDE", "USER_ACTION:cancel", "DUNNING_ENGINE:grace_expired",
   "DUNNING_ENGINE:automatic_termination", "DUNNING_ENGINE:trial_expired"} \subseteq Triggers
<1>1. /\ <<"INCOMPLETE", "ACTIVE", {SUCCEEDED}>> \in SUBSCRIPTION_TRANSITIONS
      /\ <<"INCOMPLETE", "TRIALING", {UPDATED, "WEBHOOK"}>> \in SUBSCRIPTION_TRANSITIONS
      /\ <<"INCOMPLETE", "INCOMPLETE_EXPIRED", {"WEBHOOK:customer.subscription.updated[incomplete_expired]",
                                              "RECONCILIATION_WORKER"}>> \in SUBSCRIPTION_TRANSITIONS
      /\ <<"ACTIVE", "PAST_DUE", {FAILED}>> \in SUBSCRIPTION_TRANSITIONS
      /\ <<"TRIALING", "CANCELED", {"USER_ACTION:cancel"}>> \in SUBSCRIPTION_TRANSITIONS
      /\ <<"TRIALING", "PAST_DUE", {"DUNNING_ENGINE:trial_expired"}>> \in SUBSCRIPTION_TRANSITIONS
      /\ <<"PAST_DUE", "ACTIVE", {SUCCEEDED, "SYNC_RECONCILIATION", "ADMIN_OVERRIDE"}>>
           \in SUBSCRIPTION_TRANSITIONS
      /\ <<"PAST_DUE", "UNPAID", {"DUNNING_ENGINE:grace_expired"}>> \in SUBSCRIPTION_TRANSITIONS
      /\ <<"UNPAID", "CANCELED", {DELETED, "DUNNING_ENGINE:automatic_termination"}>>
           \in SUBSCRIPTION_TRANSITIONS
      /\ <<"CANCELED", "ACTIVE", {COMPLETED}>> \in SUBSCRIPTION_TRANSITIONS
  BY DEF SUBSCRIPTION_TRANSITIONS
<1> HIDE DEF SUBSCRIPTION_TRANSITIONS
<1>2. \A rule \in SUBSCRIPTION_TRANSITIONS : \A t \in rule[3] : t \in Triggers
  BY DEF Triggers
<1>3. SUCCEEDED \in Triggers
  BY <1>1, <1>2
<1>4. UPDATED \in Triggers /\ "WEBHOOK" \in Triggers
  BY <1>1, <1>2
<1>5. "RECONCILIATION_WORKER" \in Triggers
  BY <1>1, <1>2
<1>6. FAILED \in Triggers
  BY <1>1, <1>2
<1>7. "USER_ACTION:cancel" \in Triggers /\ "DUNNING_ENGINE:trial_expired" \in Triggers
  BY <1>1, <1>2
<1>8. "SYNC_RECONCILIATION" \in Triggers /\ "ADMIN_OVERRIDE" \in Triggers
  BY <1>1, <1>2
<1>9. "DUNNING_ENGINE:grace_expired" \in Triggers
  BY <1>1, <1>2
<1>10. DELETED \in Triggers /\ "DUNNING_ENGINE:automatic_termination" \in Triggers
  BY <1>1, <1>2
<1>11. COMPLETED \in Triggers
  BY <1>1, <1>2
<1> QED
  BY <1>3, <1>4, <1>5, <1>6, <1>7, <1>8, <1>9, <1>10, <1>11

\* Every rule of the state machine changes the status.
LEMMA TransitionsChange ==
  ASSUME NEW s, NEW t, NEW trigger, Permitted(s, t, trigger)
  PROVE  s # t
BY DEF Permitted, SUBSCRIPTION_TRANSITIONS

LEMMA AfterJob ==
  ASSUME NEW job \in Jobs, NEW at \in {"finish", "fail"}, NEW k, k = After(job, at)
  PROVE  /\ k \in Jobs /\ k.ev = job.ev /\ k.ts = 0 /\ k.place = 0 /\ ~k.fresh
         /\ k.at = IF job.ev = 0 THEN "idle" ELSE at
<1>1. /\ SUCCEEDED \in Triggers /\ "ACTIVE" \in Statuses /\ 0 \in Times /\ 0 \in Places
      /\ job.ev \in 0..MaxEvents /\ 0 \in 0..MaxEvents
  BY TriggerNames, SubscriptionAssumption DEF Statuses, Times, Places, Jobs, SubscriptionAssumption
<1>2. CASE job.ev = 0
  <2>1. k = [at |-> "idle", ev |-> 0, to |-> "ACTIVE", trigger |-> SUCCEEDED, ts |-> 0,
             place |-> 0, fresh |-> FALSE]
    BY <1>2 DEF After, Idle, Untimed
  <2> QED
    BY <1>1, <1>2, <2>1 DEF Jobs
<1>3. CASE job.ev # 0
  <2>1. k = [at |-> at, ev |-> job.ev, to |-> "ACTIVE", trigger |-> SUCCEEDED, ts |-> 0,
             place |-> 0, fresh |-> FALSE]
    BY <1>3 DEF After, Idle, Untimed
  <2> QED
    BY <1>1, <1>3, <2>1 DEF Jobs
<1> QED
  BY <1>2, <1>3

\* What transitionSubscriptionStatus has read decides what it will write.
BegunWith(job, k) ==
  /\ k \in Jobs /\ k.ev = job.ev /\ k.at \in {"idle", "finish", "fail", "stamp", "apply"}
  /\ k.at = "idle" => job.ev = 0
  /\ k.at \in {"finish", "fail"} => job.ev # 0
  /\ k.at \in {"idle", "finish", "fail"} => k.ts = 0 /\ k.place = 0
  /\ k.at = "finish" =>
       \/ job.ts < sub.synced
       \/ sub.status = job.to /\ job.trigger \in Sync /\ (job.ts = 0 \/ job.ts = sub.synced)
  /\ k.at \in {"stamp", "apply"} => k.to = job.to /\ k.ts = job.ts /\ k.place = job.place
  /\ k.at = "stamp" => sub.status = job.to
  /\ k.at = "apply" => sub.status # job.to /\ (job.ts = 0 \/ job.ts >= sub.synced)

LEMMA BegunJob ==
  ASSUME NEW job \in Jobs, sub \in Rows, NEW k, k = Begun(job)
  PROVE  BegunWith(job, k)
<1> DEFINE C(at) == [Idle EXCEPT !.at = at, !.ev = job.ev, !.to = job.to, !.ts = job.ts,
                                 !.place = job.place, !.fresh = TRUE]
<1>1. sub.synced \in Nat /\ job.ts \in Nat
  BY SubscriptionAssumption DEF Rows, Jobs, Times, SubscriptionAssumption
<1>2. ASSUME NEW at \in {"stamp", "apply"}, k = C(at)
      PROVE  /\ k \in Jobs /\ k.at = at /\ k.ev = job.ev /\ k.to = job.to /\ k.ts = job.ts
             /\ k.place = job.place
  <2>1. k = [at |-> at, ev |-> job.ev, to |-> job.to, trigger |-> SUCCEEDED, ts |-> job.ts,
             place |-> job.place, fresh |-> TRUE]
    BY <1>2 DEF Idle
  <2>2. SUCCEEDED \in Triggers
    BY TriggerNames
  <2> QED
    BY <2>1, <2>2 DEF Jobs
<1> DEFINE older == job.ts # Untimed /\ job.ts < sub.synced
           there == sub.status = job.to /\ job.trigger \in Sync
           newer == job.ts > sub.synced
           allowed == Permitted(sub.status, job.to, job.trigger)
           stamp == C("stamp")
           apply == C("apply")
           finish == After(job, "finish")
           fail == After(job, "fail")
<1>3. k = IF older THEN finish
          ELSE IF there THEN IF newer THEN stamp ELSE finish
          ELSE IF allowed THEN apply ELSE fail
  BY DEF Begun
<1>4. /\ older => job.ts < sub.synced
      /\ ~older /\ ~newer => job.ts = 0 \/ job.ts = sub.synced
      /\ there => sub.status = job.to /\ job.trigger \in Sync
      /\ ~older => job.ts = 0 \/ job.ts >= sub.synced
      /\ allowed => sub.status # job.to
  BY <1>1, TransitionsChange DEF Untimed
<1> HIDE DEF C, older, there, newer, allowed
<1>5. \/ older /\ k = finish
      \/ ~older /\ there /\ newer /\ k = stamp
      \/ ~older /\ there /\ ~newer /\ k = finish
      \/ ~older /\ ~there /\ allowed /\ k = apply
      \/ k = fail
  <2> HIDE DEF stamp, apply, finish, fail
  <2> QED
    BY <1>3
<1> USE DEF BegunWith
<1>6. CASE k = fail
  BY <1>6, AfterJob
<1>7. CASE k = finish /\ (older \/ (~older /\ there /\ ~newer))
  BY <1>4, <1>7, AfterJob
<1>8. CASE k = stamp /\ there
  BY <1>2, <1>4, <1>8
<1>9. CASE k = apply /\ allowed /\ ~older
  BY <1>2, <1>4, <1>9
<1> QED
  BY <1>5, <1>6, <1>7, <1>8, <1>9

-----------------------------------------------------------------------------
(* Steps of one process. *)

Counted ==
  /\ inbox \in [1..MaxEvents -> {"NONE", "PROCESSING", "PROCESSED", "FAILED"}]
  /\ skipped \in BOOLEAN /\ blurred \in BOOLEAN
  /\ reached \in Places /\ clock \in 1..MaxTime /\ second \in 1..clock
  /\ deliveries \in 0..MaxDeliveries /\ calls \in 0..MaxCalls /\ crashes \in 0..MaxCrashes
  /\ InboxKnown

\* A process turns to another job; the row, the provider and its events stay.  The row may be
\* seen to agree with more of what the provider did.
LEMMA ProcessMoves ==
  ASSUME SubscriptionInv, NEW p \in Procs, NEW j \in Jobs, proc' = [proc EXCEPT ![p] = j],
         UNCHANGED <<gateway, provider, events, sub, newest, overtaken, manual>>, Counted',
         calls' = 0 => calls = 0, ~skipped' => ~skipped, ~blurred' => ~blurred,
         clock' = clock \/ clock' >= clock, Known(j)', Changing(j),
         \/ reached' = reached
         \/ /\ reached' > reached /\ reached' <= Here
            /\ Calm' /\ reached' >= Place(Len(events)) => sub.status = provider,
         Calm' => /\ JobAgrees(j)'
                  /\ \A e \in DOMAIN events : inbox'[e] = "PROCESSED" =>
                       inbox[e] = "PROCESSED" \/ reached' >= Place(e)
  PROVE  SubscriptionInv'
<1>1. SubscriptionTypeOK'
  BY DEF SubscriptionInv, SubscriptionTypeOK, Counted
<1>2. proc'[p] = j /\ \A q \in Procs \ {p} : proc'[q] = proc[q]
  BY DEF SubscriptionInv, SubscriptionTypeOK
<1>3. \A q \in Procs : proc'[q] = j \/ proc'[q] = proc[q]
  BY <1>2
<1>4. /\ clock \in Nat /\ clock' \in Nat /\ clock <= clock'
      /\ reached \in Nat /\ reached' \in Nat /\ reached <= reached'
      /\ sub.synced \in Nat /\ Len(events) \in Nat /\ DOMAIN events = 1..Len(events)
      /\ \A e \in DOMAIN events : At(e) \in Nat
      /\ \A q \in Procs : proc[q] \in Jobs /\ proc[q].ts \in Nat /\ proc[q].ev \in Nat
  <2>1. SubscriptionTypeOK /\ MaxEvents \in Nat /\ MaxTime \in Nat
    BY SubscriptionAssumption DEF SubscriptionInv, SubscriptionAssumption
  <2>2. /\ Len(events) \in Nat /\ DOMAIN events = 1..Len(events)
        /\ \A e \in DOMAIN events : events[e] \in Events
    BY <2>1, LenProperties, ElementOfSeq DEF SubscriptionTypeOK
  <2>3. clock \in Nat /\ clock' \in Nat /\ reached \in Nat /\ reached' \in Nat /\ sub.synced \in Nat
    BY <2>1 DEF SubscriptionTypeOK, Counted, Rows, Times, Places
  <2>4. \A e \in DOMAIN events : At(e) \in Nat
    BY <2>1, <2>2 DEF Events, At
  <2>5. \A q \in Procs : proc[q] \in Jobs /\ proc[q].ts \in Nat /\ proc[q].ev \in Nat
    BY <2>1 DEF SubscriptionTypeOK, Jobs, Times
  <2> QED
    BY <2>2, <2>3, <2>4, <2>5
<1>5. JobsKnown'
  <2>1. ASSUME NEW k \in Jobs, k.ts \in Nat, Known(k)
        PROVE  Known(k)'
    BY <1>4, <2>1 DEF Known, Here, At, Place
  <2>2. ASSUME NEW q \in Procs
        PROVE  (Known(proc[q]) /\ Changing(proc[q]))'
    <3>1. PICK k : k = proc'[q]
      OBVIOUS
    <3>2. Known(k)' /\ Changing(k)
      BY <1>3, <1>4, <2>1, <3>1 DEF SubscriptionInv, JobsKnown
    <3>3. Changing(k)'
      BY <3>2 DEF Changing
    <3> QED
      BY <3>1, <3>2, <3>3 DEF Known, Changing, Here, At, Place
  <2> QED
    BY <2>2 DEF JobsKnown
<1>6. NewestSaved' /\ ProviderHistory' /\ TimesKnown'
  <2>1. NewestSaved'
    BY <1>4 DEF SubscriptionInv, NewestSaved, Here
  <2>2. ProviderHistory'
    BY DEF SubscriptionInv, ProviderHistory, Silent
  <2>3. TimesKnown'
    BY <1>4 DEF SubscriptionInv, TimesKnown, At
  <2> QED
    BY <2>1, <2>2, <2>3
<1>7. ASSUME Calm'
      PROVE  RowAgrees' /\ \A q \in Procs : JobAgrees(proc[q])'
  <2>1. Calm
    BY <1>7 DEF Calm
  <2>2. RowAgrees /\ \A q \in Procs : JobAgrees(proc[q])
    BY <2>1 DEF SubscriptionInv, CalmAgrees
  <2>3. ASSUME NEW status, NEW place, Past(status, place)
        PROVE  Past(status, place)'
    BY <1>4, <2>3 DEF Past, Silent, Place
  <2>4. RowAgrees'
    <3>1. PICK status : status = sub.status
      OBVIOUS
    <3>2. Past(status, 0)'
      BY <2>2, <2>3, <3>1 DEF RowAgrees
    <3>3. Past(sub.status, 0)'
      BY <3>1, <3>2 DEF Past, Silent, Place
    <3>4. \A e \in DOMAIN events : inbox'[e] = "PROCESSED" => reached' >= Place(e)
      BY <1>4, <1>7, <2>2 DEF RowAgrees, Place
    <3>5. reached' >= Place(Len(events)) => sub.status = provider
      BY <1>7, <2>2 DEF RowAgrees
    <3> QED
      BY <3>3, <3>4, <3>5 DEF RowAgrees, Place
  <2>5. ASSUME NEW k \in Jobs, k.ev \in Nat, JobAgrees(k)
        PROVE  JobAgrees(k)'
    <3>1. k.at = "finish" => reached' >= Place(k.ev)
      BY <1>4, <2>5 DEF JobAgrees, Place
    <3>2. k.ev = 0 /\ k.at \in {"fetch", "begin", "apply"} => Past(k.to, k.place)'
      BY <2>3, <2>5 DEF JobAgrees
    <3>3. k.place > reached' => k.place > reached
      <4>1. k.place \in Nat
        BY DEF Jobs, Places
      <4> QED
        BY <1>4, <4>1
    <3> QED
      BY <2>5, <3>1, <3>2, <3>3 DEF JobAgrees, Place
  <2>6. ASSUME NEW q \in Procs
        PROVE  JobAgrees(proc[q])'
    <3>1. PICK k : k = proc'[q]
      OBVIOUS
    <3>2. JobAgrees(k)'
      BY <1>3, <1>4, <1>7, <2>2, <2>5, <3>1
    <3> QED
      BY <3>1, <3>2 DEF JobAgrees, Past, Silent, Place
  <2> QED
    BY <2>4, <2>6
<1>8. CalmAgrees'
  BY <1>7 DEF CalmAgrees
<1> QED
  BY <1>1, <1>5, <1>6, <1>8 DEF SubscriptionInv, Counted

LEMMA Context ==
  ASSUME SubscriptionInv, NEW p \in Procs
  PROVE  /\ proc[p] \in Jobs /\ Known(proc[p]) /\ Changing(proc[p]) /\ Counted
         /\ (Calm => JobAgrees(proc[p]) /\ RowAgrees)
         /\ sub \in Rows /\ sub.synced \in Nat /\ sub.status \in Statuses
         /\ reached \in Nat /\ reached <= Here
         /\ clock \in Nat /\ sub.synced <= clock
         /\ provider \in Statuses
         /\ Len(events) \in Nat /\ DOMAIN events = 1..Len(events) /\ Len(events) <= MaxEvents
         /\ \A e \in DOMAIN events : events[e] \in Events
         /\ MaxEvents \in Nat /\ MaxCalls \in Nat /\ MaxCrashes \in Nat /\ MaxDeliveries \in Nat
         /\ MaxTime \in Nat /\ calls \in Nat
<1>1. SubscriptionTypeOK /\ JobsKnown /\ CalmAgrees
  BY DEF SubscriptionInv
<1>2. /\ MaxEvents \in Nat /\ MaxCalls \in Nat /\ MaxCrashes \in Nat /\ MaxDeliveries \in Nat
      /\ MaxTime \in Nat
  BY SubscriptionAssumption DEF SubscriptionAssumption
<1>3. /\ Len(events) \in Nat /\ DOMAIN events = 1..Len(events)
      /\ \A e \in DOMAIN events : events[e] \in Events
  BY <1>1, LenProperties, ElementOfSeq DEF SubscriptionTypeOK
<1>4. sub \in Rows /\ sub.synced \in Nat /\ sub.status \in Statuses
  BY <1>1, <1>2 DEF SubscriptionTypeOK, Rows, Times
<1>5. /\ calls \in Nat /\ reached \in Nat /\ reached <= Here
      /\ clock \in Nat /\ sub.synced <= clock
  BY <1>1, <1>2 DEF SubscriptionInv, SubscriptionTypeOK, Places, NewestSaved, TimesKnown
<1> QED
  BY <1>1, <1>2, <1>3, <1>4, <1>5 DEF SubscriptionInv, SubscriptionTypeOK, JobsKnown, CalmAgrees, Counted

\* A delivery writes its own event.
Written(box, e, s) == box = [inbox EXCEPT ![e] = s]

LEMMA InboxWritten ==
  ASSUME SubscriptionInv, NEW e \in DOMAIN events, NEW s \in {"PROCESSING", "PROCESSED", "FAILED"},
         NEW box, Written(box, e, s)
  PROVE  /\ box \in [1..MaxEvents -> {"NONE", "PROCESSING", "PROCESSED", "FAILED"}]
         /\ \A i \in 1..MaxEvents : i > Len(events) => box[i] = "NONE"
         /\ \A i \in DOMAIN events : i # e => box[i] = inbox[i]
         /\ box[e] = s
<1>1. /\ SubscriptionTypeOK /\ InboxKnown /\ MaxEvents \in Nat
      /\ Len(events) \in Nat /\ DOMAIN events = 1..Len(events) /\ Len(events) <= MaxEvents
  BY SubscriptionAssumption, LenProperties
     DEF SubscriptionInv, SubscriptionTypeOK, SubscriptionAssumption
<1>2. /\ inbox \in [1..MaxEvents -> {"NONE", "PROCESSING", "PROCESSED", "FAILED"}]
      /\ e \in 1..MaxEvents /\ e <= Len(events) /\ DOMAIN events \subseteq 1..MaxEvents
  BY <1>1 DEF SubscriptionTypeOK
<1> USE DEF Written
<1>3. \A i \in 1..MaxEvents : box[i] = IF i = e THEN s ELSE inbox[i]
  BY <1>2
<1>4. \A i \in 1..MaxEvents : i > Len(events) => box[i] = "NONE"
  BY <1>1, <1>2, <1>3 DEF InboxKnown
<1> QED
  BY <1>2, <1>3, <1>4

\* To rest is always possible.
LEMMA IdleJob ==
  ASSUME SubscriptionInv
  PROVE  /\ Idle \in Jobs /\ Idle.at = "idle" /\ Idle.ev = 0 /\ Idle.ts = 0 /\ Idle.to = "ACTIVE"
         /\ Changing(Idle) /\ JobAgrees(Idle)
         /\ (clock' = clock \/ clock' \in Nat) /\ (events' = events) => Known(Idle)'
         /\ JobAgrees(Idle)'
<1>1. /\ SUCCEEDED \in Triggers /\ 0 \in Times /\ 0 \in Places /\ 0 \in 0..MaxEvents
      /\ clock \in Nat /\ Len(events) \in Nat
  BY TriggerNames, SubscriptionAssumption, LenProperties
     DEF Times, Places, SubscriptionAssumption, SubscriptionInv, SubscriptionTypeOK
<1>2. /\ Idle \in Jobs /\ Idle.at = "idle" /\ Idle.ev = 0 /\ Idle.ts = 0 /\ Idle.to = "ACTIVE"
      /\ Idle.place = 0
  BY <1>1 DEF Idle, Untimed, Jobs, Statuses
<1> QED
  BY <1>1, <1>2 DEF Known, Changing, JobAgrees, Here, Untimed
-----------------------------------------------------------------------------
(* Steps that leave the row. *)

LEMMA ReachesPlace ==
  ASSUME reached \in Nat, NEW place \in Nat, Reaches(place)
  PROVE  /\ reached' \in Nat /\ reached' >= reached /\ reached' >= place
         /\ reached' = reached \/ (reached' = place /\ place > reached)
BY DEF Reaches

LEMMA BeginKeeps ==
  ASSUME SubscriptionInv, NEW p \in Procs, Begin(p)
  PROVE  SubscriptionInv'
<1>1. PICK job \in Jobs : job = proc[p]
  BY Context
<1>2. PICK k : k = Begun(job)
  OBVIOUS
<1> DEFINE settled == job.trigger \in Sync /\ job.to = sub.status /\ job.ts = sub.synced
           deceived == job.ts < sub.synced /\ job.place > reached
<1>3. PICK place : place = IF settled THEN job.place ELSE 0
  OBVIOUS
<1>4. /\ job.at = "begin" /\ proc' = [proc EXCEPT ![p] = k]
      /\ blurred' = (blurred \/ deceived) /\ Reaches(place)
      /\ UNCHANGED <<gateway, provider, events, inbox, sub, newest, overtaken, skipped, manual>>
      /\ UNCHANGED <<clock, second, deliveries, calls, crashes>>
  BY <1>1, <1>2, <1>3 DEF Begin, IsAt, Do, Unread, time, history, counters
<1>5. /\ Known(job) /\ Counted /\ sub \in Rows /\ sub.synced \in Nat
      /\ (Calm => JobAgrees(job) /\ RowAgrees)
      /\ Len(events) \in Nat /\ DOMAIN events = 1..Len(events) /\ MaxEvents \in Nat
      /\ clock \in Nat /\ reached \in Nat /\ job.place \in Nat /\ job.ts \in Nat
  BY <1>1, Context DEF Jobs, Places, Times
<1>6. BegunWith(job, k)
  BY <1>2, <1>5, BegunJob
<1>7. Known(k)' /\ Changing(k)
  <2>1. Known(k)
    BY <1>4, <1>5, <1>6 DEF BegunWith, Known, Here
  <2> QED
    BY <1>4, <1>6, <2>1 DEF BegunWith, Known, Changing, Untimed, Here, At, Place
<1>8. /\ Counted' /\ (~blurred' => ~blurred) /\ place \in Nat
      /\ (place = 0 \/ (place = job.place /\ settled))
  <2>1. place \in Places
    BY <1>3, <1>5 DEF Jobs, Places
  <2>2. reached' \in Places
    BY <1>4, <1>5, <2>1 DEF Reaches, Counted
  <2> QED
    BY <1>3, <1>4, <1>5, <2>1, <2>2 DEF Counted, InboxKnown, Places
<1>9. /\ reached' \in Nat /\ reached' >= reached /\ reached' >= place
      /\ reached' = reached \/ (reached' = place /\ place > reached)
  BY <1>4, <1>5, <1>8, ReachesPlace
<1>10. job.place <= Here /\ (job.ev # 0 => job.ev \in DOMAIN events /\ job.place = Place(job.ev))
  BY <1>4, <1>5 DEF Known, Here, Place
<1>11. ASSUME Calm', reached' # reached
       PROVE  /\ reached' > reached /\ reached' <= Here
              /\ reached' >= Place(Len(events)) => sub.status = provider
  <2>1. place = job.place /\ settled /\ reached' = job.place /\ reached' > reached
    BY <1>5, <1>8, <1>9, <1>11
  <2>2. Calm
    BY <1>4, <1>8, <1>11 DEF Calm
  <2>3. ASSUME job.place >= Place(Len(events))
        PROVE  job.to = provider
    <3>1. CASE job.ev = 0
      BY <1>4, <1>5, <2>2, <2>3, <3>1 DEF JobAgrees
    <3>2. CASE job.ev # 0
      <4>1. job.ev = Len(events)
        BY <1>5, <1>10, <2>3, <3>2 DEF Place
      <4> QED
        BY <1>4, <1>5, <3>2, <4>1 DEF Known, SubscriptionInv, ProviderHistory
    <3> QED
      BY <3>1, <3>2
  <2> QED
    BY <1>10, <2>1, <2>3
<1>12. ASSUME Calm'
       PROVE  JobAgrees(k)'
  <2>1. Calm /\ ~deceived
    BY <1>4, <1>8, <1>12 DEF Calm
  <2>2. JobAgrees(job) /\ job.ts # Untimed
    BY <1>4, <1>5, <2>1 DEF JobAgrees
  <2>3. ASSUME k.at = "finish"
        PROVE  reached' >= Place(k.ev)
    <3>1. job.ev # 0 /\ k.ev = job.ev /\ job.place = Place(job.ev)
      BY <1>6, <1>10, <2>3 DEF BegunWith
    <3>2. CASE job.ts < sub.synced
      BY <1>5, <1>9, <2>1, <3>1, <3>2
    <3>3. CASE settled
      BY <1>3, <1>9, <3>1, <3>3
    <3> QED
      BY <1>6, <2>2, <2>3, <3>2, <3>3 DEF BegunWith, Untimed
  <2>4. k.ev = 0 /\ k.at = "apply" => Past(k.to, k.place)'
    <3>1. ASSUME k.ev = 0, k.at = "apply"
          PROVE  Past(k.to, k.place)'
      <4>1. PICK to, place0 : to = k.to /\ place0 = k.place
        OBVIOUS
      <4>2. Past(to, place0)
        BY <1>4, <1>6, <2>2, <3>1, <4>1 DEF BegunWith, JobAgrees
      <4>3. Past(to, place0)'
        BY <1>4, <1>5, <1>9, <4>2 DEF Past, Silent, Place
      <4> QED
        BY <4>1, <4>3
    <3> QED
      BY <3>1
  <2> QED
    BY <1>4, <1>6, <2>2, <2>3, <2>4 DEF BegunWith, JobAgrees, Untimed, Place
<1> HIDE DEF settled, deceived
<1>13. k \in Jobs
  BY <1>6 DEF BegunWith
<1>14. \/ reached' = reached
       \/ /\ reached' > reached /\ reached' <= Here
          /\ Calm' /\ reached' >= Place(Len(events)) => sub.status = provider
  <2>1. ASSUME reached' # reached
        PROVE  reached' > reached /\ reached' <= Here
    BY <1>5, <1>8, <1>9, <1>10, <2>1 DEF Here
  <2> QED
    BY <1>11, <2>1
<1> QED
  BY <1>4, <1>7, <1>8, <1>12, <1>13, <1>14, ProcessMoves

LEMMA ReceiveKeeps ==
  ASSUME SubscriptionInv, NEW p \in Procs, NEW e \in 1..MaxEvents, Receive(p, e)
  PROVE  SubscriptionInv'
<1>1. PICK k : k = [Idle EXCEPT !.at = IF inbox[e] = "NONE" THEN "insert" ELSE "again",
                                !.ev = e, !.ts = At(e), !.place = Place(e), !.to = events[e].to]
  OBVIOUS
<1>2. /\ e <= Len(events) /\ proc' = [proc EXCEPT ![p] = k]
      /\ UNCHANGED <<gateway, provider, events, inbox, sub, newest, overtaken, skipped, manual>>
      /\ UNCHANGED <<clock, second, reached, blurred>>
      /\ UNCHANGED <<calls, crashes>> /\ deliveries < MaxDeliveries /\ deliveries' = deliveries + 1
  BY <1>1 DEF Receive, Do, Unread, time, history
<1>3. /\ Len(events) \in Nat /\ DOMAIN events = 1..Len(events) /\ MaxEvents \in Nat /\ Counted
      /\ \A i \in DOMAIN events : events[i] \in Events
      /\ MaxDeliveries \in Nat /\ MaxTime \in Nat /\ Len(events) <= MaxEvents
  BY Context
<1>4. e \in DOMAIN events /\ events[e].to \in Statuses /\ At(e) \in 1..MaxTime /\ At(e) <= clock
  BY <1>2, <1>3 DEF Events, At, SubscriptionInv, TimesKnown
<1>5. PICK at \in {"insert", "again"} : at = IF inbox[e] = "NONE" THEN "insert" ELSE "again"
  OBVIOUS
<1>6. k = [at |-> at, ev |-> e, to |-> events[e].to, trigger |-> SUCCEEDED, ts |-> At(e),
           place |-> Place(e), fresh |-> FALSE]
  BY <1>1, <1>5 DEF Idle
<1>7. SUCCEEDED \in Triggers /\ At(e) \in Times /\ Place(e) \in Places /\ e \in 0..MaxEvents
  BY <1>3, <1>4, TriggerNames DEF Times, Places, Place
<1>8. k \in Jobs
  BY <1>4, <1>6, <1>7 DEF Jobs
<1>9. Known(k)' /\ Changing(k) /\ JobAgrees(k)'
  BY <1>2, <1>4, <1>6 DEF Known, Changing, JobAgrees, At, Place
<1>10. Counted'
  BY <1>2, <1>3 DEF Counted, InboxKnown
<1> QED
  BY <1>2, <1>8, <1>9, <1>10, ProcessMoves

LEMMA RecordKeeps ==
  ASSUME SubscriptionInv, NEW p \in Procs, Record(p) \/ RecordedMeanwhile(p)
  PROVE  SubscriptionInv'
<1>1. PICK job \in Jobs : job = proc[p]
  BY Context
<1>2. Known(job) /\ Counted /\ (Calm => JobAgrees(job) /\ RowAgrees)
  BY <1>1, Context
<1>3. CASE RecordedMeanwhile(p)
  <2>1. /\ proc' = [proc EXCEPT ![p] = Idle] /\ UNCHANGED <<deliveries, calls, crashes>>
        /\ UNCHANGED <<gateway, provider, events, inbox, sub, newest, overtaken, skipped, manual>>
        /\ UNCHANGED <<clock, second, reached, blurred>>
    BY <1>3 DEF RecordedMeanwhile, Do, Unread, time, history, counters
  <2>2. Counted'
    BY <1>2, <2>1 DEF Counted, InboxKnown
  <2> QED
    BY <2>1, <2>2, IdleJob, ProcessMoves
<1>4. CASE Record(p)
  <2>1. PICK k : k = [job EXCEPT !.at = "read"]
    OBVIOUS
  <2>2. /\ job.at \in {"insert", "again"} /\ proc' = [proc EXCEPT ![p] = k]
        /\ UNCHANGED <<gateway, provider, events, sub, newest, overtaken, skipped, manual>>
        /\ UNCHANGED <<clock, second, reached, blurred>>
        /\ UNCHANGED <<deliveries, calls, crashes>> /\ inbox' = [inbox EXCEPT ![job.ev] = "PROCESSING"]
    BY <1>1, <1>4, <2>1 DEF Record, Goto, Do, IsAt, Unread, time, history, counters
  <2>3. /\ k \in Jobs /\ k.at = "read" /\ k.ev = job.ev /\ k.ts = job.ts /\ k.to = job.to
        /\ k.place = job.place /\ k.fresh = job.fresh
    BY <1>1, <2>1 DEF Jobs
  <2>4. Known(k)' /\ Changing(k) /\ JobAgrees(k)'
    BY <1>2, <2>2, <2>3 DEF Known, Changing, JobAgrees, At, Place, Here
  <2>5. job.ev \in DOMAIN events
    BY <1>2, <2>2 DEF Known
  <2>6. /\ inbox' \in [1..MaxEvents -> {"NONE", "PROCESSING", "PROCESSED", "FAILED"}] /\ InboxKnown'
        /\ \A e \in DOMAIN events : inbox'[e] = "PROCESSED" => inbox[e] = "PROCESSED"
    <3>1. PICK box : box = inbox' /\ Written(box, job.ev, "PROCESSING")
      BY <2>2 DEF Written
    <3>2. /\ box \in [1..MaxEvents -> {"NONE", "PROCESSING", "PROCESSED", "FAILED"}]
          /\ \A i \in 1..MaxEvents : i > Len(events) => box[i] = "NONE"
          /\ \A i \in DOMAIN events : i # job.ev => box[i] = inbox[i]
          /\ box[job.ev] = "PROCESSING"
      BY <2>5, <3>1, InboxWritten
    <3>3. events' = events
      BY <2>2
    <3> QED
      BY <3>1, <3>2, <3>3 DEF InboxKnown
  <2>7. Counted'
    BY <1>2, <2>2, <2>6 DEF Counted
  <2> QED
    BY <2>2, <2>3, <2>4, <2>6, <2>7, ProcessMoves
<1> QED
  BY <1>3, <1>4

LEMMA FinishEventKeeps ==
  ASSUME SubscriptionInv, NEW p \in Procs, FinishEvent(p)
  PROVE  SubscriptionInv'
<1>1. PICK job \in Jobs : job = proc[p]
  BY Context
<1>2. Known(job) /\ Counted /\ (Calm => JobAgrees(job) /\ RowAgrees)
  BY <1>1, Context
<1>3. PICK s \in {"PROCESSING", "PROCESSED", "FAILED"} :
        /\ proc' = [proc EXCEPT ![p] = Idle] /\ UNCHANGED <<deliveries, calls, crashes>>
        /\ UNCHANGED <<gateway, provider, events, sub, newest, overtaken, skipped, manual>>
        /\ UNCHANGED <<clock, second, reached, blurred>>
        /\ inbox' = [inbox EXCEPT ![job.ev] = s]
        /\ job.at \in {"finish", "fail"} /\ (s = "PROCESSED" => job.at = "finish")
  BY <1>1 DEF FinishEvent, Do, IsAt, Unread, time, history, counters
<1>4. job.ev \in DOMAIN events
  BY <1>2, <1>3 DEF Known
<1>5. /\ inbox' \in [1..MaxEvents -> {"NONE", "PROCESSING", "PROCESSED", "FAILED"}] /\ InboxKnown'
      /\ \A i \in DOMAIN events : i # job.ev => inbox'[i] = inbox[i]
      /\ inbox'[job.ev] = s
  <2>1. PICK box : box = inbox' /\ Written(box, job.ev, s)
    BY <1>3 DEF Written
  <2>2. /\ box \in [1..MaxEvents -> {"NONE", "PROCESSING", "PROCESSED", "FAILED"}]
        /\ \A i \in 1..MaxEvents : i > Len(events) => box[i] = "NONE"
        /\ \A i \in DOMAIN events : i # job.ev => box[i] = inbox[i]
        /\ box[job.ev] = s
    BY <1>4, <2>1, InboxWritten
  <2>3. events' = events
    BY <1>3
  <2> QED
    BY <2>1, <2>2, <2>3 DEF InboxKnown
<1>6. Counted'
  BY <1>2, <1>3, <1>5 DEF Counted
<1>7. ASSUME Calm, NEW e \in DOMAIN events, inbox'[e] = "PROCESSED"
      PROVE  inbox[e] = "PROCESSED" \/ reached >= Place(e)
  <2>1. job.at = "finish" => reached >= Place(job.ev)
    BY <1>2, <1>7 DEF JobAgrees
  <2> QED
    BY <1>3, <1>5, <1>7, <2>1
<1> QED
  BY <1>3, <1>6, <1>7, IdleJob, ProcessMoves DEF Calm

LEMMA LoseKeeps ==
  ASSUME SubscriptionInv, NEW p \in Procs, Lose(p)
  PROVE  SubscriptionInv'
<1>1. PICK e : e = proc[p].ev
  OBVIOUS
<1>2. Counted /\ MaxCrashes \in Nat /\ (e # 0 => e \in DOMAIN events)
  BY <1>1, Context DEF Known
<1>3. /\ proc' = [proc EXCEPT ![p] = Idle] /\ UNCHANGED <<deliveries, calls>>
      /\ crashes < MaxCrashes /\ crashes' = crashes + 1
      /\ UNCHANGED <<gateway, provider, events, sub, newest, overtaken, skipped, manual>>
      /\ UNCHANGED <<clock, second, reached, blurred>>
      /\ inbox' = inbox \/ (e # 0 /\ inbox' = [inbox EXCEPT ![e] = "FAILED"])
  BY <1>1 DEF Lose, Do, IsAt, Unread, time, history
<1>4. /\ inbox' \in [1..MaxEvents -> {"NONE", "PROCESSING", "PROCESSED", "FAILED"}] /\ InboxKnown'
      /\ \A i \in DOMAIN events : inbox'[i] = "PROCESSED" => inbox[i] = "PROCESSED"
  <2>1. CASE inbox' = inbox
    BY <1>2, <1>3, <2>1 DEF Counted, InboxKnown
  <2>2. CASE e # 0 /\ inbox' = [inbox EXCEPT ![e] = "FAILED"]
    <3>1. PICK box : box = inbox' /\ Written(box, e, "FAILED")
      BY <2>2 DEF Written
    <3>2. e \in DOMAIN events
      BY <1>2, <2>2
    <3>3. /\ box \in [1..MaxEvents -> {"NONE", "PROCESSING", "PROCESSED", "FAILED"}]
          /\ \A i \in 1..MaxEvents : i > Len(events) => box[i] = "NONE"
          /\ \A i \in DOMAIN events : i # e => box[i] = inbox[i]
          /\ box[e] = "FAILED"
      BY <3>1, <3>2, InboxWritten
    <3>4. events' = events
      BY <1>3
    <3> QED
      BY <3>1, <3>3, <3>4 DEF InboxKnown
  <2> QED
    BY <1>3, <2>1, <2>2
<1>5. Counted'
  BY <1>2, <1>3, <1>4 DEF Counted
<1> QED
  BY <1>3, <1>4, <1>5, IdleJob, ProcessMoves

LEMMA TriggerKnown ==
  ASSUME NEW kind, NEW from, NEW to
  PROVE  Trigger(kind, from, to) \in Triggers
<1>1. PaddleTrigger(from, to) \in {SUCCEEDED, "WEBHOOK", FAILED, DELETED, UPDATED}
  BY DEF PaddleTrigger
<1>2. Trigger(kind, from, to) \in
        {SUCCEEDED, FAILED, COMPLETED, PaddleTrigger(from, to), UPDATED, DELETED}
  BY DEF Trigger
<1> QED
  BY <1>1, <1>2, TriggerNames

\* A handler whose look at the subscription changes nothing has seen an old event, or the
\* status of the event; the exceptions are remembered in "skipped".
LEMMA HandleKeeps ==
  ASSUME SubscriptionInv, NEW p \in Procs, Handle(p)
  PROVE  SubscriptionInv'
<1>1. PICK job \in Jobs : job = proc[p]
  BY Context
<1>2. /\ Known(job) /\ Counted /\ (Calm => JobAgrees(job) /\ RowAgrees)
      /\ sub.synced \in Nat /\ Len(events) \in Nat /\ DOMAIN events = 1..Len(events)
      /\ \A e \in DOMAIN events : events[e] \in Events
      /\ MaxEvents \in Nat /\ reached \in Nat /\ job.place \in Nat
  BY <1>1, Context DEF Jobs, Places
<1>3. PICK kind : kind = events[job.ev].kind
  OBVIOUS
<1> DEFINE transits == Transits(kind, job.to)
           stamps == ~transits /\ Stamps(kind, job.ts)
           agrees == kind \in {"PAYMENT_SUCCEEDED", "SYNC"} /\ sub.status = job.to
           settled == ~transits /\ ~stamps /\ agrees
           trigger == Trigger(kind, sub.status, job.to)
           done == After(job, "finish")
           goes == [job EXCEPT !.at = "begin", !.trigger = trigger]
           stamped == [job EXCEPT !.at = "stamp", !.fresh = TRUE]
<1>4. PICK k : k = IF transits THEN goes ELSE IF stamps THEN stamped ELSE done
  OBVIOUS
<1>5. PICK place : place = IF settled THEN job.place ELSE 0
  OBVIOUS
<1>6. /\ job.at = "read" /\ proc' = [proc EXCEPT ![p] = k]
      /\ UNCHANGED <<gateway, provider, events, inbox, sub, newest, overtaken, manual>>
      /\ UNCHANGED <<clock, second, blurred, deliveries, calls, crashes>>
      /\ skipped' = (skipped \/ (/\ ~transits /\ job.place > reached
                                 /\ \/ kind = "PAYMENT_FAILED"
                                    \/ kind = "PAYMENT_SUCCEEDED" /\ sub.status # "ACTIVE"))
      /\ Reaches(place)
  <2>1. stamps => ~transits
    OBVIOUS
  <2>2. (CASE transits -> goes [] stamps -> stamped [] OTHER -> done) = k
    <3> HIDE DEF goes, stamped, done
    <3>1. CASE transits
      BY <1>4, <3>1, <2>1
    <3>2. CASE stamps
      BY <1>4, <3>2, <2>1
    <3>3. CASE ~transits /\ ~stamps
      BY <1>4, <3>3
    <3> QED
      BY <3>1, <3>2, <3>3
  <2>3. proc' = [proc EXCEPT ![p] = CASE transits -> goes [] stamps -> stamped [] OTHER -> done]
    BY <1>1, <1>3 DEF Handle, Do
  <2>4. proc' = [proc EXCEPT ![p] = k]
    BY <2>2, <2>3
  <2>5. Reaches(place)
    BY <1>1, <1>3, <1>5 DEF Handle
  <2> QED
    BY <1>1, <1>3, <2>4, <2>5 DEF Handle, IsAt, Unread, time, history, counters
<1>7. trigger \in Triggers
  BY TriggerKnown
<1>8. /\ transits => k = [job EXCEPT !.at = "begin", !.trigger = trigger]
      /\ stamps => k = [job EXCEPT !.at = "stamp", !.fresh = TRUE]
      /\ ~transits /\ ~stamps => k = done
      /\ ~settled => place = 0
      /\ settled => place = job.place
  BY <1>4, <1>5
<1> HIDE DEF goes, stamped, done, trigger
<1>9. /\ job.ev # 0 /\ job.ev \in DOMAIN events /\ job.ts = At(job.ev) /\ job.to = events[job.ev].to
      /\ job.place = Place(job.ev) /\ job.place <= Here /\ At(job.ev) \in Nat \ {0}
      /\ job.ts \in Nat /\ job.ts <= clock /\ job.ev \in Nat
  BY <1>2, <1>6 DEF Known, Place, Here, Events, At
<1>10. /\ place \in Nat /\ place <= job.place /\ place \in Places
       /\ reached' \in Nat /\ reached' >= reached /\ reached' >= place
       /\ reached' = reached \/ (reached' = place /\ place > reached)
  <2>1. place \in Nat /\ place <= job.place /\ place \in Places
    BY <1>2, <1>8 DEF Jobs, Places
  <2> QED
    BY <1>2, <1>6, <2>1, ReachesPlace
<1>11. Counted' /\ (~skipped' => ~skipped)
  <2>1. reached' \in Places
    BY <1>2, <1>10 DEF Counted
  <2> QED
    BY <1>2, <1>6, <2>1 DEF Counted, InboxKnown
<1>12. \/ reached' = reached
       \/ /\ reached' > reached /\ reached' <= Here
          /\ Calm' /\ reached' >= Place(Len(events)) => sub.status = provider
  <2>1. ASSUME reached' # reached
        PROVE  /\ reached' > reached /\ reached' <= Here
               /\ reached' >= Place(Len(events)) => sub.status = provider
    <3>1. reached' = place /\ place > reached /\ place # 0
      BY <1>2, <1>10, <2>1
    <3>2. settled /\ reached' = Place(job.ev)
      BY <1>8, <1>9, <3>1
    <3>3. ASSUME reached' >= Place(Len(events))
          PROVE  sub.status = provider
      <4>1. job.ev = Len(events)
        BY <1>2, <1>9, <3>2, <3>3 DEF Place
      <4> QED
        BY <1>9, <3>2, <4>1 DEF SubscriptionInv, ProviderHistory
    <3> QED
      BY <1>2, <1>9, <1>10, <3>1, <3>3 DEF Here
  <2> QED
    BY <2>1
<1>13. /\ k \in Jobs /\ Known(k)' /\ Changing(k)
       /\ Calm' => JobAgrees(k)'
  <2>1. CASE transits
    <3>1. /\ k \in Jobs /\ k.at = "begin" /\ k.ev = job.ev /\ k.ts = job.ts /\ k.to = job.to
          /\ k.place = job.place
      BY <1>7, <1>8, <2>1 DEF Jobs
    <3> HIDE DEF transits, stamps, settled
    <3> QED
      BY <1>6, <1>9, <3>1 DEF Known, Changing, JobAgrees, Untimed, At, Place, Here
  <2>2. CASE stamps
    <3>1. /\ k \in Jobs /\ k.at = "stamp" /\ k.ev = job.ev /\ k.ts = job.ts /\ k.to = job.to
          /\ k.place = job.place /\ k.fresh
      BY <1>8, <2>2 DEF Jobs
    <3>2. ASSUME Calm', job.place > reached
          PROVE  sub.status = job.to
      <4>1. kind = "SYNC" => sub.status = job.to
        BY <2>2 DEF Transits
      <4>2. kind = "PAYMENT_SUCCEEDED" => sub.status = "ACTIVE"
        BY <1>6, <2>2, <3>2 DEF Calm
      <4>3. kind = "PAYMENT_SUCCEEDED" => job.to = "ACTIVE"
        BY <1>3, <1>9 DEF SubscriptionInv, ProviderHistory
      <4> QED
        BY <2>2, <4>1, <4>2, <4>3 DEF Stamps
    <3>3. reached' = reached
      BY <1>2, <1>8, <1>10, <2>2
    <3> HIDE DEF transits, stamps, settled
    <3>4. Known(k)' /\ Changing(k)
      BY <1>6, <1>9, <3>1 DEF Known, Changing, At, Place, Here
    <3> QED
      BY <1>6, <1>9, <3>1, <3>2, <3>3, <3>4 DEF JobAgrees, Untimed
  <2>3. CASE ~transits /\ ~stamps
    <3>1. k \in Jobs /\ k.ev = job.ev /\ k.ts = 0 /\ k.place = 0 /\ ~k.fresh /\ k.at = "finish"
      BY <1>8, <1>9, <2>3, AfterJob DEF done
    <3>2. Known(k)' /\ Changing(k)
      <4> HIDE DEF transits, stamps, settled
      <4> QED
        BY <1>2, <1>6, <1>9, <3>1 DEF Known, Changing, Here, Counted
    <3>3. ASSUME Calm'
          PROVE  reached' >= job.place
      <4>1. Calm
        BY <1>6, <1>11, <3>3 DEF Calm
      <4>2. kind = "PAYMENT_SUCCEEDED" \/ kind = "PAYMENT_FAILED" \/ kind = "SYNC" \/ Silent(job.ev)
        BY <1>2, <1>3, <1>9 DEF Events, Kinds, Silent
      <4>3. ASSUME kind = "PAYMENT_SUCCEEDED"
            PROVE  reached' >= job.place
        <5>1. job.to = "ACTIVE"
          BY <1>3, <1>9, <4>3 DEF SubscriptionInv, ProviderHistory
        <5>2. CASE sub.status = "ACTIVE"
          <6>1. settled
            BY <2>3, <4>3, <5>1, <5>2
          <6> QED
            BY <1>8, <1>10, <6>1
        <5>3. CASE sub.status # "ACTIVE"
          <6>1. ~(job.place > reached)
            BY <1>6, <2>3, <3>3, <4>3, <5>3 DEF Calm
          <6> QED
            BY <1>2, <1>10, <6>1
        <5> QED
          BY <5>2, <5>3
      <4>4. ASSUME kind = "SYNC"
            PROVE  reached' >= job.place
        <5>1. sub.status = job.to
          BY <2>3, <4>4 DEF Transits
        <5>2. settled
          BY <2>3, <4>4, <5>1
        <5> QED
          BY <1>8, <1>10, <5>2
      <4>5. ASSUME kind = "PAYMENT_FAILED"
            PROVE  reached' >= job.place
        <5>1. ~(job.place > reached)
          BY <1>6, <2>3, <3>3, <4>5 DEF Calm
        <5> QED
          BY <1>2, <1>10, <5>1
      <4>6. ASSUME Silent(job.ev)
            PROVE  reached' >= job.place
        <5>1. sub.status = job.to
          BY <1>3, <2>3, <4>6 DEF Silent, Transits
        <5>2. Past(sub.status, 0)
          BY <1>2, <4>1 DEF RowAgrees
        <5>3. ~(Place(job.ev) > reached)
          BY <1>2, <1>9, <4>6, <5>1, <5>2 DEF Past, Place
        <5> QED
          BY <1>2, <1>9, <1>10, <5>3
      <4> QED
        BY <4>2, <4>3, <4>4, <4>5, <4>6
    <3> HIDE DEF transits, stamps, settled
    <3> QED
      BY <1>9, <3>1, <3>2, <3>3 DEF JobAgrees, Place
  <2> QED
    BY <2>1, <2>2, <2>3
<1> HIDE DEF transits, stamps, settled, agrees
<1> QED
  BY <1>6, <1>11, <1>12, <1>13, ProcessMoves

\* The clock does not go back, and no event has a time that it has not shown.
LEMMA ClockRead ==
  ASSUME SubscriptionInv, ReadClock
  PROVE  clock' \in 1..MaxTime /\ second' \in 1..clock' /\ clock' \in Nat /\ clock' >= clock
<1>1. MaxTime \in Nat /\ clock \in 1..MaxTime /\ second \in 1..clock
  BY SubscriptionAssumption DEF SubscriptionAssumption, SubscriptionInv, SubscriptionTypeOK
<1>2. clock' \in 1..MaxTime /\ clock' \in Nat /\ clock' >= clock
  BY <1>1 DEF ReadClock
<1>3. second' = second \/ second' \in (clock + 1)..clock' \/ second' = clock'
  BY DEF ReadClock
<1> QED
  BY <1>1, <1>2, <1>3

LEMMA CallKeeps ==
  ASSUME SubscriptionInv, NEW p \in Procs, NEW to \in Statuses, NEW trigger \in Triggers,
         Call(p, to, trigger)
  PROVE  SubscriptionInv'
<1>1. PICK job : job = [Idle EXCEPT !.to = to, !.trigger = trigger]
  OBVIOUS
<1>2. PICK k : k = Begun(job)
  OBVIOUS
<1>3. /\ proc' = [proc EXCEPT ![p] = k] /\ calls < MaxCalls /\ calls' = calls + 1
      /\ UNCHANGED <<gateway, provider, events, inbox, sub, newest, overtaken, skipped, manual>>
      /\ UNCHANGED <<clock, second, reached, blurred>>
      /\ UNCHANGED <<deliveries, crashes>>
  BY <1>1, <1>2 DEF Call, Do, Unread, time, history
<1>4. /\ Counted /\ sub \in Rows /\ sub.synced \in Nat /\ Len(events) \in Nat
      /\ MaxCalls \in Nat /\ calls \in Nat
  BY Context
<1>5. job \in Jobs /\ job.ev = 0 /\ job.ts = 0 /\ job.place = 0
  <2>1. job = [at |-> "idle", ev |-> 0, to |-> to, trigger |-> trigger, ts |-> 0, place |-> 0,
               fresh |-> FALSE]
    BY <1>1 DEF Idle, Untimed
  <2>2. 0 \in Times /\ 0 \in Places /\ 0 \in 0..MaxEvents
    BY SubscriptionAssumption DEF Times, Places, SubscriptionAssumption
  <2> QED
    BY <2>1, <2>2 DEF Jobs
<1>6. /\ k \in Jobs /\ k.ev = 0 /\ k.at \in {"idle", "finish", "fail", "stamp", "apply"}
      /\ k.at \notin {"finish", "fail"} /\ k.ts = 0 /\ k.place = 0
      /\ k.at = "apply" => sub.status # k.to
  BY <1>2, <1>4, <1>5, BegunJob DEF BegunWith
<1>7. Known(k)' /\ Changing(k)
  BY <1>3, <1>4, <1>6 DEF Known, Changing, Untimed, Here, Counted
<1>8. Counted' /\ calls' # 0
  BY <1>3, <1>4 DEF Counted, InboxKnown
<1> QED
  BY <1>3, <1>6, <1>7, <1>8, ProcessMoves DEF Calm

LEMMA DunningKeeps ==
  ASSUME SubscriptionInv, NEW p \in Procs, StartDunning(p) \/ Find(p)
  PROVE  SubscriptionInv'
<1>1. PICK job \in Jobs : job = proc[p]
  BY Context
<1>2. /\ Known(job) /\ Counted /\ (Calm => JobAgrees(job)) /\ Len(events) \in Nat /\ calls \in Nat
      /\ MaxCalls \in Nat /\ MaxEvents \in Nat /\ Len(events) <= MaxEvents
  BY <1>1, Context
<1>3. CASE StartDunning(p)
  <2>1. PICK k : k = [Idle EXCEPT !.at = "find", !.ts = clock', !.place = Here]
    OBVIOUS
  <2>2. /\ proc' = [proc EXCEPT ![p] = k] /\ calls < MaxCalls /\ calls' = calls + 1 /\ ReadClock
        /\ UNCHANGED <<gateway, provider, events, inbox, sub, newest, overtaken, skipped, manual>>
        /\ UNCHANGED <<reached, blurred, deliveries, crashes>>
    BY <1>3, <2>1 DEF StartDunning, Do, Unread, history
  <2>3. clock' \in 1..MaxTime /\ second' \in 1..clock' /\ clock' \in Nat /\ clock' >= clock
    BY <2>2, ClockRead
  <2>4. k = [at |-> "find", ev |-> 0, to |-> "ACTIVE", trigger |-> SUCCEEDED, ts |-> clock',
             place |-> Here, fresh |-> FALSE]
    BY <2>1 DEF Idle
  <2>5. /\ clock' \in Times /\ Here \in Places /\ SUCCEEDED \in Triggers /\ 0 \in 0..MaxEvents
        /\ "ACTIVE" \in Statuses /\ Here \in Nat
    BY <1>2, <2>3, TriggerNames DEF Here, Places, Times, Statuses
  <2>6. k \in Jobs
    BY <2>4, <2>5 DEF Jobs
  <2>7. Known(k)' /\ Changing(k)
    BY <2>2, <2>3, <2>4, <2>5 DEF Known, Changing, Here
  <2>8. Counted' /\ calls' # 0
    BY <1>2, <2>2, <2>3 DEF Counted, InboxKnown
  <2> QED
    BY <2>2, <2>3, <2>6, <2>7, <2>8, ProcessMoves DEF Calm
<1>4. CASE Find(p)
  <2>1. PICK k : /\ proc' = [proc EXCEPT ![p] = k]
                 /\ \/ k = Idle
                    \/ Due # "NONE"
                       /\ k = [job EXCEPT !.at = "begin", !.to = Due, !.trigger = DunningTrigger(Due)]
    BY <1>1, <1>4 DEF Find, Do
  <2>2. /\ job.at = "find"
        /\ UNCHANGED <<gateway, provider, events, inbox, sub, newest, overtaken, skipped, manual>>
        /\ UNCHANGED <<clock, second, reached, blurred>>
        /\ UNCHANGED <<deliveries, calls, crashes>>
    BY <1>1, <1>4 DEF Find, IsAt, Unread, time, history, counters
  <2>3. Due # "NONE" => Due \in Statuses
    BY DEF Due, Statuses
  <2>4. \A to : DunningTrigger(to) \in Triggers
    BY TriggerNames DEF DunningTrigger
  <2>5. k \in Jobs /\ Known(k)' /\ Changing(k)
    <3>1. CASE k = Idle
      BY <2>2, <3>1, IdleJob
    <3>2. CASE k # Idle
      <4>1. PICK to \in Statuses, trigger \in Triggers :
              k = [job EXCEPT !.at = "begin", !.to = to, !.trigger = trigger]
        BY <2>1, <2>3, <2>4, <3>2
      <4>2. /\ k \in Jobs /\ k.at = "begin" /\ k.ev = job.ev /\ k.ts = job.ts
            /\ k.place = job.place
        BY <4>1 DEF Jobs
      <4> QED
        BY <1>2, <2>2, <4>2 DEF Known, Changing, Here
    <3> QED
      BY <3>1, <3>2
  <2>6. Counted' /\ ~Calm'
    BY <1>2, <2>2 DEF Counted, InboxKnown, Calm, JobAgrees
  <2> QED
    BY <2>1, <2>2, <2>5, <2>6, ProcessMoves DEF Calm
<1> QED
  BY <1>3, <1>4

LEMMA LookKeeps ==
  ASSUME SubscriptionInv, NEW p \in Procs, StartReconciliation(p) \/ Look(p)
  PROVE  SubscriptionInv'
<1>1. PICK job \in Jobs : job = proc[p]
  BY Context
<1>2. /\ Known(job) /\ Counted /\ (Calm => JobAgrees(job) /\ RowAgrees) /\ Len(events) \in Nat
      /\ MaxEvents \in Nat /\ Len(events) <= MaxEvents /\ sub.status \in Statuses
      /\ DOMAIN events = 1..Len(events)
  BY <1>1, Context
<1>3. CASE StartReconciliation(p)
  <2>1. PICK k : k = [Idle EXCEPT !.at = "look", !.ts = clock', !.place = Here]
    OBVIOUS
  <2>2. /\ proc' = [proc EXCEPT ![p] = k] /\ ReadClock
        /\ UNCHANGED <<gateway, provider, events, inbox, sub, newest, overtaken, skipped, manual>>
        /\ UNCHANGED <<reached, blurred, deliveries, calls, crashes>>
    BY <1>3, <2>1 DEF StartReconciliation, Do, Unread, history, counters
  <2>3. clock' \in 1..MaxTime /\ second' \in 1..clock' /\ clock' \in Nat /\ clock' >= clock
    BY <2>2, ClockRead
  <2>4. k = [at |-> "look", ev |-> 0, to |-> "ACTIVE", trigger |-> SUCCEEDED, ts |-> clock',
             place |-> Here, fresh |-> FALSE]
    BY <2>1 DEF Idle
  <2>5. /\ clock' \in Times /\ Here \in Places /\ SUCCEEDED \in Triggers /\ 0 \in 0..MaxEvents
        /\ "ACTIVE" \in Statuses /\ Here \in Nat
    BY <1>2, <2>3, TriggerNames DEF Here, Places, Times, Statuses
  <2>6. k \in Jobs
    BY <2>4, <2>5 DEF Jobs
  <2>7. Known(k)' /\ Changing(k) /\ JobAgrees(k)'
    BY <2>2, <2>3, <2>4, <2>5 DEF Known, Changing, JobAgrees, Untimed, Here
  <2>8. Counted'
    BY <1>2, <2>2, <2>3 DEF Counted, InboxKnown
  <2> QED
    BY <2>2, <2>3, <2>6, <2>7, <2>8, ProcessMoves
<1>4. CASE Look(p)
  <2>1. PICK k : k = [job EXCEPT !.at = "fetch", !.to = sub.status, !.fresh = TRUE]
    OBVIOUS
  <2>2. /\ job.at = "look" /\ proc' = [proc EXCEPT ![p] = k]
        /\ UNCHANGED <<gateway, provider, events, inbox, sub, newest, overtaken, skipped, manual>>
        /\ UNCHANGED <<clock, second, reached, blurred>>
        /\ UNCHANGED <<deliveries, calls, crashes>>
    BY <1>1, <1>4, <2>1 DEF Look, IsAt, Do, Unread, time, history, counters
  <2>3. /\ k \in Jobs /\ k.at = "fetch" /\ k.ev = job.ev /\ k.ts = job.ts /\ k.to = sub.status
        /\ k.place = job.place
    BY <1>2, <2>1 DEF Jobs
  <2>4. Known(k)' /\ Changing(k)
    BY <1>2, <2>2, <2>3 DEF Known, Changing, Here
  <2>5. ASSUME Calm
        PROVE  JobAgrees(k)'
    <3>1. JobAgrees(job) /\ Past(sub.status, 0)
      BY <1>2, <2>5 DEF RowAgrees
    <3>2. Past(sub.status, job.place)
      <4>1. ASSUME NEW e \in DOMAIN events
            PROVE  Place(e) > 0
        BY <1>2 DEF Place
      <4> QED
        BY <3>1, <4>1 DEF Past
    <3>3. job.ev = 0
      BY <1>2, <2>2 DEF Known
    <3>4. JobAgrees(k)
      BY <2>2, <2>3, <3>1, <3>2, <3>3 DEF JobAgrees
    <3> QED
      BY <2>2, <3>4 DEF JobAgrees, Past, Silent, Place
  <2>6. Counted'
    BY <1>2, <2>2 DEF Counted, InboxKnown
  <2> QED
    BY <2>2, <2>3, <2>4, <2>5, <2>6, ProcessMoves DEF Calm
<1> QED
  BY <1>3, <1>4

\* A correction of the status is dated before what it has fetched, or is remembered as "skipped".
LEMMA FetchKeeps ==
  ASSUME SubscriptionInv, NEW p \in Procs, Fetch(p)
  PROVE  SubscriptionInv'
<1>1. PICK job \in Jobs : job = proc[p]
  BY Context
<1>2. /\ Known(job) /\ Counted /\ (Calm => JobAgrees(job) /\ RowAgrees) /\ Len(events) \in Nat
      /\ provider \in Statuses /\ MaxEvents \in Nat /\ DOMAIN events = 1..Len(events)
      /\ sub.synced \in Nat
  BY <1>1, Context
<1> DEFINE trigger == IF provider = job.to THEN "SYNC_RECONCILIATION"
                      ELSE ReconciliationTrigger(job.to, provider)
<1>3. PICK k : /\ proc' = [proc EXCEPT ![p] = k]
               /\ \/ provider = job.to /\ k = [job EXCEPT !.at = "stamp", !.to = Idle.to]
                  \/ k = [job EXCEPT !.at = "begin", !.to = provider, !.fresh = FALSE,
                                     !.trigger = trigger]
  BY <1>1 DEF Fetch, Do
<1>4. /\ job.at = "fetch"
      /\ UNCHANGED <<gateway, provider, events, inbox, sub, newest, overtaken, manual>>
      /\ UNCHANGED <<deliveries, calls, crashes>>
      /\ UNCHANGED <<clock, second, reached, blurred>>
      /\ skipped' = (skipped \/ (provider # job.to /\ job.place # Here))
  BY <1>1 DEF Fetch, IsAt, Unread, time, history, counters
<1>5. trigger \in Triggers
  <2>1. \A s, t : ReconciliationTrigger(s, t) \in
          {"SYNC_RECONCILIATION", "WEBHOOK", "USER_ACTION:cancel", DELETED, "RECONCILIATION_WORKER"}
    BY DEF ReconciliationTrigger
  <2> QED
    BY <2>1, TriggerNames
<1> HIDE DEF trigger
<1>6. /\ k \in Jobs /\ k.ev = job.ev /\ k.ts = job.ts /\ k.place = job.place
      /\ \/ provider = job.to /\ k.at = "stamp" /\ k.fresh = job.fresh
         \/ k.at = "begin" /\ k.to = provider
  BY <1>2, <1>3, <1>5, IdleJob DEF Jobs
<1>7. job.ev = 0 /\ Known(k)' /\ Changing(k)
  BY <1>2, <1>4, <1>6 DEF Known, Changing, Here
<1>8. Counted' /\ (~skipped' => ~skipped)
  BY <1>2, <1>4 DEF Counted, InboxKnown
<1>9. ASSUME Calm'
      PROVE  JobAgrees(k)'
  <2> SUFFICES JobAgrees(k)
    BY <1>4 DEF JobAgrees, Past, Silent, Place
  <2>1. Calm
    BY <1>4, <1>8, <1>9 DEF Calm
  <2>2. JobAgrees(job)
    BY <1>2, <2>1
  <2>3. CASE provider = job.to /\ k.at = "stamp" /\ k.fresh = job.fresh
    BY <1>4, <1>6, <1>7, <2>2, <2>3 DEF JobAgrees
  <2>4. CASE k.at = "begin" /\ k.to = provider
    <3>1. job.ts # Untimed
      BY <1>4, <2>2 DEF JobAgrees
    <3>2. Past(provider, job.place)
      <4>1. CASE provider = job.to
        BY <1>4, <1>7, <2>2, <4>1 DEF JobAgrees
      <4>2. CASE provider # job.to
        <5>1. job.place = Here
          BY <1>4, <1>9, <4>2 DEF Calm
        <5>2. \A e \in DOMAIN events : ~(Place(e) > job.place)
          BY <1>2, <5>1 DEF Place, Here
        <5> QED
          BY <5>2 DEF Past
      <4> QED
        BY <4>1, <4>2
    <3> QED
      BY <1>6, <1>7, <2>4, <3>1, <3>2 DEF JobAgrees
  <2> QED
    BY <1>6, <2>3, <2>4
<1> QED
  BY <1>3, <1>4, <1>6, <1>7, <1>8, <1>9, ProcessMoves DEF Calm

-----------------------------------------------------------------------------
(* Writes of the row. *)

\* What another process was about to do, it still is; the row may not be what it has read.
Rested(k, job, same) ==
  /\ k \in Jobs /\ k.at = job.at /\ k.ev = job.ev /\ k.to = job.to /\ k.ts = job.ts
  /\ k.place = job.place
  /\ k.fresh => job.fresh /\ same

LEMMA RestedJob ==
  ASSUME NEW job \in Jobs, NEW same \in BOOLEAN, NEW k, k = [job EXCEPT !.fresh = @ /\ same]
  PROVE  Rested(k, job, same)
BY DEF Rested, Jobs

LEMMA WriteMoves ==
  ASSUME SubscriptionInv, NEW j \in Jobs, proc' = [q \in Procs |-> proc'[q]],
         \A q \in Procs : proc'[q] = j \/ Rested(proc'[q], proc[q], sub' = sub),
         UNCHANGED <<gateway, provider, events, inbox, skipped>>, Counted', calls' = 0 => calls = 0,
         sub' \in Rows, newest' \in [at : Times, ev : 0..MaxEvents],
         overtaken' \in BOOLEAN, manual' \in BOOLEAN,
         ~overtaken' => ~overtaken, ~blurred' => ~blurred, clock' >= clock,
         NewestSaved', sub'.synced <= clock', Known(j)', Changing(j)',
         Calm' => reached' >= reached /\ RowAgrees' /\ JobAgrees(j)'
  PROVE  SubscriptionInv'
<1>1. SubscriptionTypeOK'
  <2>1. proc' \in [Procs -> Jobs]
    BY DEF Rested
  <2>2. /\ gateway' \in {"STRIPE", "PADDLE"} /\ provider' \in Statuses
        /\ events' \in Seq(Events) /\ Len(events') <= MaxEvents
    BY DEF SubscriptionInv, SubscriptionTypeOK
  <2>3. /\ inbox' \in [1..MaxEvents -> {"NONE", "PROCESSING", "PROCESSED", "FAILED"}]
        /\ clock' \in 1..MaxTime /\ second' \in 1..clock' /\ reached' \in Places
        /\ skipped' \in BOOLEAN /\ blurred' \in BOOLEAN
        /\ deliveries' \in 0..MaxDeliveries /\ calls' \in 0..MaxCalls /\ crashes' \in 0..MaxCrashes
    BY DEF Counted
  <2> QED
    BY <2>1, <2>2, <2>3 DEF SubscriptionTypeOK
<1>2. /\ \A q \in Procs : proc[q] \in Jobs /\ Known(proc[q]) /\ Changing(proc[q])
      /\ sub \in Rows /\ sub.synced \in Nat /\ reached \in Nat /\ clock \in Nat
      /\ MaxEvents \in Nat /\ MaxTime \in Nat /\ Len(events) \in Nat /\ DOMAIN events = 1..Len(events)
  <2>1. SubscriptionTypeOK /\ JobsKnown /\ MaxEvents \in Nat /\ MaxTime \in Nat
    BY SubscriptionAssumption DEF SubscriptionInv, SubscriptionAssumption
  <2>2. \A q \in Procs : proc[q] \in Jobs /\ Known(proc[q]) /\ Changing(proc[q])
    BY <2>1 DEF SubscriptionTypeOK, JobsKnown
  <2>3. sub \in Rows /\ sub.synced \in Nat /\ reached \in Nat /\ clock \in Nat
    BY <2>1 DEF SubscriptionTypeOK, Rows, Times, Places
  <2>4. Len(events) \in Nat /\ DOMAIN events = 1..Len(events)
    BY <2>1, LenProperties DEF SubscriptionTypeOK
  <2> QED
    BY <2>1, <2>2, <2>3, <2>4
<1>3. reached' \in Nat /\ clock' \in Nat
  BY <1>2 DEF Counted, Places
<1>4. JobsKnown'
  <2>1. ASSUME NEW k, NEW job \in Jobs, Rested(k, job, sub' = sub), Known(job), Changing(job)
        PROVE  Known(k)' /\ Changing(k)'
    <3>1. job.ts \in Nat
      BY <1>2 DEF Jobs, Times
    <3>2. job.ts <= clock'
      BY <1>2, <1>3, <2>1, <3>1 DEF Known
    <3> QED
      BY <2>1, <3>2 DEF Rested, Known, Changing, Here, At, Place
  <2>2. ASSUME NEW q \in Procs
        PROVE  (Known(proc[q]) /\ Changing(proc[q]))'
    <3>1. PICK k : k = proc'[q]
      OBVIOUS
    <3>2. Known(k)' /\ Changing(k)'
      <4>1. k = j \/ Rested(k, proc[q], sub' = sub)
        BY <3>1
      <4> QED
        BY <1>2, <2>1, <4>1
    <3> QED
      BY <3>1, <3>2 DEF Known, Changing, Here, At, Place
  <2> QED
    BY <2>2 DEF JobsKnown
<1>5. ProviderHistory' /\ TimesKnown'
  <2>1. ProviderHistory'
    BY DEF SubscriptionInv, ProviderHistory, Silent
  <2>2. ASSUME NEW e \in DOMAIN events
        PROVE  At(e) <= clock'
    <3>1. At(e) <= clock /\ events[e] \in Events
      BY <1>2, ElementOfSeq DEF SubscriptionInv, SubscriptionTypeOK, TimesKnown
    <3>2. At(e) \in Nat
      BY <1>2, <3>1 DEF Events, At
    <3> QED
      BY <1>2, <1>3, <3>1, <3>2
  <2> QED
    BY <2>1, <2>2 DEF TimesKnown, At
<1>6. ASSUME Calm'
      PROVE  RowAgrees' /\ \A q \in Procs : JobAgrees(proc[q])'
  <2>1. Calm
    BY <1>6 DEF Calm
  <2>2. \A q \in Procs : JobAgrees(proc[q])
    BY <2>1 DEF SubscriptionInv, CalmAgrees
  <2>3. reached' >= reached /\ RowAgrees' /\ JobAgrees(j)'
    BY <1>6
  <2>4. ASSUME NEW status, NEW place, Past(status, place)
        PROVE  Past(status, place)'
    BY <1>2, <1>3, <2>3, <2>4 DEF Past, Silent, Place
  <2>5. ASSUME NEW k, NEW job \in Jobs, Rested(k, job, sub' = sub), JobAgrees(job)
        PROVE  JobAgrees(k)'
    <3>1. /\ k.at = job.at /\ k.ev = job.ev /\ k.to = job.to /\ k.ts = job.ts
          /\ k.place = job.place
          /\ k.fresh => job.fresh /\ sub' = sub
      BY <2>5 DEF Rested
    <3>2. k.at = "finish" => reached' >= Place(k.ev)
      <4>1. Place(job.ev) \in Nat
        BY <1>2 DEF Jobs, Place
      <4> QED
        BY <1>2, <1>3, <2>3, <2>5, <3>1, <4>1 DEF JobAgrees
    <3>3. k.ev = 0 /\ k.at \in {"fetch", "begin", "apply"} => Past(k.to, k.place)'
      BY <2>4, <2>5, <3>1 DEF JobAgrees
    <3>4. k.place > reached' => job.place > reached
      <4>1. job.place \in Nat
        BY DEF Jobs, Places
      <4> QED
        BY <1>2, <1>3, <2>3, <3>1, <4>1
    <3> QED
      BY <2>5, <3>1, <3>2, <3>3, <3>4 DEF JobAgrees, Place
  <2>6. ASSUME NEW q \in Procs
        PROVE  JobAgrees(proc[q])'
    <3>1. PICK k : k = proc'[q]
      OBVIOUS
    <3>2. JobAgrees(k)'
      <4>1. k = j \/ Rested(k, proc[q], sub' = sub)
        BY <3>1
      <4> QED
        BY <1>2, <2>2, <2>3, <2>5, <4>1
    <3> QED
      BY <3>1, <3>2 DEF JobAgrees, Past, Silent, Place
  <2> QED
    BY <2>3, <2>6
<1>7. CalmAgrees'
  BY <1>6 DEF CalmAgrees
<1> QED
  BY <1>1, <1>4, <1>5, <1>7 DEF SubscriptionInv, Counted

\* A change of status takes the time of what it follows.
LEMMA ApplyKeeps ==
  ASSUME SubscriptionInv, NEW p \in Procs, Apply(p)
  PROVE  SubscriptionInv'
<1>1. PICK job \in Jobs : job = proc[p]
  BY Context
<1>2. PICK k : k = After(job, "finish")
  OBVIOUS
<1>3. /\ Known(job) /\ Changing(job) /\ Counted /\ (Calm => JobAgrees(job) /\ RowAgrees)
      /\ Len(events) \in Nat /\ DOMAIN events = 1..Len(events)
      /\ MaxEvents \in Nat /\ Len(events) <= MaxEvents
      /\ sub \in Rows /\ sub.synced \in Nat /\ job.ts \in Nat /\ job.ev \in Nat
      /\ job.place \in Nat /\ reached \in Nat /\ clock \in Nat /\ sub.synced <= clock
  <2>1. MaxEvents \in Nat /\ MaxTime \in Nat
    BY SubscriptionAssumption DEF SubscriptionAssumption
  <2>2. job.ts \in Nat /\ job.ev \in Nat /\ job.place \in Nat
    BY <2>1 DEF Jobs, Times, Places
  <2> QED
    BY <1>1, <2>2, Context
<1> DEFINE untimed == job.ts = Untimed
<1>4. /\ job.at = "apply"
      /\ sub' = [status |-> job.to, synced |-> IF untimed THEN sub.synced ELSE job.ts]
      /\ overtaken' = (overtaken \/ ~job.fresh)
      /\ manual' = (manual \/ untimed)
      /\ untimed => UNCHANGED <<newest, reached, blurred>>
      /\ ~untimed => /\ newest' = [at |-> job.ts, ev |-> job.ev] /\ reached' = job.place
                     /\ blurred' = (blurred \/ job.place < reached)
      /\ UNCHANGED <<gateway, provider, events, inbox, skipped>>
      /\ UNCHANGED <<clock, second, deliveries, calls, crashes>>
      /\ blurred' \in BOOLEAN /\ (blurred => blurred') /\ (overtaken => overtaken')
  <2>1. manual \in BOOLEAN /\ blurred \in BOOLEAN /\ overtaken \in BOOLEAN
    BY DEF SubscriptionInv, SubscriptionTypeOK
  <2>2. blurred' = blurred \/ blurred' = (blurred \/ job.place < reached)
    BY <1>1 DEF Apply
  <2>3. blurred' \in BOOLEAN /\ (blurred => blurred')
    BY <2>1, <2>2
  <2> QED
    BY <1>1, <2>1, <2>3 DEF Apply, IsAt, Unread, time, history, counters
<1>5. proc' = [q \in Procs |-> IF q = p THEN k ELSE [proc[q] EXCEPT !.fresh = @ /\ sub' = sub]]
  BY <1>1, <1>2 DEF Apply, Wrote
<1>6. ASSUME NEW q \in Procs
      PROVE  proc'[q] = k \/ Rested(proc'[q], proc[q], sub' = sub)
  <2>1. proc[q] \in Jobs
    BY Context
  <2>2. q # p => proc'[q] = [proc[q] EXCEPT !.fresh = @ /\ sub' = sub]
    BY <1>5
  <2>3. q # p => Rested(proc'[q], proc[q], sub' = sub)
    BY <2>1, <2>2, RestedJob
  <2> QED
    BY <1>5, <2>3
<1>7. /\ k \in Jobs /\ k.ev = job.ev /\ k.ts = 0 /\ k.place = 0 /\ ~k.fresh
      /\ k.at = IF job.ev = 0 THEN "idle" ELSE "finish"
  BY <1>2, AfterJob
<1>8. sub' \in Rows /\ sub'.status = job.to /\ sub'.synced \in Nat
      /\ sub'.synced = IF job.ts = 0 THEN sub.synced ELSE job.ts
  BY <1>3, <1>4 DEF Rows, Jobs, Untimed
<1>9. /\ newest' \in [at : Times, ev : 0..MaxEvents] /\ newest.at \in Nat
      /\ overtaken' \in BOOLEAN /\ manual' \in BOOLEAN
  <2>1. newest \in [at : Times, ev : 0..MaxEvents] /\ overtaken \in BOOLEAN /\ manual \in BOOLEAN
    BY DEF SubscriptionInv, SubscriptionTypeOK
  <2>2. newest' \in [at : Times, ev : 0..MaxEvents]
    BY <1>4, <2>1 DEF Jobs
  <2>3. newest.at \in Nat
    BY <2>1 DEF Times
  <2> QED
    BY <1>4, <2>1, <2>2, <2>3 DEF Jobs
<1>10. /\ job.ev # 0 => /\ job.ev \in DOMAIN events /\ job.ts = At(job.ev) /\ At(job.ev) # 0
                        /\ job.place = Place(job.ev) /\ job.to = events[job.ev].to
       /\ job.ts <= clock /\ job.place <= Here
  <2>1. \A e \in DOMAIN events : At(e) # 0
    BY Context DEF Events, At
  <2> QED
    BY <1>3, <1>4, <2>1 DEF Known, Place, Here
<1>11. reached' \in Nat /\ reached' <= Here /\ reached' \in Places
  BY <1>3, <1>4, <1>10, Context DEF Jobs, Counted
<1>12. NewestSaved' /\ sub'.synced <= clock'
  <2>1. NewestSaved
    BY DEF SubscriptionInv
  <2>2. sub'.synced <= clock'
    BY <1>3, <1>4, <1>8, <1>10
  <2>3. overtaken' \/ newest'.at <= sub'.synced
    <3>1. overtaken \/ newest.at <= sub.synced
      BY <2>1 DEF NewestSaved
    <3>2. overtaken => overtaken'
      BY <1>4
    <3>3. newest'.at <= sub'.synced \/ (newest' = newest /\ sub'.synced = sub.synced)
      BY <1>3, <1>4, <1>8 DEF Untimed
    <3> QED
      BY <3>1, <3>2, <3>3
  <2>4. ~manual' /\ newest'.ev # 0 =>
          newest'.ev \in DOMAIN events /\ sub'.status = events[newest'.ev].to
    <3>1. ~manual' => ~untimed
      BY <1>4
    <3>2. ~untimed => newest'.ev = job.ev
      BY <1>4
    <3> QED
      BY <1>8, <1>10, <3>1, <3>2
  <2> QED
    BY <1>4, <1>11, <2>2, <2>3, <2>4 DEF NewestSaved, Here
<1>13. Known(k)' /\ Changing(k)'
  BY <1>3, <1>4, <1>7, <1>10 DEF Known, Changing, Here, Untimed
<1>14. ASSUME Calm'
       PROVE  reached' >= reached /\ RowAgrees' /\ JobAgrees(k)'
  <2>1. Calm /\ job.fresh /\ job.ts # 0 /\ JobAgrees(job) /\ RowAgrees
    <3>1. Calm /\ job.fresh
      BY <1>4, <1>14 DEF Calm
    <3> QED
      BY <1>3, <1>4, <3>1 DEF JobAgrees, Untimed
  <2>2. reached' = job.place /\ reached' >= reached
    <3>1. ~(job.place < reached) /\ reached' = job.place
      BY <1>4, <1>14, <2>1 DEF Calm, Untimed
    <3> QED
      BY <1>3, <3>1
  <2>3. \A to : to = job.to => Past(to, 0)'
    <3> TAKE to
    <3> HAVE to = job.to
    <3>1. CASE job.ev = 0
      <4>1. Past(to, job.place)
        BY <1>4, <2>1, <3>1 DEF JobAgrees
      <4> QED
        BY <1>3, <1>4, <2>2, <4>1 DEF Past, Silent, Place
    <3>2. CASE job.ev # 0
      <4>1. job.ev \in DOMAIN events /\ job.place = Place(job.ev) /\ job.to = events[job.ev].to
        BY <1>10, <3>2
      <4>2. /\ provider \in Early => job.to \in Early
            /\ provider # "CANCELED" => job.to # "CANCELED"
            /\ \A e \in DOMAIN events : job.ev < e /\ Silent(e) => job.to # events[e].to
        BY <4>1 DEF SubscriptionInv, ProviderHistory
      <4>3. \A e \in DOMAIN events : Place(e) > job.place => job.ev < e
        BY <1>3, <4>1 DEF Place
      <4> QED
        BY <1>4, <2>2, <4>2, <4>3 DEF Past, Silent, Place
    <3> QED
      BY <3>1, <3>2
  <2>4. ASSUME NEW e \in DOMAIN events, inbox[e] = "PROCESSED"
        PROVE  reached' >= Place(e)
    <3>1. reached >= Place(e) /\ Place(e) \in Nat
      BY <1>3, <2>1, <2>4 DEF RowAgrees, Place
    <3> QED
      BY <1>3, <1>11, <2>2, <3>1
  <2>5. ASSUME reached' >= Place(Len(events))
        PROVE  sub'.status = provider
    <3>1. CASE job.ev = 0
      BY <1>4, <1>8, <2>1, <2>2, <2>5, <3>1 DEF JobAgrees
    <3>2. CASE job.ev # 0
      <4>1. job.ev = Len(events)
        BY <1>3, <1>10, <2>2, <2>5, <3>2 DEF Place
      <4> QED
        BY <1>8, <1>10, <3>2, <4>1 DEF SubscriptionInv, ProviderHistory
    <3> QED
      BY <3>1, <3>2
  <2>6. RowAgrees'
    <3>1. PICK to : to = job.to
      OBVIOUS
    <3>2. Past(to, 0)' /\ sub'.status = to
      BY <1>8, <2>3, <3>1
    <3>3. Past(sub.status, 0)'
      BY <3>2 DEF Past, Silent, Place
    <3>4. \A e \in DOMAIN events' : inbox'[e] = "PROCESSED" => reached' >= Place(e)
      BY <1>4, <2>4
    <3>5. reached' >= Place(Len(events')) => sub'.status = provider'
      BY <1>4, <2>5
    <3> QED
      BY <3>3, <3>4, <3>5 DEF RowAgrees, Place
  <2>7. k.at = "finish" => reached' >= Place(k.ev)
    BY <1>3, <1>7, <1>10, <1>11, <2>2
  <2> QED
    BY <1>3, <1>7, <2>2, <2>6, <2>7 DEF JobAgrees, Place
<1>15. /\ Counted' /\ (calls' = 0 => calls = 0) /\ (~overtaken' => ~overtaken)
       /\ (~blurred' => ~blurred) /\ clock' >= clock
       /\ proc' = [q \in Procs |-> proc'[q]]
  <2>1. Counted'
    BY <1>3, <1>4, <1>11 DEF Counted, InboxKnown
  <2>2. proc' = [q \in Procs |-> proc'[q]]
    BY <1>5
  <2>3. clock' >= clock
    BY <1>3, <1>4
  <2> QED
    BY <1>4, <2>1, <2>2, <2>3
<1> QED
  BY <1>4, <1>6, <1>7, <1>8, <1>9, <1>12, <1>13, <1>14, <1>15, WriteMoves

\* An update of the time alone: of an event with the status of the subscription, or of a sweep.
LEMMA StampKeeps ==
  ASSUME SubscriptionInv, NEW p \in Procs, Stamp(p)
  PROVE  SubscriptionInv'
<1>1. PICK job \in Jobs : job = proc[p]
  BY Context
<1>2. PICK k : k = After(job, "finish")
  OBVIOUS
<1>3. /\ Known(job) /\ Counted /\ (Calm => JobAgrees(job) /\ RowAgrees)
      /\ Len(events) \in Nat /\ DOMAIN events = 1..Len(events)
      /\ MaxEvents \in Nat /\ Len(events) <= MaxEvents
      /\ sub \in Rows /\ sub.synced \in Nat /\ job.ts \in Nat /\ job.ev \in Nat
      /\ job.place \in Nat /\ reached \in Nat /\ clock \in Nat /\ reached <= Here
  <2>1. MaxEvents \in Nat /\ MaxTime \in Nat
    BY SubscriptionAssumption DEF SubscriptionAssumption
  <2>2. job.ts \in Nat /\ job.ev \in Nat /\ job.place \in Nat
    BY <2>1 DEF Jobs, Times, Places
  <2> QED
    BY <1>1, <2>2, Context
<1>4. /\ job.at = "stamp" /\ sub' = [sub EXCEPT !.synced = job.ts]
      /\ overtaken' = (overtaken \/ ~job.fresh \/ job.ts < sub.synced)
      /\ Reaches(job.place)
      /\ UNCHANGED <<gateway, provider, events, inbox, newest, skipped, manual>>
      /\ UNCHANGED <<clock, second, blurred, deliveries, calls, crashes>>
  BY <1>1 DEF Stamp, IsAt, Unread, time, history, counters
<1>5. proc' = [q \in Procs |-> IF q = p THEN k ELSE [proc[q] EXCEPT !.fresh = @ /\ sub' = sub]]
  BY <1>1, <1>2 DEF Stamp, Wrote
<1>6. ASSUME NEW q \in Procs
      PROVE  proc'[q] = k \/ Rested(proc'[q], proc[q], sub' = sub)
  <2>1. proc[q] \in Jobs
    BY Context
  <2>2. q # p => proc'[q] = [proc[q] EXCEPT !.fresh = @ /\ sub' = sub]
    BY <1>5
  <2>3. q # p => Rested(proc'[q], proc[q], sub' = sub)
    BY <2>1, <2>2, RestedJob
  <2> QED
    BY <1>5, <2>3
<1>7. /\ k \in Jobs /\ k.ev = job.ev /\ k.ts = 0 /\ k.place = 0 /\ ~k.fresh
      /\ k.at = IF job.ev = 0 THEN "idle" ELSE "finish"
  BY <1>2, AfterJob
<1>8. sub' \in Rows /\ sub'.status = sub.status /\ sub'.synced = job.ts
  BY <1>3, <1>4 DEF Rows, Jobs
<1>9. /\ newest' \in [at : Times, ev : 0..MaxEvents] /\ newest.at \in Nat
      /\ overtaken' \in BOOLEAN /\ manual' \in BOOLEAN
  BY <1>3, <1>4 DEF SubscriptionInv, SubscriptionTypeOK, Times
<1>10. /\ job.ev # 0 => /\ job.ev \in DOMAIN events /\ job.place = Place(job.ev)
                        /\ job.to = events[job.ev].to
       /\ job.ts <= clock /\ job.place <= Here
  BY <1>3, <1>4 DEF Known, Place, Here
<1>11. /\ reached' \in Nat /\ reached' <= Here /\ reached' \in Places
       /\ reached' >= reached /\ reached' >= job.place
       /\ reached' = reached \/ (reached' = job.place /\ job.place > reached)
  <2>1. /\ reached' \in Nat /\ reached' >= reached /\ reached' >= job.place
        /\ reached' = reached \/ (reached' = job.place /\ job.place > reached)
    BY <1>3, <1>4, ReachesPlace
  <2> QED
    BY <1>3, <1>10, <2>1 DEF Counted, Jobs
<1>12. NewestSaved' /\ sub'.synced <= clock'
  <2>1. NewestSaved
    BY DEF SubscriptionInv
  <2>2. overtaken' \/ newest'.at <= sub'.synced
    <3>1. overtaken \/ newest.at <= sub.synced
      BY <2>1 DEF NewestSaved
    <3>2. overtaken' \/ job.ts >= sub.synced
      <4>1. overtaken' \/ ~(job.ts < sub.synced)
        BY <1>4, Zenon
      <4> QED
        BY <1>3, <4>1
    <3>3. newest' = newest /\ (overtaken => overtaken')
      BY <1>4
    <3> QED
      BY <1>3, <1>8, <1>9, <3>1, <3>2, <3>3
  <2>3. ~manual' /\ newest'.ev # 0 =>
          newest'.ev \in DOMAIN events /\ sub'.status = events[newest'.ev].to
    BY <1>4, <1>8, <2>1 DEF NewestSaved
  <2> QED
    BY <1>4, <1>8, <1>10, <1>11, <2>2, <2>3 DEF NewestSaved, Here
<1>13. Known(k)' /\ Changing(k)'
  BY <1>3, <1>4, <1>7, <1>10 DEF Known, Changing, Here, Untimed
<1>14. ASSUME Calm'
       PROVE  reached' >= reached /\ RowAgrees' /\ JobAgrees(k)'
  <2>1. Calm /\ job.fresh
    <3>1. ~overtaken /\ job.fresh
      BY <1>4, <1>14, Zenon DEF Calm
    <3> QED
      BY <1>4, <1>14, <3>1 DEF Calm
  <2>2. JobAgrees(job) /\ RowAgrees
    BY <1>3, <2>1
  <2>3. Past(sub.status, 0)'
    <3>1. PICK to : to = sub.status
      OBVIOUS
    <3>2. Past(to, 0)
      BY <2>2, <3>1 DEF RowAgrees
    <3>3. Past(to, 0)'
      BY <1>3, <1>4, <1>11, <3>2 DEF Past, Silent, Place
    <3> QED
      BY <1>8, <3>1, <3>3 DEF Past, Silent, Place
  <2>4. ASSUME NEW e \in DOMAIN events, inbox[e] = "PROCESSED"
        PROVE  reached' >= Place(e)
    <3>1. reached >= Place(e) /\ Place(e) \in Nat
      BY <1>3, <2>2, <2>4 DEF RowAgrees, Place
    <3> QED
      BY <1>3, <1>11, <3>1
  <2>5. ASSUME reached' >= Place(Len(events))
        PROVE  sub.status = provider
    <3>1. CASE reached' = reached
      BY <2>2, <2>5, <3>1 DEF RowAgrees
    <3>2. CASE reached' = job.place /\ job.place > reached
      <4>1. CASE job.ev = 0
        BY <1>4, <2>1, <2>2, <2>5, <3>2, <4>1 DEF JobAgrees
      <4>2. CASE job.ev # 0
        <5>1. job.ev = Len(events)
          BY <1>3, <1>10, <2>5, <3>2, <4>2 DEF Place
        <5>2. sub.status = job.to
          BY <1>4, <2>1, <2>2, <3>2, <4>2 DEF JobAgrees
        <5> QED
          BY <1>10, <4>2, <5>1, <5>2 DEF SubscriptionInv, ProviderHistory
      <4> QED
        BY <4>1, <4>2
    <3> QED
      BY <1>11, <3>1, <3>2
  <2>6. RowAgrees'
    <3>1. \A e \in DOMAIN events' : inbox'[e] = "PROCESSED" => reached' >= Place(e)
      BY <1>4, <2>4
    <3>2. reached' >= Place(Len(events')) => sub'.status = provider'
      BY <1>4, <1>8, <2>5
    <3> QED
      BY <2>3, <3>1, <3>2 DEF RowAgrees, Place
  <2>7. k.at = "finish" => reached' >= Place(k.ev)
    BY <1>3, <1>7, <1>10, <1>11
  <2> QED
    BY <1>3, <1>7, <1>11, <2>6, <2>7 DEF JobAgrees, Place
<1>15. /\ Counted' /\ (calls' = 0 => calls = 0) /\ (~overtaken' => ~overtaken)
       /\ (~blurred' => ~blurred) /\ clock' >= clock
       /\ proc' = [q \in Procs |-> proc'[q]]
  <2>1. Counted'
    BY <1>3, <1>4, <1>11 DEF Counted, InboxKnown
  <2>2. proc' = [q \in Procs |-> proc'[q]]
    BY <1>5
  <2>3. clock' >= clock
    BY <1>3, <1>4
  <2> QED
    BY <1>4, <2>1, <2>2, <2>3
<1> QED
  BY <1>4, <1>6, <1>7, <1>8, <1>9, <1>12, <1>13, <1>14, <1>15, WriteMoves

LEMMA ResynchronizeKeeps ==
  ASSUME SubscriptionInv, Resynchronize
  PROVE  SubscriptionInv'
<1>1. /\ SubscriptionTypeOK /\ NewestSaved /\ Counted /\ \A q \in Procs : proc[q] \in Jobs
      /\ MaxTime \in Nat /\ MaxCalls \in Nat /\ calls \in Nat /\ clock \in Nat
      /\ sub \in Rows /\ sub.synced \in Nat /\ newest.at \in Nat /\ sub.synced <= clock
  <2>1. SubscriptionTypeOK /\ MaxTime \in Nat /\ MaxCalls \in Nat
    BY SubscriptionAssumption DEF SubscriptionInv, SubscriptionAssumption
  <2> QED
    BY <2>1 DEF SubscriptionInv, SubscriptionTypeOK, TimesKnown, Counted, Rows, Times
<1>2. /\ calls < MaxCalls /\ calls' = calls + 1 /\ sub' = [sub EXCEPT !.synced = clock']
      /\ ReadClock
      /\ UNCHANGED <<gateway, provider, events, inbox, newest, overtaken, skipped, manual>>
      /\ UNCHANGED <<reached, blurred, deliveries, crashes>>
  BY DEF Resynchronize, Unread, history
<1>3. proc' = [q \in Procs |-> [proc[q] EXCEPT !.fresh = @ /\ sub' = sub]]
  BY DEF Resynchronize
<1>4. ASSUME NEW q \in Procs
      PROVE  Rested(proc'[q], proc[q], sub' = sub)
  <2>1. proc'[q] = [proc[q] EXCEPT !.fresh = @ /\ sub' = sub]
    BY <1>3
  <2> QED
    BY <1>1, <2>1, RestedJob
<1>5. clock' \in 1..MaxTime /\ second' \in 1..clock' /\ clock' \in Nat /\ clock' >= clock
  BY <1>2, ClockRead
<1>6. sub' \in Rows /\ sub'.status = sub.status /\ sub'.synced = clock'
  <2>1. clock' \in Times
    BY <1>1, <1>5 DEF Times
  <2> QED
    BY <1>1, <1>2, <2>1 DEF Rows
<1>7. NewestSaved' /\ sub'.synced <= clock'
  <2>1. sub.synced <= sub'.synced /\ sub'.synced \in Nat /\ sub'.synced <= clock'
    BY <1>1, <1>5, <1>6
  <2>2. overtaken' \/ newest'.at <= sub'.synced
    BY <1>1, <1>2, <2>1 DEF NewestSaved
  <2> QED
    BY <1>1, <1>2, <1>6, <2>1, <2>2 DEF NewestSaved, Here
<1>8. PICK j : j = Idle
  OBVIOUS
<1>9. j \in Jobs /\ Known(j)' /\ Changing(j)'
  <2>1. Known(Idle)'
    BY <1>2, <1>5, IdleJob
  <2> QED
    BY <1>8, <2>1, IdleJob DEF Known, Changing, Here, At, Place
<1>10. Counted' /\ calls' # 0 /\ proc' = [q \in Procs |-> proc'[q]]
  <2>1. Counted' /\ calls' # 0
    BY <1>1, <1>2, <1>5 DEF Counted, InboxKnown
  <2>2. proc' = [q \in Procs |-> proc'[q]]
    BY <1>3
  <2> QED
    BY <2>1, <2>2
<1>11. newest' \in [at : Times, ev : 0..MaxEvents] /\ overtaken' \in BOOLEAN /\ manual' \in BOOLEAN
  BY <1>1, <1>2 DEF SubscriptionTypeOK
<1> QED
  BY <1>2, <1>4, <1>5, <1>6, <1>7, <1>9, <1>10, <1>11, WriteMoves DEF Calm

-----------------------------------------------------------------------------
(* Steps of no process. *)

LEMMA ReplayKeeps ==
  ASSUME SubscriptionInv, NEW e \in 1..MaxEvents, Replay(e)
  PROVE  SubscriptionInv'
<1>1. /\ inbox[e] # "NONE" /\ inbox' = [inbox EXCEPT ![e] = "PROCESSED"]
      /\ calls < MaxCalls /\ calls' = calls + 1
      /\ UNCHANGED <<gateway, provider, events, sub, proc, newest, overtaken, skipped, manual>>
      /\ UNCHANGED <<clock, second, reached, blurred, deliveries, crashes>>
  BY DEF Replay, Unread, time, history
<1>2. /\ SubscriptionTypeOK /\ InboxKnown /\ MaxCalls \in Nat /\ calls \in Nat
  BY SubscriptionAssumption DEF SubscriptionInv, SubscriptionTypeOK, SubscriptionAssumption
<1>3. \A i \in 1..MaxEvents : inbox'[i] = IF i = e THEN "PROCESSED" ELSE inbox[i]
  BY <1>1, <1>2 DEF SubscriptionTypeOK
<1>4. SubscriptionTypeOK' /\ calls' # 0
  <2>1. inbox' \in [1..MaxEvents -> {"NONE", "PROCESSING", "PROCESSED", "FAILED"}]
    BY <1>1, <1>2 DEF SubscriptionTypeOK
  <2> QED
    BY <1>1, <1>2, <2>1 DEF SubscriptionTypeOK
<1>5. InboxKnown'
  BY <1>1, <1>2, <1>3 DEF InboxKnown
<1>6. JobsKnown'
  BY <1>1 DEF SubscriptionInv, JobsKnown, Known, Changing, Here, At, Place
<1>7. NewestSaved' /\ ProviderHistory' /\ TimesKnown'
  BY <1>1 DEF SubscriptionInv, NewestSaved, ProviderHistory, TimesKnown, Here, At, Silent
<1> QED
  BY <1>4, <1>5, <1>6, <1>7 DEF SubscriptionInv, CalmAgrees, Calm

\* The provider's life cycle: nothing follows a cancellation, nothing leads back to a trial,
\* and the events the handlers may leave without a trace lead where it has never been.
LEMMA Moves ==
  ASSUME NEW move \in ProviderMoves
  PROVE  /\ move[2] \in Kinds /\ move[3] \in Statuses /\ move[1] # "CANCELED"
         /\ move[3] \in Early => move[1] \in Early
         /\ move[2] = "PAYMENT_SUCCEEDED" => move[3] = "ACTIVE"
         /\ move[2] = "CANCELED" => move[3] = "CANCELED"
         /\ move[2] = "CHECKOUT" => move[1] \in Early /\ move[3] = "ACTIVE"
<1>1. CASE \E from \in {"TRIALING", "ACTIVE", "PAST_DUE", "UNPAID"} :
             move = <<from, "CANCELED", "CANCELED">>
  BY <1>1 DEF Kinds, Statuses, Early
<1>2. CASE move \in {<<from, "CANCELED", "CANCELED">> : from \in {"TRIALING", "ACTIVE", "PAST_DUE", "UNPAID"}}
  BY <1>1, <1>2
<1>3. CASE ~(move \in {<<from, "CANCELED", "CANCELED">> : from \in {"TRIALING", "ACTIVE", "PAST_DUE", "UNPAID"}})
  BY <1>3 DEF ProviderMoves, Kinds, Statuses, Early
<1> QED
  BY <1>2, <1>3

LEMMA EmitKeeps ==
  ASSUME SubscriptionInv, NEW move \in ProviderMoves, Emit(move[1], move[2], move[3])
  PROVE  SubscriptionInv'
<1> DEFINE n == Len(events)
<1>1. PICK from, kind, to : from = move[1] /\ kind = move[2] /\ to = move[3]
  OBVIOUS
<1>2. PICK new : new = [kind |-> kind, to |-> to, at |-> second']
  OBVIOUS
<1>3. /\ provider = from /\ n < MaxEvents /\ provider' = to /\ events' = Append(events, new)
      /\ ReadClock
      /\ UNCHANGED <<gateway, inbox, sub, proc, newest, overtaken, skipped, manual>>
      /\ UNCHANGED <<reached, blurred, deliveries, calls, crashes>>
  BY <1>1, <1>2 DEF Emit, history, counters
<1>4. /\ kind \in Kinds /\ to \in Statuses /\ from # "CANCELED"
      /\ to \in Early => from \in Early
      /\ kind = "PAYMENT_SUCCEEDED" => to = "ACTIVE"
      /\ kind = "CANCELED" => to = "CANCELED"
      /\ kind = "CHECKOUT" => from \in Early /\ to = "ACTIVE"
  BY <1>1, Moves
<1>5. /\ SubscriptionTypeOK /\ MaxEvents \in Nat /\ n \in Nat /\ DOMAIN events = 1..n
      /\ events \in Seq(Events) /\ new \in Events /\ new.kind = kind /\ new.to = to
      /\ new.at <= clock' /\ clock' \in 1..MaxTime /\ second' \in 1..clock' /\ clock' >= clock
      /\ sub.synced \in Nat /\ clock \in Nat /\ clock' \in Nat /\ reached \in Nat
  <2>1. SubscriptionTypeOK /\ MaxEvents \in Nat /\ MaxTime \in Nat
    BY SubscriptionAssumption DEF SubscriptionInv, SubscriptionAssumption
  <2>2. clock' \in 1..MaxTime /\ second' \in 1..clock' /\ clock' \in Nat /\ clock' >= clock
    BY <1>3, ClockRead
  <2>3. new \in Events /\ new.kind = kind /\ new.to = to /\ new.at <= clock'
    BY <1>2, <1>4, <2>1, <2>2 DEF Events
  <2>4. sub.synced \in Nat /\ clock \in Nat /\ reached \in Nat
    BY <2>1 DEF SubscriptionTypeOK, Rows, Times, Places
  <2> QED
    BY <2>1, <2>2, <2>3, <2>4, LenProperties DEF SubscriptionTypeOK
<1>6. /\ events' \in Seq(Events) /\ Len(events') = n + 1 /\ DOMAIN events' = 1..n + 1
      /\ \A e \in 1..n : events'[e] = events[e]
      /\ events'[n + 1] = new
  <2>1. /\ events' \in Seq(Events) /\ Len(events') = n + 1
        /\ \A e \in 1..n : events'[e] = events[e]
        /\ events'[n + 1] = new
    BY <1>3, <1>5, AppendProperties
  <2> QED
    BY <2>1, LenProperties
<1>7. \A e \in DOMAIN events' : e \in DOMAIN events \/ e = n + 1
  BY <1>5, <1>6
<1>8. \A e \in DOMAIN events : e \in DOMAIN events' /\ events'[e] = events[e] /\ (Silent(e)' <=> Silent(e))
  BY <1>5, <1>6 DEF Silent
<1> DEFINE silent == kind \in {"CANCELED", "CHECKOUT"}
<1>9. \A e \in DOMAIN events' : e = n + 1 => (Silent(e)' <=> silent)
  <2>1. \A e \in DOMAIN events' : e = n + 1 => events'[e].kind = kind
    BY <1>5, <1>6
  <2> QED
    BY <2>1 DEF Silent
<1>10. SubscriptionTypeOK' /\ InboxKnown'
  <2>1. InboxKnown'
    BY <1>3, <1>5, <1>6 DEF SubscriptionInv, InboxKnown
  <2>2. Len(events') <= MaxEvents
    BY <1>3, <1>5, <1>6
  <2> QED
    BY <1>3, <1>4, <1>5, <1>6, <2>1, <2>2 DEF SubscriptionTypeOK
<1>11. JobsKnown'
  <2>1. ASSUME NEW q \in Procs
        PROVE  (Known(proc[q]) /\ Changing(proc[q]))'
    <3>1. PICK k \in Jobs : k = proc[q] /\ proc'[q] = k
      BY <1>3, <1>5 DEF SubscriptionTypeOK
    <3>2. Known(k) /\ Changing(k) /\ k.ts \in Nat /\ k.place \in Nat
      BY <1>5, <3>1 DEF SubscriptionInv, JobsKnown, Jobs, Times, Places
    <3>3. k.ev # 0 => k.ev \in DOMAIN events' /\ events'[k.ev] = events[k.ev]
      BY <1>8, <3>2 DEF Known
    <3>4. k.ts <= clock' /\ (k.ev = 0 => k.place <= Here')
      BY <1>5, <1>6, <3>2 DEF Known, Here
    <3> QED
      BY <1>3, <3>1, <3>2, <3>3, <3>4 DEF Known, Changing, At, Place
  <2> QED
    BY <2>1 DEF JobsKnown
<1>12. NewestSaved' /\ TimesKnown'
  <2>1. NewestSaved /\ TimesKnown
    BY DEF SubscriptionInv
  <2>2. reached' <= Here'
    BY <1>3, <1>5, <1>6, <2>1 DEF NewestSaved, Here
  <2>3. NewestSaved'
    BY <1>3, <1>8, <2>1, <2>2 DEF NewestSaved
  <2>4. ASSUME NEW e \in DOMAIN events'
        PROVE  events'[e].at <= clock'
    <3>1. CASE e \in DOMAIN events
      <4>1. events[e] \in Events
        BY <1>5, <3>1, ElementOfSeq
      <4>2. events[e].at <= clock /\ events[e].at \in Nat
        BY <2>1, <3>1, <4>1 DEF TimesKnown, At, Events
      <4> QED
        BY <1>5, <1>8, <3>1, <4>2
    <3>2. CASE e = n + 1
      BY <1>5, <1>6, <3>2
    <3> QED
      BY <1>7, <3>1, <3>2
  <2>5. sub'.synced <= clock'
    BY <1>3, <1>5, <2>1 DEF TimesKnown
  <2> QED
    BY <2>3, <2>4, <2>5 DEF TimesKnown, At
<1>13. /\ ~(from \in Early) => ~(to \in Early)
       /\ silent => \A status : (from \in Early => status \in Early)
                                /\ (from # "CANCELED" => status # "CANCELED") => status # to
  BY <1>4 DEF Early
<1>14. ProviderHistory'
  <2>1. ProviderHistory
    BY DEF SubscriptionInv
  <2>2. provider' = events'[Len(events')].to
    BY <1>3, <1>5, <1>6
  <2>3. \A e \in DOMAIN events' : events'[e].kind = "PAYMENT_SUCCEEDED" => events'[e].to = "ACTIVE"
    BY <1>4, <1>5, <1>6, <1>7, <1>8, <2>1 DEF ProviderHistory
  <2>4. ASSUME NEW d \in DOMAIN events', NEW e \in DOMAIN events', d < e, Silent(e)'
        PROVE  events'[d].to # events'[e].to
    <3>1. d \in DOMAIN events /\ events'[d] = events[d]
      BY <1>5, <1>6, <1>7, <2>4
    <3>2. CASE e \in DOMAIN events
      BY <1>8, <2>1, <2>4, <3>1, <3>2 DEF ProviderHistory
    <3>3. CASE e = n + 1
      <4>1. silent
        BY <1>9, <2>4, <3>3
      <4>2. (from \in Early => events[d].to \in Early) /\ (from # "CANCELED" => events[d].to # "CANCELED")
        BY <1>3, <2>1, <3>1 DEF ProviderHistory
      <4> QED
        BY <1>5, <1>6, <1>13, <3>1, <3>3, <4>1, <4>2
    <3> QED
      BY <1>7, <3>2, <3>3
  <2>5. provider' \in Early => \A e \in DOMAIN events' : events'[e].to \in Early
    BY <1>3, <1>4, <1>5, <1>6, <1>7, <1>8, <2>1 DEF ProviderHistory
  <2>6. provider' # "CANCELED" => \A e \in DOMAIN events' : events'[e].to # "CANCELED"
    BY <1>3, <1>4, <1>5, <1>6, <1>7, <1>8, <2>1 DEF ProviderHistory
  <2> QED
    BY <2>2, <2>3, <2>4, <2>5, <2>6 DEF ProviderHistory, Silent
<1>15. ASSUME Calm'
       PROVE  RowAgrees' /\ \A q \in Procs : JobAgrees(proc[q])'
  <2>1. Calm /\ RowAgrees /\ \A q \in Procs : JobAgrees(proc[q])
    BY <1>3, <1>15 DEF Calm, SubscriptionInv, CalmAgrees
  <2>2. ASSUME NEW status, NEW place, Past(status, place)
        PROVE  Past(status, place)'
    <3>1. (from \in Early => status \in Early) /\ (from # "CANCELED" => status # "CANCELED")
      BY <1>3, <2>2 DEF Past
    <3>2. (to \in Early => status \in Early) /\ (to # "CANCELED" => status # "CANCELED")
      BY <1>4, <3>1
    <3>3. ASSUME NEW e \in DOMAIN events', Silent(e)', Place(e) > reached, Place(e) > place
          PROVE  status # events'[e].to
      <4>1. CASE e \in DOMAIN events
        BY <1>8, <2>2, <3>3, <4>1 DEF Past
      <4>2. CASE e = n + 1
        BY <1>5, <1>6, <1>9, <1>13, <3>1, <3>3, <4>2
      <4> QED
        BY <1>7, <4>1, <4>2
    <3> QED
      BY <1>3, <3>2, <3>3 DEF Past, Place, Silent
  <2>3. ~(reached >= Place(n + 1))
    BY <1>5 DEF SubscriptionInv, NewestSaved, Here, Place
  <2>4. RowAgrees'
    <3>1. PICK status : status = sub.status
      OBVIOUS
    <3>2. Past(status, 0)'
      BY <2>1, <2>2, <3>1 DEF RowAgrees
    <3>3. Past(sub.status, 0)'
      BY <1>3, <3>1, <3>2
    <3>4. inbox[n + 1] = "NONE"
      BY <1>3, <1>5 DEF SubscriptionInv, InboxKnown
    <3>5. \A e \in DOMAIN events' : inbox'[e] = "PROCESSED" => reached' >= Place(e)
      BY <1>3, <1>7, <2>1, <3>4 DEF RowAgrees
    <3> QED
      BY <1>3, <1>6, <2>3, <3>3, <3>5 DEF RowAgrees, Place
  <2>5. ASSUME NEW q \in Procs
        PROVE  JobAgrees(proc[q])'
    <3>1. PICK k \in Jobs : k = proc[q] /\ proc'[q] = k
      BY <1>3, <1>5 DEF SubscriptionTypeOK
    <3>2. JobAgrees(k) /\ Known(k) /\ k.place \in Nat
      BY <1>5, <2>1, <3>1 DEF SubscriptionInv, JobsKnown, Jobs, Places
    <3>3. k.ev = 0 => ~(k.place >= Place(n + 1))
      BY <1>5, <3>2 DEF Known, Here, Place
    <3>4. k.ev = 0 /\ k.at \in {"fetch", "begin", "apply"} => Past(k.to, k.place)'
      BY <2>2, <3>2 DEF JobAgrees
    <3>5. JobAgrees(k)'
      BY <1>3, <1>6, <3>2, <3>3, <3>4 DEF JobAgrees, Place
    <3> QED
      BY <3>1, <3>5 DEF JobAgrees, Past, Silent, Place
  <2> QED
    BY <2>4, <2>5
<1>16. CalmAgrees'
  BY <1>15 DEF CalmAgrees
<1> QED
  BY <1>10, <1>11, <1>12, <1>14, <1>16 DEF SubscriptionInv

-----------------------------------------------------------------------------
(* All steps, and what follows. *)

LEMMA SubscriptionBegins ==
  SubscriptionInit => SubscriptionInv
<1> SUFFICES ASSUME SubscriptionInit
             PROVE  SubscriptionInv
  OBVIOUS
<1>1. /\ MaxEvents \in Nat /\ MaxCalls \in Nat /\ MaxDeliveries \in Nat /\ MaxCrashes \in Nat
      /\ MaxTime \in Nat \ {0}
  BY SubscriptionAssumption DEF SubscriptionAssumption
<1>2. gateway \in {"STRIPE", "PADDLE"} /\ provider \in Statuses
  <2>1. PICK beginning \in Beginnings : gateway = beginning[1] /\ provider = beginning[2]
    BY DEF SubscriptionInit
  <2>2. beginning \in {"STRIPE", "PADDLE"} \X {"INCOMPLETE", "TRIALING", "ACTIVE"}
    BY <2>1, SubscriptionAssumption DEF SubscriptionAssumption
  <2> QED
    BY <2>1, <2>2 DEF Statuses
<1>3. /\ events = << >> /\ inbox = [e \in 1..MaxEvents |-> "NONE"]
      /\ sub = [status |-> provider, synced |-> 0] /\ proc = [p \in Procs |-> Idle]
      /\ clock = 1 /\ second = 1 /\ newest = [at |-> 0, ev |-> 0] /\ reached = 0
      /\ overtaken = FALSE /\ skipped = FALSE /\ blurred = FALSE /\ manual = FALSE
      /\ deliveries = 0 /\ calls = 0 /\ crashes = 0
  BY DEF SubscriptionInit
<1>4. events \in Seq(Events) /\ Len(events) = 0 /\ DOMAIN events = {}
  BY <1>3, EmptySeq
<1>5. \A p \in Procs : proc[p] = Idle
  BY <1>3
<1>6. SubscriptionTypeOK
  <2>1. /\ 0 \in Times /\ clock \in 1..MaxTime /\ second \in 1..clock
        /\ newest \in [at : Times, ev : 0..MaxEvents] /\ reached \in Places
    BY <1>1, <1>3 DEF Times, Places
  <2>2. sub \in Rows
    BY <1>2, <1>3, <2>1 DEF Rows
  <2>3. inbox \in [1..MaxEvents -> {"NONE", "PROCESSING", "PROCESSED", "FAILED"}]
    BY <1>3
  <2>4. proc \in [Procs -> Jobs]
    <3>1. /\ SUCCEEDED \in Triggers /\ 0 \in Places /\ 0 \in 0..MaxEvents /\ "ACTIVE" \in Statuses
      BY <1>1, TriggerNames DEF Places, Statuses
    <3> QED
      BY <1>3, <2>1, <3>1 DEF Idle, Untimed, Jobs
  <2>5. overtaken \in BOOLEAN /\ skipped \in BOOLEAN /\ blurred \in BOOLEAN /\ manual \in BOOLEAN
    BY <1>3
  <2>6. deliveries \in 0..MaxDeliveries /\ calls \in 0..MaxCalls /\ crashes \in 0..MaxCrashes
    BY <1>1, <1>3
  <2>7. Len(events) <= MaxEvents
    BY <1>1, <1>4
  <2> QED
    BY <1>2, <1>4, <2>1, <2>2, <2>3, <2>4, <2>5, <2>6, <2>7 DEF SubscriptionTypeOK
<1>7. JobsKnown /\ InboxKnown
  <2>1. Known(Idle) /\ Changing(Idle)
    BY <1>3, <1>4 DEF Known, Changing, Idle, Untimed, Here
  <2> QED
    BY <1>3, <1>5, <2>1 DEF JobsKnown, InboxKnown
<1>8. NewestSaved /\ ProviderHistory /\ TimesKnown
  BY <1>3, <1>4 DEF NewestSaved, ProviderHistory, TimesKnown, Here
<1>9. CalmAgrees
  <2>1. JobAgrees(Idle)
    BY DEF JobAgrees, Idle
  <2> QED
    BY <1>3, <1>4, <1>5, <2>1 DEF CalmAgrees, RowAgrees, Past
<1> QED
  BY <1>6, <1>7, <1>8, <1>9 DEF SubscriptionInv

LEMMA SubscriptionStutters ==
  ASSUME SubscriptionInv, UNCHANGED subscriptionVars
  PROVE  SubscriptionInv'
<1>1. /\ UNCHANGED <<gateway, provider, events, inbox, sub, proc, newest, overtaken, skipped, manual>>
      /\ UNCHANGED <<clock, second, reached, blurred, deliveries, calls, crashes>>
  BY DEF subscriptionVars, time, history, counters
<1>2. SubscriptionTypeOK' /\ InboxKnown'
  BY <1>1 DEF SubscriptionInv, SubscriptionTypeOK, InboxKnown
<1>3. JobsKnown'
  BY <1>1 DEF SubscriptionInv, JobsKnown, Known, Changing, Here, At, Place
<1>4. NewestSaved' /\ ProviderHistory' /\ TimesKnown'
  BY <1>1 DEF SubscriptionInv, NewestSaved, ProviderHistory, TimesKnown, Here, At, Silent
<1>5. CalmAgrees'
  BY <1>1 DEF SubscriptionInv, CalmAgrees, Calm, RowAgrees, JobAgrees, Past, Silent, Place
<1> QED
  BY <1>2, <1>3, <1>4, <1>5 DEF SubscriptionInv

LEMMA SubscriptionSteps ==
  SubscriptionInv /\ [SubscriptionNext]_subscriptionVars => SubscriptionInv'
<1> SUFFICES ASSUME SubscriptionInv, [SubscriptionNext]_subscriptionVars
             PROVE  SubscriptionInv'
  OBVIOUS
<1>1. CASE UNCHANGED subscriptionVars
  BY <1>1, SubscriptionStutters
<1>2. CASE \E move \in ProviderMoves : Emit(move[1], move[2], move[3])
  BY <1>2, EmitKeeps
<1>3. CASE Resynchronize
  BY <1>3, ResynchronizeKeeps
<1>4. CASE \E e \in 1..MaxEvents : Replay(e)
  BY <1>4, ReplayKeeps
<1>5. ASSUME NEW p \in Procs,
             (\E e \in 1..MaxEvents : Receive(p, e)) \/ Work(p) \/ Lose(p) \/ StartDunning(p)
               \/ StartReconciliation(p)
      PROVE  SubscriptionInv'
  BY <1>5, ReceiveKeeps, RecordKeeps, HandleKeeps, FinishEventKeeps, DunningKeeps, LookKeeps, FetchKeeps,
     BeginKeeps, ApplyKeeps, StampKeeps, LoseKeeps DEF Work
<1>6. ASSUME NEW p \in Procs,
             Call(p, "CANCELED", "USER_ACTION:cancel")
               \/ \E to \in {"ACTIVE", "PAUSED"} : Call(p, to, "ADMIN_OVERRIDE")
      PROVE  SubscriptionInv'
  <2>1. "CANCELED" \in Statuses /\ \A to \in {"ACTIVE", "PAUSED"} : to \in Statuses
    BY DEF Statuses
  <2>2. "USER_ACTION:cancel" \in Triggers /\ "ADMIN_OVERRIDE" \in Triggers
    BY TriggerNames
  <2> QED
    BY <1>6, <2>1, <2>2, CallKeeps
<1> QED
  BY <1>1, <1>2, <1>3, <1>4, <1>5, <1>6 DEF SubscriptionNext

LEMMA SubscriptionInductive ==
  SubscriptionSpec => []SubscriptionInv
BY SubscriptionBegins, SubscriptionSteps, PTL DEF SubscriptionSpec

\* The variables stay in their types: what transitionSubscriptionStatus is asked for is always
\* one of the triggers of SUBSCRIPTION_TRANSITIONS, and no time is later than the clock's.
THEOREM SubscriptionTyped ==
  SubscriptionSpec => []SubscriptionTypeOK
<1>1. SubscriptionInv => SubscriptionTypeOK
  BY DEF SubscriptionInv
<1> QED
  BY <1>1, SubscriptionInductive, PTL

\* Once processBillingWebhookEvent has done with every event, the subscription is what it is
\* at the provider, however the events were delivered, whatever was lost and whenever
\* runReconciliationSweep ran, with events of one second and sweeps within it: where the guard
\* on lastSyncedProviderEventAt has not been deceived, what it ignores the row has reached
\* already, and what it lets pass takes the row to no earlier place than where it was.
THEOREM QuietSubscriptionAgrees ==
  SubscriptionSpec => []AgreesWhenQuiet
<1>1. SubscriptionInv => AgreesWhenQuiet
  <2> SUFFICES ASSUME SubscriptionInv, \A e \in 1..Len(events) : inbox[e] = "PROCESSED", Calm
               PROVE  sub.status = provider
    BY DEF AgreesWhenQuiet, Calm
  <2>1. RowAgrees /\ SubscriptionTypeOK /\ MaxEvents \in Nat
    BY SubscriptionAssumption DEF SubscriptionInv, CalmAgrees, SubscriptionAssumption
  <2>2. Len(events) \in Nat /\ DOMAIN events = 1..Len(events) /\ reached \in Nat
    BY <2>1, LenProperties DEF SubscriptionTypeOK, Places
  <2>3. reached >= Place(Len(events))
    <3>1. CASE Len(events) = 0
      BY <2>2, <3>1 DEF Place
    <3>2. CASE Len(events) # 0
      <4>1. Len(events) \in DOMAIN events /\ inbox[Len(events)] = "PROCESSED"
        BY <2>2, <3>2
      <4> QED
        BY <2>1, <4>1 DEF RowAgrees
    <3> QED
      BY <3>1, <3>2
  <2> QED
    BY <2>1, <2>3 DEF RowAgrees
<1> QED
  BY <1>1, SubscriptionInductive, PTL

\* transitionSubscriptionStatus changes the status in the order of the provider's times: what
\* it applies is not older than the row it has read, and the row is not older than the newest
\* change.  Events of one second may all be applied, in any order, but the newest one not
\* again: the subscription already has its status.
THEOREM StatusFollowsTime ==
  SubscriptionSpec => ChangesInEventOrder
<1> DEFINE Changes == newest' # newest \/ sub'.status # sub.status
           Follows == \/ overtaken'
                      \/ newest'.at > newest.at
                      \/ /\ newest'.at = newest.at
                         /\ manual' \/ newest.ev = 0 \/ newest'.ev # newest.ev
<1>1. SubscriptionInv /\ [SubscriptionNext]_subscriptionVars
        => [Changes => Follows]_subscriptionVars
  <2> SUFFICES ASSUME SubscriptionInv, SubscriptionNext, Changes
               PROVE  Follows
    OBVIOUS
  <2>1. PICK p \in Procs : Apply(p)
    <3>1. sub \in Rows
      BY DEF SubscriptionInv, SubscriptionTypeOK
    <3>2. \A t : [sub EXCEPT !.synced = t].status = sub.status
      BY <3>1 DEF Rows
    <3> SUFFICES ASSUME ~\E p \in Procs : Apply(p)
                 PROVE  FALSE
      OBVIOUS
    <3>3. CASE \/ \E move \in ProviderMoves : Emit(move[1], move[2], move[3])
               \/ \E e \in 1..MaxEvents : Replay(e)
      BY <3>3 DEF Emit, Replay, Unread, time, history
    <3>4. CASE Resynchronize
      BY <3>2, <3>4 DEF Resynchronize, history
    <3>5. CASE \E p \in Procs :
                 \/ \E e \in 1..MaxEvents : Receive(p, e)
                 \/ Lose(p) \/ StartDunning(p) \/ StartReconciliation(p)
                 \/ Call(p, "CANCELED", "USER_ACTION:cancel")
                 \/ \E to \in {"ACTIVE", "PAUSED"} : Call(p, to, "ADMIN_OVERRIDE")
      BY <3>5 DEF Receive, Lose, StartDunning, StartReconciliation, Call, history
    <3>6. ASSUME NEW p \in Procs, Work(p)
          PROVE  FALSE
      <4>1. CASE Record(p) \/ RecordedMeanwhile(p) \/ FinishEvent(p) \/ Begin(p)
        BY <4>1 DEF Record, RecordedMeanwhile, FinishEvent, Begin, history
      <4>2. CASE Handle(p)
        BY <4>2 DEF Handle
      <4>3. CASE Find(p) \/ Look(p) \/ Fetch(p)
        BY <4>3 DEF Find, Look, Fetch, history
      <4>4. CASE Stamp(p)
        BY <3>2, <4>4 DEF Stamp
      <4>5. CASE Apply(p)
        BY <4>5
      <4> QED
        BY <3>6, <4>1, <4>2, <4>3, <4>4, <4>5 DEF Work
    <3> QED
      BY <3>3, <3>4, <3>5, <3>6 DEF SubscriptionNext
  <2>2. PICK job \in Jobs : job = proc[p]
    BY Context
  <2>3. /\ Known(job) /\ Changing(job) /\ NewestSaved
        /\ sub.synced \in Nat /\ job.ts \in Nat /\ newest.at \in Nat
    BY <2>2, Context DEF SubscriptionInv, SubscriptionTypeOK, Jobs, Times
  <2>4. /\ job.at = "apply" /\ overtaken' = (overtaken \/ ~job.fresh)
        /\ job.ts = Untimed => newest' = newest /\ manual'
        /\ job.ts # Untimed => newest' = [at |-> job.ts, ev |-> job.ev] /\ manual' = manual
    BY <2>1, <2>2 DEF Apply, IsAt
  <2>5. CASE overtaken'
    BY <2>5
  <2>6. CASE job.ts = Untimed
    BY <2>4, <2>6
  <2>7. CASE ~overtaken' /\ job.ts # Untimed
    <3>1. ~overtaken /\ job.fresh /\ newest'.at = job.ts /\ newest'.ev = job.ev
      <4>1. ~overtaken /\ job.fresh
        BY <2>4, <2>7, Zenon
      <4> QED
        BY <2>4, <2>7, <4>1
    <3>2. job.ts >= newest.at /\ sub.status # job.to
      BY <2>3, <2>4, <2>7, <3>1 DEF Changing, NewestSaved
    <3>3. ASSUME ~manual', newest.ev # 0
          PROVE  job.ev # newest.ev
      <4>1. newest.ev \in DOMAIN events /\ sub.status = events[newest.ev].to
        BY <2>3, <2>4, <2>7, <3>3 DEF NewestSaved
      <4>2. job.ev # 0 => job.to = events[job.ev].to
        BY <2>3, <2>4 DEF Known
      <4> QED
        BY <3>2, <3>3, <4>1, <4>2
    <3>4. job.ts > newest.at \/ job.ts = newest.at
      BY <2>3, <3>2
    <3> QED
      BY <3>1, <3>3, <3>4
  <2> QED
    BY <2>5, <2>6, <2>7
<1> QED
  BY <1>1, SubscriptionInductive, PTL DEF SubscriptionSpec, ChangesInEventOrder
=============================================================================
