----------------------------- MODULE Idempotency -----------------------------
(***************************************************************************)
(* Idempotency keys of the public API, lib/publicApi/idempotency: a        *)
(* mutating request with an Idempotency-Key acquires the key's             *)
(* ApiIdempotencyRecord, runs its handler and stores the response, which a *)
(* repeated request is answered with (withIdempotency).  One scoped key is *)
(* modelled: keys are independent rows, unique on scopedKeyHash.  Every    *)
(* database call is a statement of its own, in no transaction.  An         *)
(* execution of the handler is known by the id of the record it ran under. *)
(***************************************************************************)
EXTENDS Naturals, FiniteSets

CONSTANTS
  Requests,   \* HTTP requests in progress at the same time, retries included
  Payloads,   \* what a request asks for, as far as computePayloadHash tells
  MaxRecords, \* bound on the records created, for model checking
  MaxFaults,  \* bound on crashes and lost updates, for model checking
  None

VARIABLES
  record,     \* the key's row, or None
  issuedFor,  \* the payload each record id was created for, None before
  expired,    \* the ids whose expiresAt has passed
  stage,      \* where each request is
  payload,    \* what it asks for
  held,       \* the record it acquired, or the expired one it deletes
  replayed,   \* the last answer that was a stored response, None at the next request
  effective,  \* the executions whose work was committed
  torn,       \* those of them that then failed
  faults

vars == <<record, issuedFor, expired, stage, payload, held, replayed,
          effective, torn, faults>>
workVars == <<effective, torn, faults>>

Stages == {"idle", "deleting", "inserting", "raced", "running", "resolving",
           "releasing"}

\* An ApiIdempotencyRecord's id stands for its turn: each is issued once.
Ids == 1..MaxRecords

\* A PENDING record has no response; a RESOLVED one has that of an execution.
Records == [id : Ids, payload : Payloads, status : {"PENDING"}, response : {None}]
             \cup
           [id : Ids, payload : Payloads, status : {"RESOLVED"}, response : Ids]

ASSUME IdempotencyAssumption ==
  /\ MaxRecords \in Nat /\ MaxFaults \in Nat
  /\ None \notin Ids \cup Payloads \cup Records \cup [payload : Payloads, response : Ids]

\* What a handler can do: succeed, refuse (4xx), succeed with a body that is
\* not JSON, fail (5xx or exception), fail after its service has committed.
Outcomes == {"ok", "rejected", "opaque", "failed", "torn"}

Init ==
  /\ record = None
  /\ issuedFor = [i \in Ids |-> None]
  /\ expired = {}
  /\ stage = [r \in Requests |-> "idle"]
  /\ payload = [r \in Requests |-> None]
  /\ held = [r \in Requests |-> None]
  /\ replayed = None
  /\ effective = {} /\ torn = {}
  /\ faults = 0

Is(i) == record # None /\ record.id = i
To(r, s) == stage' = [stage EXCEPT ![r] = s]

\* The request ends without an answer of the middleware's own.
Finish(r) == /\ To(r, "idle")
             /\ payload' = [payload EXCEPT ![r] = None]
             /\ held' = [held EXCEPT ![r] = None]

-----------------------------------------------------------------------------
(* acquireIdempotencyLock. *)

\* A live record is answered with its response when it has one and was made
\* for the same payload (REPLAY), otherwise with a conflict (CONFLICT,
\* IN_PROGRESS).
Serve(p) ==
  replayed' = IF record.status = "RESOLVED" /\ record.payload = p
                THEN [payload |-> p, response |-> record.response] ELSE None

\* findUnique on scopedKeyHash.  An id whose time has come is deleted next.
Lookup(r, p) ==
  /\ stage[r] = "idle"
  /\ \/ /\ record = None
        /\ To(r, "inserting")
        /\ payload' = [payload EXCEPT ![r] = p]
        /\ replayed' = None
        /\ UNCHANGED held
     \/ /\ record # None /\ record.id \in expired
        /\ To(r, "deleting")
        /\ payload' = [payload EXCEPT ![r] = p]
        /\ held' = [held EXCEPT ![r] = record.id]
        /\ replayed' = None
     \/ /\ record # None /\ record.id \notin expired
        /\ Serve(p)
        /\ UNCHANGED <<stage, payload, held>>
  /\ UNCHANGED <<record, issuedFor, expired, workVars>>

\* Slip: the row is deleted by its key, whichever row that is by now.
DeleteByKey(r) ==
  /\ stage[r] = "deleting"
  /\ record' = None
  /\ To(r, "inserting")
  /\ held' = [held EXCEPT ![r] = None]
  /\ UNCHANGED <<issuedFor, expired, payload, replayed, workVars>>

\* delete by id; a row that is gone is no error.
DeleteExpired(r) ==
  /\ stage[r] = "deleting"
  /\ record' = IF Is(held[r]) THEN None ELSE record
  /\ To(r, "inserting")
  /\ held' = [held EXCEPT ![r] = None]
  /\ UNCHANGED <<issuedFor, expired, payload, replayed, workVars>>

\* The new row of request r, with the next id.
Created(r) ==
  \E i \in Ids :
    /\ issuedFor[i] = None
    /\ \A j \in Ids : j < i => issuedFor[j] # None
    /\ record' = [id |-> i, payload |-> payload[r], status |-> "PENDING", response |-> None]
    /\ issuedFor' = [issuedFor EXCEPT ![i] = payload[r]]
    /\ held' = [held EXCEPT ![r] = i]
    /\ To(r, "running")

\* create PENDING: the unique index refuses a second row (P2002).
Insert(r) ==
  /\ stage[r] = "inserting"
  /\ \/ record = None /\ Created(r)
     \/ record # None /\ To(r, "raced") /\ UNCHANGED <<record, issuedFor, held>>
  /\ UNCHANGED <<expired, payload, replayed, workVars>>

\* Slip: the payload of the row that won is not compared.
ReplayRaced(r) ==
  /\ stage[r] = "raced"
  /\ replayed' = IF record # None /\ record.id \notin expired /\ record.status = "RESOLVED"
                   THEN [payload |-> payload[r], response |-> record.response] ELSE None
  /\ Finish(r)
  /\ UNCHANGED <<record, issuedFor, expired, workVars>>

\* The row that won is read again; when it is gone too the P2002 is rethrown.
Reread(r) ==
  /\ stage[r] = "raced"
  /\ IF record # None /\ record.id \notin expired
       THEN Serve(payload[r]) ELSE replayed' = None
  /\ Finish(r)
  /\ UNCHANGED <<record, issuedFor, expired, workVars>>

-----------------------------------------------------------------------------
(* withIdempotency, the lock acquired. *)

\* The handler's work and its response.  A body that is not JSON is not stored.
Execute(r, outcome) ==
  /\ stage[r] = "running"
  /\ \/ outcome = "opaque" /\ Finish(r)
     \/ outcome \in {"ok", "rejected"} /\ To(r, "resolving") /\ UNCHANGED <<payload, held>>
     \/ outcome \in {"failed", "torn"} /\ To(r, "releasing") /\ UNCHANGED <<payload, held>>
  /\ effective' = IF outcome \in {"ok", "opaque", "torn"}
                    THEN effective \cup {held[r]} ELSE effective
  /\ torn' = IF outcome = "torn" THEN torn \cup {held[r]} ELSE torn
  /\ UNCHANGED <<record, issuedFor, expired, replayed, faults>>

\* resolveIdempotencyRecord: update by id; a row that is gone is only logged.
Resolve(r) ==
  /\ stage[r] = "resolving"
  /\ record' = IF Is(held[r])
                 THEN [record EXCEPT !.status = "RESOLVED", !.response = held[r]]
                 ELSE record
  /\ Finish(r)
  /\ UNCHANGED <<issuedFor, expired, replayed, workVars>>

\* releaseIdempotencyLock: deleteMany by id and PENDING.
Release(r) ==
  /\ stage[r] = "releasing"
  /\ record' = IF Is(held[r]) /\ record.status = "PENDING" THEN None ELSE record
  /\ Finish(r)
  /\ UNCHANGED <<issuedFor, expired, replayed, workVars>>

\* The process dies, or the update or deletion fails and is only logged.
Crash(r) ==
  /\ stage[r] # "idle"
  /\ faults < MaxFaults
  /\ faults' = faults + 1
  /\ Finish(r)
  /\ UNCHANGED <<record, issuedFor, expired, replayed, effective, torn>>

-----------------------------------------------------------------------------

\* Slip: only a stored response is given a time to live.
ExpireResolved ==
  /\ record # None /\ record.id \notin expired
  /\ record.status = "RESOLVED"
  /\ expired' = expired \cup {record.id}
  /\ UNCHANGED <<record, issuedFor, stage, payload, held, replayed, workVars>>

\* The time to live has passed, whether the handler has answered or not.
Expire ==
  /\ record # None /\ record.id \notin expired
  /\ expired' = expired \cup {record.id}
  /\ UNCHANGED <<record, issuedFor, stage, payload, held, replayed, workVars>>

\* purgeExpiredIdempotencyRecords, which nothing in the repository calls.
Purge ==
  /\ record # None /\ record.id \in expired
  /\ record' = None
  /\ UNCHANGED <<issuedFor, expired, stage, payload, held, replayed, workVars>>

Step(r) == \/ DeleteExpired(r) \/ Insert(r) \/ Reread(r)
           \/ (\E o \in Outcomes : Execute(r, o)) \/ Resolve(r) \/ Release(r)

Next ==
  \/ \E r \in Requests : \/ Step(r) \/ Crash(r)
                         \/ \E p \in Payloads : Lookup(r, p)
  \/ Expire \/ Purge

Spec == Init /\ [][Next]_vars

\* A request that has started is worked on, a client that got no result tries
\* again, and time passes.
Fairness ==
  /\ \A r \in Requests : WF_vars(Step(r))
  /\ WF_vars(\E r \in Requests, p \in Payloads : Lookup(r, p))
  /\ WF_vars(Expire)

FairSpec == Spec /\ Fairness

-----------------------------------------------------------------------------
(* Properties. *)

Working(r) == stage[r] \in {"running", "resolving", "releasing"}

TypeOK ==
  /\ record \in Records \cup {None}
  /\ issuedFor \in [Ids -> Payloads \cup {None}]
  /\ expired \subseteq Ids
  /\ stage \in [Requests -> Stages]
  /\ payload \in [Requests -> Payloads \cup {None}]
  /\ held \in [Requests -> Ids \cup {None}]
  /\ replayed \in [payload : Payloads, response : Ids] \cup {None}
  /\ effective \subseteq Ids /\ torn \subseteq effective
  /\ faults \in Nat

\* A repeated request is executed at most once: of the executions that had an
\* effect, one at most neither outlived its record's time to live nor failed
\* after its service had committed.
AtMostOnce ==
  \A i, j \in effective \ (expired \cup torn) : i = j

\* While its record has not expired, the request that runs the handler is the
\* one the key's row belongs to, and so the only one.
RunnerHoldsKey ==
  \A r \in Requests :
    Working(r) /\ held[r] \notin expired => Is(held[r]) /\ record.status = "PENDING"

\* A stored response is replayed only to a request for the payload it was the
\* response to.
ReplayIsFaithful ==
  replayed # None => issuedFor[replayed.response] = replayed.payload

\* A key is not held for ever, although the process that held it may have died:
\* a client that keeps trying finds it free again.
KeyIsFreed == []<>(record = None \/ record.status = "RESOLVED")

=============================================================================
