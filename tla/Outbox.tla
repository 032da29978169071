------------------------------- MODULE Outbox -------------------------------
(***************************************************************************)
(* The notification outbox, lib/services/notification: an operational      *)
(* service emits an event inside its own transaction                       *)
(* (emitNotificationEvent), workers claim PENDING rows and fan each out    *)
(* into a Notification and its deliveries (processNotificationOutboxBatch) *)
(* and a sweep returns rows stuck in PROCESSING (reconcileStuckOutboxItems).*)
(* An event stands for its dedupeKey; NotificationOutbox has one row for   *)
(* each, unique on (workspaceId, dedupeKey).                               *)
(***************************************************************************)
EXTENDS Naturals, FiniteSets

CONSTANTS
  Events,             \* dedupe keys of one workspace
  Unresolvable,       \* events whose payload names no recipient
  Callers,            \* service transactions that emit
  Workers,            \* processes running processNotificationOutboxBatch
  BatchSize,          \* LIMIT of one claim
  MaxOutboxAttempts,  \* MAX_OUTBOX_ATTEMPTS
  MaxChanges,         \* bound on committed operations per event, for model checking
  MaxRecoveries,      \* bound on sweeps of rows a live worker holds, for model checking
  MaxCrashes,         \* bound on worker crashes and lost updates, for model checking
  None

ASSUME OutboxAssumption ==
  /\ Unresolvable \subseteq Events
  /\ BatchSize \in Nat \ {0} /\ MaxOutboxAttempts \in Nat
  /\ MaxChanges \in Nat /\ MaxRecoveries \in Nat /\ MaxCrashes \in Nat
  /\ None \notin Events

VARIABLES
  status,         \* NotificationOutbox.status of each event, ABSENT without a row
  attempts,       \* NotificationOutbox.attemptCount
  old,            \* the rows created more than ten minutes ago
  notifications,  \* how many Notification rows each event has led to
  changes,        \* committed operations that emitted each event
  stage, event,   \* where each caller is and what it emits
  batch,          \* the claimed rows each worker has still to process
  swept,          \* attemptCount of the rows the sweep found stuck
  recoveries,     \* how often the sweep has returned each row to PENDING
  crashes

vars == <<status, attempts, old, notifications, changes, stage, event,
          batch, swept, recoveries, crashes>>
rowVars == <<status, attempts, old>>
callerVars == <<stage, event, changes>>
workerVars == <<batch, notifications, crashes>>
sweepVars == <<swept, recoveries>>

Statuses == {"ABSENT", "PENDING", "PROCESSING", "PROCESSED", "FAILED"}
Stages == {"idle", "changed", "found", "absent", "created", "refused"}

Init ==
  /\ status = [e \in Events |-> "ABSENT"]
  /\ attempts = [e \in Events |-> 0]
  /\ old = {}
  /\ notifications = [e \in Events |-> 0]
  /\ changes = [e \in Events |-> 0]
  /\ stage = [c \in Callers |-> "idle"]
  /\ event = [c \in Callers |-> None]
  /\ batch = [w \in Workers |-> {}]
  /\ swept = [e \in Events |-> None]
  /\ recoveries = [e \in Events |-> 0]
  /\ crashes = 0

-----------------------------------------------------------------------------
(* emitNotificationEvent, inside the transaction of an operation. *)

To(c, s) == stage' = [stage EXCEPT ![c] = s]

\* The operation has written its own changes, not committed.
Change(c, e) ==
  /\ stage[c] = "idle"
  /\ changes[e] < MaxChanges
  /\ To(c, "changed")
  /\ event' = [event EXCEPT ![c] = e]
  /\ UNCHANGED <<rowVars, changes, workerVars, sweepVars>>

\* findFirst on (workspaceId, dedupeKey) sees committed rows.
FindExisting(c) ==
  /\ stage[c] = "changed"
  /\ To(c, IF status[event[c]] = "ABSENT" THEN "absent" ELSE "found")
  /\ UNCHANGED <<rowVars, event, changes, workerVars, sweepVars>>

\* Slip: the row is created outside the transaction, and so at once.
CreateOutside(c) ==
  /\ stage[c] = "absent"
  /\ IF status[event[c]] = "ABSENT"
       THEN To(c, "created") /\ status' = [status EXCEPT ![event[c]] = "PENDING"]
       ELSE To(c, "refused") /\ UNCHANGED status
  /\ UNCHANGED <<attempts, old, event, changes, workerVars, sweepVars>>

\* create: the unique index waits for a transaction that has inserted the same
\* key; the insert fails (P2002) when that one commits.
Create(c) ==
  /\ stage[c] = "absent"
  /\ \A d \in Callers : ~(stage[d] = "created" /\ event[d] = event[c])
  /\ To(c, IF status[event[c]] = "ABSENT" THEN "created" ELSE "refused")
  /\ UNCHANGED <<rowVars, event, changes, workerVars, sweepVars>>

\* The operation commits with its outbox row, or with the one it found.
CommitChange(c) ==
  LET e == event[c] IN
  /\ stage[c] \in {"found", "created"}
  /\ changes[e] < MaxChanges
  /\ status' = IF stage[c] = "created" THEN [status EXCEPT ![e] = "PENDING"] ELSE status
  /\ changes' = [changes EXCEPT ![e] = @ + 1]
  /\ To(c, "idle")
  /\ event' = [event EXCEPT ![c] = None]
  /\ UNCHANGED <<attempts, old, workerVars, sweepVars>>

\* Any error, the refused insert included, rolls the operation back.
RollBack(c) ==
  /\ stage[c] # "idle"
  /\ To(c, "idle")
  /\ event' = [event EXCEPT ![c] = None]
  /\ UNCHANGED <<rowVars, changes, workerVars, sweepVars>>

-----------------------------------------------------------------------------
(* processNotificationOutboxBatch. *)

\* Slip: the rows are selected, and marked by a later statement.
ClaimUnmarked(w) ==
  /\ batch[w] = {}
  /\ \E rows \in SUBSET {e \in Events : status[e] = "PENDING"} :
       /\ rows # {} /\ Cardinality(rows) <= BatchSize
       /\ batch' = [batch EXCEPT ![w] = rows]
  /\ UNCHANGED <<rowVars, callerVars, notifications, crashes, sweepVars>>

\* One statement selects FOR UPDATE SKIP LOCKED and marks: no row is claimed
\* twice.
Claim(w) ==
  /\ batch[w] = {}
  /\ \E rows \in SUBSET {e \in Events : status[e] = "PENDING"} :
       /\ rows # {} /\ Cardinality(rows) <= BatchSize
       /\ batch' = [batch EXCEPT ![w] = rows]
       /\ status' = [e \in Events |-> IF e \in rows THEN "PROCESSING" ELSE status[e]]
  /\ UNCHANGED <<attempts, old, callerVars, notifications, crashes, sweepVars>>

Finished(w, e) == batch' = [batch EXCEPT ![w] = @ \ {e}]

\* One transaction creates the notification, with a new id, and its deliveries
\* and marks the row, whatever its status has become.
FanOut(w, e) ==
  /\ e \in batch[w] /\ e \notin Unresolvable
  /\ notifications' = [notifications EXCEPT ![e] = @ + 1]
  /\ status' = [status EXCEPT ![e] = "PROCESSED"]
  /\ attempts' = [attempts EXCEPT ![e] = @ + 1]
  /\ Finished(w, e)
  /\ UNCHANGED <<old, callerVars, crashes, sweepVars>>

\* No recipient, or any other error: the row is marked FAILED.
FailFanOut(w, e) ==
  /\ e \in batch[w]
  /\ status' = [status EXCEPT ![e] = "FAILED"]
  /\ attempts' = [attempts EXCEPT ![e] = @ + 1]
  /\ Finished(w, e)
  /\ UNCHANGED <<old, callerVars, notifications, crashes, sweepVars>>

\* The update that marks the row FAILED fails too and is ignored.
LoseFailure(w, e) ==
  /\ e \in batch[w]
  /\ crashes < MaxCrashes
  /\ crashes' = crashes + 1
  /\ Finished(w, e)
  /\ UNCHANGED <<rowVars, callerVars, notifications, sweepVars>>

CrashWorker(w) ==
  /\ batch[w] # {}
  /\ crashes < MaxCrashes
  /\ crashes' = crashes + 1
  /\ batch' = [batch EXCEPT ![w] = {}]
  /\ UNCHANGED <<rowVars, callerVars, notifications, sweepVars>>

-----------------------------------------------------------------------------
(* reconcileStuckOutboxItems. *)

\* Ten minutes after its creation.
Age(e) ==
  /\ status[e] # "ABSENT" /\ e \notin old
  /\ old' = old \cup {e}
  /\ UNCHANGED <<status, attempts, callerVars, workerVars, sweepVars>>

Held(e) == \E w \in Workers : e \in batch[w]

\* findMany: PROCESSING and created ten minutes ago; when the row was claimed
\* does not matter.
FindStuck ==
  LET stuck == {e \in old : status[e] = "PROCESSING"
                            /\ (Held(e) => recoveries[e] < MaxRecoveries)}
  IN /\ \A e \in Events : swept[e] = None
     /\ stuck # {}
     /\ swept' = [e \in Events |-> IF e \in stuck THEN attempts[e] ELSE None]
     /\ UNCHANGED <<rowVars, callerVars, workerVars, recoveries>>

\* Slip: the row is left PROCESSING when it has been tried before.
RecoverFirstTime(e) ==
  /\ swept[e] # None
  /\ IF swept[e] < MaxOutboxAttempts /\ recoveries[e] = 0
       THEN /\ status' = [status EXCEPT ![e] = "PENDING"]
            /\ recoveries' = [recoveries EXCEPT ![e] = @ + 1]
       ELSE UNCHANGED <<status, recoveries>>
  /\ swept' = [swept EXCEPT ![e] = None]
  /\ UNCHANGED <<attempts, old, callerVars, workerVars>>

\* Each found row is updated by id, unconditionally.
Recover(e) ==
  /\ swept[e] # None
  /\ IF swept[e] < MaxOutboxAttempts
       THEN /\ status' = [status EXCEPT ![e] = "PENDING"]
            /\ recoveries' = [recoveries EXCEPT ![e] = @ + 1]
       ELSE /\ status' = [status EXCEPT ![e] = "FAILED"]
            /\ UNCHANGED recoveries
  /\ swept' = [swept EXCEPT ![e] = None]
  /\ UNCHANGED <<attempts, old, callerVars, workerVars>>

-----------------------------------------------------------------------------

Emit(c) == \/ FindExisting(c) \/ Create(c) \/ CommitChange(c)

Process(w) == Claim(w) \/ \E e \in Events : FanOut(w, e) \/ FailFanOut(w, e)

Sweep == FindStuck \/ \E e \in Events : Recover(e)

Next ==
  \/ \E c \in Callers : Emit(c) \/ RollBack(c) \/ \E e \in Events : Change(c, e)
  \/ \E w \in Workers : \/ Process(w) \/ CrashWorker(w)
                        \/ \E e \in Events : LoseFailure(w, e)
  \/ Sweep
  \/ \E e \in Events : Age(e)

Spec == Init /\ [][Next]_vars

\* Workers and the cron sweep keep being run, and time passes.
Fairness ==
  /\ \A w \in Workers : WF_vars(Process(w))
  /\ WF_vars(FindStuck)
  /\ \A e \in Events : WF_vars(Recover(e)) /\ WF_vars(Age(e))

FairSpec == Spec /\ Fairness

-----------------------------------------------------------------------------
(* Properties. *)

TypeOK ==
  /\ status \in [Events -> Statuses]
  /\ attempts \in [Events -> Nat]
  /\ old \subseteq Events
  /\ notifications \in [Events -> Nat]
  /\ changes \in [Events -> 0..MaxChanges]
  /\ stage \in [Callers -> Stages]
  /\ event \in [Callers -> Events \cup {None}]
  /\ batch \in [Workers -> SUBSET Events]
  /\ swept \in [Events -> Nat \cup {None}]
  /\ recoveries \in [Events -> Nat]
  /\ crashes \in 0..MaxCrashes

\* An event has an outbox row exactly when an operation that emits it has
\* committed: no phantom notification, no lost one (phase 1.13.1, 1.3).
RowIffCommitted == \A e \in Events : status[e] # "ABSENT" <=> changes[e] > 0

\* A second notification for one event is always the work of the sweep: each
\* return of the row to PENDING allows one more, and nothing else does.
OneNotificationPerClaim ==
  \A e \in Events : notifications[e] <= 1 + recoveries[e]

\* Every emitted event leaves the queue, processed or failed, although workers
\* crash and lose updates.
Settles ==
  \A e \in Events : status[e] = "PENDING" ~> status[e] \in {"PROCESSED", "FAILED"}

==============================================================================
