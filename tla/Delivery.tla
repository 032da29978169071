------------------------------ MODULE Delivery ------------------------------
(***************************************************************************)
(* The deliveries of one notification, lib/services/notification: dispatch *)
(* of a delivery (dispatchNotificationDelivery), the retry loop            *)
(* (processDueDeliveryRetries, scheduleDeliveryRetry), the sweep of stuck  *)
(* deliveries (reconcileStuckDeliveries) and the aggregate status of the   *)
(* notification.  No row is locked: each step below is one statement, and  *)
(* what a process read may have changed when it writes.                    *)
(***************************************************************************)
EXTENDS Naturals, FiniteSets

CONSTANTS
  Deliveries,   \* the channel and recipient pairs of the notification
  Processes,    \* dispatchers, retry loops and sweeps running at the same time
  MaxAttempts,  \* NotificationDelivery.maxAttempts
  MaxCrashes,   \* bound on process crashes, for model checking
  None

ASSUME DeliveryAssumption ==
  /\ MaxAttempts \in Nat \ {0}
  /\ MaxCrashes \in Nat
  /\ None \notin Deliveries

VARIABLES
  status,    \* NotificationDelivery.status
  attempts,  \* NotificationDelivery.attemptCount
  due,       \* deliveries whose nextAttemptAt has come
  stale,     \* deliveries whose lastAttemptAt is ten minutes ago
  parent,    \* Notification.status
  accepted,  \* messages the provider accepted for each delivery
  stage,     \* where each process is
  task,      \* the function it runs
  todo,      \* the deliveries its query returned and it has not yet taken
  seen,      \* attemptCount of each delivery as it read it
  at,        \* the delivery it works on
  result,    \* the outcome it has to write, then the status it wrote
  verdict,   \* the aggregate status it computed
  overlapped,  \* history: deliveries that two processes have worked on at once
  crossed,     \* history: the parent was written between an aggregate and its write
  crashes

rowVars == <<status, attempts, due, stale, parent, accepted>>
procVars == <<stage, task, todo, seen, at, result, verdict>>
history == <<overlapped, crossed, crashes>>
vars == <<rowVars, procVars, history>>

Final == {"DELIVERED", "EXHAUSTED", "SKIPPED", "SUPPRESSED"}
InFlight == {"PENDING", "PROCESSING", "PENDING_RETRY"}
Statuses == Final \cup InFlight \cup {"FAILED"}
ParentStatuses == {"PROCESSING", "SENT", "PARTIALLY_SENT", "FAILED", "SUPPRESSED"}
Outcomes == {"delivered", "retryable", "fatal"}
Stages == {"idle", "taken", "read", "marked", "answered", "recorded",
           "aggregated", "returned", "failed"}
Tasks == {"dispatch", "retry", "sweep"}

\* aggregateParentNotificationStatus
Aggregate(st) ==
  LET some(s) == \E d \in Deliveries : st[d] \in s IN
  CASE some(InFlight) -> "PROCESSING"
    [] ~some(Statuses \ {"SUPPRESSED"}) -> "SUPPRESSED"
    [] ~some(InFlight) /\ some({"DELIVERED"}) /\ some({"FAILED", "EXHAUSTED"})
         -> "PARTIALLY_SENT"
    [] ~some(InFlight) /\ ~some({"DELIVERED"}) /\ some({"FAILED", "EXHAUSTED"})
         -> "FAILED"
    [] OTHER -> "SENT"

\* The fan-out leaves each delivery waiting, skipped or suppressed.
Init ==
  /\ status \in [Deliveries -> {"PENDING", "SKIPPED", "SUPPRESSED"}]
  /\ attempts = [d \in Deliveries |-> 0]
  /\ due = {} /\ stale = {}
  /\ parent = "PROCESSING"
  /\ accepted = [d \in Deliveries |-> 0]
  /\ stage = [p \in Processes |-> "idle"]
  /\ task = [p \in Processes |-> "dispatch"]
  /\ todo = [p \in Processes |-> {}]
  /\ seen = [p \in Processes |-> [d \in Deliveries |-> 0]]
  /\ at = [p \in Processes |-> None]
  /\ result = [p \in Processes |-> None]
  /\ verdict = [p \in Processes |-> None]
  /\ overlapped = {} /\ crossed = FALSE /\ crashes = 0

\* One row written; one process moved.
Write(d, s, n) == /\ status' = [status EXCEPT ![d] = s]
                  /\ attempts' = [attempts EXCEPT ![d] = n]
Go(p, s) == stage' = [stage EXCEPT ![p] = s]

\* p begins to work on deliveries, some of which another process has under way.
Take(p, found) ==
  LET others == Processes \ {p} IN
  /\ overlapped' = overlapped \cup {d \in found : \E q \in others : at[q] = d \/ d \in todo[q]}
  /\ UNCHANGED <<crossed, crashes>>

-----------------------------------------------------------------------------
(* dispatchNotificationDelivery. *)

\* Slip: the early return is only for a delivery in progress.
DispatchAgain(p, d) ==
  /\ stage[p] = "idle" /\ todo[p] = {}
  /\ status[d] # "PROCESSING"
  /\ task' = [task EXCEPT ![p] = "dispatch"]
  /\ at' = [at EXCEPT ![p] = d]
  /\ seen' = [seen EXCEPT ![p][d] = attempts[d]]
  /\ Go(p, "read")
  /\ UNCHANGED <<rowVars, todo, result, verdict>>
  /\ Take(p, {d})

\* Called for one delivery; a delivery not waiting is left alone.
Dispatch(p, d) ==
  /\ stage[p] = "idle" /\ todo[p] = {}
  /\ status[d] \in {"PENDING", "PENDING_RETRY"}
  /\ task' = [task EXCEPT ![p] = "dispatch"]
  /\ at' = [at EXCEPT ![p] = d]
  /\ seen' = [seen EXCEPT ![p][d] = attempts[d]]
  /\ Go(p, "read")
  /\ UNCHANGED <<rowVars, todo, result, verdict>>
  /\ Take(p, {d})

\* -> PROCESSING, lastAttemptAt = now, by id.
Mark(p) ==
  LET d == at[p] IN
  /\ stage[p] = "read"
  /\ Write(d, "PROCESSING", attempts[d])
  /\ stale' = stale \ {d}
  /\ Go(p, "marked")
  /\ UNCHANGED <<due, parent, accepted, task, todo, seen, at, result, verdict, history>>

\* The template does not render: no provider is called.
FailToRender(p) ==
  /\ stage[p] = "marked"
  /\ Write(at[p], "EXHAUSTED", seen[p][at[p]] + 1)
  /\ result' = [result EXCEPT ![p] = "EXHAUSTED"]
  /\ Go(p, "recorded")
  /\ UNCHANGED <<due, stale, parent, accepted, task, todo, seen, at, verdict, history>>

\* The provider takes the message or not, and answers; it may take one and answer
\* with an error.
Send(p, outcome) ==
  /\ stage[p] = "marked"
  /\ \/ outcome = "delivered" /\ accepted' = [accepted EXCEPT ![at[p]] = @ + 1]
     \/ outcome # "delivered" /\ UNCHANGED accepted
     \/ outcome = "retryable" /\ accepted' = [accepted EXCEPT ![at[p]] = @ + 1]
  /\ result' = [result EXCEPT ![p] = outcome]
  /\ Go(p, "answered")
  /\ UNCHANGED <<status, attempts, due, stale, parent, task, todo, seen, at, verdict, history>>

FinalStatus(outcome, n) ==
  CASE outcome = "delivered" -> "DELIVERED"
    [] outcome = "retryable" /\ n < MaxAttempts -> "FAILED"
    [] OTHER -> "EXHAUSTED"

\* Slip: only failed attempts are counted.
RecordUncounted(p) ==
  LET d == at[p]  n == seen[p][d] + 1  s == FinalStatus(result[p], n) IN
  /\ stage[p] = "answered"
  /\ Write(d, s, IF s = "DELIVERED" THEN seen[p][d] ELSE n)
  /\ result' = [result EXCEPT ![p] = s]
  /\ Go(p, "recorded")
  /\ UNCHANGED <<due, stale, parent, accepted, task, todo, seen, at, verdict, history>>

\* The outcome is written with the count read before the provider was called.
Record(p) ==
  LET d == at[p]  n == seen[p][d] + 1  s == FinalStatus(result[p], n) IN
  /\ stage[p] = "answered"
  /\ Write(d, s, n)
  /\ result' = [result EXCEPT ![p] = s]
  /\ Go(p, "recorded")
  /\ UNCHANGED <<due, stale, parent, accepted, task, todo, seen, at, verdict, history>>

\* aggregateParentNotificationStatus reads the siblings ...
AggregateStatuses(p) ==
  /\ stage[p] = "recorded"
  /\ verdict' = [verdict EXCEPT ![p] = Aggregate(status)]
  /\ Go(p, "aggregated")
  /\ UNCHANGED <<rowVars, task, todo, seen, at, result, history>>

\* Slip: a notification is not reopened once it has a settled status.
WriteParentOnce(p) ==
  /\ stage[p] = "aggregated"
  /\ parent' = IF parent = "PROCESSING" THEN verdict[p] ELSE parent
  /\ verdict' = [verdict EXCEPT ![p] = None]
  /\ crossed' = (crossed \/ \E q \in Processes \ {p} : stage[q] = "aggregated")
  /\ Go(p, "returned")
  /\ UNCHANGED <<status, attempts, due, stale, accepted, task, todo, seen, at, result, overlapped, crashes>>

\* ... and writes what they add up to, by id.
WriteParent(p) ==
  /\ stage[p] = "aggregated"
  /\ parent' = verdict[p]
  /\ verdict' = [verdict EXCEPT ![p] = None]
  /\ crossed' = (crossed \/ \E q \in Processes \ {p} : stage[q] = "aggregated")
  /\ Go(p, "returned")
  /\ UNCHANGED <<status, attempts, due, stale, accepted, task, todo, seen, at, result, overlapped, crashes>>

\* The dispatch returns: the retry loop goes on with a delivery that failed.
Return(p) ==
  LET again == task[p] = "retry" /\ result[p] = "FAILED" IN
  /\ stage[p] = "returned"
  /\ Go(p, IF again THEN "failed" ELSE "idle")
  /\ at' = [at EXCEPT ![p] = IF again THEN @ ELSE None]
  /\ result' = [result EXCEPT ![p] = None]
  /\ UNCHANGED <<rowVars, task, todo, seen, verdict, history>>

-----------------------------------------------------------------------------
(* processDueDeliveryRetries and scheduleDeliveryRetry. *)

FindDue(p) ==
  LET found == {d \in due : status[d] = "PENDING_RETRY"} IN
  /\ stage[p] = "idle" /\ todo[p] = {}
  /\ found # {}
  /\ task' = [task EXCEPT ![p] = "retry"]
  /\ todo' = [todo EXCEPT ![p] = found]
  /\ UNCHANGED <<rowVars, stage, seen, at, result, verdict>>
  /\ Take(p, found)

\* -> PENDING, by id, for each delivery found.
TakeDue(p, d) ==
  /\ stage[p] = "idle" /\ task[p] = "retry" /\ d \in todo[p]
  /\ Write(d, "PENDING", attempts[d])
  /\ todo' = [todo EXCEPT ![p] = @ \ {d}]
  /\ at' = [at EXCEPT ![p] = d]
  /\ Go(p, "taken")
  /\ UNCHANGED <<due, stale, parent, accepted, task, seen, result, verdict, history>>

\* The dispatch of the taken delivery, with its early return.
DispatchTaken(p) ==
  LET d == at[p]  waiting == status[d] \in {"PENDING", "PENDING_RETRY"} IN
  /\ stage[p] = "taken"
  /\ seen' = [seen EXCEPT ![p][d] = attempts[d]]
  /\ result' = [result EXCEPT ![p] = IF waiting THEN None ELSE status[d]]
  /\ Go(p, IF waiting THEN "read" ELSE "returned")
  /\ UNCHANGED <<rowVars, task, todo, at, verdict, history>>

\* scheduleDeliveryRetry of the delivery that just failed: back to waiting, or
\* exhausted, and then the parent is recomputed.
Reschedule(p) ==
  LET d == at[p]
      spent == attempts[d] >= MaxAttempts
      next == IF spent THEN "EXHAUSTED" ELSE "PENDING_RETRY" IN
  /\ stage[p] = "failed"
  /\ IF status[d] # "FAILED"
       THEN UNCHANGED <<status, attempts, due>>
       ELSE Write(d, next, attempts[d]) /\ due' = due \ {d}
  /\ IF status[d] = "FAILED" /\ spent
       THEN /\ Go(p, "recorded")
            /\ result' = [result EXCEPT ![p] = next]
            /\ UNCHANGED at
       ELSE /\ Go(p, "idle")
            /\ at' = [at EXCEPT ![p] = None]
            /\ UNCHANGED result
  /\ UNCHANGED <<stale, parent, accepted, task, todo, seen, verdict, history>>

\* scheduleDeliveryRetry called for a FAILED delivery: nothing in the
\* repository does, it is left to whoever dispatches.
ScheduleRetry(p, d) ==
  /\ stage[p] = "idle" /\ todo[p] = {}
  /\ status[d] = "FAILED"
  /\ task' = [task EXCEPT ![p] = "dispatch"]
  /\ at' = [at EXCEPT ![p] = d]
  /\ Go(p, "failed")
  /\ UNCHANGED <<rowVars, todo, seen, result, verdict>>
  /\ Take(p, {d})

-----------------------------------------------------------------------------
(* reconcileStuckDeliveries. *)

FindStuck(p) ==
  LET found == {d \in stale : status[d] = "PROCESSING"} IN
  /\ stage[p] = "idle" /\ todo[p] = {}
  /\ found # {}
  /\ task' = [task EXCEPT ![p] = "sweep"]
  /\ todo' = [todo EXCEPT ![p] = found]
  /\ seen' = [seen EXCEPT ![p] = [d \in Deliveries |->
                                    IF d \in found THEN attempts[d] ELSE @[d]]]
  /\ UNCHANGED <<rowVars, stage, at, result, verdict>>
  /\ Take(p, found)

\* By id, whatever the status has become; exhausted only with its attempts spent.
Recover(p, d) ==
  LET spent == seen[p][d] >= MaxAttempts IN
  /\ stage[p] = "idle" /\ task[p] = "sweep" /\ d \in todo[p]
  /\ Write(d, IF spent THEN "EXHAUSTED" ELSE "PENDING_RETRY", attempts[d])
  /\ due' = IF spent THEN due ELSE due \cup {d}
  /\ todo' = [todo EXCEPT ![p] = @ \ {d}]
  /\ IF spent
       THEN /\ Go(p, "recorded")
            /\ at' = [at EXCEPT ![p] = d]
            /\ result' = [result EXCEPT ![p] = "EXHAUSTED"]
       ELSE UNCHANGED <<stage, at, result>>
  /\ UNCHANGED <<stale, parent, accepted, task, seen, verdict, history>>

-----------------------------------------------------------------------------
(* Time and crashes. *)

BecomeDue(d) ==
  /\ status[d] = "PENDING_RETRY" /\ d \notin due
  /\ due' = due \cup {d}
  /\ UNCHANGED <<status, attempts, stale, parent, accepted, procVars, history>>

\* Ten minutes after the mark, whether its dispatcher is still at work or not.
BecomeStale(d) ==
  /\ status[d] = "PROCESSING" /\ d \notin stale
  /\ stale' = stale \cup {d}
  /\ UNCHANGED <<status, attempts, due, parent, accepted, procVars, history>>

Crash(p) ==
  /\ stage[p] # "idle" \/ todo[p] # {}
  /\ crashes < MaxCrashes
  /\ crashes' = crashes + 1
  /\ Go(p, "idle")
  /\ todo' = [todo EXCEPT ![p] = {}]
  /\ at' = [at EXCEPT ![p] = None]
  /\ result' = [result EXCEPT ![p] = None]
  /\ verdict' = [verdict EXCEPT ![p] = None]
  /\ UNCHANGED <<rowVars, task, seen, overlapped, crossed>>

-----------------------------------------------------------------------------

Attempt(p) == \/ Mark(p) \/ FailToRender(p) \/ \E o \in Outcomes : Send(p, o)
              \/ Record(p) \/ AggregateStatuses(p) \/ WriteParent(p) \/ Return(p)
              \/ DispatchTaken(p) \/ Reschedule(p)
              \/ \E d \in Deliveries : TakeDue(p, d) \/ Recover(p, d)

Next ==
  \/ \E p \in Processes : \/ Attempt(p) \/ FindDue(p) \/ FindStuck(p) \/ Crash(p)
                          \/ \E d \in Deliveries : Dispatch(p, d) \/ ScheduleRetry(p, d)
  \/ \E d \in Deliveries : BecomeDue(d) \/ BecomeStale(d)

Spec == Init /\ [][Next]_vars

-----------------------------------------------------------------------------
(* Properties. *)

TypeOK ==
  /\ status \in [Deliveries -> Statuses]
  /\ attempts \in [Deliveries -> Nat]
  /\ due \subseteq Deliveries /\ stale \subseteq Deliveries
  /\ parent \in ParentStatuses
  /\ accepted \in [Deliveries -> Nat]
  /\ stage \in [Processes -> Stages]
  /\ task \in [Processes -> Tasks]
  /\ todo \in [Processes -> SUBSET Deliveries]
  /\ seen \in [Processes -> [Deliveries -> Nat]]
  /\ at \in [Processes -> Deliveries \cup {None}]
  /\ result \in [Processes -> Statuses \cup Outcomes \cup {None}]
  /\ verdict \in [Processes -> ParentStatuses \cup {None}]
  /\ overlapped \subseteq Deliveries /\ crossed \in BOOLEAN
  /\ crashes \in 0..MaxCrashes

\* Unless two processes had a delivery under way at once, its provider is given one
\* message more than the attempts counted only by an attempt under way or cut short
\* by a crash, however often it is retried, swept or failed.
SendsAreCounted ==
  \A d \in Deliveries \ overlapped :
    accepted[d] <= attempts[d] + crashes
                   + Cardinality({p \in Processes : stage[p] = "answered" /\ at[p] = d})

\* "Once a NotificationDelivery reaches DELIVERED, EXHAUSTED, SKIPPED, or
\* SUPPRESSED, its status is permanently immutable" (phase 1.13.1, 3.3), whatever
\* sweeps and retries do, unless two processes had the delivery under way at once.
FinalIsImmutable ==
  [][\A d \in Deliveries \ overlapped' : status[d] \in Final => status'[d] = status[d]]_vars

\* Without a crash, when nothing is left to do the notification shows what its
\* deliveries add up to, if one of them was attempted: also when dispatches of its
\* deliveries, or of the same one, end together, unless one of them wrote the
\* notification between the other's look at the deliveries and its write.
Quiet == /\ \A p \in Processes : stage[p] = "idle" /\ todo[p] = {}
         /\ \A d \in Deliveries : status[d] \notin InFlight
QuietParentAgrees ==
  crashes = 0 /\ Quiet /\ ~crossed /\ (\E d \in Deliveries : attempts[d] > 0)
    => parent = Aggregate(status)

==============================================================================
