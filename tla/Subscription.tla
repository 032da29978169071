---------------------------- MODULE Subscription ----------------------------
(***************************************************************************)
(* One workspace's subscription, lib/services/billing: the inbox of the    *)
(* provider's webhooks, the state machine of the subscription, the dunning *)
(* sweep, the reconciliation with the provider and the platform operators' *)
(* two ways around them.  The provider is the environment: it changes the  *)
(* subscription on its side, and delivers an event for every change, late, *)
(* out of order or again.                                                  *)
(*                                                                         *)
(* Time is what the code sees of it.  Sweeps read a clock of milliseconds, *)
(* on which many things can happen at once; an event at Stripe carries the *)
(* second it happened in, so that events of one second share a time, and   *)
(* one may follow a sweep and have the earlier time.  The histories know   *)
(* the true order.  A grace period, a trial or the retention of an unpaid  *)
(* subscription may have run out whenever a sweep looks.  The invoices are *)
(* left out: nothing of the life cycle reads them.                         *)
(***************************************************************************)
EXTENDS Naturals, Sequences

CONSTANTS
  Procs,       \* webhook requests, sweeps and calls under way
  Beginnings,  \* of the life cycle: a gateway, and the status here and at the provider
  MaxEvents, MaxDeliveries, MaxCalls, MaxCrashes, MaxTime  \* bounds, for model checking

ASSUME SubscriptionAssumption ==
  /\ Beginnings \subseteq {"STRIPE", "PADDLE"} \X {"INCOMPLETE", "TRIALING", "ACTIVE"}
  /\ MaxEvents \in Nat /\ MaxDeliveries \in Nat
  /\ MaxCalls \in Nat /\ MaxCrashes \in Nat /\ MaxTime \in Nat \ {0}

VARIABLES
  gateway,    \* STRIPE or PADDLE
  provider,   \* the provider's status of the subscription
  events,     \* the events it has emitted
  clock,      \* the last reading of the clock
  second,     \* the time of an event now: at Stripe, the beginning of the second
  inbox,      \* BillingWebhookEvent.status of each, NONE before it is recorded
  sub,        \* Subscription
  proc,       \* what each process is doing
  newest,     \* history: time and event of the last change of status that had a time
  reached,    \* history: the place, among what the provider did, that the row agrees with
  overtaken,  \* history: a row was written that had changed since it was read, or set back
  skipped,    \* history: a payment came before what leads up to it, or a sweep used an old date
  blurred,    \* history: times were compared and came out against the true order
  manual,     \* history: a member or an operator has changed the status
  deliveries, calls, crashes

counters == <<deliveries, calls, crashes>>
time == <<clock, second>>
history == <<newest, reached, overtaken, skipped, blurred, manual>>
subscriptionVars == <<gateway, provider, events, time, inbox, sub, proc, history, counters>>

Statuses == {"INCOMPLETE", "INCOMPLETE_EXPIRED", "TRIALING", "ACTIVE", "PAST_DUE",
             "UNPAID", "PAUSED", "CANCELED"}
NonTerminal == Statuses \ {"CANCELED", "INCOMPLETE_EXPIRED"}
Kinds == {"PAYMENT_SUCCEEDED", "PAYMENT_FAILED", "SYNC", "CANCELED", "CHECKOUT"}
Times == 0..MaxTime

\* Subscription; synced is lastSyncedProviderEventAt, 0 for null.
Rows == [status : Statuses, synced : Times]
Events == [kind : Kinds, to : Statuses, at : 1..MaxTime]

Untimed == 0  \* no providerEventTimestamp
At(e) == events[e].at

\* The true order of things: event e, and what happens now.
Places == 0..2 * MaxEvents + 1
Place(e) == 2 * e
Here == 2 * Len(events) + 1

(***************************************************************************)
(* The state machine.                                                      *)
(***************************************************************************)
SUCCEEDED == "WEBHOOK:invoice.payment_succeeded"
FAILED == "WEBHOOK:invoice.payment_failed"
UPDATED == "WEBHOOK:customer.subscription.updated"
DELETED == "WEBHOOK:customer.subscription.deleted"
COMPLETED == "CHECKOUT:session_completed"

SUBSCRIPTION_TRANSITIONS ==
  {<<"INCOMPLETE", "ACTIVE", {SUCCEEDED}>>,
   <<"INCOMPLETE", "TRIALING", {UPDATED, "WEBHOOK"}>>,
   <<"INCOMPLETE", "INCOMPLETE_EXPIRED", {"WEBHOOK:customer.subscription.updated[incomplete_expired]",
                                              "RECONCILIATION_WORKER"}>>,
   <<"TRIALING", "ACTIVE", {COMPLETED, "WEBHOOK"}>>,
   <<"TRIALING", "PAST_DUE", {"DUNNING_ENGINE:trial_expired"}>>,
   <<"TRIALING", "CANCELED", {"USER_ACTION:cancel"}>>,
   <<"ACTIVE", "PAST_DUE", {FAILED}>>,
   <<"ACTIVE", "CANCELED", {"USER_ACTION:cancel", "WEBHOOK"}>>,
   <<"ACTIVE", "PAUSED", {"ADMIN_OVERRIDE", UPDATED, "WEBHOOK"}>>,
   <<"PAST_DUE", "ACTIVE", {SUCCEEDED, "SYNC_RECONCILIATION", "ADMIN_OVERRIDE"}>>,
   <<"PAST_DUE", "UNPAID", {"DUNNING_ENGINE:grace_expired"}>>,
   <<"PAST_DUE", "CANCELED", {DELETED}>>,
   <<"UNPAID", "ACTIVE", {SUCCEEDED, "SYNC_RECONCILIATION"}>>,
   <<"UNPAID", "CANCELED", {DELETED, "DUNNING_ENGINE:automatic_termination"}>>,
   <<"PAUSED", "ACTIVE", {"USER_ACTION:resume", "ADMIN_OVERRIDE", UPDATED, "WEBHOOK"}>>,
   <<"CANCELED", "ACTIVE", {COMPLETED}>>}

Webhook == {SUCCEEDED, FAILED, UPDATED, DELETED, "WEBHOOK"}
Sync == Webhook \cup {"SYNC_RECONCILIATION"}
Triggers == UNION {rule[3] : rule \in SUBSCRIPTION_TRANSITIONS}

Permitted(from, to, trigger) ==
  \E rule \in SUBSCRIPTION_TRANSITIONS : rule[1] = from /\ rule[2] = to /\ trigger \in rule[3]

Idle ==
  [at |-> "idle", ev |-> 0, to |-> "ACTIVE", trigger |-> SUCCEEDED, ts |-> Untimed, place |-> 0,
   fresh |-> FALSE]
Jobs ==
  [at : {"idle", "insert", "again", "read", "begin", "apply", "stamp", "finish", "fail",
         "find", "look", "fetch"},
   ev : 0..MaxEvents,     \* the event it processes, 0 for a sweep or a call
   to : Statuses, trigger : Triggers,
   ts : Times,            \* providerEventTimestamp
   place : Places,        \* history: its place in the true order, 0 for a call
   fresh : BOOLEAN]       \* the row is still as it has read it

SubscriptionTypeOK ==
  /\ gateway \in {"STRIPE", "PADDLE"} /\ provider \in Statuses
  /\ events \in Seq(Events) /\ Len(events) <= MaxEvents
  /\ clock \in 1..MaxTime /\ second \in 1..clock
  /\ inbox \in [1..MaxEvents -> {"NONE", "PROCESSING", "PROCESSED", "FAILED"}]
  /\ sub \in Rows
  /\ proc \in [Procs -> Jobs]
  /\ newest \in [at : Times, ev : 0..MaxEvents] /\ reached \in Places
  /\ overtaken \in BOOLEAN /\ skipped \in BOOLEAN /\ blurred \in BOOLEAN /\ manual \in BOOLEAN
  /\ deliveries \in 0..MaxDeliveries /\ calls \in 0..MaxCalls /\ crashes \in 0..MaxCrashes

SubscriptionInit ==
  /\ \E beginning \in Beginnings : gateway = beginning[1] /\ provider = beginning[2]
  /\ events = << >> /\ clock = 1 /\ second = 1 /\ inbox = [e \in 1..MaxEvents |-> "NONE"]
  /\ sub = [status |-> provider, synced |-> 0]
  /\ proc = [p \in Procs |-> Idle]
  /\ newest = [at |-> 0, ev |-> 0] /\ reached = 0
  /\ overtaken = FALSE /\ skipped = FALSE /\ blurred = FALSE /\ manual = FALSE
  /\ deliveries = 0 /\ calls = 0 /\ crashes = 0

Do(p, job) == proc' = [proc EXCEPT ![p] = job]
Goto(p, at) == Do(p, [proc[p] EXCEPT !.at = at])
IsAt(p, at) == proc[p].at = at

(***************************************************************************)
(* The provider, and time.                                                 *)
(***************************************************************************)
ProviderMoves ==
  {<<"INCOMPLETE", "PAYMENT_SUCCEEDED", "ACTIVE">>, <<"INCOMPLETE", "SYNC", "TRIALING">>,
   <<"INCOMPLETE", "SYNC", "INCOMPLETE_EXPIRED">>,
   <<"TRIALING", "CHECKOUT", "ACTIVE">>, <<"TRIALING", "SYNC", "ACTIVE">>,
   <<"ACTIVE", "PAYMENT_FAILED", "PAST_DUE">>, <<"ACTIVE", "PAYMENT_SUCCEEDED", "ACTIVE">>,
   <<"ACTIVE", "SYNC", "PAUSED">>, <<"PAUSED", "SYNC", "ACTIVE">>,
   <<"PAST_DUE", "PAYMENT_SUCCEEDED", "ACTIVE">>, <<"PAST_DUE", "SYNC", "ACTIVE">>,
   <<"PAST_DUE", "SYNC", "UNPAID">>, <<"UNPAID", "PAYMENT_SUCCEEDED", "ACTIVE">>}
  \cup {<<from, "CANCELED", "CANCELED">> : from \in {"TRIALING", "ACTIVE", "PAST_DUE", "UNPAID"}}

\* A new second has begun since the last reading, or has not.
ReadClock ==
  /\ clock' \in clock..MaxTime
  /\ second' \in IF gateway = "STRIPE" THEN {second} \cup (clock + 1)..clock' ELSE {clock'}

Emit(from, kind, to) ==
  /\ provider = from
  /\ gateway = "PADDLE" => kind # "CHECKOUT" /\ to # "UNPAID"
  /\ Len(events) < MaxEvents
  /\ provider' = to
  /\ ReadClock
  /\ events' = Append(events, [kind |-> kind, to |-> to, at |-> second'])
  /\ UNCHANGED <<gateway, inbox, sub, proc, history, counters>>

(***************************************************************************)
(* Writes of the subscription.  No transaction takes a lock: it reads the  *)
(* row, which decides what it does, and what it writes lands later.        *)
(***************************************************************************)
Unread == <<gateway, provider, events>>

\* p goes on with a job; what the others have read is no longer the row.
Wrote(p, job) ==
  proc' = [q \in Procs |-> IF q = p THEN job
                           ELSE [proc[q] EXCEPT !.fresh = @ /\ sub' = sub]]

\* History: the row agrees with what the provider did up to this place.
Reaches(place) == reached' = IF place > reached THEN place ELSE reached

After(job, at) == IF job.ev = 0 THEN Idle ELSE [Idle EXCEPT !.at = at, !.ev = job.ev]

\* Slip: no out-of-order guard.
BegunUnordered(job) ==
  LET Continue(at) == [Idle EXCEPT !.at = at, !.ev = job.ev, !.to = job.to, !.ts = job.ts,
                                   !.place = job.place, !.fresh = TRUE] IN
  IF sub.status = job.to /\ job.trigger \in Sync
  THEN IF job.ts > sub.synced THEN Continue("stamp") ELSE After(job, "finish")
  ELSE IF Permitted(sub.status, job.to, job.trigger) THEN Continue("apply")
  ELSE After(job, "fail")

\* Slip: an event of the row's own time is refused like an older one.
BegunInclusive(job) ==
  LET Continue(at) == [Idle EXCEPT !.at = at, !.ev = job.ev, !.to = job.to, !.ts = job.ts,
                                   !.place = job.place, !.fresh = TRUE] IN
  IF job.ts # Untimed /\ job.ts <= sub.synced THEN After(job, "finish")
  ELSE IF sub.status = job.to /\ job.trigger \in Sync THEN Continue("stamp")
  ELSE IF Permitted(sub.status, job.to, job.trigger) THEN Continue("apply")
  ELSE After(job, "fail")

\* transitionSubscriptionStatus, up to its write.
Begun(job) ==
  LET Continue(at) == [Idle EXCEPT !.at = at, !.ev = job.ev, !.to = job.to, !.ts = job.ts,
                                   !.place = job.place, !.fresh = TRUE] IN
  IF job.ts # Untimed /\ job.ts < sub.synced THEN After(job, "finish")
  ELSE IF sub.status = job.to /\ job.trigger \in Sync
  THEN IF job.ts > sub.synced THEN Continue("stamp") ELSE After(job, "finish")
  ELSE IF Permitted(sub.status, job.to, job.trigger) THEN Continue("apply")
  ELSE After(job, "fail")

\* An event older by its time may be the later one; one of the row's time and status
\* leaves no trace, and is accounted for.
Begin(p) ==
  LET job == proc[p] IN
  /\ IsAt(p, "begin") /\ Do(p, Begun(job))
  /\ blurred' = (blurred \/ (job.ts < sub.synced /\ job.place > reached))
  /\ Reaches(IF job.trigger \in Sync /\ job.to = sub.status /\ job.ts = sub.synced
             THEN job.place ELSE 0)
  /\ UNCHANGED <<Unread, time, inbox, sub, newest, overtaken, skipped, manual, counters>>

Apply(p) ==
  LET job == proc[p] IN
  /\ IsAt(p, "apply")
  /\ sub' = [status |-> job.to, synced |-> IF job.ts = Untimed THEN sub.synced ELSE job.ts]
  /\ overtaken' = (overtaken \/ ~job.fresh)
  /\ IF job.ts = Untimed
     THEN manual' = TRUE /\ UNCHANGED <<newest, reached, blurred>>
     ELSE /\ newest' = [at |-> job.ts, ev |-> job.ev] /\ reached' = job.place
          /\ blurred' = (blurred \/ job.place < reached)
          /\ UNCHANGED manual
  /\ Wrote(p, After(job, "finish"))
  /\ UNCHANGED <<Unread, time, inbox, skipped, counters>>

\* An update by id that leaves the status as it is, and may set the time back.
Stamp(p) ==
  /\ IsAt(p, "stamp")
  /\ sub' = [sub EXCEPT !.synced = proc[p].ts]
  /\ overtaken' = (overtaken \/ ~proc[p].fresh \/ proc[p].ts < sub.synced)
  /\ Reaches(proc[p].place)
  /\ Wrote(p, After(proc[p], "finish"))
  /\ UNCHANGED <<Unread, time, inbox, newest, skipped, blurred, manual, counters>>

(***************************************************************************)
(* processBillingWebhookEvent.                                             *)
(***************************************************************************)

\* The lookup of the inbox.  An event PROCESSED is answered at once and changes nothing.
Receive(p, e) ==
  /\ IsAt(p, "idle") /\ e <= Len(events) /\ inbox[e] # "PROCESSED"
  /\ deliveries < MaxDeliveries /\ deliveries' = deliveries + 1
  /\ Do(p, [Idle EXCEPT !.at = IF inbox[e] = "NONE" THEN "insert" ELSE "again",
                        !.ev = e, !.ts = At(e), !.place = Place(e), !.to = events[e].to])
  /\ UNCHANGED <<Unread, time, inbox, sub, history, calls, crashes>>

\* Slip: the event is recorded as done before it is dispatched.
RecordDone(p) ==
  LET e == proc[p].ev IN
  /\ \/ IsAt(p, "insert") /\ inbox[e] = "NONE"
     \/ IsAt(p, "again")
  /\ inbox' = [inbox EXCEPT ![e] = "PROCESSED"]
  /\ Goto(p, "read")
  /\ UNCHANGED <<Unread, time, sub, history, counters>>

Record(p) ==
  LET e == proc[p].ev IN
  /\ \/ IsAt(p, "insert") /\ inbox[e] = "NONE"
     \/ IsAt(p, "again")
  /\ inbox' = [inbox EXCEPT ![e] = "PROCESSING"]
  /\ Goto(p, "read")
  /\ UNCHANGED <<Unread, time, sub, history, counters>>

\* P2002: another delivery has recorded it meanwhile.
RecordedMeanwhile(p) ==
  /\ IsAt(p, "insert") /\ inbox[proc[p].ev] # "NONE"
  /\ Do(p, Idle)
  /\ UNCHANGED <<Unread, time, inbox, sub, history, counters>>

PaddleTrigger(from, to) ==
  CASE to = "ACTIVE" -> IF from = "TRIALING" THEN "WEBHOOK" ELSE SUCCEEDED
    [] to = "PAST_DUE" -> FAILED
    [] to = "CANCELED" -> IF from \in {"PAST_DUE", "UNPAID"} THEN DELETED ELSE "WEBHOOK"
    [] OTHER -> UPDATED

Trigger(kind, from, to) ==
  CASE kind = "PAYMENT_SUCCEEDED" -> SUCCEEDED
    [] kind = "PAYMENT_FAILED" -> FAILED
    [] kind = "CHECKOUT" -> COMPLETED
    [] OTHER -> IF gateway = "PADDLE" THEN PaddleTrigger(from, to)
                ELSE IF kind = "SYNC" THEN UPDATED ELSE DELETED

\* The handlers' first look at the subscription decides what they do.
Transits(kind, to) ==
  CASE kind = "PAYMENT_SUCCEEDED" -> sub.status \in {"PAST_DUE", "INCOMPLETE", "UNPAID"}
    [] kind = "PAYMENT_FAILED" -> sub.status = "ACTIVE"
    [] OTHER -> sub.status # to

Stamps(kind, ts) ==
  \/ kind = "PAYMENT_SUCCEEDED" /\ ts > sub.synced
  \/ kind = "SYNC" /\ ts >= sub.synced

Handle(p) ==
  LET job == proc[p]
      kind == events[job.ev].kind
      transits == Transits(kind, job.to)
      stamps == ~transits /\ Stamps(kind, job.ts)
      agrees == kind \in {"PAYMENT_SUCCEEDED", "SYNC"} /\ sub.status = job.to IN
  /\ IsAt(p, "read")
  /\ Do(p, CASE transits -> [job EXCEPT !.at = "begin", !.trigger = Trigger(kind, sub.status, job.to)]
             [] stamps -> [job EXCEPT !.at = "stamp", !.fresh = TRUE]
             [] OTHER -> After(job, "finish"))
  /\ skipped' = (skipped \/ (/\ ~transits /\ job.place > reached
                             /\ \/ kind = "PAYMENT_FAILED"
                                \/ kind = "PAYMENT_SUCCEEDED" /\ sub.status # "ACTIVE"))
  /\ Reaches(IF ~transits /\ ~stamps /\ agrees THEN job.place ELSE 0)
  /\ UNCHANGED <<Unread, time, inbox, sub, newest, overtaken, blurred, manual, counters>>

FinishEvent(p) ==
  /\ \/ IsAt(p, "finish") /\ inbox' = [inbox EXCEPT ![proc[p].ev] = "PROCESSED"]
     \/ IsAt(p, "fail") /\ inbox' = [inbox EXCEPT ![proc[p].ev] = "FAILED"]
  /\ Do(p, Idle)
  /\ UNCHANGED <<Unread, time, sub, history, counters>>

\* The process is lost, or a statement is and the catch block records it.
Lose(p) ==
  LET e == proc[p].ev IN
  /\ ~IsAt(p, "idle") /\ crashes < MaxCrashes /\ crashes' = crashes + 1
  /\ Do(p, Idle)
  /\ \/ UNCHANGED inbox
     \/ proc[p].at \in {"read", "begin", "apply", "stamp", "finish"} /\ e # 0
        /\ inbox' = [inbox EXCEPT ![e] = "FAILED"]
  /\ UNCHANGED <<Unread, time, sub, history, deliveries, calls>>

(***************************************************************************)
(* The sweeps.                                                             *)
(***************************************************************************)
StartDunning(p) ==
  /\ IsAt(p, "idle") /\ calls < MaxCalls /\ calls' = calls + 1
  /\ ReadClock /\ Do(p, [Idle EXCEPT !.at = "find", !.ts = clock', !.place = Here])
  /\ UNCHANGED <<Unread, inbox, sub, history, deliveries, crashes>>

\* The sweep's three queries: a grace period, the retention of an unpaid
\* subscription or a trial has run out by the reference date, or has not.
Due ==
  CASE sub.status = "PAST_DUE" -> "UNPAID"
    [] sub.status = "UNPAID" -> "CANCELED"
    [] sub.status = "TRIALING" -> "PAST_DUE"
    [] OTHER -> "NONE"

\* Slip: a trigger the state machine does not know.
DunningTriggerUnknown(to) ==
  CASE to = "UNPAID" -> "DUNNING_ENGINE:grace_expired"
    [] to = "CANCELED" -> "DUNNING_ENGINE:automatic_termination"
    [] OTHER -> "DUNNING_ENGINE:trial_ended"

DunningTrigger(to) ==
  CASE to = "UNPAID" -> "DUNNING_ENGINE:grace_expired"
    [] to = "CANCELED" -> "DUNNING_ENGINE:automatic_termination"
    [] OTHER -> "DUNNING_ENGINE:trial_expired"

Find(p) ==
  /\ IsAt(p, "find")
  /\ \/ Do(p, Idle)
     \/ Due # "NONE"
        /\ Do(p, [proc[p] EXCEPT !.at = "begin", !.to = Due, !.trigger = DunningTrigger(Due)])
  /\ UNCHANGED <<Unread, time, inbox, sub, history, counters>>

\* runReconciliationSweep, hourly: its reference date is older than all it reads.
StartReconciliation(p) ==
  /\ IsAt(p, "idle") /\ \A q \in Procs : proc[q].at \notin {"look", "fetch"}
  /\ sub.status \in NonTerminal
  /\ ReadClock /\ Do(p, [Idle EXCEPT !.at = "look", !.ts = clock', !.place = Here])
  /\ UNCHANGED <<Unread, inbox, sub, history, counters>>

Look(p) ==
  /\ IsAt(p, "look")
  /\ Do(p, [proc[p] EXCEPT !.at = "fetch", !.to = sub.status, !.fresh = TRUE])
  /\ UNCHANGED <<Unread, time, inbox, sub, history, counters>>

ReconciliationTrigger(from, to) ==
  CASE to = "ACTIVE" -> "SYNC_RECONCILIATION"
    [] to = "CANCELED" -> CASE from = "ACTIVE" -> "WEBHOOK"
                            [] from = "TRIALING" -> "USER_ACTION:cancel"
                            [] OTHER -> DELETED
    [] to = "INCOMPLETE_EXPIRED" -> "RECONCILIATION_WORKER"
    [] OTHER -> "SYNC_RECONCILIATION"

\* No drift, a drift of period, seats or cancelAtPeriodEnd, or one of the status.
Fetch(p) ==
  LET job == proc[p] IN
  /\ IsAt(p, "fetch")
  /\ \/ provider = job.to /\ Do(p, [job EXCEPT !.at = "stamp", !.to = Idle.to])
     \/ Do(p, [job EXCEPT !.at = "begin", !.to = provider, !.fresh = FALSE,
                          !.trigger = IF provider = job.to THEN "SYNC_RECONCILIATION"
                                      ELSE ReconciliationTrigger(job.to, provider)])
  /\ skipped' = (skipped \/ (provider # job.to /\ job.place # Here))
  /\ UNCHANGED <<Unread, time, inbox, sub, newest, reached, overtaken, blurred, manual, counters>>

(***************************************************************************)
(* Members and operators.                                                  *)
(***************************************************************************)

\* cancelSubscription, immediately, and applyAdminOverride, when not refused.
Call(p, to, trigger) ==
  /\ IsAt(p, "idle") /\ Permitted(sub.status, to, trigger)
  /\ calls < MaxCalls /\ calls' = calls + 1
  /\ Do(p, Begun([Idle EXCEPT !.to = to, !.trigger = trigger]))
  /\ UNCHANGED <<Unread, time, inbox, sub, history, deliveries, crashes>>

\* replayPlatformBillingWebhook only marks the event.
Replay(e) ==
  /\ inbox[e] \in {"PROCESSING", "FAILED"} /\ calls < MaxCalls /\ calls' = calls + 1
  /\ inbox' = [inbox EXCEPT ![e] = "PROCESSED"]
  /\ UNCHANGED <<Unread, time, sub, proc, history, deliveries, crashes>>

\* syncPlatformBillingAccount only moves the time.
Resynchronize ==
  /\ calls < MaxCalls /\ calls' = calls + 1
  /\ ReadClock /\ sub' = [sub EXCEPT !.synced = clock']
  /\ proc' = [p \in Procs |-> [proc[p] EXCEPT !.fresh = @ /\ sub' = sub]]
  /\ UNCHANGED <<Unread, inbox, history, deliveries, crashes>>

Work(p) ==
  \/ Record(p) \/ RecordedMeanwhile(p) \/ Handle(p) \/ FinishEvent(p)
  \/ Find(p) \/ Look(p) \/ Fetch(p)
  \/ Begin(p) \/ Apply(p) \/ Stamp(p)

SubscriptionNext ==
  \/ \E move \in ProviderMoves : Emit(move[1], move[2], move[3])
  \/ Resynchronize
  \/ \E e \in 1..MaxEvents : Replay(e)
  \/ \E p \in Procs :
       \/ \E e \in 1..MaxEvents : Receive(p, e)
       \/ Work(p) \/ Lose(p) \/ StartDunning(p) \/ StartReconciliation(p)
       \/ Call(p, "CANCELED", "USER_ACTION:cancel")
       \/ \E to \in {"ACTIVE", "PAUSED"} : Call(p, to, "ADMIN_OVERRIDE")

SubscriptionSpec == SubscriptionInit /\ [][SubscriptionNext]_subscriptionVars

(***************************************************************************)
(* Properties.                                                             *)
(***************************************************************************)

\* Changes of status follow the provider's times, and none is made twice: a change by
\* an event is not older than any before it, and has the time of the last one only if
\* that was another event of the same second, however often the event is delivered,
\* whatever crashed, and whatever a sweep has done meanwhile.  Unless a row was written
\* that had changed since it was read, or a sweep set its time back; after a member's
\* or an operator's change an event may be applied once more.
ChangesInEventOrder ==
  [][newest' # newest \/ sub'.status # sub.status =>
       \/ overtaken'
       \/ newest'.at > newest.at
       \/ /\ newest'.at = newest.at
          /\ manual' \/ newest.ev = 0 \/ newest'.ev # newest.ev]_subscriptionVars

\* Late, repeated and reordered deliveries, crashes and reconciliations end in
\* agreement: once every event is processed, and nobody has intervened, the
\* subscription is what it is at the provider.  Unless a write overtook another,
\* or a payment came before the event that leads up to it: a success then only
\* moves the time, and the older event is ignored; a failure leaves no trace, and
\* the older event is applied after it.  Or a reconciliation corrected the status
\* under a date older than the state it had fetched.  Or the times deceived: the
\* earlier of two events of one second was applied after the later, or an event was
\* ignored because a sweep had stamped the row within its second.
AgreesWhenQuiet ==
  /\ \A p \in Procs : IsAt(p, "idle")
  /\ \A e \in 1..Len(events) : inbox[e] = "PROCESSED"
  /\ calls = 0 /\ ~overtaken /\ ~skipped /\ ~blurred
  => sub.status = provider

=============================================================================
