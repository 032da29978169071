----------------------------- MODULE Automation -----------------------------
(***************************************************************************)
(* Scheduled automations, lib/services/automation.  Workers poll a         *)
(* schedule job, claim its due time with a conditional update, create an   *)
(* execution for every rule the tick's event matches and run each through  *)
(* the pipeline; the outcome goes to the job's circuit breaker.            *)
(*                                                                         *)
(* One job is enough: a worker keeps the copies of all due jobs while it   *)
(* runs the first, so the copy of this one may be old when its turn comes. *)
(* Executions run at depth 0 and with an empty causality chain: no code    *)
(* starts one below another, and the recursion guards never fire.          *)
(***************************************************************************)
EXTENDS Naturals, Sequences, FiniteSets

CONSTANTS
  Workers,       \* polling workers
  Rules,         \* rules whose trigger matches the event of the job
  Owner,         \* the rule the job belongs to
  Actions,       \* how many actions a rule has
  Threshold,     \* maxFailureThreshold
  MaxTime, MaxTicks, MaxRuns, MaxChanges  \* bounds, for model checking

ASSUME AutomationAssumption ==
  /\ Owner \in Rules
  /\ Actions \in Nat /\ Threshold \in Nat \ {0}
  /\ MaxTime \in Nat /\ MaxTicks \in Nat /\ MaxRuns \in Nat /\ MaxChanges \in Nat

VARIABLES
  now,
  kind,        \* INTERVAL (CRON is alike) or OFFSET from a date of an entity
  date,        \* what an OFFSET job counts from: a time, Never or Gone
  job,         \* AutomationScheduleJob; it no longer exists when deleted
  rule,        \* AutomationRule: enabled, disabled or deleted
  runs,        \* AutomationExecution, and the tick it comes from
  acting,      \* <<execution, step>> whose action is still under way
  phase,       \* where each worker is
  copy,        \* the job as it was polled, and the time of the poll
  tick,        \* the tick it dispatches, 0 for none
  todo,        \* the rules it has to create executions for
  queue,       \* the executions it has to run
  plan,        \* the actions and the error policy it read for the execution it runs
  step,        \* the actions it has begun
  ticks,       \* history: due time and ending of every claim
  wanted,      \* what a member last switched the job to
  disturbed,   \* polls overlapped, or the job was switched during one
  changes

jobVars == <<kind, job>>
workVars == <<phase, copy, tick, todo, queue, plan, step>>
history == <<ticks, wanted, disturbed>>
outside == <<now, date, rule, changes>>
automationVars == <<jobVars, workVars, history, outside, runs, acting>>

Never == MaxTime + 10  \* null: no run is due
Gone == MaxTime + 11   \* the entity cannot be read
Times == 0..MaxTime + 1

Jobs == [exists : BOOLEAN, active : BOOLEAN, next : Times \cup {Never}, failures : Nat]
Copies == [next : Times, failures : Nat, at : 0..MaxTime]
Plans == [actions : 0..Actions, halts : BOOLEAN]  \* HALT_ON_ERROR, or CONTINUE
NoPlan == [actions |-> 0, halts |-> TRUE]
NoCopy == [next |-> 0, failures |-> 0, at |-> 0]
Final == {"COMPLETED", "FAILED", "SKIPPED", "TIMED_OUT"}
Executions == [rule : Rules, status : Final \cup {"PENDING", "RUNNING"}, tick : Nat \ {0}]
Dispatching == {"claimed", "running", "stepping", "acting", "ended"}
Phases == {"idle", "polled"} \cup Dispatching
Ends == {"open", "ended", "thrown", "unplanned"}

\* Slip: the offset is added to a date that is missing: no valid time.
NextRunUnchecked(at) ==
  IF kind = "INTERVAL" THEN at + 1
  ELSE IF date = Never THEN Gone + 1
  ELSE date

\* computeScheduleJobNextRun, polled at time "at".
NextRun(at) ==
  IF kind = "INTERVAL" THEN at + 1
  ELSE date

\* registerScheduleJob at time 0.
AutomationInit ==
  /\ now = 0
  /\ kind \in {"INTERVAL", "OFFSET"}
  /\ date = IF kind = "INTERVAL" THEN Never ELSE 1
  /\ job = [exists |-> TRUE, active |-> TRUE, next |-> NextRun(0), failures |-> 0]
  /\ rule = [r \in Rules |-> "enabled"]
  /\ runs = <<>>
  /\ acting = {}
  /\ phase = [w \in Workers |-> "idle"]
  /\ copy = [w \in Workers |-> NoCopy]
  /\ tick = [w \in Workers |-> 0]
  /\ todo = [w \in Workers |-> {}]
  /\ queue = [w \in Workers |-> <<>>]
  /\ plan = [w \in Workers |-> NoPlan]
  /\ step = [w \in Workers |-> 0]
  /\ ticks = <<>>
  /\ wanted = TRUE
  /\ disturbed = FALSE
  /\ changes = 0

Goto(w, s) == phase' = [phase EXCEPT ![w] = s]
InTick(w) == phase[w] = "polled" \/ tick[w] # 0
Current(w) == Head(queue[w])

\* The worker is done with the job.
Leave(w) ==
  /\ Goto(w, "idle")
  /\ copy' = [copy EXCEPT ![w] = NoCopy]
  /\ tick' = [tick EXCEPT ![w] = 0]

-----------------------------------------------------------------------------
(* pollAndDispatchDueScheduleJobs. *)

Poll(w) ==
  /\ phase[w] = "idle"
  /\ job.exists /\ job.active /\ job.next <= now
  /\ Len(ticks) < MaxTicks
  /\ copy' = [copy EXCEPT ![w] = [next |-> job.next, failures |-> job.failures, at |-> now]]
  /\ Goto(w, "polled")
  /\ disturbed' = (disturbed \/ \E v \in Workers \ {w} : InTick(v))
  /\ UNCHANGED <<jobVars, outside, runs, acting, tick, todo, queue, plan, step,
                 ticks, wanted>>

\* The failure the breaker counts, on the copy of the job; an update of a job
\* that is deleted throws, and ends the poll.
Count(w, end) ==
  /\ Leave(w)
  /\ IF job.exists
     THEN LET n == copy[w].failures + 1 IN
          /\ job' = [job EXCEPT !.failures = n, !.active = (n < Threshold)]
          /\ ticks' = end
     ELSE UNCHANGED <<job, ticks>>
  /\ UNCHANGED <<kind, outside, runs, acting, todo, queue, plan, step, wanted, disturbed>>

\* The entity of an OFFSET job cannot be read.  No due time is claimed.
NextRunFails(w) ==
  /\ phase[w] = "polled"
  /\ NextRun(copy[w].at) = Gone
  /\ Count(w, Append(ticks, [due |-> copy[w].next, end |-> "unplanned"]))

\* Slip: the lease asks only whether the job is active.
ClaimActive(w) ==
  /\ phase[w] = "polled"
  /\ NextRun(copy[w].at) # Gone
  /\ job.exists /\ job.active
  /\ job' = [job EXCEPT !.next = NextRun(copy[w].at)]
  /\ ticks' = Append(ticks, [due |-> copy[w].next, end |-> "open"])
  /\ tick' = [tick EXCEPT ![w] = Len(ticks) + 1]
  /\ Goto(w, "claimed")
  /\ UNCHANGED <<kind, outside, runs, acting, copy, todo, queue, plan, step, wanted, disturbed>>

Claim(w) ==
  /\ phase[w] = "polled"
  /\ NextRun(copy[w].at) # Gone
  /\ job.exists /\ job.active /\ job.next = copy[w].next
  /\ job' = [job EXCEPT !.next = NextRun(copy[w].at)]
  /\ ticks' = Append(ticks, [due |-> copy[w].next, end |-> "open"])
  /\ tick' = [tick EXCEPT ![w] = Len(ticks) + 1]
  /\ Goto(w, "claimed")
  /\ UNCHANGED <<kind, outside, runs, acting, copy, todo, queue, plan, step, wanted, disturbed>>

SkipClaimed(w) ==
  /\ phase[w] = "polled"
  /\ NextRun(copy[w].at) # Gone
  /\ ~(job.exists /\ job.active /\ job.next = copy[w].next)
  /\ Leave(w)
  /\ UNCHANGED <<jobVars, outside, history, runs, acting, todo, queue, plan, step>>

HasFailure(t) == \E e \in DOMAIN runs : runs[e].tick = t /\ runs[e].status = "FAILED"
Dispatched(w) == phase[w] = "running" /\ todo[w] = {} /\ queue[w] = <<>> /\ tick[w] # 0

\* A pipeline failed, or something threw; the job is switched on again
\* unless the breaker opens.
TickFails(w) ==
  \/ /\ Dispatched(w) /\ HasFailure(tick[w])
     /\ Count(w, [ticks EXCEPT ![tick[w]].end = "ended"])
  \/ /\ phase[w] = "ended"
     /\ Count(w, [ticks EXCEPT ![tick[w]].end = "thrown"])

\* Slip: a tick that succeeds leaves the count.
TickSucceedsCountStays(w) ==
  /\ Dispatched(w) /\ ~HasFailure(tick[w])
  /\ ticks' = [ticks EXCEPT ![tick[w]].end = "ended"]
  /\ Leave(w)
  /\ UNCHANGED <<jobVars, outside, runs, acting, todo, queue, plan, step, wanted, disturbed>>

TickSucceeds(w) ==
  /\ Dispatched(w) /\ ~HasFailure(tick[w])
  /\ job' = IF copy[w].failures > 0 /\ job.exists
            THEN [job EXCEPT !.failures = 0] ELSE job
  /\ ticks' = [ticks EXCEPT ![tick[w]].end = "ended"]
  /\ Leave(w)
  /\ UNCHANGED <<kind, outside, runs, acting, todo, queue, plan, step, wanted, disturbed>>

-----------------------------------------------------------------------------
(* ingestAutomationEvent for the event of a tick: its key holds the time   *)
(* of the call and is new.                                                 *)

Ingest(w) ==
  /\ phase[w] = "claimed"
  /\ \E entitled \in BOOLEAN :
       todo' = [todo EXCEPT ![w] =
         {<<r, IF entitled /\ rule[r] = "enabled" THEN "PENDING" ELSE "SKIPPED">> :
            r \in {r \in Rules : rule[r] # "deleted"}}]
  /\ Goto(w, "running")
  /\ UNCHANGED <<jobVars, outside, history, runs, acting, copy, tick, queue, plan, step>>

\* Without a transaction, one after the other, disabled rules first.
CreateExecution(w) ==
  /\ phase[w] = "running"
  /\ Len(runs) < MaxRuns
  /\ \E x \in todo[w] :
       /\ x[2] = "PENDING" => \A y \in todo[w] : y[2] = "PENDING"
       /\ rule[x[1]] # "deleted"
       /\ runs' = Append(runs, [rule |-> x[1], status |-> x[2],
                                tick |-> tick[w]])
       /\ queue' = IF x[2] = "PENDING"
                   THEN [queue EXCEPT ![w] = Append(@, Len(runs) + 1)] ELSE queue
       /\ todo' = [todo EXCEPT ![w] = @ \ {x}]
  /\ UNCHANGED <<jobVars, outside, history, acting, phase, copy, tick, plan, step>>

-----------------------------------------------------------------------------
(* evaluateExecutionConditionsStage and executeAutomationPipeline. *)

\* The execution gets its last status, and its worker turns to the next one.
Finish(w, status) ==
  /\ runs' = [runs EXCEPT ![Current(w)].status = status]
  /\ queue' = [queue EXCEPT ![w] = Tail(@)]
  /\ plan' = [plan EXCEPT ![w] = NoPlan]
  /\ step' = [step EXCEPT ![w] = 0]
  /\ Goto(w, "running")
  /\ UNCHANGED <<jobVars, outside, history, copy, tick, todo>>

Ready(w) == phase[w] = "running" /\ todo[w] = {} /\ queue[w] # <<>>

ConditionsNotMet(w) == Ready(w) /\ Finish(w, "SKIPPED") /\ UNCHANGED acting

\* The conditions hold.  The execution is not claimed; the
\* actions are those its rule has now, none when it is deleted.
StartExecution(w) ==
  /\ Ready(w)
  /\ runs' = [runs EXCEPT ![Current(w)].status = "RUNNING"]
  /\ IF rule[runs[Current(w)].rule] = "deleted" THEN UNCHANGED plan
     ELSE \E halts \in BOOLEAN :
            plan' = [plan EXCEPT ![w] = [actions |-> Actions, halts |-> halts]]
  /\ Goto(w, "stepping")
  /\ UNCHANGED <<jobVars, outside, history, acting, copy, tick, todo, queue, step>>

Action(w) == <<Current(w), step[w]>>

\* Creates the row of the step, and calls the action.
BeginStep(w) ==
  /\ phase[w] = "stepping" /\ step[w] < plan[w].actions
  /\ step' = [step EXCEPT ![w] = @ + 1]
  /\ acting' = acting \cup {<<Current(w), step[w] + 1>>}
  /\ Goto(w, "acting")
  /\ UNCHANGED <<jobVars, outside, history, runs, copy, tick, todo, queue, plan>>

\* executeStepWithRetry has an outcome: that of the last attempt, each one
\* before it having returned an error.
GoOn(w) ==
  /\ phase[w] = "acting"
  /\ Goto(w, "stepping")
  /\ UNCHANGED <<jobVars, outside, history, runs, copy, tick, todo, queue, plan, step>>

StepSucceeds(w) ==
  /\ GoOn(w)
  /\ acting' = acting \ {Action(w)}

StepFails(w) ==
  /\ phase[w] = "acting"
  /\ acting' = acting \ {Action(w)}
  /\ IF plan[w].halts THEN Finish(w, "FAILED") ELSE GoOn(w)

\* Slip: a timeout is a failure, and falls under the error policy.
StepTimesOutTolerated(w) ==
  /\ phase[w] = "acting"
  /\ UNCHANGED acting
  /\ IF plan[w].halts THEN Finish(w, "TIMED_OUT") ELSE GoOn(w)

\* executeWithTimeout gives up on the action, which goes on.
StepTimesOut(w) ==
  /\ phase[w] = "acting"
  /\ UNCHANGED acting
  /\ Finish(w, "TIMED_OUT")

Complete(w) ==
  /\ phase[w] = "stepping" /\ step[w] = plan[w].actions
  /\ Finish(w, "COMPLETED")
  /\ UNCHANGED acting

\* An action that was given up on ends after all.
Land ==
  \E x \in acting :
    /\ runs[x[1]].status = "TIMED_OUT"
    /\ acting' = acting \ {x}
    /\ UNCHANGED <<jobVars, outside, history, workVars, runs>>

-----------------------------------------------------------------------------
(* What goes wrong, and what others do. *)

\* The worker lets go of its executions, and of the action it waits for.
Drop(w) ==
  /\ acting' = IF phase[w] = "acting"
               THEN acting \ {Action(w)} ELSE acting
  /\ todo' = [todo EXCEPT ![w] = {}]
  /\ queue' = [queue EXCEPT ![w] = <<>>]
  /\ plan' = [plan EXCEPT ![w] = NoPlan]
  /\ step' = [step EXCEPT ![w] = 0]
  /\ UNCHANGED <<jobVars, outside, history, runs>>

\* The database fails, or a rule to create an execution for is gone: the
\* poll counts the failure.
Throw(w) ==
  /\ phase[w] \in Dispatching \ {"ended"}
  /\ Drop(w)
  /\ Goto(w, "ended")
  /\ UNCHANGED <<copy, tick>>

Crash(w) ==
  /\ phase[w] # "idle"
  /\ Drop(w)
  /\ Leave(w)

Tock ==
  /\ now < MaxTime
  /\ now' = now + 1
  /\ UNCHANGED <<jobVars, workVars, history, runs, acting, date, rule, changes>>

Change ==
  /\ changes < MaxChanges
  /\ changes' = changes + 1
  /\ UNCHANGED <<now, kind, workVars, ticks, runs, acting>>

ToggleJob ==
  /\ job.exists
  /\ job' = [job EXCEPT !.active = ~@]
  /\ wanted' = ~job.active
  /\ disturbed' = (disturbed \/ \E w \in Workers : InTick(w))
  /\ UNCHANGED <<date, rule>>
  /\ Change

DeleteJob ==
  /\ job.exists
  /\ job' = [job EXCEPT !.exists = FALSE]
  /\ UNCHANGED <<date, rule, wanted, disturbed>>
  /\ Change

ToggleRule(r) ==
  /\ rule[r] # "deleted"
  /\ rule' = [rule EXCEPT ![r] = IF @ = "enabled" THEN "disabled" ELSE "enabled"]
  /\ UNCHANGED <<date, job, wanted, disturbed>>
  /\ Change

\* Its schedule jobs go with a rule.
DeleteRule(r) ==
  /\ rule[r] # "deleted"
  /\ rule' = [rule EXCEPT ![r] = "deleted"]
  /\ job' = [job EXCEPT !.exists = @ /\ r # Owner]
  /\ UNCHANGED <<date, wanted, disturbed>>
  /\ Change

\* The entity is rescheduled, loses its date, or is deleted.
MoveEntity ==
  /\ kind = "OFFSET" /\ date # Gone
  /\ \E d \in {MaxTime, Never, Gone} : date' = d
  /\ UNCHANGED <<job, rule, wanted, disturbed>>
  /\ Change

Schedule(w) ==
  \/ Poll(w) \/ NextRunFails(w) \/ Claim(w) \/ SkipClaimed(w)
  \/ TickFails(w) \/ TickSucceeds(w)

Execute(w) ==
  \/ Ingest(w) \/ CreateExecution(w)
  \/ ConditionsNotMet(w) \/ StartExecution(w)
  \/ BeginStep(w) \/ StepSucceeds(w) \/ StepFails(w) \/ StepTimesOut(w)
  \/ Complete(w)

Members ==
  \/ ToggleJob \/ DeleteJob \/ MoveEntity
  \/ \E r \in Rules : ToggleRule(r) \/ DeleteRule(r)

AutomationNext ==
  \/ \E w \in Workers : Schedule(w) \/ Execute(w) \/ Throw(w) \/ Crash(w)
  \/ Land \/ Tock \/ Members

AutomationSpec == AutomationInit /\ [][AutomationNext]_automationVars

-----------------------------------------------------------------------------
AutomationTypeOK ==
  /\ now \in 0..MaxTime /\ kind \in {"INTERVAL", "OFFSET"}
  /\ date \in Times \cup {Never, Gone}
  /\ job \in Jobs
  /\ rule \in [Rules -> {"enabled", "disabled", "deleted"}]
  /\ runs \in Seq(Executions)
  /\ acting \subseteq (DOMAIN runs) \X (1..Actions)
  /\ phase \in [Workers -> Phases]
  /\ copy \in [Workers -> Copies]
  /\ tick \in [Workers -> 0..Len(ticks)]
  /\ todo \in [Workers -> SUBSET (Rules \X {"PENDING", "SKIPPED"})]
  /\ queue \in [Workers -> Seq(DOMAIN runs)]
  /\ plan \in [Workers -> Plans] /\ step \in [Workers -> 0..Actions]
  /\ ticks \in Seq([due : Times, end : Ends])
  /\ wanted \in BOOLEAN /\ disturbed \in BOOLEAN /\ changes \in 0..MaxChanges

\* However polls overlap, crash and meet switched jobs, a due time of a job that
\* runs at an interval (or by cron) is claimed once: what a worker dispatches no
\* other one does.
OneTickPerDueTime ==
  kind = "INTERVAL" =>
    \A s, t \in {t \in DOMAIN ticks : ticks[t].end # "unplanned"} :
      ticks[s].due = ticks[t].due => s = t

TickFailed(t) ==
  \/ ticks[t].end \in {"thrown", "unplanned"}
  \/ ticks[t].end = "ended" /\ HasFailure(t)

\* The ticks that have ended since the last one that did not fail.
Streak ==
  {t \in DOMAIN ticks :
     /\ ticks[t].end # "open"
     /\ \A u \in t..Len(ticks) : ticks[u].end = "open" \/ TickFailed(u)}

\* While polls do not overlap and members leave a job alone that is being
\* dispatched, the breaker is right about the executions in the table: the count
\* is that of the ticks that failed in a row, crashed workers counting for
\* nothing, and the job is off when a member or the threshold says so.
BreakerIsExact ==
  (job.exists /\ ~disturbed /\ \A w \in Workers : ~InTick(w)) =>
    /\ job.failures = Cardinality(Streak)
    /\ job.active => wanted
    /\ ~job.active => ~wanted \/ job.failures >= Threshold

\* Of an execution one action is under way at a time, also when the engine has
\* given up on one that goes on; and an execution that is COMPLETED, FAILED or
\* SKIPPED has none.
OneActionAtATime ==
  /\ \A x, y \in acting : x[1] = y[1] => x = y
  /\ \A x \in acting : runs[x[1]].status \in {"RUNNING", "TIMED_OUT"}
=============================================================================
