---------------------------- MODULE DeliveryProofs ----------------------------
(***************************************************************************)
(* Proofs about the deliveries of a notification: the types, that a final  *)
(* status is final and that every message the provider took is counted,    *)
(* but for a delivery that two processes had under way at once, and that   *)
(* in the end the notification shows what its deliveries add up to - for   *)
(* any number of deliveries, processes, attempts and crashes.              *)
(*                                                                         *)
(* No row is locked, so the argument is about hands: as long as at most    *)
(* one process has a delivery in hand, what it read of the row is what the *)
(* row is.                                                                 *)
(***************************************************************************)
EXTENDS Delivery, FiniteSetTheorems, TLAPS

\* Delivery d is in the hands of process p: under way, or in the batch it found.
Has(p, d) == at[p] = d \/ d \in todo[p]

\* A process at work has one delivery, which it has taken out of its batch, and what
\* it is about to write.
AtWork ==
  \A p \in Processes :
    /\ stage[p] = "idle" <=> at[p] = None
    /\ at[p] \notin todo[p]
    /\ todo[p] # {} => task[p] \in {"retry", "sweep"}
    /\ stage[p] = "answered" => result[p] \in Outcomes
    /\ stage[p] = "aggregated" => verdict[p] \in ParentStatuses

\* Two processes have the same delivery in hand only if history says so.
OneHand ==
  \A p, q \in Processes, d \in Deliveries \ overlapped : Has(p, d) /\ Has(q, d) => p = q

\* What a process knows of a delivery that only it has in hand.
KnowsRow(p, d) ==
  /\ at[p] = d => /\ stage[p] = "taken" => status[d] = "PENDING"
                  /\ stage[p] = "read" => status[d] \in {"PENDING", "PENDING_RETRY"}
                  /\ stage[p] \in {"marked", "answered"} => status[d] = "PROCESSING"
                  /\ stage[p] \in {"read", "marked", "answered"} => seen[p][d] = attempts[d]
  /\ d \in todo[p] => /\ task[p] = "retry" => status[d] = "PENDING_RETRY"
                      /\ task[p] = "sweep" => status[d] = "PROCESSING"

Knows == \A p \in Processes, d \in Deliveries \ overlapped : KnowsRow(p, d)

Answered(d) == \E p \in Processes : stage[p] = "answered" /\ at[p] = d

\* SendsAreCounted, without counting.
Counted ==
  \A d \in Deliveries \ overlapped :
    accepted[d] <= attempts[d] + crashes + (IF Answered(d) THEN 1 ELSE 0)

IInv == TypeOK /\ AtWork /\ OneHand /\ Knows /\ Counted

Settled == \A d \in Deliveries : status[d] \notin InFlight

\* All deliveries are settled, and whoever settled one has looked at them since.
Ended == crashes = 0 /\ ~crossed /\ Settled /\ \A p \in Processes : stage[p] # "recorded"
Holding(p) == stage[p] = "aggregated"

\* Then the only aggregate still to be written is what the deliveries add up to, and
\* the notification shows it when none is.
Latest ==
  Ended =>
    /\ \A p \in Processes :
         Holding(p) /\ (\A q \in Processes \ {p} : ~Holding(q)) => verdict[p] = Aggregate(status)
    /\ (\A p \in Processes : ~Holding(p)) /\ (\E d \in Deliveries : attempts[d] > 0)
         => parent = Aggregate(status)

-----------------------------------------------------------------------------
(* The invariant holds at first, and each of its parts is kept. *)

LEMMA InitKeeps == Init => IInv
<1> SUFFICES ASSUME Init PROVE IInv
  OBVIOUS
<1>1. TypeOK
  <2>1. status \in [Deliveries -> Statuses]
    BY DEF Init, Statuses, Final, InFlight
  <2>2. crashes \in 0..MaxCrashes
    BY DeliveryAssumption DEF Init
  <2>3. /\ stage \in [Processes -> Stages] /\ task \in [Processes -> Tasks]
        /\ parent \in ParentStatuses
    BY DEF Init, Stages, Tasks, ParentStatuses
  <2> QED BY <2>1, <2>2, <2>3 DEF Init, TypeOK
<1>2. AtWork
  BY DeliveryAssumption DEF Init, AtWork
<1>3. OneHand /\ Knows
  BY DeliveryAssumption DEF Init, OneHand, Knows, KnowsRow, Has
<1>4. Counted
  BY DeliveryAssumption DEF Init, Counted, Answered
<1> QED BY <1>1, <1>2, <1>3, <1>4 DEF IInv

LEMMA AggregateTyped == \A st : Aggregate(st) \in ParentStatuses
BY DEF Aggregate, ParentStatuses

LEMMA FinalStatusTyped == \A o, n : FinalStatus(o, n) \in {"DELIVERED", "FAILED", "EXHAUSTED"}
BY DEF FinalStatus

LEMMA TypeStep == TypeOK /\ AtWork /\ [Next]_vars => TypeOK'
<1> SUFFICES ASSUME TypeOK, AtWork, [Next]_vars PROVE TypeOK'
  OBVIOUS
<1>1. ASSUME NEW p \in Processes, Mark(p) PROVE TypeOK'
  BY <1>1, AggregateTyped, FinalStatusTyped, DeliveryAssumption
     DEF Mark, TypeOK, AtWork, Statuses, Final, InFlight, Stages, Tasks, Outcomes,
         Write, Go, Take, rowVars, procVars, history, vars
<1>2. ASSUME NEW p \in Processes, FailToRender(p) PROVE TypeOK'
  BY <1>2, AggregateTyped, FinalStatusTyped, DeliveryAssumption
     DEF FailToRender, TypeOK, AtWork, Statuses, Final, InFlight, Stages, Tasks, Outcomes,
         Write, Go, Take, rowVars, procVars, history, vars
<1>3. ASSUME NEW p \in Processes, NEW o \in Outcomes, Send(p, o) PROVE TypeOK'
  <2>1. at[p] \in Deliveries
    BY <1>3 DEF Send, TypeOK, AtWork
  <2>2. accepted' \in {accepted, [accepted EXCEPT ![at[p]] = @ + 1]}
    BY <1>3 DEF Send
  <2>3. accepted' \in [Deliveries -> Nat]
    BY <2>1, <2>2 DEF TypeOK
  <2>4. result' \in [Processes -> Statuses \cup Outcomes \cup {None}]
    BY <1>3 DEF Send, TypeOK
  <2> QED BY <1>3, <2>3, <2>4 DEF Send, TypeOK, Go, Stages, rowVars, procVars, history
<1>4. ASSUME NEW p \in Processes, Record(p) PROVE TypeOK'
  BY <1>4, AggregateTyped, FinalStatusTyped, DeliveryAssumption
     DEF Record, TypeOK, AtWork, Statuses, Final, InFlight, Stages, Tasks, Outcomes,
         Write, Go, Take, rowVars, procVars, history, vars
<1>5. ASSUME NEW p \in Processes, AggregateStatuses(p) PROVE TypeOK'
  BY <1>5, AggregateTyped, FinalStatusTyped, DeliveryAssumption
     DEF AggregateStatuses, TypeOK, AtWork, Statuses, Final, InFlight, Stages, Tasks, Outcomes,
         Write, Go, Take, rowVars, procVars, history, vars
<1>6. ASSUME NEW p \in Processes, WriteParent(p) PROVE TypeOK'
  BY <1>6, AggregateTyped, FinalStatusTyped, DeliveryAssumption
     DEF WriteParent, TypeOK, AtWork, Statuses, Final, InFlight, Stages, Tasks, Outcomes,
         Write, Go, Take, rowVars, procVars, history, vars
<1>7. ASSUME NEW p \in Processes, Return(p) PROVE TypeOK'
  BY <1>7, AggregateTyped, FinalStatusTyped, DeliveryAssumption
     DEF Return, TypeOK, AtWork, Statuses, Final, InFlight, Stages, Tasks, Outcomes,
         Write, Go, Take, rowVars, procVars, history, vars
<1>8. ASSUME NEW p \in Processes, DispatchTaken(p) PROVE TypeOK'
  BY <1>8, AggregateTyped, FinalStatusTyped, DeliveryAssumption
     DEF DispatchTaken, TypeOK, AtWork, Statuses, Final, InFlight, Stages, Tasks, Outcomes,
         Write, Go, Take, rowVars, procVars, history, vars
<1>9. ASSUME NEW p \in Processes, Reschedule(p) PROVE TypeOK'
  <2>1. at[p] \in Deliveries
    BY <1>9 DEF Reschedule, TypeOK, AtWork
  <2>2. \/ UNCHANGED <<status, attempts, due>>
        \/ \E s \in {"EXHAUSTED", "PENDING_RETRY"} :
             Write(at[p], s, attempts[at[p]]) /\ due' = due \ {at[p]}
    BY <1>9 DEF Reschedule
  <2>3. status' \in [Deliveries -> Statuses]
    BY <2>1, <2>2 DEF TypeOK, Write, Statuses, InFlight, Final
  <2>4. attempts' \in [Deliveries -> Nat] /\ due' \subseteq Deliveries
    BY <2>1, <2>2 DEF TypeOK, Write
  <2>5. /\ stage' \in [Processes -> Stages]
        /\ at' \in [Processes -> Deliveries \cup {None}]
        /\ result' \in [Processes -> Statuses \cup Outcomes \cup {None}]
    BY <1>9 DEF Reschedule, TypeOK, Go, Stages, Statuses, InFlight, Final
  <2> QED BY <1>9, <2>3, <2>4, <2>5 DEF Reschedule, TypeOK, history
<1>10. ASSUME NEW p \in Processes, NEW d \in Deliveries, TakeDue(p, d) PROVE TypeOK'
  BY <1>10, AggregateTyped, FinalStatusTyped, DeliveryAssumption
     DEF TakeDue, TypeOK, AtWork, Statuses, Final, InFlight, Stages, Tasks, Outcomes,
         Write, Go, Take, rowVars, procVars, history, vars
<1>11. ASSUME NEW p \in Processes, NEW d \in Deliveries, Recover(p, d) PROVE TypeOK'
  <2>1. /\ status' \in [Deliveries -> Statuses]
        /\ attempts' \in [Deliveries -> Nat]
        /\ due' \subseteq Deliveries
    BY <1>11 DEF Recover, TypeOK, Write, Statuses, InFlight, Final
  <2>2. \/ UNCHANGED <<stage, at, result>>
        \/ /\ stage' = [stage EXCEPT ![p] = "recorded"]
           /\ at' = [at EXCEPT ![p] = d]
           /\ result' = [result EXCEPT ![p] = "EXHAUSTED"]
    BY <1>11 DEF Recover, Go
  <2>3. stage' \in [Processes -> Stages]
    BY <2>2 DEF TypeOK, Stages
  <2>4. at' \in [Processes -> Deliveries \cup {None}]
    BY <2>2 DEF TypeOK
  <2>5. result' \in [Processes -> Statuses \cup Outcomes \cup {None}]
    BY <2>2 DEF TypeOK, Statuses, Final
  <2>6. todo' \in [Processes -> SUBSET Deliveries]
    BY <1>11 DEF Recover, TypeOK
  <2> QED BY <1>11, <2>1, <2>3, <2>5, <2>6, <2>4 DEF Recover, TypeOK, history
<1>12. ASSUME NEW p \in Processes, FindDue(p) PROVE TypeOK'
  BY <1>12, AggregateTyped, FinalStatusTyped, DeliveryAssumption
     DEF FindDue, TypeOK, AtWork, Statuses, Final, InFlight, Stages, Tasks, Outcomes,
         Write, Go, Take, rowVars, procVars, history, vars
<1>13. ASSUME NEW p \in Processes, FindStuck(p) PROVE TypeOK'
  BY <1>13, AggregateTyped, FinalStatusTyped, DeliveryAssumption
     DEF FindStuck, TypeOK, AtWork, Statuses, Final, InFlight, Stages, Tasks, Outcomes,
         Write, Go, Take, rowVars, procVars, history, vars
<1>14. ASSUME NEW p \in Processes, Crash(p) PROVE TypeOK'
  BY <1>14, AggregateTyped, FinalStatusTyped, DeliveryAssumption
     DEF Crash, TypeOK, AtWork, Statuses, Final, InFlight, Stages, Tasks, Outcomes,
         Write, Go, Take, rowVars, procVars, history, vars
<1>15. ASSUME NEW p \in Processes, NEW d \in Deliveries, Dispatch(p, d) PROVE TypeOK'
  BY <1>15, AggregateTyped, FinalStatusTyped, DeliveryAssumption
     DEF Dispatch, TypeOK, AtWork, Statuses, Final, InFlight, Stages, Tasks, Outcomes,
         Write, Go, Take, rowVars, procVars, history, vars
<1>16. ASSUME NEW p \in Processes, NEW d \in Deliveries, ScheduleRetry(p, d) PROVE TypeOK'
  BY <1>16, AggregateTyped, FinalStatusTyped, DeliveryAssumption
     DEF ScheduleRetry, TypeOK, AtWork, Statuses, Final, InFlight, Stages, Tasks, Outcomes,
         Write, Go, Take, rowVars, procVars, history, vars
<1>17. ASSUME NEW d \in Deliveries, BecomeDue(d) PROVE TypeOK'
  BY <1>17, AggregateTyped, FinalStatusTyped, DeliveryAssumption
     DEF BecomeDue, TypeOK, AtWork, Statuses, Final, InFlight, Stages, Tasks, Outcomes,
         Write, Go, Take, rowVars, procVars, history, vars
<1>18. ASSUME NEW d \in Deliveries, BecomeStale(d) PROVE TypeOK'
  BY <1>18, AggregateTyped, FinalStatusTyped, DeliveryAssumption
     DEF BecomeStale, TypeOK, AtWork, Statuses, Final, InFlight, Stages, Tasks, Outcomes,
         Write, Go, Take, rowVars, procVars, history, vars
<1>19. CASE UNCHANGED vars
  BY <1>19, AggregateTyped, FinalStatusTyped, DeliveryAssumption
     DEF TypeOK, AtWork, Statuses, Final, InFlight, Stages, Tasks, Outcomes,
         Write, Go, Take, rowVars, procVars, history, vars
<1> QED
  BY <1>1, <1>2, <1>3, <1>4, <1>5, <1>6, <1>7, <1>8, <1>9, <1>10, <1>11, <1>12,
     <1>13, <1>14, <1>15, <1>16, <1>17, <1>18, <1>19 DEF Next, Attempt

LEMMA WorkStep == TypeOK /\ AtWork /\ [Next]_vars => AtWork'
<1> SUFFICES ASSUME TypeOK, AtWork, [Next]_vars PROVE AtWork'
  OBVIOUS
<1>1. ASSUME NEW p \in Processes, Mark(p) PROVE AtWork'
  BY <1>1, AggregateTyped, DeliveryAssumption
     DEF Mark, TypeOK, AtWork, Write, Go, Take, rowVars, procVars, history, vars
<1>2. ASSUME NEW p \in Processes, FailToRender(p) PROVE AtWork'
  BY <1>2, AggregateTyped, DeliveryAssumption
     DEF FailToRender, TypeOK, AtWork, Write, Go, Take, rowVars, procVars, history, vars
<1>3. ASSUME NEW p \in Processes, NEW o \in Outcomes, Send(p, o) PROVE AtWork'
  BY <1>3, AggregateTyped, DeliveryAssumption
     DEF Send, TypeOK, AtWork, Write, Go, Take, rowVars, procVars, history, vars
<1>4. ASSUME NEW p \in Processes, Record(p) PROVE AtWork'
  BY <1>4, AggregateTyped, DeliveryAssumption
     DEF Record, TypeOK, AtWork, Write, Go, Take, rowVars, procVars, history, vars
<1>5. ASSUME NEW p \in Processes, AggregateStatuses(p) PROVE AtWork'
  BY <1>5, AggregateTyped, DeliveryAssumption
     DEF AggregateStatuses, TypeOK, AtWork, Write, Go, Take, rowVars, procVars, history, vars
<1>6. ASSUME NEW p \in Processes, WriteParent(p) PROVE AtWork'
  BY <1>6, AggregateTyped, DeliveryAssumption
     DEF WriteParent, TypeOK, AtWork, Write, Go, Take, rowVars, procVars, history, vars
<1>7. ASSUME NEW p \in Processes, Return(p) PROVE AtWork'
  BY <1>7, AggregateTyped, DeliveryAssumption
     DEF Return, TypeOK, AtWork, Write, Go, Take, rowVars, procVars, history, vars
<1>8. ASSUME NEW p \in Processes, DispatchTaken(p) PROVE AtWork'
  BY <1>8, AggregateTyped, DeliveryAssumption
     DEF DispatchTaken, TypeOK, AtWork, Write, Go, Take, rowVars, procVars, history, vars
<1>9. ASSUME NEW p \in Processes, Reschedule(p) PROVE AtWork'
  BY <1>9, AggregateTyped, DeliveryAssumption
     DEF Reschedule, TypeOK, AtWork, Write, Go, Take, rowVars, procVars, history, vars
<1>10. ASSUME NEW p \in Processes, NEW d \in Deliveries, TakeDue(p, d) PROVE AtWork'
  BY <1>10, AggregateTyped, DeliveryAssumption
     DEF TakeDue, TypeOK, AtWork, Write, Go, Take, rowVars, procVars, history, vars
<1>11. ASSUME NEW p \in Processes, NEW d \in Deliveries, Recover(p, d) PROVE AtWork'
  BY <1>11, AggregateTyped, DeliveryAssumption
     DEF Recover, TypeOK, AtWork, Write, Go, Take, rowVars, procVars, history, vars
<1>12. ASSUME NEW p \in Processes, FindDue(p) PROVE AtWork'
  BY <1>12, AggregateTyped, DeliveryAssumption
     DEF FindDue, TypeOK, AtWork, Write, Go, Take, rowVars, procVars, history, vars
<1>13. ASSUME NEW p \in Processes, FindStuck(p) PROVE AtWork'
  BY <1>13, AggregateTyped, DeliveryAssumption
     DEF FindStuck, TypeOK, AtWork, Write, Go, Take, rowVars, procVars, history, vars
<1>14. ASSUME NEW p \in Processes, Crash(p) PROVE AtWork'
  BY <1>14, AggregateTyped, DeliveryAssumption
     DEF Crash, TypeOK, AtWork, Write, Go, Take, rowVars, procVars, history, vars
<1>15. ASSUME NEW p \in Processes, NEW d \in Deliveries, Dispatch(p, d) PROVE AtWork'
  BY <1>15, AggregateTyped, DeliveryAssumption
     DEF Dispatch, TypeOK, AtWork, Write, Go, Take, rowVars, procVars, history, vars
<1>16. ASSUME NEW p \in Processes, NEW d \in Deliveries, ScheduleRetry(p, d) PROVE AtWork'
  BY <1>16, AggregateTyped, DeliveryAssumption
     DEF ScheduleRetry, TypeOK, AtWork, Write, Go, Take, rowVars, procVars, history, vars
<1>17. ASSUME NEW d \in Deliveries, BecomeDue(d) PROVE AtWork'
  BY <1>17, AggregateTyped, DeliveryAssumption
     DEF BecomeDue, TypeOK, AtWork, Write, Go, Take, rowVars, procVars, history, vars
<1>18. ASSUME NEW d \in Deliveries, BecomeStale(d) PROVE AtWork'
  BY <1>18, AggregateTyped, DeliveryAssumption
     DEF BecomeStale, TypeOK, AtWork, Write, Go, Take, rowVars, procVars, history, vars
<1>19. CASE UNCHANGED vars
  BY <1>19, AggregateTyped, DeliveryAssumption
     DEF TypeOK, AtWork, Write, Go, Take, rowVars, procVars, history, vars
<1> QED
  BY <1>1, <1>2, <1>3, <1>4, <1>5, <1>6, <1>7, <1>8, <1>9, <1>10, <1>11, <1>12,
     <1>13, <1>14, <1>15, <1>16, <1>17, <1>18, <1>19 DEF Next, Attempt

LEMMA HandStep == TypeOK /\ AtWork /\ OneHand /\ [Next]_vars => OneHand'
<1> SUFFICES ASSUME TypeOK, AtWork, OneHand, [Next]_vars PROVE OneHand'
  OBVIOUS
<1>1. ASSUME NEW p \in Processes, Mark(p) PROVE OneHand'
  BY <1>1, DeliveryAssumption
     DEF Mark, TypeOK, AtWork, OneHand, Has,
         Write, Go, Take, rowVars, procVars, history, vars
<1>2. ASSUME NEW p \in Processes, FailToRender(p) PROVE OneHand'
  BY <1>2, DeliveryAssumption
     DEF FailToRender, TypeOK, AtWork, OneHand, Has,
         Write, Go, Take, rowVars, procVars, history, vars
<1>3. ASSUME NEW p \in Processes, NEW o \in Outcomes, Send(p, o) PROVE OneHand'
  BY <1>3, DeliveryAssumption
     DEF Send, TypeOK, AtWork, OneHand, Has,
         Write, Go, Take, rowVars, procVars, history, vars
<1>4. ASSUME NEW p \in Processes, Record(p) PROVE OneHand'
  BY <1>4, DeliveryAssumption
     DEF Record, TypeOK, AtWork, OneHand, Has,
         Write, Go, Take, rowVars, procVars, history, vars
<1>5. ASSUME NEW p \in Processes, AggregateStatuses(p) PROVE OneHand'
  BY <1>5, DeliveryAssumption
     DEF AggregateStatuses, TypeOK, AtWork, OneHand, Has,
         Write, Go, Take, rowVars, procVars, history, vars
<1>6. ASSUME NEW p \in Processes, WriteParent(p) PROVE OneHand'
  BY <1>6, DeliveryAssumption
     DEF WriteParent, TypeOK, AtWork, OneHand, Has,
         Write, Go, Take, rowVars, procVars, history, vars
<1>7. ASSUME NEW p \in Processes, Return(p) PROVE OneHand'
  BY <1>7, DeliveryAssumption
     DEF Return, TypeOK, AtWork, OneHand, Has,
         Write, Go, Take, rowVars, procVars, history, vars
<1>8. ASSUME NEW p \in Processes, DispatchTaken(p) PROVE OneHand'
  BY <1>8, DeliveryAssumption
     DEF DispatchTaken, TypeOK, AtWork, OneHand, Has,
         Write, Go, Take, rowVars, procVars, history, vars
<1>9. ASSUME NEW p \in Processes, Reschedule(p) PROVE OneHand'
  BY <1>9, DeliveryAssumption
     DEF Reschedule, TypeOK, AtWork, OneHand, Has,
         Write, Go, Take, rowVars, procVars, history, vars
<1>10. ASSUME NEW p \in Processes, NEW d \in Deliveries, TakeDue(p, d) PROVE OneHand'
  BY <1>10, DeliveryAssumption
     DEF TakeDue, TypeOK, AtWork, OneHand, Has,
         Write, Go, Take, rowVars, procVars, history, vars
<1>11. ASSUME NEW p \in Processes, NEW d \in Deliveries, Recover(p, d) PROVE OneHand'
  BY <1>11, DeliveryAssumption
     DEF Recover, TypeOK, AtWork, OneHand, Has,
         Write, Go, Take, rowVars, procVars, history, vars
<1>12. ASSUME NEW p \in Processes, FindDue(p) PROVE OneHand'
  BY <1>12, DeliveryAssumption
     DEF FindDue, TypeOK, AtWork, OneHand, Has,
         Write, Go, Take, rowVars, procVars, history, vars
<1>13. ASSUME NEW p \in Processes, FindStuck(p) PROVE OneHand'
  BY <1>13, DeliveryAssumption
     DEF FindStuck, TypeOK, AtWork, OneHand, Has,
         Write, Go, Take, rowVars, procVars, history, vars
<1>14. ASSUME NEW p \in Processes, Crash(p) PROVE OneHand'
  BY <1>14, DeliveryAssumption
     DEF Crash, TypeOK, AtWork, OneHand, Has,
         Write, Go, Take, rowVars, procVars, history, vars
<1>15. ASSUME NEW p \in Processes, NEW d \in Deliveries, Dispatch(p, d) PROVE OneHand'
  BY <1>15, DeliveryAssumption
     DEF Dispatch, TypeOK, AtWork, OneHand, Has,
         Write, Go, Take, rowVars, procVars, history, vars
<1>16. ASSUME NEW p \in Processes, NEW d \in Deliveries, ScheduleRetry(p, d) PROVE OneHand'
  BY <1>16, DeliveryAssumption
     DEF ScheduleRetry, TypeOK, AtWork, OneHand, Has,
         Write, Go, Take, rowVars, procVars, history, vars
<1>17. ASSUME NEW d \in Deliveries, BecomeDue(d) PROVE OneHand'
  BY <1>17, DeliveryAssumption
     DEF BecomeDue, TypeOK, AtWork, OneHand, Has,
         Write, Go, Take, rowVars, procVars, history, vars
<1>18. ASSUME NEW d \in Deliveries, BecomeStale(d) PROVE OneHand'
  BY <1>18, DeliveryAssumption
     DEF BecomeStale, TypeOK, AtWork, OneHand, Has,
         Write, Go, Take, rowVars, procVars, history, vars
<1>19. CASE UNCHANGED vars
  BY <1>19, DeliveryAssumption
     DEF TypeOK, AtWork, OneHand, Has,
         Write, Go, Take, rowVars, procVars, history, vars
<1> QED
  BY <1>1, <1>2, <1>3, <1>4, <1>5, <1>6, <1>7, <1>8, <1>9, <1>10, <1>11, <1>12,
     <1>13, <1>14, <1>15, <1>16, <1>17, <1>18, <1>19 DEF Next, Attempt

LEMMA KnowStep == TypeOK /\ AtWork /\ OneHand /\ Knows /\ [Next]_vars => Knows'
<1> SUFFICES ASSUME TypeOK, AtWork, OneHand, Knows, [Next]_vars PROVE Knows'
  OBVIOUS
<1>1. ASSUME NEW p \in Processes, Mark(p) PROVE Knows'
  BY <1>1 DEF Mark, TypeOK, AtWork, OneHand, Has, Knows, KnowsRow,
         Write, Go, Take, rowVars, procVars, history, vars
<1>2. ASSUME NEW p \in Processes, FailToRender(p) PROVE Knows'
  BY <1>2 DEF FailToRender, TypeOK, AtWork, OneHand, Has, Knows, KnowsRow,
         Write, Go, Take, rowVars, procVars, history, vars
<1>3. ASSUME NEW p \in Processes, NEW o \in Outcomes, Send(p, o) PROVE Knows'
  BY <1>3 DEF Send, TypeOK, AtWork, OneHand, Has, Knows, KnowsRow,
         Write, Go, Take, rowVars, procVars, history, vars
<1>4. ASSUME NEW p \in Processes, Record(p) PROVE Knows'
  BY <1>4 DEF Record, TypeOK, AtWork, OneHand, Has, Knows, KnowsRow,
         Write, Go, Take, rowVars, procVars, history, vars
<1>5. ASSUME NEW p \in Processes, AggregateStatuses(p) PROVE Knows'
  BY <1>5 DEF AggregateStatuses, TypeOK, AtWork, OneHand, Has, Knows, KnowsRow,
         Write, Go, Take, rowVars, procVars, history, vars
<1>6. ASSUME NEW p \in Processes, WriteParent(p) PROVE Knows'
  BY <1>6 DEF WriteParent, TypeOK, AtWork, OneHand, Has, Knows, KnowsRow,
         Write, Go, Take, rowVars, procVars, history, vars
<1>7. ASSUME NEW p \in Processes, Return(p) PROVE Knows'
  BY <1>7 DEF Return, TypeOK, AtWork, OneHand, Has, Knows, KnowsRow,
         Write, Go, Take, rowVars, procVars, history, vars
<1>8. ASSUME NEW p \in Processes, DispatchTaken(p) PROVE Knows'
  BY <1>8 DEF DispatchTaken, TypeOK, AtWork, OneHand, Has, Knows, KnowsRow,
         Write, Go, Take, rowVars, procVars, history, vars
<1>9. ASSUME NEW p \in Processes, Reschedule(p) PROVE Knows'
  BY <1>9 DEF Reschedule, TypeOK, AtWork, OneHand, Has, Knows, KnowsRow,
         Write, Go, Take, rowVars, procVars, history, vars
<1>10. ASSUME NEW p \in Processes, NEW d \in Deliveries, TakeDue(p, d) PROVE Knows'
  BY <1>10 DEF TakeDue, TypeOK, AtWork, OneHand, Has, Knows, KnowsRow,
         Write, Go, Take, rowVars, procVars, history, vars
<1>11. ASSUME NEW p \in Processes, NEW d \in Deliveries, Recover(p, d) PROVE Knows'
  BY <1>11 DEF Recover, TypeOK, AtWork, OneHand, Has, Knows, KnowsRow,
         Write, Go, Take, rowVars, procVars, history, vars
<1>12. ASSUME NEW p \in Processes, FindDue(p) PROVE Knows'
  BY <1>12 DEF FindDue, TypeOK, AtWork, OneHand, Has, Knows, KnowsRow,
         Write, Go, Take, rowVars, procVars, history, vars
<1>13. ASSUME NEW p \in Processes, FindStuck(p) PROVE Knows'
  BY <1>13 DEF FindStuck, TypeOK, AtWork, OneHand, Has, Knows, KnowsRow,
         Write, Go, Take, rowVars, procVars, history, vars
<1>14. ASSUME NEW p \in Processes, Crash(p) PROVE Knows'
  BY <1>14 DEF Crash, TypeOK, AtWork, OneHand, Has, Knows, KnowsRow,
         Write, Go, Take, rowVars, procVars, history, vars
<1>15. ASSUME NEW p \in Processes, NEW d \in Deliveries, Dispatch(p, d) PROVE Knows'
  BY <1>15 DEF Dispatch, TypeOK, AtWork, OneHand, Has, Knows, KnowsRow,
         Write, Go, Take, rowVars, procVars, history, vars
<1>16. ASSUME NEW p \in Processes, NEW d \in Deliveries, ScheduleRetry(p, d) PROVE Knows'
  BY <1>16 DEF ScheduleRetry, TypeOK, AtWork, OneHand, Has, Knows, KnowsRow,
         Write, Go, Take, rowVars, procVars, history, vars
<1>17. ASSUME NEW d \in Deliveries, BecomeDue(d) PROVE Knows'
  BY <1>17 DEF BecomeDue, TypeOK, AtWork, OneHand, Has, Knows, KnowsRow,
         Write, Go, Take, rowVars, procVars, history, vars
<1>18. ASSUME NEW d \in Deliveries, BecomeStale(d) PROVE Knows'
  BY <1>18 DEF BecomeStale, TypeOK, AtWork, OneHand, Has, Knows, KnowsRow,
         Write, Go, Take, rowVars, procVars, history, vars
<1>19. CASE UNCHANGED vars
  BY <1>19 DEF TypeOK, AtWork, OneHand, Has, Knows, KnowsRow,
         Write, Go, Take, rowVars, procVars, history, vars
<1> QED
  BY <1>1, <1>2, <1>3, <1>4, <1>5, <1>6, <1>7, <1>8, <1>9, <1>10, <1>11, <1>12,
     <1>13, <1>14, <1>15, <1>16, <1>17, <1>18, <1>19 DEF Next, Attempt

\* Steps that send nothing and crash nothing keep the count.
LEMMA CountKept ==
  ASSUME TypeOK, TypeOK', Counted, overlapped \subseteq overlapped',
         UNCHANGED <<accepted, crashes>>,
         \A x \in Deliveries \ overlapped : attempts'[x] >= attempts[x],
         \A x \in Deliveries \ overlapped : Answered(x) => Answered(x)'
  PROVE  Counted'
<1> SUFFICES ASSUME NEW x \in Deliveries \ overlapped'
             PROVE  accepted'[x] <= attempts'[x] + crashes' + (IF Answered(x)' THEN 1 ELSE 0)
  BY DEF Counted
<1>1. accepted[x] <= attempts[x] + crashes + (IF Answered(x) THEN 1 ELSE 0)
  BY DEF Counted
<1> QED BY <1>1 DEF TypeOK

LEMMA CountStep == TypeOK /\ AtWork /\ OneHand /\ Knows /\ Counted /\ [Next]_vars => Counted'
<1> SUFFICES ASSUME TypeOK, AtWork, OneHand, Knows, Counted, [Next]_vars PROVE Counted'
  OBVIOUS
<1>0. TypeOK'
  BY TypeStep
<1>1. ASSUME NEW p \in Processes, Mark(p) PROVE Counted'
  <2>1. overlapped \subseteq overlapped' /\ UNCHANGED <<accepted, crashes>>
    BY <1>1 DEF Mark, TypeOK, Take, rowVars, procVars, history, vars
  <2>2. \A x \in Deliveries \ overlapped : attempts'[x] >= attempts[x]
    BY <1>1 DEF Mark, TypeOK, AtWork, Knows, KnowsRow, Write, rowVars, procVars, history, vars
  <2>3. \A x \in Deliveries \ overlapped : Answered(x) => Answered(x)'
    BY <1>1 DEF Mark, TypeOK, AtWork, Answered, Go, rowVars, procVars, history, vars
  <2> QED BY <1>0, <2>1, <2>2, <2>3, CountKept
<1>2. ASSUME NEW p \in Processes, FailToRender(p) PROVE Counted'
  <2>1. overlapped \subseteq overlapped' /\ UNCHANGED <<accepted, crashes>>
    BY <1>2 DEF FailToRender, TypeOK, Take, rowVars, procVars, history, vars
  <2>2. \A x \in Deliveries \ overlapped : attempts'[x] >= attempts[x]
    BY <1>2 DEF FailToRender, TypeOK, AtWork, Knows, KnowsRow, Write, rowVars, procVars, history, vars
  <2>3. \A x \in Deliveries \ overlapped : Answered(x) => Answered(x)'
    BY <1>2 DEF FailToRender, TypeOK, AtWork, Answered, Go, rowVars, procVars, history, vars
  <2> QED BY <1>0, <2>1, <2>2, <2>3, CountKept
<1>3. ASSUME NEW p \in Processes, NEW o \in Outcomes, Send(p, o) PROVE Counted'
  <2>1. /\ UNCHANGED <<attempts, crashes, overlapped>>
        /\ at[p] \in Deliveries /\ stage[p] = "marked"
        /\ accepted' \in {accepted, [accepted EXCEPT ![at[p]] = @ + 1]}
    BY <1>3 DEF Send, TypeOK, AtWork, history
  <2> SUFFICES ASSUME NEW x \in Deliveries \ overlapped
               PROVE  accepted'[x] <= attempts[x] + crashes + (IF Answered(x)' THEN 1 ELSE 0)
    BY <2>1 DEF Counted
  <2>2. x = at[p] => ~Answered(x)
    BY <2>1 DEF Answered, OneHand, Has
  <2>3. (x = at[p] => Answered(x)') /\ (Answered(x) => Answered(x)')
    BY <1>3 DEF Send, TypeOK, Answered, Go
  <2>4. accepted[x] <= attempts[x] + crashes + (IF Answered(x) THEN 1 ELSE 0)
    BY DEF Counted
  <2>5. accepted'[x] \in {accepted[x], accepted[x] + 1} /\ accepted[x] \in Nat
        /\ attempts[x] \in Nat /\ crashes \in Nat
    BY <2>1, DeliveryAssumption DEF TypeOK
  <2>6. CASE x = at[p]
    <3>1. ~Answered(x) /\ Answered(x)'
      BY <2>2, <2>3, <2>6
    <3> QED BY <2>4, <2>5, <3>1
  <2>7. CASE x # at[p]
    BY <2>1, <2>3, <2>4, <2>7 DEF TypeOK
  <2> QED BY <2>6, <2>7
<1>4. ASSUME NEW p \in Processes, Record(p) PROVE Counted'
  <2>1. /\ UNCHANGED <<accepted, crashes, overlapped>> /\ at[p] \in Deliveries
        /\ \A x \in Deliveries \ {at[p]} : attempts'[x] = attempts[x]
        /\ at[p] \notin overlapped => attempts'[at[p]] = attempts[at[p]] + 1
    BY <1>4, DeliveryAssumption DEF Record, TypeOK, AtWork, Knows, KnowsRow, Write, history
  <2>2. \A x \in Deliveries \ {at[p]} : Answered(x) => Answered(x)'
    BY <1>4 DEF Record, TypeOK, Answered, Go
  <2> SUFFICES ASSUME NEW x \in Deliveries \ overlapped
               PROVE  accepted[x] <= attempts'[x] + crashes + (IF Answered(x)' THEN 1 ELSE 0)
    BY <2>1 DEF Counted
  <2>3. accepted[x] <= attempts[x] + crashes + (IF Answered(x) THEN 1 ELSE 0)
    BY DEF Counted
  <2> QED BY <2>1, <2>2, <2>3 DEF TypeOK
<1>5. ASSUME NEW p \in Processes, AggregateStatuses(p) PROVE Counted'
  <2>1. overlapped \subseteq overlapped' /\ UNCHANGED <<accepted, crashes>>
    BY <1>5 DEF AggregateStatuses, TypeOK, Take, rowVars, procVars, history, vars
  <2>2. \A x \in Deliveries \ overlapped : attempts'[x] >= attempts[x]
    BY <1>5 DEF AggregateStatuses, TypeOK, AtWork, Knows, KnowsRow, Write, rowVars, procVars, history, vars
  <2>3. \A x \in Deliveries \ overlapped : Answered(x) => Answered(x)'
    BY <1>5 DEF AggregateStatuses, TypeOK, AtWork, Answered, Go, rowVars, procVars, history, vars
  <2> QED BY <1>0, <2>1, <2>2, <2>3, CountKept
<1>6. ASSUME NEW p \in Processes, WriteParent(p) PROVE Counted'
  <2>1. overlapped \subseteq overlapped' /\ UNCHANGED <<accepted, crashes>>
    BY <1>6 DEF WriteParent, TypeOK, Take, rowVars, procVars, history, vars
  <2>2. \A x \in Deliveries \ overlapped : attempts'[x] >= attempts[x]
    BY <1>6 DEF WriteParent, TypeOK, AtWork, Knows, KnowsRow, Write, rowVars, procVars, history, vars
  <2>3. \A x \in Deliveries \ overlapped : Answered(x) => Answered(x)'
    BY <1>6 DEF WriteParent, TypeOK, AtWork, Answered, Go, rowVars, procVars, history, vars
  <2> QED BY <1>0, <2>1, <2>2, <2>3, CountKept
<1>7. ASSUME NEW p \in Processes, Return(p) PROVE Counted'
  <2>1. overlapped \subseteq overlapped' /\ UNCHANGED <<accepted, crashes>>
    BY <1>7 DEF Return, TypeOK, Take, rowVars, procVars, history, vars
  <2>2. \A x \in Deliveries \ overlapped : attempts'[x] >= attempts[x]
    BY <1>7 DEF Return, TypeOK, AtWork, Knows, KnowsRow, Write, rowVars, procVars, history, vars
  <2>3. \A x \in Deliveries \ overlapped : Answered(x) => Answered(x)'
    BY <1>7 DEF Return, TypeOK, AtWork, Answered, Go, rowVars, procVars, history, vars
  <2> QED BY <1>0, <2>1, <2>2, <2>3, CountKept
<1>8. ASSUME NEW p \in Processes, DispatchTaken(p) PROVE Counted'
  <2>1. overlapped \subseteq overlapped' /\ UNCHANGED <<accepted, crashes>>
    BY <1>8 DEF DispatchTaken, TypeOK, Take, rowVars, procVars, history, vars
  <2>2. \A x \in Deliveries \ overlapped : attempts'[x] >= attempts[x]
    BY <1>8 DEF DispatchTaken, TypeOK, AtWork, Knows, KnowsRow, Write, rowVars, procVars, history, vars
  <2>3. \A x \in Deliveries \ overlapped : Answered(x) => Answered(x)'
    BY <1>8 DEF DispatchTaken, TypeOK, AtWork, Answered, Go, rowVars, procVars, history, vars
  <2> QED BY <1>0, <2>1, <2>2, <2>3, CountKept
<1>9. ASSUME NEW p \in Processes, Reschedule(p) PROVE Counted'
  <2>1. overlapped \subseteq overlapped' /\ UNCHANGED <<accepted, crashes>>
    BY <1>9 DEF Reschedule, TypeOK, Take, rowVars, procVars, history, vars
  <2>2. \A x \in Deliveries \ overlapped : attempts'[x] >= attempts[x]
    BY <1>9 DEF Reschedule, TypeOK, AtWork, Knows, KnowsRow, Write, rowVars, procVars, history, vars
  <2>3. \A x \in Deliveries \ overlapped : Answered(x) => Answered(x)'
    BY <1>9 DEF Reschedule, TypeOK, AtWork, Answered, Go, rowVars, procVars, history, vars
  <2> QED BY <1>0, <2>1, <2>2, <2>3, CountKept
<1>10. ASSUME NEW p \in Processes, NEW d \in Deliveries, TakeDue(p, d) PROVE Counted'
  <2>1. overlapped \subseteq overlapped' /\ UNCHANGED <<accepted, crashes>>
    BY <1>10 DEF TakeDue, TypeOK, Take, rowVars, procVars, history, vars
  <2>2. \A x \in Deliveries \ overlapped : attempts'[x] >= attempts[x]
    BY <1>10 DEF TakeDue, TypeOK, AtWork, Knows, KnowsRow, Write, rowVars, procVars, history, vars
  <2>3. \A x \in Deliveries \ overlapped : Answered(x) => Answered(x)'
    BY <1>10 DEF TakeDue, TypeOK, AtWork, Answered, Go, rowVars, procVars, history, vars
  <2> QED BY <1>0, <2>1, <2>2, <2>3, CountKept
<1>11. ASSUME NEW p \in Processes, NEW d \in Deliveries, Recover(p, d) PROVE Counted'
  <2>1. overlapped \subseteq overlapped' /\ UNCHANGED <<accepted, crashes>>
    BY <1>11 DEF Recover, TypeOK, Take, rowVars, procVars, history, vars
  <2>2. \A x \in Deliveries \ overlapped : attempts'[x] >= attempts[x]
    BY <1>11 DEF Recover, TypeOK, AtWork, Knows, KnowsRow, Write, rowVars, procVars, history, vars
  <2>3. \A x \in Deliveries \ overlapped : Answered(x) => Answered(x)'
    BY <1>11 DEF Recover, TypeOK, AtWork, Answered, Go, rowVars, procVars, history, vars
  <2> QED BY <1>0, <2>1, <2>2, <2>3, CountKept
<1>12. ASSUME NEW p \in Processes, FindDue(p) PROVE Counted'
  <2>1. overlapped \subseteq overlapped' /\ UNCHANGED <<accepted, crashes>>
    BY <1>12 DEF FindDue, TypeOK, Take, rowVars, procVars, history, vars
  <2>2. \A x \in Deliveries \ overlapped : attempts'[x] >= attempts[x]
    BY <1>12 DEF FindDue, TypeOK, AtWork, Knows, KnowsRow, Write, rowVars, procVars, history, vars
  <2>3. \A x \in Deliveries \ overlapped : Answered(x) => Answered(x)'
    BY <1>12 DEF FindDue, TypeOK, AtWork, Answered, Go, rowVars, procVars, history, vars
  <2> QED BY <1>0, <2>1, <2>2, <2>3, CountKept
<1>13. ASSUME NEW p \in Processes, FindStuck(p) PROVE Counted'
  <2>1. overlapped \subseteq overlapped' /\ UNCHANGED <<accepted, crashes>>
    BY <1>13 DEF FindStuck, TypeOK, Take, rowVars, procVars, history, vars
  <2>2. \A x \in Deliveries \ overlapped : attempts'[x] >= attempts[x]
    BY <1>13 DEF FindStuck, TypeOK, AtWork, Knows, KnowsRow, Write, rowVars, procVars, history, vars
  <2>3. \A x \in Deliveries \ overlapped : Answered(x) => Answered(x)'
    BY <1>13 DEF FindStuck, TypeOK, AtWork, Answered, Go, rowVars, procVars, history, vars
  <2> QED BY <1>0, <2>1, <2>2, <2>3, CountKept
<1>14. ASSUME NEW p \in Processes, Crash(p) PROVE Counted'
  <2>1. UNCHANGED <<accepted, attempts, overlapped>> /\ crashes' = crashes + 1
    BY <1>14 DEF Crash, rowVars
  <2> SUFFICES ASSUME NEW x \in Deliveries \ overlapped
               PROVE  accepted'[x] <= attempts'[x] + crashes' + (IF Answered(x)' THEN 1 ELSE 0)
    BY <2>1 DEF Counted
  <2>2. accepted[x] <= attempts[x] + crashes + (IF Answered(x) THEN 1 ELSE 0)
    BY DEF Counted
  <2>3. crashes \in Nat /\ attempts[x] \in Nat /\ accepted[x] \in Nat
    BY DeliveryAssumption DEF TypeOK
  <2> QED BY <2>1, <2>2, <2>3
<1>15. ASSUME NEW p \in Processes, NEW d \in Deliveries, Dispatch(p, d) PROVE Counted'
  <2>1. overlapped \subseteq overlapped' /\ UNCHANGED <<accepted, crashes>>
    BY <1>15 DEF Dispatch, TypeOK, Take, rowVars, procVars, history, vars
  <2>2. \A x \in Deliveries \ overlapped : attempts'[x] >= attempts[x]
    BY <1>15 DEF Dispatch, TypeOK, AtWork, Knows, KnowsRow, Write, rowVars, procVars, history, vars
  <2>3. \A x \in Deliveries \ overlapped : Answered(x) => Answered(x)'
    BY <1>15 DEF Dispatch, TypeOK, AtWork, Answered, Go, rowVars, procVars, history, vars
  <2> QED BY <1>0, <2>1, <2>2, <2>3, CountKept
<1>16. ASSUME NEW p \in Processes, NEW d \in Deliveries, ScheduleRetry(p, d) PROVE Counted'
  <2>1. overlapped \subseteq overlapped' /\ UNCHANGED <<accepted, crashes>>
    BY <1>16 DEF ScheduleRetry, TypeOK, Take, rowVars, procVars, history, vars
  <2>2. \A x \in Deliveries \ overlapped : attempts'[x] >= attempts[x]
    BY <1>16 DEF ScheduleRetry, TypeOK, AtWork, Knows, KnowsRow, Write, rowVars, procVars, history, vars
  <2>3. \A x \in Deliveries \ overlapped : Answered(x) => Answered(x)'
    BY <1>16 DEF ScheduleRetry, TypeOK, AtWork, Answered, Go, rowVars, procVars, history, vars
  <2> QED BY <1>0, <2>1, <2>2, <2>3, CountKept
<1>17. ASSUME NEW d \in Deliveries, BecomeDue(d) PROVE Counted'
  <2>1. overlapped \subseteq overlapped' /\ UNCHANGED <<accepted, crashes>>
    BY <1>17 DEF BecomeDue, TypeOK, Take, rowVars, procVars, history, vars
  <2>2. \A x \in Deliveries \ overlapped : attempts'[x] >= attempts[x]
    BY <1>17 DEF BecomeDue, TypeOK, AtWork, Knows, KnowsRow, Write, rowVars, procVars, history, vars
  <2>3. \A x \in Deliveries \ overlapped : Answered(x) => Answered(x)'
    BY <1>17 DEF BecomeDue, TypeOK, AtWork, Answered, Go, rowVars, procVars, history, vars
  <2> QED BY <1>0, <2>1, <2>2, <2>3, CountKept
<1>18. ASSUME NEW d \in Deliveries, BecomeStale(d) PROVE Counted'
  <2>1. overlapped \subseteq overlapped' /\ UNCHANGED <<accepted, crashes>>
    BY <1>18 DEF BecomeStale, TypeOK, Take, rowVars, procVars, history, vars
  <2>2. \A x \in Deliveries \ overlapped : attempts'[x] >= attempts[x]
    BY <1>18 DEF BecomeStale, TypeOK, AtWork, Knows, KnowsRow, Write, rowVars, procVars, history, vars
  <2>3. \A x \in Deliveries \ overlapped : Answered(x) => Answered(x)'
    BY <1>18 DEF BecomeStale, TypeOK, AtWork, Answered, Go, rowVars, procVars, history, vars
  <2> QED BY <1>0, <2>1, <2>2, <2>3, CountKept
<1>19. CASE UNCHANGED vars
  <2>1. overlapped \subseteq overlapped' /\ UNCHANGED <<accepted, crashes>>
    BY <1>19 DEF TypeOK, Take, rowVars, procVars, history, vars
  <2>2. \A x \in Deliveries \ overlapped : attempts'[x] >= attempts[x]
    BY <1>19 DEF TypeOK, AtWork, Knows, KnowsRow, Write, rowVars, procVars, history, vars
  <2>3. \A x \in Deliveries \ overlapped : Answered(x) => Answered(x)'
    BY <1>19 DEF TypeOK, AtWork, Answered, Go, rowVars, procVars, history, vars
  <2> QED BY <1>0, <2>1, <2>2, <2>3, CountKept
<1> QED
  BY <1>1, <1>2, <1>3, <1>4, <1>5, <1>6, <1>7, <1>8, <1>9, <1>10, <1>11, <1>12,
     <1>13, <1>14, <1>15, <1>16, <1>17, <1>18, <1>19 DEF Next, Attempt

LEMMA StepKeeps == IInv /\ [Next]_vars => IInv'
BY TypeStep, WorkStep, HandStep, KnowStep, CountStep DEF IInv

\* What two processes had in hand at once is remembered.
LEMMA OverlapsGrow == [Next]_vars => overlapped \subseteq overlapped'
<1> SUFFICES ASSUME [Next]_vars PROVE overlapped \subseteq overlapped'
  OBVIOUS
<1>1. ASSUME NEW p \in Processes, Attempt(p) PROVE UNCHANGED overlapped
  <2>1. CASE Mark(p) \/ FailToRender(p) \/ (\E o \in Outcomes : Send(p, o)) \/ Record(p)
    BY <2>1 DEF Mark, FailToRender, Send, Record, history
  <2>2. CASE AggregateStatuses(p) \/ WriteParent(p) \/ Return(p)
    BY <2>2 DEF AggregateStatuses, WriteParent, Return, history
  <2>3. CASE \/ DispatchTaken(p) \/ Reschedule(p)
             \/ \E d \in Deliveries : TakeDue(p, d) \/ Recover(p, d)
    BY <2>3 DEF DispatchTaken, Reschedule, TakeDue, Recover, history
  <2> QED BY <1>1, <2>1, <2>2, <2>3 DEF Attempt
<1>2. ASSUME NEW p \in Processes,
             FindDue(p) \/ FindStuck(p) \/ \E d \in Deliveries : Dispatch(p, d) \/ ScheduleRetry(p, d)
      PROVE  overlapped \subseteq overlapped'
  BY <1>2 DEF FindDue, FindStuck, Dispatch, ScheduleRetry, Take
<1>3. ASSUME \/ \E p \in Processes : Crash(p)
             \/ \E d \in Deliveries : BecomeDue(d) \/ BecomeStale(d)
             \/ UNCHANGED vars
      PROVE  UNCHANGED overlapped
  BY <1>3 DEF Crash, BecomeDue, BecomeStale, vars, history
<1> QED BY <1>1, <1>2, <1>3 DEF Next

-----------------------------------------------------------------------------
(* The status of the notification. *)

LEMMA LatestKept ==
  ASSUME Latest,
         UNCHANGED <<status, attempts, parent, verdict, crossed, crashes>>,
         \A q \in Processes : /\ stage[q] = "recorded" <=> stage'[q] = "recorded"
                              /\ stage[q] = "aggregated" <=> stage'[q] = "aggregated"
  PROVE  Latest'
<1>1. Ended' => Ended
  BY DEF Ended, Settled
<1>2. \A q \in Processes : Holding(q)' <=> Holding(q)
  BY DEF Holding
<1> QED BY <1>1, <1>2 DEF Latest

\* Whoever changes a delivery that is settled, or settles it, has yet to look at all.
LEMMA UnderWay ==
  ASSUME NEW p \in Processes, TypeOK, AtWork,
         \/ Mark(p) \/ FailToRender(p) \/ Record(p)
         \/ \E d \in Deliveries : TakeDue(p, d) \/ Recover(p, d)
  PROVE  Latest'
<1>1. stage[p] # "idle" => at[p] \in Deliveries
  BY DEF TypeOK, AtWork
<1>2. CASE Mark(p)
  <2>1. at[p] \in Deliveries /\ status'[at[p]] = "PROCESSING"
    BY <1>1, <1>2 DEF Mark, Write, TypeOK
  <2> QED BY <2>1 DEF Latest, Ended, Settled, InFlight
<1>3. CASE FailToRender(p) \/ Record(p)
  <2>1. stage'[p] = "recorded"
    BY <1>3 DEF FailToRender, Record, Go, TypeOK
  <2> QED BY <2>1 DEF Latest, Ended
<1>4. ASSUME NEW d \in Deliveries, TakeDue(p, d) PROVE Latest'
  <2>1. status'[d] = "PENDING"
    BY <1>4 DEF TakeDue, Write, TypeOK
  <2> QED BY <2>1 DEF Latest, Ended, Settled, InFlight
<1>5. ASSUME NEW d \in Deliveries, Recover(p, d) PROVE Latest'
  <2>1. CASE seen[p][d] >= MaxAttempts
    <3>1. stage'[p] = "recorded"
      BY <1>5, <2>1 DEF Recover, Go, TypeOK
    <3> QED BY <3>1 DEF Latest, Ended
  <2>2. CASE ~(seen[p][d] >= MaxAttempts)
    <3>1. status'[d] = "PENDING_RETRY"
      BY <1>5, <2>2 DEF Recover, Write, TypeOK
    <3> QED BY <3>1 DEF Latest, Ended, Settled, InFlight
  <2> QED BY <2>1, <2>2
<1> QED BY <1>2, <1>3, <1>4, <1>5

LEMMA RescheduleKeepsLatest ==
  ASSUME NEW p \in Processes, TypeOK, AtWork, Latest, Reschedule(p)
  PROVE  Latest'
<1>1. at[p] \in Deliveries /\ stage[p] = "failed"
  BY DEF Reschedule, TypeOK, AtWork
<1>2. CASE status[at[p]] = "FAILED" /\ attempts[at[p]] >= MaxAttempts
  <2>1. stage'[p] = "recorded"
    BY <1>2 DEF Reschedule, Go, TypeOK
  <2> QED BY <2>1 DEF Latest, Ended
<1>3. CASE status[at[p]] = "FAILED" /\ ~(attempts[at[p]] >= MaxAttempts)
  <2>1. status'[at[p]] = "PENDING_RETRY"
    BY <1>1, <1>3 DEF Reschedule, Write, TypeOK
  <2> QED BY <1>1, <2>1 DEF Latest, Ended, Settled, InFlight
<1>4. CASE status[at[p]] # "FAILED"
  <2>1. /\ UNCHANGED <<status, attempts, parent, verdict, crossed, crashes>>
        /\ stage' = [stage EXCEPT ![p] = "idle"]
    BY <1>4 DEF Reschedule, Go, history
  <2>2. \A q \in Processes : /\ stage[q] = "recorded" <=> stage'[q] = "recorded"
                             /\ stage[q] = "aggregated" <=> stage'[q] = "aggregated"
    BY <1>1, <2>1 DEF TypeOK
  <2> QED BY <2>1, <2>2, LatestKept
<1> QED BY <1>2, <1>3, <1>4

\* The look at the deliveries is the latest, unless another is still to be written.
LEMMA AggregateKeepsLatest ==
  ASSUME NEW p \in Processes, TypeOK, AggregateStatuses(p)
  PROVE  Latest'
<1>1. /\ verdict'[p] = Aggregate(status') /\ stage'[p] = "aggregated"
      /\ UNCHANGED status
  BY DEF AggregateStatuses, Go, TypeOK, rowVars
<1>2. ASSUME NEW q \in Processes, \A r \in Processes \ {q} : ~Holding(r)' PROVE q = p
  BY <1>1, <1>2 DEF Holding
<1> QED BY <1>1, <1>2 DEF Latest, Holding

\* The last aggregate written is the latest, or another was between its look and its
\* write, which history remembers.
LEMMA WriteKeepsLatest ==
  ASSUME NEW p \in Processes, TypeOK, AtWork, Latest, WriteParent(p)
  PROVE  Latest'
<1>1. /\ stage[p] = "aggregated" /\ parent' = verdict[p]
      /\ stage' = [stage EXCEPT ![p] = "returned"]
      /\ crossed' = (crossed \/ \E q \in Processes \ {p} : stage[q] = "aggregated")
      /\ UNCHANGED <<status, attempts, crashes>>
  BY DEF WriteParent, Go
<1> SUFFICES ASSUME Ended' PROVE (\A q \in Processes : ~Holding(q)') /\ parent' = Aggregate(status')
  BY DEF Latest
<1>2. ~crossed /\ \A q \in Processes \ {p} : ~Holding(q)
  BY <1>1 DEF Ended, Holding
<1>3. Ended
  BY <1>1, <1>2 DEF Ended, Settled, TypeOK
<1>4. verdict[p] = Aggregate(status)
  BY <1>1, <1>2, <1>3 DEF Latest, Holding
<1> QED BY <1>1, <1>2, <1>4 DEF Holding, TypeOK

LEMMA LatestStep == TypeOK /\ AtWork /\ Latest /\ [Next]_vars => Latest'
<1> SUFFICES ASSUME TypeOK, AtWork, Latest, [Next]_vars PROVE Latest'
  OBVIOUS
<1> DEFINE Same == \A q \in Processes : /\ stage[q] = "recorded" <=> stage'[q] = "recorded"
                                        /\ stage[q] = "aggregated" <=> stage'[q] = "aggregated"
<1>1. ASSUME NEW p \in Processes, Attempt(p) PROVE Latest'
  <2>1. CASE \/ Mark(p) \/ FailToRender(p) \/ Record(p)
             \/ \E d \in Deliveries : TakeDue(p, d) \/ Recover(p, d)
    BY <2>1, UnderWay
  <2>2. CASE (\E o \in Outcomes : Send(p, o)) \/ Return(p) \/ DispatchTaken(p)
    <3>1. /\ UNCHANGED <<status, attempts, parent, verdict, crossed, crashes>>
          /\ stage[p] \in {"marked", "returned", "taken"}
          /\ \E s \in {"answered", "failed", "idle", "read", "returned"} :
                stage' = [stage EXCEPT ![p] = s]
      BY <2>2 DEF Send, Return, DispatchTaken, Go, rowVars, history
    <3>2. Same
      BY <3>1 DEF TypeOK
    <3> QED BY <3>1, <3>2, LatestKept
  <2> QED BY <1>1, <2>1, <2>2, RescheduleKeepsLatest, AggregateKeepsLatest, WriteKeepsLatest
          DEF Attempt
<1>2. ASSUME NEW p \in Processes,
             \/ FindDue(p) \/ FindStuck(p)
             \/ \E d \in Deliveries : Dispatch(p, d) \/ ScheduleRetry(p, d)
      PROVE  Latest'
  <2>1. /\ UNCHANGED <<status, attempts, parent, verdict, crossed, crashes>>
        /\ stage[p] = "idle"
        /\ UNCHANGED stage \/ \E s \in {"read", "failed"} : stage' = [stage EXCEPT ![p] = s]
    BY <1>2 DEF FindDue, FindStuck, Dispatch, ScheduleRetry, Take, Go, rowVars
  <2>2. Same
    BY <2>1 DEF TypeOK
  <2> QED BY <2>1, <2>2, LatestKept
<1>3. ASSUME NEW p \in Processes, Crash(p) PROVE Latest'
  BY <1>3, DeliveryAssumption DEF Crash, Latest, Ended, TypeOK
<1>4. CASE (\E d \in Deliveries : BecomeDue(d) \/ BecomeStale(d)) \/ UNCHANGED vars
  <2>1. UNCHANGED <<status, attempts, parent, verdict, crossed, crashes, stage>>
    BY <1>4 DEF BecomeDue, BecomeStale, rowVars, procVars, history, vars
  <2> QED BY <2>1, LatestKept
<1> QED BY <1>1, <1>2, <1>3, <1>4 DEF Next

-----------------------------------------------------------------------------
(* Theorems. *)

\* What holds at every moment, whatever processes do and whenever they crash.
THEOREM Invariance == Spec => []IInv
BY InitKeeps, StepKeeps, PTL DEF Spec

\* The rows and the processes have the types declared for them.
THEOREM TypeCorrect == Spec => []TypeOK
BY Invariance, PTL DEF IInv

\* Every message the provider took is counted as an attempt, but for one under way and
\* one for each crash (dispatchNotificationDelivery, reconcileStuckDeliveries).
THEOREM EverySendCounted == Spec => []SendsAreCounted
<1>1. IInv => SendsAreCounted
  <2> SUFFICES ASSUME IInv, NEW d \in Deliveries \ overlapped
               PROVE  accepted[d] <= attempts[d] + crashes
                        + Cardinality({p \in Processes : stage[p] = "answered" /\ at[p] = d})
    BY DEF SendsAreCounted
  <2> DEFINE S == {p \in Processes : stage[p] = "answered" /\ at[p] = d}
  <2>1. accepted[d] <= attempts[d] + crashes + (IF Answered(d) THEN 1 ELSE 0)
    BY DEF IInv, Counted
  <2>2. attempts[d] \in Nat /\ crashes \in Nat /\ accepted[d] \in Nat
    BY DeliveryAssumption DEF IInv, TypeOK
  <2>3. CASE Answered(d)
    <3>1. PICK p \in Processes : S = {p}
      BY <2>3 DEF Answered, IInv, OneHand, Has
    <3>2. Cardinality(S) = 1
      BY <3>1, FS_Singleton
    <3> QED BY <2>1, <2>2, <2>3, <3>2
  <2>4. CASE ~Answered(d)
    <3>1. S = {}
      BY <2>4 DEF Answered
    <3>2. Cardinality(S) = 0
      BY <3>1, FS_EmptySet
    <3> QED BY <2>1, <2>2, <2>4, <3>2
  <2> QED BY <2>3, <2>4
<1> QED BY <1>1, Invariance, PTL

\* A delivery that is settled stays settled (the early return of
\* dispatchNotificationDelivery and the queries of the loop and the sweep).
THEOREM FinalStays == Spec => FinalIsImmutable
<1> DEFINE Stays == \A d \in Deliveries \ overlapped' : status[d] \in Final => status'[d] = status[d]
<1>1. IInv /\ [Next]_vars => Stays
  <2> SUFFICES ASSUME IInv, [Next]_vars, NEW d \in Deliveries \ overlapped', status[d] \in Final
               PROVE  status'[d] = status[d]
    OBVIOUS
  <2> USE DEF IInv
  <2>1. overlapped \subseteq overlapped'
    BY OverlapsGrow
  <2>2. d \notin overlapped /\ status[d] \notin InFlight \cup {"FAILED"}
    BY <2>1 DEF Final, InFlight
  <2>3. ASSUME NEW p \in Processes PROVE KnowsRow(p, d)
    BY <2>2 DEF Knows
  <2>4. ASSUME NEW p \in Processes, Mark(p) \/ FailToRender(p) \/ Record(p) PROVE status'[d] = status[d]
    BY <2>2, <2>3, <2>4 DEF Mark, FailToRender, Record, Write, KnowsRow, TypeOK, InFlight
  <2>5. ASSUME NEW p \in Processes, Reschedule(p) PROVE status'[d] = status[d]
    BY <2>2, <2>5 DEF Reschedule, Write, TypeOK
  <2>6. ASSUME NEW p \in Processes, NEW e \in Deliveries, TakeDue(p, e) \/ Recover(p, e)
        PROVE  status'[d] = status[d]
    BY <2>2, <2>3, <2>6 DEF TakeDue, Recover, Write, KnowsRow, TypeOK, InFlight
  <2>7. ASSUME NEW p \in Processes,
               \/ \E o \in Outcomes : Send(p, o)
               \/ AggregateStatuses(p) \/ WriteParent(p) \/ Return(p) \/ DispatchTaken(p)
               \/ FindDue(p) \/ FindStuck(p) \/ Crash(p)
               \/ \E e \in Deliveries : Dispatch(p, e) \/ ScheduleRetry(p, e)
        PROVE  status'[d] = status[d]
    BY <2>7 DEF Send, AggregateStatuses, WriteParent, Return, DispatchTaken, FindDue, FindStuck,
           Crash, Dispatch, ScheduleRetry, rowVars
  <2>8. ASSUME NEW e \in Deliveries, BecomeDue(e) \/ BecomeStale(e) PROVE status'[d] = status[d]
    BY <2>8 DEF BecomeDue, BecomeStale
  <2>9. CASE UNCHANGED vars
    BY <2>9 DEF vars, rowVars
  <2> QED BY <2>4, <2>5, <2>6, <2>7, <2>8, <2>9 DEF Next, Attempt
<1> QED BY <1>1, Invariance, PTL DEF Spec, FinalIsImmutable

\* Without a crash, once nothing is left to do the notification shows what its
\* deliveries add up to, if one was attempted and no process wrote the notification
\* between the look and the write of another (aggregateParentNotificationStatus): also
\* when several processes worked on the same delivery.
THEOREM QuietParentShows == Spec => []QuietParentAgrees
<1>1. Init => Latest
  BY DEF Init, Latest, Holding
<1>2. IInv /\ Latest /\ [Next]_vars => Latest'
  BY LatestStep DEF IInv
<1>3. Latest => QuietParentAgrees
  BY DEF Latest, Ended, Settled, Holding, QuietParentAgrees, Quiet
<1> QED BY <1>1, <1>2, <1>3, Invariance, PTL DEF Spec

==============================================================================
