----------------------------- MODULE Scheduling -----------------------------
(***************************************************************************)
(* The appointments of a workspace, lib/services/schedule.  A call reads   *)
(* its rows, checks them, checks the technician's calendar for overlaps,   *)
(* and only then opens the transaction that writes, by id and without a    *)
(* condition.  createSchedule alone locks the technician's profile in its  *)
(* transaction and checks the calendar again under the lock.               *)
(*                                                                         *)
(* An appointment stands in the sequence at its number (APT-year-number,   *)
(* unique).  Work orders, and what technicians do in the field, belong to  *)
(* other services: they change between any two steps.                      *)
(***************************************************************************)
EXTENDS Naturals, Sequences

CONSTANTS
  Callers,          \* service calls in progress at the same time
  Technicians,      \* technician profiles
  Orders,           \* work orders
  OrderStatuses,    \* the statuses an order takes
  Slots,            \* half-open intervals <<start, end>>
  MaxTries,         \* MAX_NUMBER_GENERATION_ATTEMPTS
  MaxAppointments,  \* bound on the appointments, for model checking
  MaxCalls,         \* bound on the calls, for model checking
  None

ASSUME SchedulingAssumption ==
  /\ Slots \subseteq Nat \X Nat /\ \A s \in Slots : s[1] < s[2]
  /\ MaxTries \in Nat \ {0} /\ MaxAppointments \in Nat /\ MaxCalls \in Nat
  /\ None \notin Technicians \cup Slots \cup Callers

VARIABLES
  order,         \* status and assigned technician of each work order
  appointments,  \* ScheduleAppointment, by number
  holder,        \* which transaction holds each technician's profile row
  stage,         \* where each call is
  call,          \* its arguments, and the rows it read
  latest,        \* the latest number it read
  tries,         \* its attempts at a number
  overlapped,    \* some call was not alone from its first read to its end
  calls

vars == <<order, appointments, holder, stage, call, latest, tries, overlapped, calls>>
numberVars == <<latest, tries>>

Active == {"SCHEDULED", "RESCHEDULED"}
Terminal == {"CANCELLED", "COMPLETED"}
DispatchStatuses == {"PENDING_DISPATCH", "DISPATCHED", "ACKNOWLEDGED"}
Appointments == [order : Orders, technician : Technicians, slot : Slots,
                 status : Active \cup Terminal, dispatch : DispatchStatuses,
                 begun : BOOLEAN]   \* fieldExecutionStartedAt is set

Operations == {"create", "reschedule", "cancel", "dispatch", "undispatch",
               "acknowledge", "begin", "complete"}
Stages == {"idle", "read", "checked", "locked", "clear", "numbered"}

\* "at" is the number of the appointment, 0 for a new one.
Calls == [op : Operations, at : Nat, order : Orders, technician : Technicians,
          slot : Slots]
NoCall == [op |-> "none"]

Overlap(s, t) == s[1] < t[2] /\ t[1] < s[2]

Init ==
  /\ order \in [Orders -> [status : OrderStatuses, technician : Technicians \cup {None}]]
  /\ appointments = <<>>
  /\ holder = [t \in Technicians |-> None]
  /\ stage = [c \in Callers |-> "idle"]
  /\ call = [c \in Callers |-> NoCall]
  /\ latest = [c \in Callers |-> 0]
  /\ tries = [c \in Callers |-> 0]
  /\ overlapped = FALSE
  /\ calls = 0

To(c, s) == stage' = [stage EXCEPT ![c] = s]

Alone(c) == \A d \in Callers \ {c} : stage[d] = "idle"

\* A call that passed the checks on the rows it read.
Enter(c, op, i, w, t, s, next) ==
  /\ stage[c] = "idle" /\ calls < MaxCalls
  /\ call' = [call EXCEPT ![c] = [op |-> op, at |-> i, order |-> w,
                                  technician |-> t, slot |-> s]]
  /\ To(c, next)
  /\ overlapped' = (overlapped \/ ~Alone(c))
  /\ calls' = calls + 1
  /\ UNCHANGED <<order, appointments, holder, numberVars>>

\* The call ends, and with it a lock its transaction held.
End(c) ==
  /\ To(c, "idle")
  /\ call' = [call EXCEPT ![c] = NoCall]
  /\ holder' = [t \in Technicians |-> IF holder[t] = c THEN None ELSE holder[t]]
  /\ latest' = [latest EXCEPT ![c] = 0]
  /\ tries' = [tries EXCEPT ![c] = 0]
  /\ UNCHANGED <<order, overlapped, calls>>

\* The transaction of call c has set the appointment to value and commits.
Update(c, value) ==
  /\ appointments' = [appointments EXCEPT ![call[c].at] = value]
  /\ End(c)

\* assertNoTechnicianConflicts: no active appointment of the technician, but
\* the one the call is about, overlaps the slot.
NoConflicts(c) ==
  \A i \in DOMAIN appointments :
    LET a == appointments[i] IN
    a.technician = call[c].technician /\ a.status \in Active /\ i # call[c].at
      => ~Overlap(a.slot, call[c].slot)

CheckConflicts(c) ==
  /\ stage[c] = "read"
  /\ NoConflicts(c)
  /\ To(c, "checked")
  /\ UNCHANGED <<order, appointments, holder, call, numberVars, overlapped, calls>>

-----------------------------------------------------------------------------
(* createSchedule. *)

CreateSchedule(c, w, s) ==
  /\ Len(appointments) < MaxAppointments
  /\ order[w].status \notin {"COMPLETED", "CANCELLED"}
  /\ order[w].technician # None
  /\ Enter(c, "create", 0, w, order[w].technician, s, "read")

\* Slip: the transaction begins without the lock.
LockNothing(c) ==
  /\ stage[c] = "checked" /\ call[c].op = "create"
  /\ To(c, "locked")
  /\ UNCHANGED <<order, appointments, holder, call, numberVars, overlapped, calls>>

\* technicianProfile.update takes the row lock.
LockTechnician(c) ==
  /\ stage[c] = "checked" /\ call[c].op = "create"
  /\ holder[call[c].technician] = None
  /\ holder' = [holder EXCEPT ![call[c].technician] = c]
  /\ To(c, "locked")
  /\ UNCHANGED <<order, appointments, call, numberVars, overlapped, calls>>

RecheckConflicts(c) ==
  /\ stage[c] = "locked"
  /\ NoConflicts(c)
  /\ To(c, "clear")
  /\ UNCHANGED <<order, appointments, holder, call, numberVars, overlapped, calls>>

ReadLatest(c) ==
  /\ stage[c] = "clear"
  /\ latest' = [latest EXCEPT ![c] = Len(appointments)]
  /\ To(c, "numbered")
  /\ UNCHANGED <<order, appointments, holder, call, tries, overlapped, calls>>

Book(c) ==
  /\ stage[c] = "numbered"
  /\ latest[c] = Len(appointments)
  /\ appointments' = Append(appointments,
       [order |-> call[c].order, technician |-> call[c].technician,
        slot |-> call[c].slot, status |-> "SCHEDULED",
        dispatch |-> "PENDING_DISPATCH", begun |-> FALSE])
  /\ End(c)

\* The number is taken (P2002): the transaction rolls back and the next attempt
\* begins, if there is one.
Collide(c) ==
  /\ stage[c] = "numbered"
  /\ latest[c] # Len(appointments)
  /\ tries[c] + 1 < MaxTries
  /\ tries' = [tries EXCEPT ![c] = @ + 1]
  /\ latest' = [latest EXCEPT ![c] = 0]
  /\ holder' = [holder EXCEPT ![call[c].technician] = None]
  /\ To(c, "checked")
  /\ UNCHANGED <<order, appointments, call, overlapped, calls>>

-----------------------------------------------------------------------------
(* Calls about appointment i. *)

About(c, op, i, slot, next) ==
  Enter(c, op, i, appointments[i].order, appointments[i].technician, slot, next)

\* Slip: the calendar is not checked.
RescheduleUnchecked(c, i, s) ==
  /\ appointments[i].status \notin Terminal
  /\ About(c, "reschedule", i, s, "checked")

RescheduleSchedule(c, i, s) ==
  /\ appointments[i].status \notin Terminal
  /\ About(c, "reschedule", i, s, "read")

CommitReschedule(c) ==
  /\ stage[c] = "checked" /\ call[c].op = "reschedule"
  /\ Update(c, [appointments[call[c].at] EXCEPT
                  !.slot = call[c].slot, !.status = "RESCHEDULED",
                  !.dispatch = "PENDING_DISPATCH"])

CancelSchedule(c, i) ==
  /\ appointments[i].status \notin Terminal
  /\ order[appointments[i].order].status # "COMPLETED"
  /\ About(c, "cancel", i, appointments[i].slot, "checked")

\* Slip: a cancelled appointment stays dispatched.
CommitCancelDispatched(c) ==
  /\ stage[c] = "checked" /\ call[c].op = "cancel"
  /\ Update(c, [appointments[call[c].at] EXCEPT !.status = "CANCELLED"])

CommitCancel(c) ==
  /\ stage[c] = "checked" /\ call[c].op = "cancel"
  /\ Update(c, [appointments[call[c].at] EXCEPT
                  !.status = "CANCELLED", !.dispatch = "PENDING_DISPATCH"])

\* Checks the calendar for the slot it read.
DispatchAppointment(c, i) ==
  /\ appointments[i].status \in Active
  /\ order[appointments[i].order].status \in {"OPEN", "ASSIGNED", "IN_PROGRESS"}
  /\ About(c, "dispatch", i, appointments[i].slot, "read")

CommitDispatch(c) ==
  /\ stage[c] = "checked" /\ call[c].op = "dispatch"
  /\ Update(c, [appointments[call[c].at] EXCEPT !.dispatch = "DISPATCHED"])

UndispatchAppointment(c, i) ==
  /\ appointments[i].dispatch \in {"DISPATCHED", "ACKNOWLEDGED"}
  /\ ~appointments[i].begun
  /\ About(c, "undispatch", i, appointments[i].slot, "checked")

CommitUndispatch(c) ==
  /\ stage[c] = "checked" /\ call[c].op = "undispatch"
  /\ Update(c, [appointments[call[c].at] EXCEPT !.dispatch = "PENDING_DISPATCH"])

AcknowledgeDispatch(c, i) ==
  /\ appointments[i].dispatch = "DISPATCHED"
  /\ About(c, "acknowledge", i, appointments[i].slot, "checked")

CommitAcknowledge(c) ==
  /\ stage[c] = "checked" /\ call[c].op = "acknowledge"
  /\ Update(c, [appointments[call[c].at] EXCEPT !.dispatch = "ACKNOWLEDGED"])

-----------------------------------------------------------------------------
(* What technicians and work orders do to an appointment. *)

\* startTechnicianTravel, startTechnicianWorkOrder: fieldExecutionStartedAt is
\* stamped if it was not when the appointment was read.
BeginFieldWork(c, i) ==
  /\ appointments[i].status # "CANCELLED"
  /\ ~appointments[i].begun
  /\ About(c, "begin", i, appointments[i].slot, "checked")

CommitBegin(c) ==
  /\ stage[c] = "checked" /\ call[c].op = "begin"
  /\ Update(c, [appointments[call[c].at] EXCEPT !.begun = TRUE])

\* completeTechnicianWorkOrder, completeWorkOrderAdmin: each active appointment
\* of the order, which was completed in a transaction of its own before.
CompleteAppointment(c, i) ==
  /\ appointments[i].status \in Active
  /\ About(c, "complete", i, appointments[i].slot, "checked")

CommitComplete(c) ==
  /\ stage[c] = "checked" /\ call[c].op = "complete"
  /\ Update(c, [appointments[call[c].at] EXCEPT !.status = "COMPLETED"])

\* Transition and reassignment of a work order: whatever the appointments are.
ChangeOrder(w) ==
  /\ \E s \in OrderStatuses, t \in Technicians \cup {None} :
       order' = [order EXCEPT ![w] = [status |-> s, technician |-> t]]
  /\ overlapped' = (overlapped \/ \E c \in Callers : stage[c] # "idle")
  /\ UNCHANGED <<appointments, holder, stage, call, numberVars, calls>>

-----------------------------------------------------------------------------

\* A conflict, before the transaction or in it; no attempt left for a number.
Refuse(c) ==
  /\ \/ stage[c] \in {"read", "locked"} /\ ~NoConflicts(c)
     \/ stage[c] = "numbered" /\ latest[c] # Len(appointments) /\ tries[c] + 1 = MaxTries
  /\ End(c)
  /\ UNCHANGED appointments

\* Any other error, a timeout, a dead process: the transaction rolls back.
Rollback(c) ==
  /\ stage[c] # "idle"
  /\ End(c)
  /\ UNCHANGED appointments

Start(c) ==
  \/ \E w \in Orders, s \in Slots : CreateSchedule(c, w, s)
  \/ \E i \in DOMAIN appointments :
       \/ \E s \in Slots : RescheduleSchedule(c, i, s)
       \/ CancelSchedule(c, i) \/ DispatchAppointment(c, i)
       \/ UndispatchAppointment(c, i) \/ AcknowledgeDispatch(c, i)
       \/ BeginFieldWork(c, i) \/ CompleteAppointment(c, i)

Proceed(c) ==
  \/ CheckConflicts(c)
  \/ LockTechnician(c) \/ RecheckConflicts(c) \/ ReadLatest(c) \/ Book(c) \/ Collide(c)
  \/ CommitReschedule(c) \/ CommitCancel(c) \/ CommitDispatch(c)
  \/ CommitUndispatch(c) \/ CommitAcknowledge(c) \/ CommitBegin(c) \/ CommitComplete(c)
  \/ Refuse(c)

Next ==
  \/ \E c \in Callers : Start(c) \/ Proceed(c) \/ Rollback(c)
  \/ \E w \in Orders : ChangeOrder(w)

Spec == Init /\ [][Next]_vars

-----------------------------------------------------------------------------
(* Properties. *)

TypeOK ==
  /\ order \in [Orders -> [status : OrderStatuses, technician : Technicians \cup {None}]]
  /\ appointments \in Seq(Appointments)
  /\ holder \in [Technicians -> Callers \cup {None}]
  /\ stage \in [Callers -> Stages]
  /\ call \in [Callers -> Calls \cup {NoCall}]
  /\ latest \in [Callers -> Nat]
  /\ tries \in [Callers -> 0..MaxTries]
  /\ overlapped \in BOOLEAN
  /\ calls \in Nat

\* Appointments i and j put one technician in two places.
Clash(i, j) ==
  LET a == appointments[i]  b == appointments[j] IN
  /\ i # j /\ a.technician = b.technician
  /\ a.status \in Active /\ b.status \in Active
  /\ Overlap(a.slot, b.slot)

\* Concurrent bookings are serialised: two appointments that clash are never
\* both as createSchedule left them.
BookingsExclusive ==
  \A i, j \in DOMAIN appointments :
    Clash(i, j) => "RESCHEDULED" \in {appointments[i].status, appointments[j].status}

\* Calls that do not overlap in time keep every technician in one place.
SerialCalendarIsExact ==
  ~overlapped => \A i, j \in DOMAIN appointments : ~Clash(i, j)

\* Calls that do not overlap in time leave a cancelled appointment as it is, in
\* no technician's hands, and a completed one completed in its slot.
SerialEndsAreFinal ==
  [][~overlapped' => \A i \in DOMAIN appointments :
       LET a == appointments[i]  b == appointments'[i] IN
       /\ a.status = "CANCELLED" => b = a
       /\ a.status = "COMPLETED" => b.status = a.status /\ b.slot = a.slot]_vars

\* A lock is held by a transaction that books its technician, and by no call
\* that waits: none waits for itself or in a circle.
LocksEndWithTransactions ==
  \A t \in Technicians, c \in Callers :
    holder[t] = c => stage[c] \in {"locked", "clear", "numbered"}
                     /\ call[c].op = "create" /\ call[c].technician = t

=============================================================================
