----------------------------- MODULE FieldWork -----------------------------
(***************************************************************************)
(* Work orders and what technicians do in the field: lib/services/workOrder *)
(* and lib/services/technicianOperations.  A call reads and checks its rows *)
(* and later writes them by id, without a condition.  A technician's call   *)
(* that moves the order opens a transaction and calls                       *)
(* transitionWorkOrderStatus with it in the place of the actor: the order   *)
(* is read in that transaction and written in another, which commits first. *)
(*                                                                         *)
(* Appointments are booked, dispatched and withdrawn by the module          *)
(* Scheduling, here in one step each.                                       *)
(***************************************************************************)
EXTENDS Naturals, Sequences

CONSTANTS
  Callers,       \* service calls in progress at the same time
  Technicians,   \* technician profiles
  Orders,        \* work orders
  Appointments,  \* ids of appointments
  MaxEntries,    \* bound on the time entries, for model checking
  MaxCalls,      \* bound on the calls, for model checking
  None

ASSUME FieldWorkAssumption == MaxEntries \in Nat /\ MaxCalls \in Nat

VARIABLES
  orders,        \* WorkOrder
  appointments,  \* ScheduleAppointment, None if not created
  entries,       \* TechnicianTimeEntry, in the order of their creation
  stage,         \* where each call is
  call,          \* its arguments, and what it found
  torn,          \* orders moved by a call whose own transaction was then lost
  overlapped,    \* some call was not alone from its first read to its end
  calls

vars == <<orders, appointments, entries, stage, call, torn, overlapped, calls>>
rows == <<orders, appointments, entries>>

Terminal == {"COMPLETED", "CANCELLED"}
Statuses == {"OPEN", "ASSIGNED", "IN_PROGRESS", "ON_HOLD"} \cup Terminal

\* isMatrixTransitionAllowed
Matrix ==
  ({"OPEN"} \X {"ASSIGNED", "CANCELLED"})
  \cup ({"ASSIGNED"} \X {"OPEN", "IN_PROGRESS", "ON_HOLD", "CANCELLED"})
  \cup ({"IN_PROGRESS"} \X {"COMPLETED", "ON_HOLD", "CANCELLED"})
  \cup ({"ON_HOLD"} \X {"IN_PROGRESS", "ASSIGNED", "CANCELLED"})

\* "started": startedAt is set; "closer": what completed it, by its history.
WorkOrders == [status : Statuses, technician : Technicians \cup {None},
               started : BOOLEAN, closer : {None, "transition", "complete", "completeAdmin"}]
\* "begun": fieldExecutionStartedAt is set.
Bookings == [order : Orders, technician : Technicians,
             status : {"ACTIVE", "COMPLETED", "CANCELLED"},
             acknowledged : BOOLEAN, begun : BOOLEAN]
ASSUME NoneIsNoRow ==
  /\ None \notin Technicians /\ None \notin Bookings
  /\ None \notin {"transition", "complete", "completeAdmin"}

\* "OTHER" stands for BREAK and ADMIN; "resumed": opened by a resume.
Entries == [technician : Technicians, order : Orders,
            type : {"TRAVEL", "ON_SITE", "OTHER"}, resumed : BOOLEAN,
            appointments : SUBSET Appointments, status : {"ACTIVE", "COMPLETED"}]

FieldMoves == {"start", "hold", "resume", "complete", "completeAdmin"}
Operations == FieldMoves \cup {"transition", "assign", "travel", "record", "edit"}
Stages == {"idle", "read", "moved", "found"}

\* "to" is the status the call sets; "entry" the entry it closes or edits, 0 for
\* none; "about" the appointments it found.
Calls == [op : Operations, order : Orders, technician : Technicians \cup {None},
          to : Statuses \cup {"ACTIVE", None}, entry : Nat, about : SUBSET Appointments]
NoCall == [op |-> "none"]

\* A technician at work starts from an order assigned to her and an appointment
\* she acknowledged, or from nothing.
Init ==
  /\ \E t \in Technicians \cup {None}, of \in [Appointments -> Orders] :
       IF t = None
       THEN /\ orders = [w \in Orders |-> [status |-> "OPEN", technician |-> None,
                                           started |-> FALSE, closer |-> None]]
            /\ appointments = [a \in Appointments |-> None]
       ELSE /\ orders = [w \in Orders |-> [status |-> "ASSIGNED", technician |-> t,
                                           started |-> FALSE, closer |-> None]]
            /\ appointments = [a \in Appointments |->
                 [order |-> of[a], technician |-> t, status |-> "ACTIVE",
                  acknowledged |-> TRUE, begun |-> FALSE]]
  /\ entries = <<>>
  /\ stage = [c \in Callers |-> "idle"]
  /\ call = [c \in Callers |-> NoCall]
  /\ torn = {}
  /\ overlapped = FALSE
  /\ calls = 0

To(c, s) == stage' = [stage EXCEPT ![c] = s]

\* A call that passed the checks on the rows it read.
Enter(c, args) ==
  /\ stage[c] = "idle" /\ calls < MaxCalls
  /\ call' = [call EXCEPT ![c] = args]
  /\ To(c, "read")
  /\ overlapped' = (overlapped \/ \E d \in Callers \ {c} : stage[d] # "idle")
  /\ calls' = calls + 1
  /\ UNCHANGED <<rows, torn>>

Args(op, w, t, to, e, about) ==
  [op |-> op, order |-> w, technician |-> t, to |-> to, entry |-> e, about |-> about]

End(c) ==
  /\ To(c, "idle")
  /\ call' = [call EXCEPT ![c] = NoCall]
  /\ UNCHANGED <<overlapped, calls>>

ActiveEntries(t) ==
  {i \in DOMAIN entries : entries[i].technician = t /\ entries[i].status = "ACTIVE"}

Entry(t, w, type, resumed, about) ==
  [technician |-> t, order |-> w, type |-> type, resumed |-> resumed,
   appointments |-> about, status |-> "ACTIVE"]

\* The entries with entry i, if there is one, set to status s.
WithStatus(i, s) ==
  IF i = 0 THEN entries ELSE [entries EXCEPT ![i].status = s]

-----------------------------------------------------------------------------
(* Work orders: transitionWorkOrderStatus, assignWorkOrder. *)

\* Assumed of every caller: its role may make the move.
MayMove(w, s) ==
  /\ <<orders[w].status, s>> \in Matrix
  /\ s \in {"ASSIGNED", "COMPLETED"} => orders[w].technician # None

Transition(c, w, s) ==
  /\ MayMove(w, s)
  /\ Enter(c, Args("transition", w, None, s, 0, {}))

\* Slip: only leaving ASSIGNED counts as a start.
MovedFromAssigned(o, to, op) ==
  [status |-> to,
   technician |-> IF to = "OPEN" THEN None ELSE o.technician,
   started |-> o.started \/ (o.status = "ASSIGNED" /\ to = "IN_PROGRESS"),
   closer |-> IF to = "COMPLETED" THEN op ELSE o.closer]

\* The update of the order and its history row.
Moved(o, to, op) ==
  [status |-> to,
   technician |-> IF to = "OPEN" THEN None ELSE o.technician,
   started |-> o.started \/ to = "IN_PROGRESS",
   closer |-> IF to = "COMPLETED" THEN op ELSE o.closer]

MoveOrder(c) ==
  orders' = [orders EXCEPT ![call[c].order] = Moved(@, call[c].to, call[c].op)]

CommitTransition(c) ==
  /\ stage[c] = "read" /\ call[c].op = "transition"
  /\ MoveOrder(c)
  /\ End(c)
  /\ UNCHANGED <<appointments, entries, torn>>

AssignWorkOrder(c, w, t) ==
  /\ orders[w].status \notin Terminal
  /\ orders[w].technician = None
  /\ Enter(c, Args("assign", w, t, None, 0, {}))

ReassignWorkOrder(c, w, t) ==
  /\ orders[w].status \notin Terminal
  /\ orders[w].technician # None
  /\ Enter(c, Args("assign", w, t, None, 0, {}))

\* Slip: terminal orders too.
UnassignAnyTime(c, w) ==
  /\ orders[w].technician # None
  /\ Enter(c, Args("assign", w, None, None, 0, {}))

UnassignWorkOrder(c, w) ==
  /\ orders[w].status \notin Terminal
  /\ orders[w].technician # None
  /\ Enter(c, Args("assign", w, None, None, 0, {}))

CommitAssign(c) ==
  /\ stage[c] = "read" /\ call[c].op = "assign"
  /\ orders' = [orders EXCEPT ![call[c].order].technician = call[c].technician]
  /\ End(c)
  /\ UNCHANGED <<appointments, entries, torn>>

-----------------------------------------------------------------------------
(* A technician's calls that move the order. *)

\* The technician's role may start, hold, resume and complete orders of her own.
FieldMove(c, op, w, t, s) ==
  /\ MayMove(w, s)
  /\ orders[w].technician = t
  /\ Enter(c, Args(op, w, t, s, 0, {}))

StartTechnicianWorkOrder(c, w, t) == FieldMove(c, "start", w, t, "IN_PROGRESS")

ResumeTechnicianWorkOrder(c, w, t) == FieldMove(c, "resume", w, t, "IN_PROGRESS")

HoldTechnicianWorkOrder(c, w, t) ==
  /\ orders[w].status = "IN_PROGRESS"
  /\ FieldMove(c, "hold", w, t, "ON_HOLD")

CompleteTechnicianWorkOrder(c, w, t) == FieldMove(c, "complete", w, t, "COMPLETED")

CompleteWorkOrderAdmin(c, w) ==
  /\ MayMove(w, "COMPLETED")
  /\ Enter(c, Args("completeAdmin", w, None, "COMPLETED", 0, {}))

\* The nested transaction commits, whatever becomes of the one around it.
CommitMove(c) ==
  /\ stage[c] = "read" /\ call[c].op \in FieldMoves
  /\ MoveOrder(c)
  /\ To(c, "moved")
  /\ UNCHANGED <<appointments, entries, call, torn, overlapped, calls>>

\* The appointments of the call's order and technician, or of its order.
Linked(c) ==
  {a \in Appointments :
     /\ appointments[a] # None
     /\ appointments[a].order = call[c].order
     /\ call[c].op # "completeAdmin" => appointments[a].technician = call[c].technician}

\* Slip: a completion looks for the appointments whose execution began.
FindBegun(c, found) ==
  IF call[c].op \in {"start", "resume"}
  THEN LET candidates == {a \in Linked(c) : appointments[a].status # "CANCELLED"} IN
       IF candidates = {} THEN found = {} ELSE \E a \in candidates : found = {a}
  ELSE found = {a \in Linked(c) : call[c].op # "hold" /\ appointments[a].status = "ACTIVE"
                                                      /\ appointments[a].begun}

\* findFirst of an appointment that is not cancelled; findMany of the active ones.
FindAppointments(c, found) ==
  IF call[c].op \in {"start", "resume"}
  THEN LET candidates == {a \in Linked(c) : appointments[a].status # "CANCELLED"} IN
       IF candidates = {} THEN found = {} ELSE \E a \in candidates : found = {a}
  ELSE found = {a \in Linked(c) : call[c].op # "hold" /\ appointments[a].status = "ACTIVE"}

\* findFirst of an active entry: of the technician, of her order, of the order.
EntriesToClose(c) ==
  {i \in DOMAIN entries :
     /\ entries[i].status = "ACTIVE"
     /\ call[c].op # "resume"
     /\ call[c].op # "completeAdmin" => entries[i].technician = call[c].technician
     /\ call[c].op \in {"complete", "completeAdmin"} => entries[i].order = call[c].order}

Find(c) ==
  /\ stage[c] = "moved"
  /\ \E found \in SUBSET Appointments, i \in EntriesToClose(c) \cup {0} :
       /\ FindAppointments(c, found)
       /\ i = 0 => EntriesToClose(c) = {}
       /\ call' = [call EXCEPT ![c].about = found, ![c].entry = i]
  /\ To(c, "found")
  /\ UNCHANGED <<rows, torn, overlapped, calls>>

CommitField(c, op) ==
  /\ stage[c] = "found" /\ call[c].op = op
  /\ End(c)
  /\ UNCHANGED <<orders, torn>>

StampBegun(c) ==
  appointments' = [a \in Appointments |->
                     IF a \in call[c].about THEN [appointments[a] EXCEPT !.begun = TRUE]
                                            ELSE appointments[a]]

\* Slip: an entry the technician has open stays open.
CommitStartUnclosed(c) ==
  /\ CommitField(c, "start")
  /\ StampBegun(c)
  /\ Len(entries) < MaxEntries
  /\ entries' = Append(entries, Entry(call[c].technician, call[c].order, "ON_SITE",
                                      FALSE, call[c].about))

CommitStart(c) ==
  /\ CommitField(c, "start")
  /\ StampBegun(c)
  /\ Len(entries) < MaxEntries
  /\ entries' = Append(WithStatus(call[c].entry, "COMPLETED"),
                       Entry(call[c].technician, call[c].order, "ON_SITE", FALSE, call[c].about))

CommitHold(c) ==
  /\ CommitField(c, "hold")
  /\ entries' = WithStatus(call[c].entry, "COMPLETED")
  /\ UNCHANGED appointments

\* The appointment is not stamped and no entry is closed.
CommitResume(c) ==
  /\ CommitField(c, "resume")
  /\ Len(entries) < MaxEntries
  /\ entries' = Append(entries, Entry(call[c].technician, call[c].order, "ON_SITE",
                                      TRUE, call[c].about))
  /\ UNCHANGED appointments

CommitComplete(c) ==
  /\ \E op \in {"complete", "completeAdmin"} : CommitField(c, op)
  /\ appointments' = [a \in Appointments |->
                        IF a \in call[c].about
                        THEN [appointments[a] EXCEPT !.status = "COMPLETED"]
                        ELSE appointments[a]]
  /\ entries' = WithStatus(call[c].entry, "COMPLETED")

-----------------------------------------------------------------------------
(* Travel and time entries. *)

StartTechnicianTravel(c, w, t, a) ==
  /\ orders[w].technician = t /\ orders[w].status = "ASSIGNED"
  /\ ActiveEntries(t) = {}
  /\ appointments[a] # None
  /\ appointments[a].order = w /\ appointments[a].technician = t
  /\ appointments[a].status # "CANCELLED" /\ appointments[a].acknowledged
  /\ Enter(c, Args("travel", w, t, None, 0, {a}))

CommitTravel(c) ==
  /\ stage[c] = "read" /\ call[c].op = "travel"
  /\ Len(entries) < MaxEntries
  /\ StampBegun(c)
  /\ entries' = Append(entries, Entry(call[c].technician, call[c].order, "TRAVEL",
                                      FALSE, call[c].about))
  /\ End(c)
  /\ UNCHANGED <<orders, torn>>

RecordTechnicianTimeEntry(c, w, t) ==
  /\ orders[w].technician = t
  /\ ActiveEntries(t) = {}
  /\ Enter(c, Args("record", w, t, None, 0, {}))

CommitRecord(c) ==
  /\ stage[c] = "read" /\ call[c].op = "record"
  /\ Len(entries) < MaxEntries
  /\ entries' = Append(entries, Entry(call[c].technician, call[c].order, "OTHER", FALSE, {}))
  /\ End(c)
  /\ UNCHANGED <<orders, appointments, torn>>

EditEntry(c, i, s) ==
  Enter(c, Args("edit", entries[i].order, entries[i].technician, s, i, {}))

\* The technician closes an entry of her own.
UpdateTechnicianTimeEntry(c, i) ==
  /\ entries[i].status = "ACTIVE"
  /\ EditEntry(c, i, "COMPLETED")

\* An end, its removal, or the status the entry has: reopened unless another is open.
UpdateTechnicianTimeEntryAdmin(c, i, s) ==
  /\ s = "ACTIVE" => ActiveEntries(entries[i].technician) \subseteq {i}
  /\ EditEntry(c, i, s)

CommitEdit(c) ==
  /\ stage[c] = "read" /\ call[c].op = "edit"
  /\ entries' = WithStatus(call[c].entry, call[c].to)
  /\ End(c)
  /\ UNCHANGED <<orders, appointments, torn>>

-----------------------------------------------------------------------------
(* Appointments: what the calls of Scheduling leave of them. *)

Booking(a, b) ==
  /\ appointments' = [appointments EXCEPT ![a] = b]
  /\ overlapped' = (overlapped \/ \E c \in Callers : stage[c] # "idle")
  /\ UNCHANGED <<orders, entries, stage, call, torn, calls>>

CreateSchedule(a, w) ==
  /\ appointments[a] = None
  /\ orders[w].status \notin Terminal /\ orders[w].technician # None
  /\ Booking(a, [order |-> w, technician |-> orders[w].technician, status |-> "ACTIVE",
                 acknowledged |-> FALSE, begun |-> FALSE])

Acknowledge(a) ==
  /\ appointments[a] # None /\ appointments[a].status = "ACTIVE"
  /\ Booking(a, [appointments[a] EXCEPT !.acknowledged = TRUE])

\* undispatchAppointment, or rescheduleSchedule, which does not ask whether work began.
Recall(a) ==
  /\ appointments[a] # None /\ appointments[a].status = "ACTIVE"
  /\ Booking(a, [appointments[a] EXCEPT !.acknowledged = FALSE])

CancelSchedule(a) ==
  /\ appointments[a] # None /\ appointments[a].status = "ACTIVE"
  /\ orders[appointments[a].order].status # "COMPLETED"
  /\ Booking(a, [appointments[a] EXCEPT !.status = "CANCELLED", !.acknowledged = FALSE])

-----------------------------------------------------------------------------

\* An error, a timeout of the transaction, a dead process: what the call's own
\* transaction wrote is rolled back, what the nested one wrote is not.
Fail(c) ==
  /\ stage[c] # "idle"
  /\ torn' = IF stage[c] \in {"moved", "found"} THEN torn \cup {call[c].order} ELSE torn
  /\ End(c)
  /\ UNCHANGED rows

Start(c) ==
  \/ \E w \in Orders :
       \/ \E s \in Statuses : Transition(c, w, s)
       \/ UnassignWorkOrder(c, w) \/ CompleteWorkOrderAdmin(c, w)
       \/ \E t \in Technicians :
            \/ AssignWorkOrder(c, w, t) \/ ReassignWorkOrder(c, w, t)
            \/ StartTechnicianWorkOrder(c, w, t) \/ HoldTechnicianWorkOrder(c, w, t)
            \/ ResumeTechnicianWorkOrder(c, w, t) \/ CompleteTechnicianWorkOrder(c, w, t)
            \/ RecordTechnicianTimeEntry(c, w, t)
            \/ \E a \in Appointments : StartTechnicianTravel(c, w, t, a)
  \/ \E i \in DOMAIN entries :
       \/ UpdateTechnicianTimeEntry(c, i)
       \/ \E s \in {"ACTIVE", "COMPLETED"} : UpdateTechnicianTimeEntryAdmin(c, i, s)

Proceed(c) ==
  \/ CommitTransition(c) \/ CommitAssign(c) \/ CommitMove(c) \/ Find(c)
  \/ CommitStart(c) \/ CommitHold(c) \/ CommitResume(c) \/ CommitComplete(c)
  \/ CommitTravel(c) \/ CommitRecord(c) \/ CommitEdit(c)

Next ==
  \/ \E c \in Callers : Start(c) \/ Proceed(c) \/ Fail(c)
  \/ \E a \in Appointments : \/ Acknowledge(a) \/ Recall(a) \/ CancelSchedule(a)
                             \/ \E w \in Orders : CreateSchedule(a, w)

Spec == Init /\ [][Next]_vars

-----------------------------------------------------------------------------
(* Properties. *)

TypeOK ==
  /\ orders \in [Orders -> WorkOrders]
  /\ appointments \in [Appointments -> Bookings \cup {None}]
  /\ entries \in Seq(Entries)
  /\ stage \in [Callers -> Stages]
  /\ call \in [Callers -> Calls \cup {NoCall}]
  /\ torn \subseteq Orders
  /\ overlapped \in BOOLEAN
  /\ calls \in Nat

\* What a technician did is on record elsewhere too, whatever calls interleave or
\* fail: travel has locked its appointment against a recall, work on site has a
\* start, and so has every order in progress or completed.
EntriesAreBacked ==
  /\ \A i \in DOMAIN entries :
       /\ entries[i].type = "TRAVEL" =>
            \A a \in entries[i].appointments : appointments[a].begun
       /\ entries[i].type = "ON_SITE" => orders[entries[i].order].started
  /\ \A w \in Orders : orders[w].status \in {"IN_PROGRESS", "COMPLETED"} => orders[w].started

\* "At most one ACTIVE time entry" (phase 1.9.1, 7.3), as far as the code has it:
\* of calls that do not overlap, only a resume opens one beside another.
SingleEntryUnlessResumed ==
  ~overlapped => \A t \in Technicians :
    (\E i, j \in ActiveEntries(t) : i # j)
      => \E i \in DOMAIN entries : entries[i].technician = t /\ entries[i].resumed

\* A completion by the field services that is over has completed the appointments
\* of the technician who is assigned.
Whole(w) ==
  orders[w].closer \in {"complete", "completeAdmin"}
  /\ (\A c \in Callers : stage[c] # "idle" => call[c].order # w)
    => \A a \in Appointments :
         appointments[a] # None /\ appointments[a].order = w
         /\ appointments[a].technician = orders[w].technician
           => appointments[a].status # "ACTIVE"

\* In series, completions are whole unless their transaction was lost halfway.
WholeUnlessTorn == ~overlapped => \A w \in Orders \ torn : Whole(w)

\* In series, a completed order has a technician, and an order that is completed or
\* cancelled stays as it is.
SerialEndsAreFinal ==
  [][~overlapped' => \A w \in Orders :
       /\ orders[w].status \in Terminal => orders'[w] = orders[w]
       /\ orders'[w].status = "COMPLETED" => orders'[w].technician # None]_vars

=============================================================================
