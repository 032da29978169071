--------------------------- MODULE FieldWorkProofs ---------------------------
(***************************************************************************)
(* Theorems about the module FieldWork, for any callers, technicians,      *)
(* orders and appointments: types; that what technicians did is backed,    *)
(* whatever calls interleave or fail halfway; and of calls in series, that *)
(* they leave completed and cancelled orders alone, that a technician has  *)
(* a second entry open only after a resume (EntriesInv), and that a        *)
(* completed order has no active appointment of its technician unless the  *)
(* second transaction was lost (CloseInv).                                 *)
(***************************************************************************)
EXTENDS FieldWork, TLAPS, SequenceTheorems

Moves == FieldMoves \cup {"transition"}

\* What a call is about: rows that exist, and work that was started.
Fit(k) ==
  /\ k \in Calls
  /\ k.op \in Moves => k.to \in Statuses
  /\ k.op \in {"start", "hold", "resume", "complete", "travel", "record"}
       => k.technician \in Technicians
  /\ k.op \in {"start", "resume"} => k.to = "IN_PROGRESS"
  /\ k.op \in Moves /\ k.to = "COMPLETED" =>
       k.op \in {"transition", "complete", "completeAdmin"} /\ orders[k.order].started
  /\ k.op = "edit" => k.to \in {"ACTIVE", "COMPLETED"}
  /\ k.entry = 0 \/ k.entry \in DOMAIN entries
  /\ \A a \in k.about : appointments[a] # None

\* A call whose order has moved.
HasMoved(c) == /\ call[c].op \in FieldMoves
               /\ call[c].op \in {"start", "resume"} => orders[call[c].order].started

Known(c) == Fit(call[c]) /\ (stage[c] \in {"moved", "found"} => HasMoved(c))

CallsKnown == \A c \in Callers : stage[c] # "idle" => Known(c)

\* The appointments of an entry exist.
Created == \A i \in DOMAIN entries : \A a \in entries[i].appointments : appointments[a] # None

IInv == TypeOK /\ CallsKnown /\ Created /\ EntriesAreBacked

-----------------------------------------------------------------------------
(* What every step keeps, and why it is enough. *)

\* Nothing that was started, created or stamped is undone, and no entry is lost.
Grows ==
  /\ \A w \in Orders : orders[w].started => orders'[w].started
  /\ \A a \in Appointments : appointments[a] # None =>
       appointments'[a] # None /\ (appointments[a].begun => appointments'[a].begun)
  /\ \A i \in DOMAIN entries :
       /\ i \in DOMAIN entries'
       /\ entries'[i].type = entries[i].type
       /\ entries'[i].order = entries[i].order
       /\ entries'[i].appointments = entries[i].appointments

\* Entry i is backed.
Backed(i) ==
  /\ \A a \in entries[i].appointments : appointments[a] # None
  /\ entries[i].type = "TRAVEL" => \A a \in entries[i].appointments : appointments[a].begun
  /\ entries[i].type = "ON_SITE" => orders[entries[i].order].started

OrdersBacked ==
  \A w \in Orders : orders[w].status \in {"IN_PROGRESS", "COMPLETED"} => orders[w].started

\* The entries of a sequence of entries are entries.
LEMMA EntriesTyped ==
  ASSUME TypeOK
  PROVE  /\ Len(entries) \in Nat /\ DOMAIN entries = 1..Len(entries)
         /\ \A i \in DOMAIN entries : entries[i] \in Entries
BY LenProperties, ElementOfSeq DEF TypeOK

\* What a call is about survives what grows.
LEMMA OthersKept ==
  ASSUME IInv, Grows, NEW d \in Callers, stage[d] # "idle",
         stage'[d] = stage[d], call'[d] = call[d]
  PROVE  Known(d)'
<1>1. Known(d)
  BY DEF IInv, CallsKnown
<1>2. call[d].order \in Orders /\ call[d].about \subseteq Appointments
  BY <1>1 DEF Known, Fit, Calls
<1>3. Fit(call[d])'
  BY <1>1, <1>2 DEF Known, Fit, Grows
<1>4. stage'[d] \in {"moved", "found"} => HasMoved(d)'
  BY <1>1, <1>2 DEF Known, HasMoved, Grows
<1> QED
  BY <1>3, <1>4 DEF Known

\* A step of call c keeps the invariant if it grows and leaves c and what is new
\* in order.
LEMMA StepKeepsIInv ==
  ASSUME IInv, TypeOK', Grows, OrdersBacked', NEW c \in Callers,
         stage'[c] # "idle" => Known(c)',
         \A d \in Callers : d # c => stage'[d] = stage[d] /\ call'[d] = call[d],
         \A i \in DOMAIN entries' : i \notin DOMAIN entries => Backed(i)'
  PROVE  IInv'
<1>1. CallsKnown'
  BY OthersKept DEF CallsKnown
<1>2. ASSUME NEW i \in DOMAIN entries, i \in DOMAIN entries'
      PROVE  Backed(i)'
  <2>1. entries[i].appointments \subseteq Appointments /\ entries[i].order \in Orders
    BY EntriesTyped DEF IInv, Entries
  <2>2. Backed(i)
    BY DEF IInv, Created, EntriesAreBacked, Backed
  <2> QED
    BY <2>1, <2>2 DEF Backed, Grows
<1>3. \A i \in DOMAIN entries' : Backed(i)'
  BY <1>2
<1>4. Created' /\ EntriesAreBacked'
  BY <1>3 DEF Created, EntriesAreBacked, Backed, OrdersBacked
<1> QED
  BY <1>1, <1>4 DEF IInv

\* A call that ends is idle, and the others are where they were.
LEMMA EndFacts ==
  ASSUME TypeOK, NEW c \in Callers, End(c)
  PROVE  /\ stage'[c] = "idle"
         /\ stage' \in [Callers -> Stages] /\ call' \in [Callers -> Calls \cup {NoCall}]
         /\ \A d \in Callers : d # c => stage'[d] = stage[d] /\ call'[d] = call[d]
         /\ UNCHANGED <<overlapped, calls>>
BY DEF TypeOK, End, To, Stages

\* Setting the status of one entry, or of none, keeps the rest of the entries.
LEMMA WithStatusFacts ==
  ASSUME TypeOK, NEW i \in Nat, i = 0 \/ i \in DOMAIN entries,
         NEW s \in {"ACTIVE", "COMPLETED"}
  PROVE  /\ WithStatus(i, s) \in Seq(Entries)
         /\ DOMAIN WithStatus(i, s) = DOMAIN entries
         /\ \A j \in DOMAIN entries :
              /\ WithStatus(i, s)[j].type = entries[j].type
              /\ WithStatus(i, s)[j].order = entries[j].order
              /\ WithStatus(i, s)[j].technician = entries[j].technician
              /\ WithStatus(i, s)[j].appointments = entries[j].appointments
              /\ WithStatus(i, s)[j].resumed = entries[j].resumed
              /\ WithStatus(i, s)[j].status = IF j = i THEN s ELSE entries[j].status
<1>1. entries \in Seq(Entries)
  BY DEF TypeOK
<1>2. CASE i = 0
  BY <1>1, <1>2, EntriesTyped DEF WithStatus
<1>3. CASE i # 0
  <2>1. i \in 1..Len(entries) /\ entries[i] \in Entries
    BY <1>3, EntriesTyped
  <2> DEFINE e == [entries[i] EXCEPT !.status = s]
  <2>2. /\ e \in Entries
        /\ e.type = entries[i].type /\ e.order = entries[i].order
        /\ e.technician = entries[i].technician /\ e.appointments = entries[i].appointments
        /\ e.resumed = entries[i].resumed /\ e.status = s
    BY <2>1 DEF Entries
  <2>3. WithStatus(i, s) = [entries EXCEPT ![i] = e]
    BY <1>3 DEF WithStatus
  <2>4. [entries EXCEPT ![i] = e] \in Seq(Entries)
    BY <1>1, <2>1, <2>2, ExceptSeq
  <2> HIDE DEF e
  <2> QED
    BY <2>2, <2>3, <2>4
<1> QED
  BY <1>2, <1>3

\* Adding an entry keeps the others where they are.
LEMMA AppendFacts ==
  ASSUME NEW s \in Seq(Entries), NEW e \in Entries
  PROVE  /\ Append(s, e) \in Seq(Entries)
         /\ DOMAIN Append(s, e) = DOMAIN s \cup {Len(s) + 1}
         /\ Len(s) + 1 \notin DOMAIN s
         /\ Append(s, e)[Len(s) + 1] = e
         /\ \A i \in DOMAIN s : Append(s, e)[i] = s[i]
<1>1. Len(s) \in Nat /\ DOMAIN s = 1..Len(s)
  BY LenProperties
<1>2. Append(s, e) \in Seq(Entries) /\ Len(Append(s, e)) = Len(s) + 1
      /\ Append(s, e)[Len(s) + 1] = e /\ \A i \in 1..Len(s) : Append(s, e)[i] = s[i]
  BY AppendProperties
<1>3. DOMAIN Append(s, e) = 1..(Len(s) + 1)
  BY <1>1, <1>2, LenProperties
<1> QED
  BY <1>1, <1>2, <1>3

-----------------------------------------------------------------------------
(* Calls that start, and steps that write no row. *)

\* A step that writes no row.
LEMMA RowsKept ==
  ASSUME IInv, TypeOK', UNCHANGED rows, NEW c \in Callers,
         stage'[c] # "idle" => Known(c)',
         \A d \in Callers : d # c => stage'[d] = stage[d] /\ call'[d] = call[d]
  PROVE  IInv'
<1>1. Grows
  BY DEF Grows, rows
<1>2. OrdersBacked'
  BY DEF IInv, EntriesAreBacked, OrdersBacked, rows
<1>3. DOMAIN entries' = DOMAIN entries
  BY DEF rows
<1> QED
  BY <1>1, <1>2, <1>3, StepKeepsIInv

\* A call that enters with what fits.
LEMMA EnterKeepsIInv ==
  ASSUME IInv, NEW c \in Callers, NEW k, Fit(k), Enter(c, k)
  PROVE  IInv'
<1>1. /\ stage' = [stage EXCEPT ![c] = "read"] /\ call' = [call EXCEPT ![c] = k]
      /\ UNCHANGED <<orders, appointments, entries, torn>>
      /\ overlapped' \in BOOLEAN /\ calls' = calls + 1
  BY DEF Enter, To, rows, IInv, TypeOK
<1>2. k \in Calls /\ "read" \in Stages
  BY DEF Fit, Stages
<1>3. TypeOK'
  BY <1>1, <1>2 DEF IInv, TypeOK
<1>4. /\ stage'[c] = "read" /\ call'[c] = k
      /\ \A d \in Callers : d # c => stage'[d] = stage[d] /\ call'[d] = call[d]
  BY <1>1 DEF IInv, TypeOK
<1>5. Known(c)'
  BY <1>1, <1>4 DEF Known, Fit
<1> QED
  BY <1>1, <1>3, <1>4, <1>5, RowsKept DEF rows

\* Every call that starts is about something that fits.
LEMMA StartKeepsIInv ==
  ASSUME IInv, NEW c \in Callers, Start(c)
  PROVE  IInv'
<1> USE DEF Args, Moves, FieldMoves, Operations, Calls, Statuses, Terminal
<1>1. SUFFICES \E k : Fit(k) /\ Enter(c, k)
  BY EnterKeepsIInv
<1>2. ASSUME NEW w \in Orders, NEW s \in Statuses, Transition(c, w, s)
      PROVE  Fit(Args("transition", w, None, s, 0, {}))
             /\ Enter(c, Args("transition", w, None, s, 0, {}))
  <2>1. s = "COMPLETED" => orders[w].status = "IN_PROGRESS"
    BY <1>2 DEF Transition, MayMove, Matrix
  <2>2. s = "COMPLETED" => orders[w].started
    BY <2>1 DEF IInv, EntriesAreBacked
  <2> QED
    BY <1>2, <2>2 DEF Transition, Fit
<1>3. ASSUME NEW w \in Orders, UnassignWorkOrder(c, w)
      PROVE  Fit(Args("assign", w, None, None, 0, {}))
             /\ Enter(c, Args("assign", w, None, None, 0, {}))
  BY <1>3 DEF UnassignWorkOrder, Fit
<1>4. ASSUME NEW w \in Orders, NEW t \in Technicians,
             AssignWorkOrder(c, w, t) \/ ReassignWorkOrder(c, w, t)
      PROVE  Fit(Args("assign", w, t, None, 0, {})) /\ Enter(c, Args("assign", w, t, None, 0, {}))
  BY <1>4 DEF AssignWorkOrder, ReassignWorkOrder, Fit
<1>5. ASSUME NEW w \in Orders, CompleteWorkOrderAdmin(c, w)
      PROVE  Fit(Args("completeAdmin", w, None, "COMPLETED", 0, {}))
             /\ Enter(c, Args("completeAdmin", w, None, "COMPLETED", 0, {}))
  <2>1. orders[w].status = "IN_PROGRESS"
    BY <1>5 DEF CompleteWorkOrderAdmin, MayMove, Matrix
  <2>2. orders[w].started
    BY <2>1 DEF IInv, EntriesAreBacked
  <2> QED
    BY <1>5, <2>2 DEF CompleteWorkOrderAdmin, Fit
<1>6. ASSUME NEW w \in Orders, NEW t \in Technicians, NEW op \in FieldMoves \ {"completeAdmin"},
             NEW s \in Statuses, FieldMove(c, op, w, t, s),
             op \in {"start", "resume"} => s = "IN_PROGRESS", s = "COMPLETED" => op = "complete"
      PROVE  Fit(Args(op, w, t, s, 0, {})) /\ Enter(c, Args(op, w, t, s, 0, {}))
  <2>1. s = "COMPLETED" => orders[w].status = "IN_PROGRESS"
    BY <1>6 DEF FieldMove, MayMove, Matrix
  <2>2. s = "COMPLETED" => orders[w].started
    BY <2>1 DEF IInv, EntriesAreBacked
  <2> QED
    BY <1>6, <2>2 DEF FieldMove, Fit
<1>7. ASSUME NEW w \in Orders, NEW t \in Technicians,
             \/ StartTechnicianWorkOrder(c, w, t) \/ HoldTechnicianWorkOrder(c, w, t)
             \/ ResumeTechnicianWorkOrder(c, w, t) \/ CompleteTechnicianWorkOrder(c, w, t)
      PROVE  \E op \in FieldMoves \ {"completeAdmin"}, s \in Statuses :
               /\ FieldMove(c, op, w, t, s)
               /\ op \in {"start", "resume"} => s = "IN_PROGRESS"
               /\ s = "COMPLETED" => op = "complete"
  BY <1>7 DEF StartTechnicianWorkOrder, HoldTechnicianWorkOrder,
              ResumeTechnicianWorkOrder, CompleteTechnicianWorkOrder
<1>8. ASSUME NEW w \in Orders, NEW t \in Technicians, RecordTechnicianTimeEntry(c, w, t)
      PROVE  Fit(Args("record", w, t, None, 0, {})) /\ Enter(c, Args("record", w, t, None, 0, {}))
  BY <1>8 DEF RecordTechnicianTimeEntry, Fit
<1>9. ASSUME NEW w \in Orders, NEW t \in Technicians, NEW a \in Appointments,
             StartTechnicianTravel(c, w, t, a)
      PROVE  Fit(Args("travel", w, t, None, 0, {a})) /\ Enter(c, Args("travel", w, t, None, 0, {a}))
  BY <1>9 DEF StartTechnicianTravel, Fit
<1>10. ASSUME NEW i \in DOMAIN entries, NEW s \in {"ACTIVE", "COMPLETED"}, EditEntry(c, i, s)
       PROVE  \E k : Fit(k) /\ Enter(c, k)
  <2>1. i \in Nat /\ entries[i].order \in Orders /\ entries[i].technician \in Technicians
    BY EntriesTyped DEF IInv, Entries
  <2> QED
    BY <1>10, <2>1 DEF EditEntry, Fit
<1>11. ASSUME NEW i \in DOMAIN entries,
              \/ UpdateTechnicianTimeEntry(c, i)
              \/ \E s \in {"ACTIVE", "COMPLETED"} : UpdateTechnicianTimeEntryAdmin(c, i, s)
       PROVE  \E s \in {"ACTIVE", "COMPLETED"} : EditEntry(c, i, s)
  BY <1>11 DEF UpdateTechnicianTimeEntry, UpdateTechnicianTimeEntryAdmin
<1> QED
  BY <1>2, <1>3, <1>4, <1>5, <1>6, <1>7, <1>8, <1>9, <1>10, <1>11 DEF Start
-----------------------------------------------------------------------------
(* Steps that move or assign an order. *)

\* The order of a call under way, before and after it moves.
LEMMA MoveFacts ==
  ASSUME IInv, NEW c \in Callers, Known(c), call[c].op \in Moves, MoveOrder(c)
  PROVE  /\ orders' \in [Orders -> WorkOrders]
         /\ orders'[call[c].order].status = call[c].to
         /\ orders'[call[c].order].started <=>
              orders[call[c].order].started \/ call[c].to = "IN_PROGRESS"
         /\ \A w \in Orders : w # call[c].order => orders'[w] = orders[w]
<1> DEFINE w == call[c].order
           m == Moved(orders[w], call[c].to, call[c].op)
<1>1. w \in Orders /\ orders[w] \in WorkOrders /\ orders \in [Orders -> WorkOrders]
  BY DEF Known, Fit, Calls, IInv, TypeOK
<1>2. call[c].to \in Statuses
      /\ (call[c].to = "COMPLETED" => call[c].op \in {"transition", "complete", "completeAdmin"})
  BY DEF Known, Fit
<1>3. /\ m \in WorkOrders /\ m.status = call[c].to
      /\ m.started <=> orders[w].started \/ call[c].to = "IN_PROGRESS"
  BY <1>1, <1>2 DEF Moved, WorkOrders
<1>4. orders' = [orders EXCEPT ![w] = m]
  BY DEF MoveOrder
<1> HIDE DEF m
<1> QED
  BY <1>1, <1>3, <1>4

\* An order that moves to work in progress is started, one that is completed was.
LEMMA MoveGrows ==
  ASSUME IInv, NEW c \in Callers, Known(c), call[c].op \in Moves, MoveOrder(c),
         UNCHANGED <<appointments, entries>>
  PROVE  Grows /\ OrdersBacked'
<1> DEFINE w == call[c].order
<1>1. w \in Orders
  BY DEF Known, Fit, Calls
<1>2. Grows
  BY <1>1, MoveFacts DEF Grows
<1>3. call[c].to = "COMPLETED" => orders[w].started
  BY DEF Known, Fit
<1>4. OrdersBacked'
  <2> SUFFICES ASSUME NEW v \in Orders, orders'[v].status \in {"IN_PROGRESS", "COMPLETED"}
               PROVE  orders'[v].started
    BY DEF OrdersBacked
  <2>1. CASE v = w
    BY <2>1, <1>3, MoveFacts
  <2>2. CASE v # w
    BY <2>2, MoveFacts DEF IInv, EntriesAreBacked
  <2> QED
    BY <2>1, <2>2
<1> QED
  BY <1>2, <1>4

\* A transition by itself.
LEMMA CommitTransitionKeepsIInv ==
  ASSUME IInv, NEW c \in Callers, CommitTransition(c)
  PROVE  IInv'
<1>1. Known(c) /\ call[c].op \in Moves
  BY DEF CommitTransition, IInv, CallsKnown, Moves
<1>2. MoveOrder(c) /\ End(c) /\ UNCHANGED <<appointments, entries, torn>>
  BY DEF CommitTransition
<1>3. TypeOK'
  BY <1>1, <1>2, MoveFacts, EndFacts DEF IInv, TypeOK
<1>4. Grows /\ OrdersBacked'
  BY <1>1, <1>2, MoveGrows
<1> QED
  BY <1>2, <1>3, <1>4, EndFacts, StepKeepsIInv DEF IInv

\* The nested transaction of a technician's call.
LEMMA CommitMoveKeepsIInv ==
  ASSUME IInv, NEW c \in Callers, CommitMove(c)
  PROVE  IInv'
<1>1. Known(c) /\ call[c].op \in FieldMoves /\ call[c].op \in Moves
  BY DEF CommitMove, IInv, CallsKnown, Moves
<1>2. /\ MoveOrder(c) /\ UNCHANGED <<appointments, entries, call, torn, overlapped, calls>>
      /\ stage' = [stage EXCEPT ![c] = "moved"]
  BY DEF CommitMove, To
<1>3. "moved" \in Stages
  BY DEF Stages
<1>4. TypeOK'
  BY <1>1, <1>2, <1>3, MoveFacts DEF IInv, TypeOK
<1>5. Grows /\ OrdersBacked'
  BY <1>1, <1>2, MoveGrows
<1>6. /\ stage'[c] = "moved" /\ call'[c] = call[c]
      /\ \A d \in Callers : d # c => stage'[d] = stage[d] /\ call'[d] = call[d]
  BY <1>2 DEF IInv, TypeOK
<1>7. Known(c)'
  <2>1. call[c].order \in Orders /\ call[c].about \subseteq Appointments
    BY <1>1 DEF Known, Fit, Calls
  <2>2. Fit(call[c])'
    BY <1>1, <1>2, <1>5, <2>1 DEF Known, Fit, Grows
  <2>3. call[c].op \in {"start", "resume"} => orders'[call[c].order].started
    BY <1>1, <1>2, MoveFacts DEF Known, Fit
  <2> QED
    BY <1>1, <1>2, <2>2, <2>3 DEF Known, HasMoved
<1> QED
  BY <1>2, <1>4, <1>5, <1>6, <1>7, StepKeepsIInv

\* Assignment moves no order and starts none.
LEMMA CommitAssignKeepsIInv ==
  ASSUME IInv, NEW c \in Callers, CommitAssign(c)
  PROVE  IInv'
<1> DEFINE w == call[c].order
           o == [orders[w] EXCEPT !.technician = call[c].technician]
<1>1. w \in Orders /\ call[c].technician \in Technicians \cup {None}
  BY DEF CommitAssign, IInv, CallsKnown, Known, Fit, Calls
<1>2. orders \in [Orders -> WorkOrders] /\ orders[w] \in WorkOrders
  BY <1>1 DEF IInv, TypeOK
<1>3. /\ o \in WorkOrders /\ o.status = orders[w].status /\ o.started = orders[w].started
  BY <1>1, <1>2 DEF WorkOrders
<1>4. orders' = [orders EXCEPT ![w] = o]
  BY DEF CommitAssign
<1>5. End(c) /\ UNCHANGED <<appointments, entries, torn>>
  BY DEF CommitAssign
<1> HIDE DEF o
<1>6. /\ orders' \in [Orders -> WorkOrders]
      /\ \A v \in Orders : orders'[v].status = orders[v].status
                           /\ orders'[v].started = orders[v].started
  BY <1>1, <1>2, <1>3, <1>4
<1>7. TypeOK'
  BY <1>5, <1>6, EndFacts DEF IInv, TypeOK
<1>8. Grows /\ OrdersBacked'
  BY <1>5, <1>6 DEF Grows, OrdersBacked, IInv, EntriesAreBacked
<1> QED
  BY <1>5, <1>7, <1>8, EndFacts, StepKeepsIInv DEF IInv

\* A call that fails writes nothing; the order it moved is torn.
LEMMA FailKeepsIInv ==
  ASSUME IInv, NEW c \in Callers, Fail(c)
  PROVE  IInv'
<1>1. End(c) /\ UNCHANGED rows /\ stage[c] # "idle"
  BY DEF Fail
<1>2. call[c].order \in Orders
  BY <1>1 DEF IInv, CallsKnown, Known, Fit, Calls
<1>3. torn' \subseteq Orders
  BY <1>2 DEF Fail, IInv, TypeOK
<1>4. TypeOK'
  BY <1>1, <1>3, EndFacts DEF IInv, TypeOK, rows
<1> QED
  BY <1>1, <1>4, EndFacts, RowsKept DEF IInv

\* What a call finds exists.
LEMMA FindKeepsIInv ==
  ASSUME IInv, NEW c \in Callers, Find(c)
  PROVE  IInv'
<1>1. Known(c) /\ stage[c] = "moved" /\ HasMoved(c)
  BY DEF Find, IInv, CallsKnown, Known
<1>2. PICK found \in SUBSET Appointments, i \in EntriesToClose(c) \cup {0} :
        /\ FindAppointments(c, found)
        /\ call' = [call EXCEPT ![c].about = found, ![c].entry = i]
  BY DEF Find
<1>3. /\ stage' = [stage EXCEPT ![c] = "found"] /\ UNCHANGED <<orders, appointments, entries>>
      /\ UNCHANGED <<torn, overlapped, calls>>
  BY DEF Find, To, rows
<1> DEFINE k == [call[c] EXCEPT !.about = found, !.entry = i]
<1>4. i \in DOMAIN entries \cup {0} /\ i \in Nat
  BY <1>2, EntriesTyped DEF EntriesToClose, IInv
<1>5. \A a \in found : appointments[a] # None
  BY <1>2 DEF FindAppointments, Linked
<1>6. call[c] \in Calls /\ call \in [Callers -> Calls \cup {NoCall}]
  BY <1>1 DEF Known, Fit, IInv, TypeOK
<1>7. /\ k \in Calls /\ k.op = call[c].op /\ k.order = call[c].order
      /\ k.technician = call[c].technician /\ k.to = call[c].to
      /\ k.about = found /\ k.entry = i
  BY <1>4, <1>6 DEF Calls
<1>8. call' = [call EXCEPT ![c] = k]
  BY <1>2
<1> HIDE DEF k
<1>9. /\ stage'[c] = "found" /\ call'[c] = k
      /\ \A d \in Callers : d # c => stage'[d] = stage[d] /\ call'[d] = call[d]
  BY <1>3, <1>6, <1>8 DEF IInv, TypeOK
<1>10. TypeOK'
  <2>1. "found" \in Stages
    BY DEF Stages
  <2> QED
    BY <1>3, <1>6, <1>7, <1>8, <2>1 DEF IInv, TypeOK
<1>11. Known(c)'
  BY <1>1, <1>3, <1>4, <1>5, <1>7, <1>9 DEF Known, Fit, HasMoved
<1> QED
  BY <1>3, <1>9, <1>10, <1>11, RowsKept DEF rows
-----------------------------------------------------------------------------
(* Steps that write entries and appointments. *)

\* The appointments of the call are stamped, the others left alone.
LEMMA StampFacts ==
  ASSUME TypeOK, NEW c \in Callers, Fit(call[c]), StampBegun(c)
  PROVE  /\ appointments' \in [Appointments -> Bookings \cup {None}]
         /\ \A a \in Appointments : appointments[a] # None =>
              appointments'[a] # None /\ (appointments[a].begun => appointments'[a].begun)
         /\ \A a \in call[c].about : appointments'[a] # None /\ appointments'[a].begun
<1>1. call[c].about \subseteq Appointments /\ \A a \in call[c].about : appointments[a] # None
  BY DEF Fit, Calls
<1>2. ASSUME NEW b \in Bookings
      PROVE  [b EXCEPT !.begun = TRUE] \in Bookings /\ [b EXCEPT !.begun = TRUE].begun
  BY DEF Bookings
<1>3. ASSUME NEW b \in Bookings
      PROVE  b # None
  BY NoneIsNoRow
<1> QED
  BY <1>1, <1>2, <1>3 DEF StampBegun, TypeOK

\* A call that ends, having closed an entry or none and opened another, with its
\* backing, keeps the invariant.
LEMMA OpenKeepsIInv ==
  ASSUME IInv, NEW c \in Callers, End(c), UNCHANGED <<orders, torn>>,
         appointments' \in [Appointments -> Bookings \cup {None}],
         \A a \in Appointments : appointments[a] # None =>
              appointments'[a] # None /\ (appointments[a].begun => appointments'[a].begun),
         NEW i \in Nat, i = 0 \/ i \in DOMAIN entries, NEW e \in Entries,
         entries' = Append(WithStatus(i, "COMPLETED"), e),
         \A a \in e.appointments : appointments'[a] # None,
         e.type = "TRAVEL" => \A a \in e.appointments : appointments'[a].begun,
         e.type = "ON_SITE" => orders[e.order].started
  PROVE  IInv'
<1> DEFINE s == WithStatus(i, "COMPLETED")
<1>1. /\ s \in Seq(Entries) /\ DOMAIN s = DOMAIN entries
      /\ \A j \in DOMAIN entries : /\ s[j].type = entries[j].type
                                   /\ s[j].order = entries[j].order
                                   /\ s[j].appointments = entries[j].appointments
  BY WithStatusFacts DEF IInv
<1> HIDE DEF s
<1>2. /\ entries' \in Seq(Entries)
      /\ DOMAIN entries' = DOMAIN entries \cup {Len(s) + 1}
      /\ entries'[Len(s) + 1] = e
      /\ \A j \in DOMAIN entries : entries'[j] = s[j]
  BY <1>1, AppendFacts DEF s
<1>3. TypeOK'
  BY <1>2, EndFacts DEF IInv, TypeOK
<1>4. Grows
  BY <1>1, <1>2 DEF Grows
<1>5. OrdersBacked'
  BY DEF OrdersBacked, IInv, EntriesAreBacked
<1>6. \A j \in DOMAIN entries' : j \notin DOMAIN entries => Backed(j)'
  BY <1>2 DEF Backed
<1> QED
  BY <1>3, <1>4, <1>5, <1>6, EndFacts, StepKeepsIInv DEF IInv

\* A call that ends, having set the status of an entry or of none.
LEMMA EditKeepsIInv ==
  ASSUME IInv, NEW c \in Callers, End(c), UNCHANGED <<orders, torn>>,
         appointments' \in [Appointments -> Bookings \cup {None}],
         \A a \in Appointments : appointments[a] # None =>
              appointments'[a] # None /\ (appointments[a].begun => appointments'[a].begun),
         NEW i \in Nat, i = 0 \/ i \in DOMAIN entries, NEW s \in {"ACTIVE", "COMPLETED"},
         entries' = WithStatus(i, s)
  PROVE  IInv'
<1>1. /\ entries' \in Seq(Entries) /\ DOMAIN entries' = DOMAIN entries
      /\ \A j \in DOMAIN entries : /\ entries'[j].type = entries[j].type
                                   /\ entries'[j].order = entries[j].order
                                   /\ entries'[j].appointments = entries[j].appointments
  BY WithStatusFacts DEF IInv
<1>2. TypeOK'
  BY <1>1, EndFacts DEF IInv, TypeOK
<1>3. Grows
  BY <1>1 DEF Grows
<1>4. OrdersBacked'
  BY DEF OrdersBacked, IInv, EntriesAreBacked
<1> QED
  BY <1>1, <1>2, <1>3, <1>4, EndFacts, StepKeepsIInv DEF IInv

\* Travel: the appointment is stamped with the entry.
LEMMA CommitTravelKeepsIInv ==
  ASSUME IInv, NEW c \in Callers, CommitTravel(c)
  PROVE  IInv'
<1> DEFINE e == Entry(call[c].technician, call[c].order, "TRAVEL", FALSE, call[c].about)
<1>1. /\ Fit(call[c]) /\ call[c].technician \in Technicians /\ call[c].order \in Orders
      /\ call[c].about \in SUBSET Appointments
  BY DEF CommitTravel, IInv, CallsKnown, Known, Fit, Calls
<1>2. End(c) /\ StampBegun(c) /\ entries' = Append(entries, e) /\ UNCHANGED <<orders, torn>>
  BY DEF CommitTravel
<1>3. e \in Entries /\ e.type = "TRAVEL" /\ e.appointments = call[c].about
  BY <1>1 DEF Entry, Entries
<1>4. 0 \in Nat /\ entries' = Append(WithStatus(0, "COMPLETED"), e)
  BY <1>2 DEF WithStatus
<1>5. /\ appointments' \in [Appointments -> Bookings \cup {None}]
      /\ \A a \in Appointments : appointments[a] # None =>
              appointments'[a] # None /\ (appointments[a].begun => appointments'[a].begun)
      /\ \A a \in call[c].about : appointments'[a] # None /\ appointments'[a].begun
  BY <1>1, <1>2, StampFacts DEF IInv
<1> HIDE DEF e
<1>6. /\ \A a \in e.appointments : appointments'[a] # None
      /\ e.type = "TRAVEL" => \A a \in e.appointments : appointments'[a].begun
      /\ e.type = "ON_SITE" => orders[e.order].started
  BY <1>3, <1>5
<1> QED
  BY <1>2, <1>3, <1>4, <1>5, <1>6, OpenKeepsIInv

\* A break or an administrative entry.
LEMMA CommitRecordKeepsIInv ==
  ASSUME IInv, NEW c \in Callers, CommitRecord(c)
  PROVE  IInv'
<1> DEFINE e == Entry(call[c].technician, call[c].order, "OTHER", FALSE, {})
<1>1. call[c].technician \in Technicians /\ call[c].order \in Orders
  BY DEF CommitRecord, IInv, CallsKnown, Known, Fit, Calls
<1>2. End(c) /\ entries' = Append(entries, e) /\ UNCHANGED <<orders, appointments, torn>>
  BY DEF CommitRecord
<1>3. e \in Entries /\ e.type = "OTHER" /\ e.appointments = {}
  BY <1>1 DEF Entry, Entries
<1>4. 0 \in Nat /\ entries' = Append(WithStatus(0, "COMPLETED"), e)
  BY <1>2 DEF WithStatus
<1>5. /\ appointments' \in [Appointments -> Bookings \cup {None}]
      /\ \A a \in Appointments : appointments[a] # None =>
              appointments'[a] # None /\ (appointments[a].begun => appointments'[a].begun)
  BY <1>2 DEF IInv, TypeOK
<1> HIDE DEF e
<1>6. /\ \A a \in e.appointments : appointments'[a] # None
      /\ e.type = "TRAVEL" => \A a \in e.appointments : appointments'[a].begun
      /\ e.type = "ON_SITE" => orders[e.order].started
  BY <1>3
<1> QED
  BY <1>2, <1>3, <1>4, <1>5, <1>6, OpenKeepsIInv

\* What a technician's call found, when it commits.
LEMMA FoundFacts ==
  ASSUME IInv, NEW c \in Callers, NEW op \in FieldMoves, CommitField(c, op)
  PROVE  /\ Fit(call[c]) /\ call[c].op = op /\ call[c].order \in Orders
         /\ call[c].about \in SUBSET Appointments
         /\ call[c].entry \in Nat /\ (call[c].entry = 0 \/ call[c].entry \in DOMAIN entries)
         /\ op # "completeAdmin" => call[c].technician \in Technicians
         /\ op \in {"start", "resume"} => orders[call[c].order].started
         /\ End(c) /\ UNCHANGED <<orders, torn>>
BY DEF CommitField, IInv, CallsKnown, Known, HasMoved, Fit, Calls, FieldMoves

\* Work on site begins.
LEMMA CommitStartKeepsIInv ==
  ASSUME IInv, NEW c \in Callers, CommitStart(c)
  PROVE  IInv'
<1> DEFINE e == Entry(call[c].technician, call[c].order, "ON_SITE", FALSE, call[c].about)
<1>1. CommitField(c, "start") /\ "start" \in FieldMoves
  BY DEF CommitStart, FieldMoves
<1>2. StampBegun(c) /\ entries' = Append(WithStatus(call[c].entry, "COMPLETED"), e)
  BY DEF CommitStart
<1>3. e \in Entries /\ e.type = "ON_SITE" /\ e.order = call[c].order
      /\ e.appointments = call[c].about
  <2>1. /\ call[c].technician \in Technicians /\ call[c].order \in Orders
        /\ call[c].about \in SUBSET Appointments
    BY <1>1, FoundFacts
  <2> QED
    BY <2>1 DEF Entry, Entries
<1>4. /\ Fit(call[c]) /\ End(c) /\ UNCHANGED <<orders, torn>>
      /\ call[c].entry \in Nat /\ (call[c].entry = 0 \/ call[c].entry \in DOMAIN entries)
      /\ orders[call[c].order].started
  BY <1>1, FoundFacts
<1>5. /\ appointments' \in [Appointments -> Bookings \cup {None}]
      /\ \A a \in Appointments : appointments[a] # None =>
              appointments'[a] # None /\ (appointments[a].begun => appointments'[a].begun)
      /\ \A a \in call[c].about : appointments'[a] # None /\ appointments'[a].begun
  BY <1>2, <1>4, StampFacts DEF IInv
<1> HIDE DEF e
<1>6. /\ \A a \in e.appointments : appointments'[a] # None
      /\ e.type = "TRAVEL" => \A a \in e.appointments : appointments'[a].begun
      /\ e.type = "ON_SITE" => orders[e.order].started
  BY <1>3, <1>4, <1>5
<1> QED
  BY <1>2, <1>3, <1>4, <1>5, <1>6, OpenKeepsIInv

\* Work on site goes on.
LEMMA CommitResumeKeepsIInv ==
  ASSUME IInv, NEW c \in Callers, CommitResume(c)
  PROVE  IInv'
<1> DEFINE e == Entry(call[c].technician, call[c].order, "ON_SITE", TRUE, call[c].about)
<1>1. CommitField(c, "resume") /\ "resume" \in FieldMoves
  BY DEF CommitResume, FieldMoves
<1>2. /\ 0 \in Nat /\ entries' = Append(WithStatus(0, "COMPLETED"), e)
      /\ UNCHANGED appointments
  BY DEF CommitResume, WithStatus
<1>3. e \in Entries /\ e.type = "ON_SITE" /\ e.order = call[c].order
      /\ e.appointments = call[c].about
  <2>1. /\ call[c].technician \in Technicians /\ call[c].order \in Orders
        /\ call[c].about \in SUBSET Appointments
    BY <1>1, FoundFacts
  <2> QED
    BY <2>1 DEF Entry, Entries
<1>4. /\ \A a \in call[c].about : appointments[a] # None
      /\ End(c) /\ UNCHANGED <<orders, torn>>
      /\ orders[call[c].order].started
  BY <1>1, FoundFacts DEF Fit
<1>5. /\ appointments' \in [Appointments -> Bookings \cup {None}]
      /\ \A a \in Appointments : appointments[a] # None =>
              appointments'[a] # None /\ (appointments[a].begun => appointments'[a].begun)
  BY <1>2 DEF IInv, TypeOK
<1> HIDE DEF e
<1>6. /\ \A a \in e.appointments : appointments'[a] # None
      /\ e.type = "TRAVEL" => \A a \in e.appointments : appointments'[a].begun
      /\ e.type = "ON_SITE" => orders[e.order].started
  BY <1>2, <1>3, <1>4
<1> QED
  BY <1>2, <1>3, <1>4, <1>5, <1>6, OpenKeepsIInv

\* Work on site stops.
LEMMA CommitHoldKeepsIInv ==
  ASSUME IInv, NEW c \in Callers, CommitHold(c)
  PROVE  IInv'
<1>1. CommitField(c, "hold") /\ "hold" \in FieldMoves
  BY DEF CommitHold, FieldMoves
<1>2. entries' = WithStatus(call[c].entry, "COMPLETED") /\ UNCHANGED appointments
  BY DEF CommitHold
<1> QED
  BY <1>1, <1>2, FoundFacts, EditKeepsIInv DEF IInv, TypeOK

\* Work on site is done: the appointments found are completed.
LEMMA CommitCompleteKeepsIInv ==
  ASSUME IInv, NEW c \in Callers, CommitComplete(c)
  PROVE  IInv'
<1>1. PICK op \in {"complete", "completeAdmin"} : CommitField(c, op)
  BY DEF CommitComplete
<1>2. op \in FieldMoves
  BY DEF FieldMoves
<1>3. entries' = WithStatus(call[c].entry, "COMPLETED")
  BY DEF CommitComplete
<1>4. ASSUME NEW b \in Bookings
      PROVE  /\ [b EXCEPT !.status = "COMPLETED"] \in Bookings
             /\ [b EXCEPT !.status = "COMPLETED"].begun = b.begun /\ b # None
  BY NoneIsNoRow DEF Bookings
<1>5. /\ call[c].about \in SUBSET Appointments
      /\ \A a \in call[c].about : appointments[a] # None
  BY <1>1, <1>2, FoundFacts DEF Fit
<1>6. /\ appointments' \in [Appointments -> Bookings \cup {None}]
      /\ \A a \in Appointments : appointments[a] # None =>
              appointments'[a] # None /\ (appointments[a].begun => appointments'[a].begun)
  BY <1>4, <1>5, NoneIsNoRow DEF CommitComplete, IInv, TypeOK
<1> QED
  BY <1>1, <1>2, <1>3, <1>6, FoundFacts, EditKeepsIInv

\* An entry is closed or opened again.
LEMMA CommitEditKeepsIInv ==
  ASSUME IInv, NEW c \in Callers, CommitEdit(c)
  PROVE  IInv'
<1>1. /\ call[c].entry \in Nat /\ (call[c].entry = 0 \/ call[c].entry \in DOMAIN entries)
      /\ call[c].to \in {"ACTIVE", "COMPLETED"}
  BY DEF CommitEdit, IInv, CallsKnown, Known, Fit, Calls
<1>2. /\ End(c) /\ UNCHANGED <<orders, appointments, torn>>
      /\ entries' = WithStatus(call[c].entry, call[c].to)
  BY DEF CommitEdit
<1> QED
  BY <1>1, <1>2, EditKeepsIInv DEF IInv, TypeOK

\* What Scheduling does creates appointments and never takes the stamp back.
LEMMA BookingKeepsIInv ==
  ASSUME IInv, NEW a \in Appointments, NEW b \in Bookings, Booking(a, b),
         appointments[a] # None => (appointments[a].begun => b.begun)
  PROVE  IInv'
<1>1. /\ appointments' = [appointments EXCEPT ![a] = b] /\ overlapped' \in BOOLEAN
      /\ UNCHANGED <<orders, entries, stage, call, torn, calls>>
  BY DEF Booking, IInv, TypeOK
<1>2. TypeOK'
  BY <1>1 DEF IInv, TypeOK
<1>3. Grows
  BY <1>1, NoneIsNoRow DEF Grows, IInv, TypeOK
<1>4. CallsKnown'
  <2> SUFFICES ASSUME NEW d \in Callers, stage'[d] # "idle"  PROVE Known(d)'
    BY DEF CallsKnown
  <2> QED
    BY <1>1, <1>3, OthersKept
<1>5. \A i \in DOMAIN entries : Backed(i)'
  <2> SUFFICES ASSUME NEW i \in DOMAIN entries  PROVE Backed(i)'
    OBVIOUS
  <2>1. entries[i].appointments \subseteq Appointments /\ entries[i].order \in Orders
    BY EntriesTyped DEF IInv, Entries
  <2> QED
    BY <1>1, <1>3, <2>1 DEF IInv, Created, EntriesAreBacked, Backed, Grows
<1>6. Created' /\ EntriesAreBacked'
  BY <1>1, <1>5 DEF Created, EntriesAreBacked, Backed, IInv
<1> QED
  BY <1>2, <1>4, <1>6 DEF IInv
-----------------------------------------------------------------------------
(* The invariant is inductive. *)

\* What Scheduling leaves is a booking, stamped if it was.
LEMMA ScheduleKeepsIInv ==
  ASSUME IInv, NEW a \in Appointments,
         \/ Acknowledge(a) \/ Recall(a) \/ CancelSchedule(a)
         \/ \E w \in Orders : CreateSchedule(a, w)
  PROVE  IInv'
<1>1. SUFFICES \E b \in Bookings :
                 Booking(a, b) /\ (appointments[a] # None => (appointments[a].begun => b.begun))
  BY BookingKeepsIInv
<1>2. appointments[a] # None => appointments[a] \in Bookings
  BY DEF IInv, TypeOK
<1>3. ASSUME NEW b \in Bookings, NEW x \in BOOLEAN
      PROVE  [b EXCEPT !.acknowledged = x] \in Bookings
             /\ [b EXCEPT !.acknowledged = x].begun = b.begun
  BY DEF Bookings
<1>4. CASE Acknowledge(a)
  BY <1>2, <1>3, <1>4 DEF Acknowledge
<1>5. CASE Recall(a)
  BY <1>2, <1>3, <1>5 DEF Recall
<1>6. CASE CancelSchedule(a)
  <2> DEFINE b == [appointments[a] EXCEPT !.status = "CANCELLED", !.acknowledged = FALSE]
  <2>1. appointments[a] \in Bookings
    BY <1>2, <1>6 DEF CancelSchedule
  <2>2. b \in Bookings /\ b.begun = appointments[a].begun
    BY <2>1 DEF Bookings
  <2>3. Booking(a, b)
    BY <1>6 DEF CancelSchedule
  <2> HIDE DEF b
  <2> QED
    BY <2>2, <2>3
<1>7. CASE \E w \in Orders : CreateSchedule(a, w)
  <2>1. PICK w \in Orders : CreateSchedule(a, w)
    BY <1>7
  <2> DEFINE b == [order |-> w, technician |-> orders[w].technician, status |-> "ACTIVE",
                   acknowledged |-> FALSE, begun |-> FALSE]
  <2>2. orders[w].technician \in Technicians
    BY <2>1 DEF CreateSchedule, IInv, TypeOK, WorkOrders
  <2>3. b \in Bookings
    BY <2>2 DEF Bookings
  <2>4. Booking(a, b) /\ appointments[a] = None
    BY <2>1 DEF CreateSchedule
  <2> QED
    BY <2>3, <2>4
<1> QED
  BY <1>4, <1>5, <1>6, <1>7

\* At first no call is under way and no entry open.
LEMMA InitIInv == Init => IInv
<1> SUFFICES ASSUME Init  PROVE IInv
  OBVIOUS
<1>1. entries = <<>> /\ DOMAIN entries = {}
  BY DEF Init
<1>2. /\ orders \in [Orders -> WorkOrders]
      /\ \A w \in Orders : orders[w].status \in {"OPEN", "ASSIGNED"}
      /\ appointments \in [Appointments -> Bookings \cup {None}]
  <2>1. CASE /\ orders = [w \in Orders |-> [status |-> "OPEN", technician |-> None,
                                           started |-> FALSE, closer |-> None]]
             /\ appointments = [a \in Appointments |-> None]
    BY <2>1 DEF WorkOrders, Statuses, Terminal
  <2>2. CASE \E t \in Technicians, of \in [Appointments -> Orders] :
               /\ orders = [w \in Orders |-> [status |-> "ASSIGNED", technician |-> t,
                                              started |-> FALSE, closer |-> None]]
               /\ appointments = [a \in Appointments |->
                    [order |-> of[a], technician |-> t, status |-> "ACTIVE",
                     acknowledged |-> TRUE, begun |-> FALSE]]
    <3>1. PICK t \in Technicians, of \in [Appointments -> Orders] :
               /\ orders = [w \in Orders |-> [status |-> "ASSIGNED", technician |-> t,
                                              started |-> FALSE, closer |-> None]]
               /\ appointments = [a \in Appointments |->
                    [order |-> of[a], technician |-> t, status |-> "ACTIVE",
                     acknowledged |-> TRUE, begun |-> FALSE]]
      BY <2>2
    <3>2. /\ orders \in [Orders -> WorkOrders]
          /\ \A w \in Orders : orders[w].status \in {"OPEN", "ASSIGNED"}
      BY <3>1 DEF WorkOrders, Statuses, Terminal
    <3>3. appointments \in [Appointments -> Bookings]
      BY <3>1 DEF Bookings
    <3> QED
      BY <3>2, <3>3
  <2> QED
    BY <2>1, <2>2 DEF Init
<1>3. /\ stage = [c \in Callers |-> "idle"] /\ call = [c \in Callers |-> NoCall]
      /\ torn = {} /\ overlapped = FALSE /\ calls = 0
  BY DEF Init
<1>4. TypeOK
  <2>1. entries \in Seq(Entries)
    BY <1>1
  <2>2. stage \in [Callers -> Stages] /\ call \in [Callers -> Calls \cup {NoCall}]
    BY <1>3 DEF Stages
  <2> QED
    BY <1>2, <1>3, <2>1, <2>2 DEF TypeOK
<1>5. CallsKnown
  BY <1>3 DEF CallsKnown
<1>6. Created /\ EntriesAreBacked
  BY <1>1, <1>2 DEF Created, EntriesAreBacked
<1> QED
  BY <1>4, <1>5, <1>6 DEF IInv

\* Every step keeps it.
LEMMA NextKeepsIInv == IInv /\ [Next]_vars => IInv'
<1> SUFFICES ASSUME IInv, [Next]_vars  PROVE IInv'
  OBVIOUS
<1>1. ASSUME NEW c \in Callers, Start(c)  PROVE IInv'
  BY <1>1, StartKeepsIInv
<1>2. ASSUME NEW c \in Callers, Proceed(c)  PROVE IInv'
  <2>1. CASE CommitTransition(c) \/ CommitAssign(c) \/ CommitMove(c) \/ Find(c)
    BY <2>1, CommitTransitionKeepsIInv, CommitAssignKeepsIInv, CommitMoveKeepsIInv, FindKeepsIInv
  <2>2. CASE CommitStart(c) \/ CommitHold(c) \/ CommitResume(c) \/ CommitComplete(c)
    BY <2>2, CommitStartKeepsIInv, CommitHoldKeepsIInv, CommitResumeKeepsIInv,
       CommitCompleteKeepsIInv
  <2>3. CASE CommitTravel(c) \/ CommitRecord(c) \/ CommitEdit(c)
    BY <2>3, CommitTravelKeepsIInv, CommitRecordKeepsIInv, CommitEditKeepsIInv
  <2> QED
    BY <1>2, <2>1, <2>2, <2>3 DEF Proceed
<1>3. ASSUME NEW c \in Callers, Fail(c)  PROVE IInv'
  BY <1>3, FailKeepsIInv
<1>4. ASSUME NEW a \in Appointments,
             \/ Acknowledge(a) \/ Recall(a) \/ CancelSchedule(a)
             \/ \E w \in Orders : CreateSchedule(a, w)
      PROVE  IInv'
  BY <1>4, ScheduleKeepsIInv
<1>5. CASE UNCHANGED vars
  BY <1>5 DEF vars, rows, IInv, TypeOK, CallsKnown, Known, Fit, HasMoved, Created, EntriesAreBacked
<1> QED
  BY <1>1, <1>2, <1>3, <1>4, <1>5 DEF Next

\* The inductive invariant holds of every behaviour.
LEMMA Inductive == Spec => []IInv
  BY InitIInv, NextKeepsIInv, PTL DEF Spec

\* Every write keeps the rows in their types.
THEOREM TypeCorrect == Spec => []TypeOK
<1>1. IInv => TypeOK
  BY DEF IInv
<1> QED
  BY <1>1, Inductive, PTL

\* The two transactions of a technician's call, and the single one of travel: an
\* entry never stands without the stamp or the start it was written for.
THEOREM WorkIsBacked == Spec => []EntriesAreBacked
<1>1. IInv => EntriesAreBacked
  BY DEF IInv
<1> QED
  BY <1>1, Inductive, PTL
-----------------------------------------------------------------------------
(* Calls in series. *)

\* What a call was let through for, as long as its order stays as it was.
Allowed(k) ==
  /\ k.op \in Moves =>
       /\ <<orders[k.order].status, k.to>> \in Matrix
       /\ k.to = "COMPLETED" => orders[k.order].technician # None
  /\ k.op = "assign" => orders[k.order].status \notin Terminal

SerialInv ==
  ~overlapped =>
    /\ \A c, d \in Callers : stage[c] # "idle" /\ stage[d] # "idle" => c = d
    /\ \A c \in Callers : stage[c] = "read" => Allowed(call[c])
    /\ \A w \in Orders : orders[w].status = "COMPLETED" => orders[w].technician # None

\* The step that SerialEndsAreFinal asks for.
EndsFinal ==
  \A w \in Orders :
    /\ orders[w].status \in Terminal => orders'[w] = orders[w]
    /\ orders'[w].status = "COMPLETED" => orders'[w].technician # None

\* Only a call that is alone starts without overlapping.
LEMMA EnterInSeries ==
  ASSUME IInv, SerialInv, NEW c \in Callers, NEW k, Allowed(k), Enter(c, k), ~overlapped'
  PROVE  SerialInv' /\ EndsFinal
<1>1. /\ stage' = [stage EXCEPT ![c] = "read"] /\ call' = [call EXCEPT ![c] = k]
      /\ ~overlapped /\ \A d \in Callers \ {c} : stage[d] = "idle"
      /\ UNCHANGED orders
  BY DEF Enter, To, rows
<1>2. /\ stage'[c] = "read" /\ call'[c] = k
      /\ \A d \in Callers : d # c => stage'[d] = "idle"
  BY <1>1 DEF IInv, TypeOK
<1>3. \A w \in Orders : orders[w].status = "COMPLETED" => orders[w].technician # None
  BY <1>1 DEF SerialInv
<1>4. Allowed(k)'
  BY <1>1 DEF Allowed
<1>5. EndsFinal
  BY <1>1, <1>3 DEF EndsFinal
<1> QED
  BY <1>1, <1>2, <1>3, <1>4, <1>5 DEF SerialInv

\* A step that leaves the orders alone and starts no call.
LEMMA KeptInSeries ==
  ASSUME SerialInv, UNCHANGED orders, ~overlapped, ~overlapped',
         \A d \in Callers : stage'[d] # "idle" => stage[d] # "idle",
         \A d \in Callers : stage'[d] = "read" => stage[d] = "read" /\ call'[d] = call[d]
  PROVE  SerialInv' /\ EndsFinal
<1>1. /\ \A c, d \in Callers : stage[c] # "idle" /\ stage[d] # "idle" => c = d
      /\ \A c \in Callers : stage[c] = "read" => Allowed(call[c])
      /\ \A w \in Orders : orders[w].status = "COMPLETED" => orders[w].technician # None
  BY DEF SerialInv
<1>2. \A d \in Callers : stage'[d] = "read" => Allowed(call[d])'
  BY <1>1 DEF Allowed
<1> QED
  BY <1>1, <1>2 DEF SerialInv, EndsFinal

\* The one call under way writes the order it was let through for.
LEMMA WriteInSeries ==
  ASSUME IInv, SerialInv, ~overlapped', UNCHANGED overlapped, NEW c \in Callers,
         stage[c] # "idle", stage'[c] # "read",
         \A d \in Callers : d # c => stage'[d] = stage[d],
         NEW o, orders' = [orders EXCEPT ![call[c].order] = o],
         orders[call[c].order].status \notin Terminal,
         o.status = "COMPLETED" => o.technician # None
  PROVE  SerialInv' /\ EndsFinal
<1> DEFINE w == call[c].order
<1>1. orders \in [Orders -> WorkOrders]
  BY DEF IInv, TypeOK
<1>2. /\ \A d \in Callers : d # c => stage[d] = "idle"
      /\ \A v \in Orders : orders[v].status = "COMPLETED" => orders[v].technician # None
  BY DEF SerialInv
<1>3. \A v \in Orders : (v = w => orders'[v] = o) /\ (v # w => orders'[v] = orders[v])
  BY <1>1
<1>4. EndsFinal
  BY <1>2, <1>3 DEF EndsFinal
<1>5. \A v \in Orders : orders'[v].status = "COMPLETED" => orders'[v].technician # None
  BY <1>4 DEF EndsFinal
<1> QED
  BY <1>2, <1>4, <1>5 DEF SerialInv

\* A move that is allowed leaves a completed order its technician.
LEMMA MoveInSeries ==
  ASSUME IInv, SerialInv, ~overlapped', UNCHANGED overlapped, NEW c \in Callers,
         stage[c] = "read", call[c].op \in Moves, MoveOrder(c), stage'[c] # "read",
         \A d \in Callers : d # c => stage'[d] = stage[d]
  PROVE  SerialInv' /\ EndsFinal
<1> DEFINE w == call[c].order
           m == Moved(orders[w], call[c].to, call[c].op)
<1>1. Allowed(call[c])
  BY DEF SerialInv
<1>2. <<orders[w].status, call[c].to>> \in Matrix
      /\ (call[c].to = "COMPLETED" => orders[w].technician # None)
  BY <1>1 DEF Allowed
<1>3. orders[w].status \notin Terminal
  BY <1>2 DEF Matrix, Terminal
<1>4. m.status = "COMPLETED" => m.technician # None
  BY <1>2 DEF Moved
<1>5. orders' = [orders EXCEPT ![w] = m]
  BY DEF MoveOrder
<1> HIDE DEF m
<1> QED
  BY <1>3, <1>4, <1>5, WriteInSeries

\* An assignment finds its order as it was.
LEMMA AssignInSeries ==
  ASSUME IInv, SerialInv, ~overlapped', NEW c \in Callers, CommitAssign(c)
  PROVE  SerialInv' /\ EndsFinal
<1> DEFINE w == call[c].order
           o == [orders[w] EXCEPT !.technician = call[c].technician]
<1>1. /\ stage[c] = "read" /\ call[c].op = "assign" /\ End(c)
      /\ orders' = [orders EXCEPT ![w] = o]
  BY DEF CommitAssign
<1>2. w \in Orders /\ orders[w] \in WorkOrders
  BY <1>1 DEF IInv, TypeOK, CallsKnown, Known, Fit, Calls
<1>3. UNCHANGED overlapped /\ Allowed(call[c])
  BY <1>1 DEF End, SerialInv
<1>4. orders[w].status \notin Terminal
  BY <1>1, <1>3 DEF Allowed
<1>5. o.status = orders[w].status
  BY <1>2 DEF WorkOrders
<1>6. o.status = "COMPLETED" => o.technician # None
  BY <1>4, <1>5 DEF Terminal
<1>7. /\ stage'[c] = "idle"
      /\ \A d \in Callers : d # c => stage'[d] = stage[d]
  BY <1>1, EndFacts DEF IInv
<1> HIDE DEF o
<1> QED
  BY <1>1, <1>3, <1>4, <1>6, <1>7, WriteInSeries

\* Every call starts with what it was let through for.
LEMMA StartInSeries ==
  ASSUME IInv, SerialInv, NEW c \in Callers, Start(c), ~overlapped'
  PROVE  SerialInv' /\ EndsFinal
<1> USE DEF Args, Moves, FieldMoves
<1>1. SUFFICES \E k : Allowed(k) /\ Enter(c, k)
  BY EnterInSeries
<1>2. ASSUME NEW w \in Orders, NEW s \in Statuses, Transition(c, w, s)
      PROVE  Allowed(Args("transition", w, None, s, 0, {}))
             /\ Enter(c, Args("transition", w, None, s, 0, {}))
  BY <1>2 DEF Transition, MayMove, Allowed
<1>3. ASSUME NEW w \in Orders, UnassignWorkOrder(c, w)
      PROVE  Allowed(Args("assign", w, None, None, 0, {}))
             /\ Enter(c, Args("assign", w, None, None, 0, {}))
  BY <1>3 DEF UnassignWorkOrder, Allowed
<1>4. ASSUME NEW w \in Orders, NEW t \in Technicians,
             AssignWorkOrder(c, w, t) \/ ReassignWorkOrder(c, w, t)
      PROVE  Allowed(Args("assign", w, t, None, 0, {}))
             /\ Enter(c, Args("assign", w, t, None, 0, {}))
  BY <1>4 DEF AssignWorkOrder, ReassignWorkOrder, Allowed
<1>5. ASSUME NEW w \in Orders, CompleteWorkOrderAdmin(c, w)
      PROVE  Allowed(Args("completeAdmin", w, None, "COMPLETED", 0, {}))
             /\ Enter(c, Args("completeAdmin", w, None, "COMPLETED", 0, {}))
  BY <1>5 DEF CompleteWorkOrderAdmin, MayMove, Allowed
<1>6. ASSUME NEW w \in Orders, NEW t \in Technicians, NEW op \in FieldMoves, NEW s \in Statuses,
             FieldMove(c, op, w, t, s)
      PROVE  Allowed(Args(op, w, t, s, 0, {})) /\ Enter(c, Args(op, w, t, s, 0, {}))
  BY <1>6 DEF FieldMove, MayMove, Allowed
<1>7. ASSUME NEW w \in Orders, NEW t \in Technicians,
             \/ StartTechnicianWorkOrder(c, w, t) \/ HoldTechnicianWorkOrder(c, w, t)
             \/ ResumeTechnicianWorkOrder(c, w, t) \/ CompleteTechnicianWorkOrder(c, w, t)
      PROVE  \E op \in FieldMoves, s \in Statuses : FieldMove(c, op, w, t, s)
  BY <1>7 DEF StartTechnicianWorkOrder, HoldTechnicianWorkOrder, ResumeTechnicianWorkOrder,
              CompleteTechnicianWorkOrder, Statuses, Terminal
<1>8. ASSUME NEW w \in Orders, NEW t \in Technicians,
             \/ RecordTechnicianTimeEntry(c, w, t)
             \/ \E a \in Appointments : StartTechnicianTravel(c, w, t, a)
      PROVE  \E k : Allowed(k) /\ Enter(c, k)
  BY <1>8 DEF RecordTechnicianTimeEntry, StartTechnicianTravel, Allowed
<1>9. ASSUME NEW i \in DOMAIN entries,
             \/ UpdateTechnicianTimeEntry(c, i)
             \/ \E s \in {"ACTIVE", "COMPLETED"} : UpdateTechnicianTimeEntryAdmin(c, i, s)
      PROVE  \E k : Allowed(k) /\ Enter(c, k)
  BY <1>9 DEF UpdateTechnicianTimeEntry, UpdateTechnicianTimeEntryAdmin, EditEntry, Allowed
<1> QED
  BY <1>2, <1>3, <1>4, <1>5, <1>6, <1>7, <1>8, <1>9 DEF Start

\* Steps of a call that write no order.
LEMMA OtherStepsInSeries ==
  ASSUME IInv, SerialInv, ~overlapped', NEW c \in Callers,
         \/ Find(c) \/ CommitStart(c) \/ CommitHold(c) \/ CommitResume(c) \/ CommitComplete(c)
         \/ CommitTravel(c) \/ CommitRecord(c) \/ CommitEdit(c) \/ Fail(c)
  PROVE  SerialInv' /\ EndsFinal
<1>1. CASE Find(c)
  <2>1. /\ stage[c] = "moved" /\ stage' = [stage EXCEPT ![c] = "found"]
        /\ UNCHANGED <<orders, overlapped>>
        /\ \A d \in Callers : d # c => call'[d] = call[d]
    BY <1>1 DEF Find, To, rows, IInv, TypeOK
  <2>2. \A d \in Callers : stage'[d] # "idle" => stage[d] # "idle"
    BY <2>1 DEF IInv, TypeOK
  <2>3. \A d \in Callers : stage'[d] = "read" => stage[d] = "read" /\ call'[d] = call[d]
    BY <2>1 DEF IInv, TypeOK
  <2> QED
    BY <2>1, <2>2, <2>3, KeptInSeries
<1>2. CASE ~Find(c)
  <2>1. End(c) /\ UNCHANGED orders
    BY <1>2 DEF CommitStart, CommitHold, CommitResume, CommitComplete, CommitField,
                CommitTravel, CommitRecord, CommitEdit, Fail, rows
  <2>2. /\ stage'[c] = "idle" /\ UNCHANGED overlapped
        /\ \A d \in Callers : d # c => stage'[d] = stage[d] /\ call'[d] = call[d]
    BY <2>1, EndFacts DEF IInv
  <2> QED
    BY <2>1, <2>2, KeptInSeries
<1> QED
  BY <1>1, <1>2

\* What Scheduling does leaves the orders alone.
LEMMA BookingInSeries ==
  ASSUME SerialInv, ~overlapped', NEW a \in Appointments, NEW b, Booking(a, b)
  PROVE  SerialInv' /\ EndsFinal
<1>1. ~overlapped
  BY DEF Booking
<1>2. UNCHANGED <<orders, stage, call>>
  BY DEF Booking
<1> QED
  BY <1>1, <1>2, KeptInSeries

\* Every step, of calls in series.
LEMMA NextInSeries ==
  ASSUME IInv, SerialInv, [Next]_vars
  PROVE  SerialInv' /\ (~overlapped' => EndsFinal)
<1>1. SUFFICES ASSUME ~overlapped'  PROVE SerialInv' /\ EndsFinal
  BY DEF SerialInv
<1>2. ASSUME NEW c \in Callers, Start(c)  PROVE SerialInv' /\ EndsFinal
  BY <1>1, <1>2, StartInSeries
<1>3. ASSUME NEW c \in Callers, Proceed(c) \/ Fail(c)  PROVE SerialInv' /\ EndsFinal
  <2>1. CASE CommitTransition(c)
    <3>1. /\ stage[c] = "read" /\ call[c].op \in Moves /\ MoveOrder(c) /\ End(c)
      BY <2>1 DEF CommitTransition, Moves
    <3>2. /\ stage'[c] = "idle" /\ UNCHANGED overlapped
          /\ \A d \in Callers : d # c => stage'[d] = stage[d]
      BY <3>1, EndFacts DEF IInv
    <3> QED
      BY <1>1, <3>1, <3>2, MoveInSeries
  <2>2. CASE CommitMove(c)
    <3>1. /\ stage[c] = "read" /\ call[c].op \in Moves /\ MoveOrder(c) /\ UNCHANGED overlapped
          /\ stage' = [stage EXCEPT ![c] = "moved"]
      BY <2>2 DEF CommitMove, Moves, To
    <3>2. stage'[c] # "read" /\ \A d \in Callers : d # c => stage'[d] = stage[d]
      BY <3>1 DEF IInv, TypeOK
    <3> QED
      BY <1>1, <3>1, <3>2, MoveInSeries
  <2>3. CASE CommitAssign(c)
    BY <1>1, <2>3, AssignInSeries
  <2> QED
    BY <1>1, <1>3, <2>1, <2>2, <2>3, OtherStepsInSeries DEF Proceed
<1>4. ASSUME NEW a \in Appointments,
             \/ Acknowledge(a) \/ Recall(a) \/ CancelSchedule(a)
             \/ \E w \in Orders : CreateSchedule(a, w)
      PROVE  SerialInv' /\ EndsFinal
  <2>1. PICK b : Booking(a, b)
    BY <1>4 DEF Acknowledge, Recall, CancelSchedule, CreateSchedule
  <2> QED
    BY <1>1, <2>1, BookingInSeries
<1>5. CASE UNCHANGED vars
  BY <1>1, <1>5, KeptInSeries DEF vars
<1> QED
  BY <1>2, <1>3, <1>4, <1>5 DEF Next

\* What a call was let through for still holds when it writes, if it is alone.
LEMMA InductiveInSeries == Spec => [](IInv /\ SerialInv)
<1>1. Init => SerialInv
  BY DEF Init, SerialInv
<1>2. IInv /\ SerialInv /\ [Next]_vars => (IInv /\ SerialInv)'
  BY NextKeepsIInv, NextInSeries
<1> QED
  BY <1>1, <1>2, InitIInv, PTL DEF Spec

\* The status machine's terminal states and the rule that only an assigned order is
\* completed (transitionWorkOrderStatus), for calls that do not overlap in time.
THEOREM SerialEnds == Spec => SerialEndsAreFinal
<1>1. IInv /\ SerialInv /\ [Next]_vars =>
        [~overlapped' => \A w \in Orders :
           /\ orders[w].status \in Terminal => orders'[w] = orders[w]
           /\ orders'[w].status = "COMPLETED" => orders'[w].technician # None]_vars
  BY NextInSeries DEF EndsFinal
<1> QED
  BY <1>1, InductiveInSeries, PTL DEF Spec, SerialEndsAreFinal
-----------------------------------------------------------------------------
(* Time entries, of calls in series. *)

Single(t) == \A i, j \in ActiveEntries(t) : i = j
HasResumed(t) == \E i \in DOMAIN entries : entries[i].technician = t /\ entries[i].resumed

\* What a call read of the open entries of its technician is so when it writes.
ReadStands(c) ==
  LET k == call[c] IN
  /\ stage[c] = "read" /\ k.op \in {"travel", "record"} => ActiveEntries(k.technician) = {}
  /\ stage[c] = "read" /\ k.op = "edit" /\ k.to = "ACTIVE"
       => ActiveEntries(entries[k.entry].technician) \subseteq {k.entry}
  /\ stage[c] = "found" /\ k.op = "start" =>
       IF k.entry = 0 THEN ActiveEntries(k.technician) = {}
                      ELSE k.entry \in ActiveEntries(k.technician)

EntriesInv ==
  ~overlapped => /\ \A t \in Technicians : Single(t) \/ HasResumed(t)
                 /\ \A c \in Callers : ReadStands(c)

\* Who has an entry open after one is closed, or none, and one opened.
LEMMA OpenedEntries ==
  ASSUME TypeOK, NEW i \in Nat, i = 0 \/ i \in DOMAIN entries, NEW e \in Entries,
         e.status = "ACTIVE", entries' = Append(WithStatus(i, "COMPLETED"), e)
  PROVE  /\ \A t \in Technicians : e.technician # t => ActiveEntries(t)' = ActiveEntries(t) \ {i}
         /\ ActiveEntries(e.technician)' = (ActiveEntries(e.technician) \ {i}) \cup {Len(entries) + 1}
         /\ \A t \in Technicians : HasResumed(t) => HasResumed(t)'
         /\ e.resumed => HasResumed(e.technician)'
<1> DEFINE s == WithStatus(i, "COMPLETED")
<1>1. /\ s \in Seq(Entries) /\ DOMAIN s = DOMAIN entries
      /\ \A j \in DOMAIN entries : /\ s[j].technician = entries[j].technician
                                   /\ s[j].resumed = entries[j].resumed
                                   /\ s[j].status = IF j = i THEN "COMPLETED" ELSE entries[j].status
  BY WithStatusFacts
<1> HIDE DEF s
<1>2. /\ DOMAIN entries' = DOMAIN entries \cup {Len(s) + 1} /\ Len(s) + 1 \notin DOMAIN entries
      /\ entries'[Len(s) + 1] = e
      /\ \A j \in DOMAIN entries : entries'[j] = s[j]
  BY <1>1, AppendFacts DEF s
<1>3. Len(s) = Len(entries)
  BY <1>1, EntriesTyped, LenProperties
<1>4. ASSUME NEW t, NEW j \in DOMAIN entries
      PROVE  j \in ActiveEntries(t)' <=> j \in ActiveEntries(t) /\ j # i
  BY <1>1, <1>2 DEF ActiveEntries
<1>5. ASSUME NEW t
      PROVE  Len(entries) + 1 \in ActiveEntries(t)' <=> e.technician = t
  BY <1>2, <1>3 DEF ActiveEntries
<1>6. ASSUME NEW t
      PROVE  /\ ActiveEntries(t) \subseteq DOMAIN entries
             /\ ActiveEntries(t)' \subseteq DOMAIN entries \cup {Len(entries) + 1}
  BY <1>2, <1>3 DEF ActiveEntries
<1>7. \A t \in Technicians : HasResumed(t) => HasResumed(t)'
  BY <1>1, <1>2 DEF HasResumed
<1>8. e.resumed => HasResumed(e.technician)'
  BY <1>2 DEF HasResumed
<1>9. Len(entries) + 1 \notin DOMAIN entries
  BY <1>2, <1>3
<1>10. ASSUME NEW t \in Technicians, e.technician # t
       PROVE  ActiveEntries(t)' = ActiveEntries(t) \ {i}
  BY <1>4, <1>5, <1>6, <1>9, <1>10
<1>11. ActiveEntries(e.technician)' = (ActiveEntries(e.technician) \ {i}) \cup {Len(entries) + 1}
  BY <1>4, <1>5, <1>6, <1>9
<1> QED
  BY <1>7, <1>8, <1>10, <1>11

\* Who has an entry open after the status of one is set, or of none.
LEMMA EditedEntries ==
  ASSUME TypeOK, NEW i \in Nat, i = 0 \/ i \in DOMAIN entries, NEW s \in {"ACTIVE", "COMPLETED"},
         entries' = WithStatus(i, s)
  PROVE  /\ \A t \in Technicians :
              \/ ActiveEntries(t)' \subseteq ActiveEntries(t)
              \/ /\ s = "ACTIVE" /\ t = entries[i].technician
                 /\ ActiveEntries(t)' \subseteq ActiveEntries(t) \cup {i}
         /\ \A t \in Technicians : HasResumed(t) => HasResumed(t)'
<1>1. /\ DOMAIN entries' = DOMAIN entries
      /\ \A j \in DOMAIN entries :
           /\ entries'[j].technician = entries[j].technician
           /\ entries'[j].resumed = entries[j].resumed
           /\ entries'[j].status = IF j = i THEN s ELSE entries[j].status
  BY WithStatusFacts
<1>2. ASSUME NEW t, NEW j \in ActiveEntries(t)', j \notin ActiveEntries(t)
      PROVE  j = i /\ s = "ACTIVE" /\ t = entries[i].technician
  BY <1>1, <1>2 DEF ActiveEntries
<1>3. ASSUME NEW t
      PROVE  \/ ActiveEntries(t)' \subseteq ActiveEntries(t)
             \/ /\ s = "ACTIVE" /\ t = entries[i].technician
                /\ ActiveEntries(t)' \subseteq ActiveEntries(t) \cup {i}
  BY <1>2
<1>4. \A t \in Technicians : HasResumed(t) => HasResumed(t)'
  BY <1>1 DEF HasResumed
<1> QED
  BY <1>3, <1>4

\* In series, when a call ends none is under way.
LEMMA EndsAlone ==
  ASSUME TypeOK, SerialInv, ~overlapped', NEW c \in Callers, stage[c] # "idle", End(c)
  PROVE  ~overlapped /\ \A d \in Callers : stage'[d] = "idle"
<1>1. ~overlapped
  BY DEF End
<1>2. \A d \in Callers : d # c => stage[d] = "idle"
  BY <1>1 DEF SerialInv
<1> QED
  BY <1>1, <1>2, EndFacts

\* A call in series ends with an entry opened: its technician had no other open, or
\* resumes her work.
LEMMA OpenInSeries ==
  ASSUME IInv, SerialInv, EntriesInv, ~overlapped', NEW c \in Callers, stage[c] # "idle", End(c),
         NEW i \in Nat, i = 0 \/ i \in DOMAIN entries, NEW e \in Entries, e.status = "ACTIVE",
         entries' = Append(WithStatus(i, "COMPLETED"), e),
         e.resumed \/ ActiveEntries(e.technician) = {} \/ i \in ActiveEntries(e.technician)
  PROVE  EntriesInv'
<1>1. ~overlapped /\ \A d \in Callers : stage'[d] = "idle"
  BY EndsAlone DEF IInv
<1>2. \A d \in Callers : ReadStands(d)'
  BY <1>1 DEF ReadStands
<1>3. e.technician \in Technicians
  BY DEF Entries
<1>4. /\ \A t \in Technicians : e.technician # t => ActiveEntries(t)' = ActiveEntries(t) \ {i}
      /\ ActiveEntries(e.technician)' = (ActiveEntries(e.technician) \ {i}) \cup {Len(entries) + 1}
      /\ \A t \in Technicians : HasResumed(t) => HasResumed(t)'
      /\ e.resumed => HasResumed(e.technician)'
  BY OpenedEntries DEF IInv
<1>5. ASSUME NEW t \in Technicians PROVE Single(t)' \/ HasResumed(t)'
  <2>1. Single(t) \/ HasResumed(t)
    BY <1>1 DEF EntriesInv
  <2>2. CASE HasResumed(t)
    BY <1>4, <2>2
  <2>3. CASE Single(t) /\ e.technician # t
    BY <1>4, <2>3 DEF Single
  <2>4. CASE Single(t) /\ e.technician = t
    <3>1. e.resumed \/ ActiveEntries(t)' = {Len(entries) + 1}
      BY <1>4, <2>4 DEF Single
    <3> QED BY <1>4, <2>4, <3>1 DEF Single
  <2> QED BY <2>1, <2>2, <2>3, <2>4
<1> QED BY <1>2, <1>5 DEF EntriesInv

\* A call in series ends with the status of an entry set, or of none: reopened only
\* when no other is open.
LEMMA EditInSeries ==
  ASSUME IInv, SerialInv, EntriesInv, ~overlapped', NEW c \in Callers, stage[c] # "idle", End(c),
         NEW i \in Nat, i = 0 \/ i \in DOMAIN entries, NEW s \in {"ACTIVE", "COMPLETED"},
         entries' = WithStatus(i, s),
         s = "ACTIVE" => ActiveEntries(entries[i].technician) \subseteq {i}
  PROVE  EntriesInv'
<1>1. ~overlapped /\ \A d \in Callers : stage'[d] = "idle"
  BY EndsAlone DEF IInv
<1>2. \A d \in Callers : ReadStands(d)'
  BY <1>1 DEF ReadStands
<1>3. /\ \A t \in Technicians :
           \/ ActiveEntries(t)' \subseteq ActiveEntries(t)
           \/ /\ s = "ACTIVE" /\ t = entries[i].technician
              /\ ActiveEntries(t)' \subseteq ActiveEntries(t) \cup {i}
      /\ \A t \in Technicians : HasResumed(t) => HasResumed(t)'
  BY EditedEntries DEF IInv
<1>4. ASSUME NEW t \in Technicians PROVE Single(t)' \/ HasResumed(t)'
  <2>1. Single(t) \/ HasResumed(t)
    BY <1>1 DEF EntriesInv
  <2>2. CASE ActiveEntries(t)' \subseteq ActiveEntries(t)
    BY <1>3, <2>1, <2>2 DEF Single
  <2>3. CASE s = "ACTIVE" /\ t = entries[i].technician
             /\ ActiveEntries(t)' \subseteq ActiveEntries(t) \cup {i}
    BY <2>3 DEF Single
  <2> QED BY <1>3, <2>2, <2>3
<1> QED BY <1>2, <1>4 DEF EntriesInv

\* A step that writes no entry, after which what a call read still stands.
LEMMA UntouchedInSeries ==
  ASSUME EntriesInv, ~overlapped, UNCHANGED entries, \A d \in Callers : ReadStands(d)'
  PROVE  EntriesInv'
<1>1. \A t \in Technicians : Single(t)' <=> Single(t)
  BY DEF Single, ActiveEntries
<1>2. \A t \in Technicians : HasResumed(t)' <=> HasResumed(t)
  BY DEF HasResumed
<1> QED BY <1>1, <1>2 DEF EntriesInv

\* What a call found or read stands as long as the entries do.
LEMMA StandsWith ==
  ASSUME NEW d \in Callers, ReadStands(d), UNCHANGED entries,
         (stage'[d] = stage[d] /\ call'[d] = call[d]) \/ stage'[d] \in {"idle", "moved"}
  PROVE  ReadStands(d)'
BY DEF ReadStands, ActiveEntries

\* Every call starts with what it read of the entries.
LEMMA StartReads ==
  ASSUME IInv, EntriesInv, NEW c \in Callers, Start(c), ~overlapped'
  PROVE  EntriesInv'
<1> DEFINE Read(k) ==
      /\ k.op \in {"travel", "record"} => ActiveEntries(k.technician) = {}
      /\ k.op = "edit" /\ k.to = "ACTIVE" => ActiveEntries(entries[k.entry].technician) \subseteq {k.entry}
<1>1. SUFFICES \E k : Read(k) /\ Enter(c, k)
  <2> SUFFICES ASSUME NEW k, Read(k), Enter(c, k) PROVE EntriesInv'
    BY <1>1
  <2>1. /\ stage' = [stage EXCEPT ![c] = "read"] /\ call' = [call EXCEPT ![c] = k]
        /\ ~overlapped /\ UNCHANGED <<orders, appointments, entries>>
    BY DEF Enter, To, rows
  <2>2. /\ stage'[c] = "read" /\ call'[c] = k
        /\ \A d \in Callers : d # c => stage'[d] = stage[d] /\ call'[d] = call[d]
    BY <2>1 DEF IInv, TypeOK
  <2>3. ReadStands(c)'
    BY <2>1, <2>2 DEF ReadStands, ActiveEntries
  <2>4. \A d \in Callers : d # c => ReadStands(d)'
    BY <2>1, <2>2, StandsWith DEF EntriesInv
  <2> QED BY <2>1, <2>3, <2>4, UntouchedInSeries
<1>2. ASSUME NEW k, Enter(c, k), k.op \notin {"travel", "record", "edit"} PROVE Read(k)
  BY <1>2
<1>3. ASSUME NEW w \in Orders, NEW s \in Statuses, NEW t, NEW op \in FieldMoves \cup {"transition", "assign"},
             Enter(c, Args(op, w, t, s, 0, {})) \/ Enter(c, Args(op, w, t, None, 0, {}))
      PROVE  \E k : Read(k) /\ Enter(c, k)
  BY <1>2, <1>3 DEF Args, FieldMoves
<1>4. ASSUME NEW w \in Orders,
             \/ \E s \in Statuses : Transition(c, w, s)
             \/ UnassignWorkOrder(c, w) \/ CompleteWorkOrderAdmin(c, w)
      PROVE  \E k : Read(k) /\ Enter(c, k)
  BY <1>3, <1>4 DEF Transition, UnassignWorkOrder, CompleteWorkOrderAdmin, FieldMoves, Statuses, Terminal
<1>5. ASSUME NEW w \in Orders, NEW t \in Technicians,
             \/ AssignWorkOrder(c, w, t) \/ ReassignWorkOrder(c, w, t)
             \/ StartTechnicianWorkOrder(c, w, t) \/ HoldTechnicianWorkOrder(c, w, t)
             \/ ResumeTechnicianWorkOrder(c, w, t) \/ CompleteTechnicianWorkOrder(c, w, t)
      PROVE  \E k : Read(k) /\ Enter(c, k)
  BY <1>3, <1>5 DEF AssignWorkOrder, ReassignWorkOrder, StartTechnicianWorkOrder,
       HoldTechnicianWorkOrder, ResumeTechnicianWorkOrder, CompleteTechnicianWorkOrder,
       FieldMove, FieldMoves, Statuses, Terminal
<1>6. ASSUME NEW w \in Orders, NEW t \in Technicians,
             \/ RecordTechnicianTimeEntry(c, w, t)
             \/ \E a \in Appointments : StartTechnicianTravel(c, w, t, a)
      PROVE  \E k : Read(k) /\ Enter(c, k)
  BY <1>6 DEF RecordTechnicianTimeEntry, StartTechnicianTravel, Args
<1>7. ASSUME NEW i \in DOMAIN entries,
             \/ UpdateTechnicianTimeEntry(c, i)
             \/ \E s \in {"ACTIVE", "COMPLETED"} : UpdateTechnicianTimeEntryAdmin(c, i, s)
      PROVE  \E k : Read(k) /\ Enter(c, k)
  BY <1>7 DEF UpdateTechnicianTimeEntry, UpdateTechnicianTimeEntryAdmin, EditEntry, Args
<1> QED
  BY <1>4, <1>5, <1>6, <1>7 DEF Start

\* A start finds an entry its technician has open, if there is one.
LEMMA FindReads ==
  ASSUME IInv, EntriesInv, NEW c \in Callers, Find(c), ~overlapped'
  PROVE  EntriesInv'
<1>1. PICK found \in SUBSET Appointments, i \in EntriesToClose(c) \cup {0} :
        /\ i = 0 => EntriesToClose(c) = {}
        /\ call' = [call EXCEPT ![c].about = found, ![c].entry = i]
  BY DEF Find
<1>2. /\ stage' = [stage EXCEPT ![c] = "found"] /\ stage[c] = "moved"
      /\ UNCHANGED <<entries, overlapped>>
  BY DEF Find, To, rows
<1>3. call[c] \in Calls
  BY <1>2 DEF IInv, CallsKnown, Known, Fit
<1>4. /\ stage'[c] = "found" /\ call'[c].op = call[c].op
      /\ call'[c].technician = call[c].technician /\ call'[c].entry = i
      /\ \A d \in Callers : d # c => stage'[d] = stage[d] /\ call'[d] = call[d]
  BY <1>1, <1>2, <1>3 DEF IInv, TypeOK, Calls
<1>5. ASSUME call[c].op = "start"
      PROVE  EntriesToClose(c) = ActiveEntries(call[c].technician)
  BY <1>5 DEF EntriesToClose, ActiveEntries
<1>6. 0 \notin EntriesToClose(c)
  BY EntriesTyped DEF EntriesToClose, IInv
<1>7. ReadStands(c)'
  <2>1. ASSUME call[c].op = "start"
        PROVE  IF i = 0 THEN ActiveEntries(call[c].technician) = {}
                        ELSE i \in ActiveEntries(call[c].technician)
    BY <1>1, <1>5, <1>6, <2>1
  <2> QED BY <1>2, <1>4, <2>1 DEF ReadStands, ActiveEntries
<1>8. \A d \in Callers : d # c => ReadStands(d)'
  BY <1>2, <1>4, StandsWith DEF EntriesInv
<1> QED BY <1>2, <1>7, <1>8, UntouchedInSeries

\* What a technician's call is about when it ends.
LEMMA EndingCall ==
  ASSUME IInv, NEW c \in Callers, stage[c] # "idle"
  PROVE  /\ call[c] \in Calls
         /\ call[c].entry \in Nat /\ (call[c].entry = 0 \/ call[c].entry \in DOMAIN entries)
         /\ call[c].op = "edit" => call[c].to \in {"ACTIVE", "COMPLETED"}
         /\ call[c].op \in {"start", "resume", "travel", "record"} => call[c].technician \in Technicians
BY DEF IInv, CallsKnown, Known, Fit, Calls

LEMMA OpeningsInSeries ==
  ASSUME IInv, SerialInv, EntriesInv, ~overlapped', NEW c \in Callers,
         CommitStart(c) \/ CommitResume(c) \/ CommitTravel(c) \/ CommitRecord(c)
  PROVE  EntriesInv'
<1>0. stage[c] # "idle" /\ End(c)
  BY DEF CommitStart, CommitResume, CommitTravel, CommitRecord, CommitField
<1>1. ~overlapped /\ ReadStands(c) /\ stage[c] # "idle" /\ End(c)
  BY <1>0 DEF End, EntriesInv
<1>2. /\ call[c].technician \in Technicians /\ call[c].order \in Orders
      /\ call[c].about \in SUBSET Appointments
      /\ call[c].entry \in Nat /\ (call[c].entry = 0 \/ call[c].entry \in DOMAIN entries)
  <2>1. call[c].op \in {"start", "resume", "travel", "record"}
    BY DEF CommitStart, CommitResume, CommitTravel, CommitRecord, CommitField
  <2> QED BY <1>1, <2>1, EndingCall DEF Calls
<1>3. ASSUME NEW type \in {"TRAVEL", "ON_SITE", "OTHER"}, NEW r \in BOOLEAN,
             NEW about \in SUBSET Appointments
      PROVE  /\ Entry(call[c].technician, call[c].order, type, r, about) \in Entries
             /\ Entry(call[c].technician, call[c].order, type, r, about).technician = call[c].technician
             /\ Entry(call[c].technician, call[c].order, type, r, about).status = "ACTIVE"
             /\ Entry(call[c].technician, call[c].order, type, r, about).resumed = r
  BY <1>2 DEF Entry, Entries
<1>4. 0 \in Nat /\ WithStatus(0, "COMPLETED") = entries
  BY DEF WithStatus
<1>5. CASE CommitStart(c)
  <2> DEFINE e == Entry(call[c].technician, call[c].order, "ON_SITE", FALSE, call[c].about)
  <2>1. entries' = Append(WithStatus(call[c].entry, "COMPLETED"), e)
    BY <1>5 DEF CommitStart
  <2>2. ActiveEntries(call[c].technician) = {} \/ call[c].entry \in ActiveEntries(call[c].technician)
    BY <1>1, <1>5 DEF ReadStands, CommitStart, CommitField
  <2>3. e \in Entries /\ e.technician = call[c].technician /\ e.status = "ACTIVE"
    BY <1>2, <1>3
  <2> HIDE DEF e
  <2> QED BY <1>1, <1>2, <2>1, <2>2, <2>3, OpenInSeries
<1>6. CASE CommitResume(c)
  <2> DEFINE e == Entry(call[c].technician, call[c].order, "ON_SITE", TRUE, call[c].about)
  <2>1. entries' = Append(WithStatus(0, "COMPLETED"), e)
    BY <1>4, <1>6 DEF CommitResume
  <2>2. e \in Entries /\ e.resumed /\ e.status = "ACTIVE"
    BY <1>2, <1>3
  <2> HIDE DEF e
  <2> QED BY <1>1, <1>4, <2>1, <2>2, OpenInSeries
<1>7. CASE CommitTravel(c)
  <2> DEFINE e == Entry(call[c].technician, call[c].order, "TRAVEL", FALSE, call[c].about)
  <2>1. entries' = Append(WithStatus(0, "COMPLETED"), e)
    BY <1>4, <1>7 DEF CommitTravel
  <2>2. ActiveEntries(call[c].technician) = {}
    BY <1>1, <1>7 DEF ReadStands, CommitTravel
  <2>3. e \in Entries /\ e.technician = call[c].technician /\ e.status = "ACTIVE"
    BY <1>2, <1>3
  <2> HIDE DEF e
  <2> QED BY <1>1, <1>4, <2>1, <2>2, <2>3, OpenInSeries
<1>8. CASE CommitRecord(c)
  <2> DEFINE e == Entry(call[c].technician, call[c].order, "OTHER", FALSE, {})
  <2>1. entries' = Append(WithStatus(0, "COMPLETED"), e)
    BY <1>4, <1>8 DEF CommitRecord
  <2>2. ActiveEntries(call[c].technician) = {}
    BY <1>1, <1>8 DEF ReadStands, CommitRecord
  <2>3. e \in Entries /\ e.technician = call[c].technician /\ e.status = "ACTIVE"
    BY <1>2, <1>3
  <2> HIDE DEF e
  <2> QED BY <1>1, <1>4, <2>1, <2>2, <2>3, OpenInSeries
<1> QED BY <1>5, <1>6, <1>7, <1>8

LEMMA ClosingsInSeries ==
  ASSUME IInv, SerialInv, EntriesInv, ~overlapped', NEW c \in Callers,
         CommitHold(c) \/ CommitComplete(c) \/ CommitEdit(c)
  PROVE  EntriesInv'
<1>1. ~overlapped /\ ReadStands(c) /\ stage[c] # "idle" /\ End(c)
  BY DEF CommitHold, CommitComplete, CommitEdit, CommitField, End, EntriesInv
<1>2. call[c].entry \in Nat /\ (call[c].entry = 0 \/ call[c].entry \in DOMAIN entries)
  BY <1>1, EndingCall
<1>3. CASE CommitHold(c) \/ CommitComplete(c)
  <2>1. entries' = WithStatus(call[c].entry, "COMPLETED")
    BY <1>3 DEF CommitHold, CommitComplete
  <2> QED BY <1>1, <1>2, <2>1, EditInSeries
<1>4. CASE CommitEdit(c)
  <2>1. entries' = WithStatus(call[c].entry, call[c].to) /\ call[c].to \in {"ACTIVE", "COMPLETED"}
    BY <1>1, <1>4, EndingCall DEF CommitEdit
  <2>2. call[c].to = "ACTIVE" => ActiveEntries(entries[call[c].entry].technician) \subseteq {call[c].entry}
    BY <1>1, <1>4 DEF ReadStands, CommitEdit
  <2> QED BY <1>1, <1>2, <2>1, <2>2, EditInSeries
<1> QED BY <1>3, <1>4

\* Every step, of calls in series, keeps what the entries promise.
LEMMA EntriesStep ==
  ASSUME IInv, SerialInv, EntriesInv, [Next]_vars
  PROVE  EntriesInv'
<1>1. SUFFICES ASSUME ~overlapped' PROVE EntriesInv'
  BY DEF EntriesInv
<1>2. ASSUME NEW c \in Callers, Proceed(c) \/ Fail(c) PROVE EntriesInv'
  <2>1. CASE CommitTransition(c) \/ CommitAssign(c) \/ Fail(c)
    <3>1. /\ UNCHANGED entries /\ End(c) /\ stage[c] # "idle"
      BY <2>1 DEF CommitTransition, CommitAssign, Fail, rows
    <3>2. ~overlapped /\ \A d \in Callers : stage'[d] = "idle"
      BY <1>1, <3>1, EndsAlone DEF IInv
    <3> QED BY <3>1, <3>2, UntouchedInSeries DEF ReadStands
  <2>2. CASE CommitMove(c)
    <3>1. /\ UNCHANGED <<entries, call, overlapped>>
          /\ stage' = [stage EXCEPT ![c] = "moved"]
      BY <2>2 DEF CommitMove, To
    <3>2. \A d \in Callers : stage'[d] = stage[d] \/ stage'[d] = "moved"
      BY <3>1 DEF IInv, TypeOK
    <3>3. \A d \in Callers : ReadStands(d)'
      BY <1>1, <3>1, <3>2, StandsWith DEF EntriesInv
    <3> QED BY <1>1, <3>1, <3>3, UntouchedInSeries
  <2> QED BY <1>1, <1>2, <2>1, <2>2, FindReads, OpeningsInSeries, ClosingsInSeries DEF Proceed
<1>3. ASSUME NEW c \in Callers, Start(c) PROVE EntriesInv'
  BY <1>1, <1>3, StartReads
<1>4. ASSUME UNCHANGED <<entries, stage, call, overlapped>> \/ \E a, b : Booking(a, b)
      PROVE  EntriesInv'
  <2>1. UNCHANGED <<entries, stage, call>>
    BY <1>4 DEF Booking
  <2>3. ~overlapped
    <3>1. CASE UNCHANGED <<entries, stage, call, overlapped>>
      BY <1>1, <3>1
    <3>2. ASSUME NEW a, NEW b, Booking(a, b) PROVE ~overlapped
      BY <1>1, <3>2 DEF Booking
    <3> QED BY <1>4, <3>1, <3>2
  <2>2. \A d \in Callers : ReadStands(d)'
    BY <2>1, <2>3, StandsWith DEF EntriesInv
  <2> QED BY <2>1, <2>2, <2>3, UntouchedInSeries
<1>5. ASSUME NEW a \in Appointments,
             \/ Acknowledge(a) \/ Recall(a) \/ CancelSchedule(a)
             \/ \E w \in Orders : CreateSchedule(a, w)
      PROVE  \E b : Booking(a, b)
  BY <1>5 DEF Acknowledge, Recall, CancelSchedule, CreateSchedule
<1> QED BY <1>2, <1>3, <1>4, <1>5 DEF Next, vars

\* "At most one ACTIVE time entry" per technician, as far as calls in series keep it:
\* only resumeTechnicianWorkOrder opens one beside another.
THEOREM SingleEntry == Spec => []SingleEntryUnlessResumed
<1>1. Init => EntriesInv
  <2> SUFFICES ASSUME Init PROVE EntriesInv
    OBVIOUS
  <2>1. entries = <<>> /\ DOMAIN entries = {} /\ \A c \in Callers : stage[c] = "idle"
    BY DEF Init
  <2> QED BY <2>1 DEF EntriesInv, Single, ActiveEntries, ReadStands
<1>2. IInv /\ SerialInv /\ EntriesInv /\ [Next]_vars => EntriesInv'
  BY EntriesStep
<1>3. EntriesInv => SingleEntryUnlessResumed
  BY DEF EntriesInv, Single, HasResumed, SingleEntryUnlessResumed
<1> QED BY <1>1, <1>2, <1>3, InductiveInSeries, PTL DEF Spec

-----------------------------------------------------------------------------
(* Completions, of calls in series. *)

Closers == {"complete", "completeAdmin"}

\* Call c has completed order w and has yet to complete its appointments.
Closing(c, w) == stage[c] \in {"moved", "found"} /\ call[c].op \in Closers /\ call[c].order = w

\* No appointment of the order's technician is active.
Emptied(w) ==
  \A a \in Appointments :
    appointments[a] # None /\ appointments[a].order = w
    /\ appointments[a].technician = orders[w].technician
      => appointments[a].status # "ACTIVE"

\* What a completion knows of its order, and what it found of its appointments.
ClosesWell(c) ==
  /\ stage[c] # "idle" /\ call[c].op \in Closers => call[c].to = "COMPLETED"
  /\ stage[c] # "idle" /\ call[c].op = "complete"
       => orders[call[c].order].technician = call[c].technician
  /\ stage[c] = "found" /\ call[c].op \in Closers
       => call[c].about = {a \in Linked(c) : appointments[a].status = "ACTIVE"}

OrdersClosed ==
  /\ \A w \in Orders : orders[w].closer \in Closers => orders[w].status = "COMPLETED"
  /\ \A w \in Orders \ torn :
       orders[w].closer \in Closers => Emptied(w) \/ \E c \in Callers : Closing(c, w)

CloseInv == ~overlapped => OrdersClosed /\ \A c \in Callers : ClosesWell(c)

\* An order stays without active appointments when none of its own becomes active.
LEMMA EmptiedStays ==
  ASSUME NEW w \in Orders, Emptied(w), orders'[w].technician = orders[w].technician,
         \A a \in Appointments :
           appointments'[a] # None /\ appointments'[a].order = w /\ appointments'[a].status = "ACTIVE"
             => /\ appointments[a] # None /\ appointments[a].order = w
                /\ appointments[a].technician = appointments'[a].technician
                /\ appointments[a].status = "ACTIVE"
  PROVE  Emptied(w)'
BY DEF Emptied

\* What a completion knows stays so while its order keeps its technician.
LEMMA ClosesWellStays ==
  ASSUME NEW c \in Callers, ClosesWell(c), stage'[c] = stage[c], call'[c] = call[c],
         UNCHANGED <<appointments, orders>>
  PROVE  ClosesWell(c)'
BY DEF ClosesWell, Linked

\* Only a completion that is alone is between the order and its appointments.
LEMMA ClosingAlone ==
  ASSUME SerialInv, ~overlapped, NEW c \in Callers, stage[c] # "idle",
         NEW d \in Callers, NEW w, Closing(d, w)
  PROVE  d = c
BY DEF SerialInv, Closing

LEMMA StartCloses ==
  ASSUME IInv, CloseInv, NEW c \in Callers, Start(c), ~overlapped'
  PROVE  CloseInv'
<1> DEFINE Knows(k) ==
      /\ k.op \in Closers => k.to = "COMPLETED"
      /\ k.op = "complete" => orders[k.order].technician = k.technician
<1>1. SUFFICES \E k : Knows(k) /\ Enter(c, k)
  <2> SUFFICES ASSUME NEW k, Knows(k), Enter(c, k) PROVE CloseInv'
    BY <1>1
  <2>1. /\ stage' = [stage EXCEPT ![c] = "read"] /\ call' = [call EXCEPT ![c] = k]
        /\ ~overlapped /\ UNCHANGED <<orders, appointments, torn>> /\ stage[c] = "idle"
    BY DEF Enter, To, rows
  <2>2. /\ stage'[c] = "read" /\ call'[c] = k
        /\ \A d \in Callers : d # c => stage'[d] = stage[d] /\ call'[d] = call[d]
    BY <2>1 DEF IInv, TypeOK
  <2>3. ClosesWell(c)'
    BY <2>1, <2>2 DEF ClosesWell
  <2>4. \A d \in Callers : d # c => ClosesWell(d)'
    BY <2>1, <2>2, ClosesWellStays DEF CloseInv
  <2>5. \A w \in Orders : Emptied(w) => Emptied(w)'
    BY <2>1 DEF Emptied
  <2>6. \A d \in Callers, w \in Orders : Closing(d, w) => Closing(d, w)'
    BY <2>1, <2>2 DEF Closing
  <2>7. OrdersClosed'
    BY <2>1, <2>5, <2>6 DEF CloseInv, OrdersClosed
  <2> QED BY <2>3, <2>4, <2>7 DEF CloseInv
<1>2. ASSUME NEW k, Enter(c, k), k.op \notin Closers PROVE Knows(k)
  BY <1>2 DEF Closers
<1>3. ASSUME NEW w, NEW s, NEW t, NEW op \in Operations \ Closers, NEW e, NEW about,
             Enter(c, Args(op, w, t, s, e, about))
      PROVE  \E k : Knows(k) /\ Enter(c, k)
  BY <1>2, <1>3 DEF Args
<1>4. ASSUME NEW w \in Orders,
             (\E s \in Statuses : Transition(c, w, s)) \/ UnassignWorkOrder(c, w)
      PROVE  \E k : Knows(k) /\ Enter(c, k)
  BY <1>3, <1>4 DEF Transition, UnassignWorkOrder, Operations, Closers, FieldMoves
<1>5. ASSUME NEW w \in Orders, CompleteWorkOrderAdmin(c, w)
      PROVE  \E k : Knows(k) /\ Enter(c, k)
  BY <1>5 DEF CompleteWorkOrderAdmin, Args
<1>6. ASSUME NEW w \in Orders, NEW t \in Technicians,
             \/ AssignWorkOrder(c, w, t) \/ ReassignWorkOrder(c, w, t)
             \/ StartTechnicianWorkOrder(c, w, t) \/ HoldTechnicianWorkOrder(c, w, t)
             \/ ResumeTechnicianWorkOrder(c, w, t)
             \/ RecordTechnicianTimeEntry(c, w, t)
             \/ \E a \in Appointments : StartTechnicianTravel(c, w, t, a)
      PROVE  \E k : Knows(k) /\ Enter(c, k)
  BY <1>3, <1>6 DEF AssignWorkOrder, ReassignWorkOrder, StartTechnicianWorkOrder,
       HoldTechnicianWorkOrder, ResumeTechnicianWorkOrder, FieldMove, RecordTechnicianTimeEntry,
       StartTechnicianTravel, Operations, Closers, FieldMoves
<1>7. ASSUME NEW w \in Orders, NEW t \in Technicians, CompleteTechnicianWorkOrder(c, w, t)
      PROVE  \E k : Knows(k) /\ Enter(c, k)
  BY <1>7 DEF CompleteTechnicianWorkOrder, FieldMove, Args
<1>8. ASSUME NEW i \in DOMAIN entries,
             \/ UpdateTechnicianTimeEntry(c, i)
             \/ \E s \in {"ACTIVE", "COMPLETED"} : UpdateTechnicianTimeEntryAdmin(c, i, s)
      PROVE  \E k : Knows(k) /\ Enter(c, k)
  BY <1>3, <1>8 DEF UpdateTechnicianTimeEntry, UpdateTechnicianTimeEntryAdmin, EditEntry,
       Operations, Closers
<1> QED
  BY <1>4, <1>5, <1>6, <1>7, <1>8 DEF Start

\* The call that is alone writes its order, which no completion has closed.
LEMMA OrderWriteCloses ==
  ASSUME IInv, SerialInv, CloseInv, ~overlapped, NEW c \in Callers, stage[c] = "read",
         NEW o, orders' = [orders EXCEPT ![call[c].order] = o],
         orders[call[c].order].status \notin Terminal,
         UNCHANGED <<appointments, torn>>,
         \/ o.closer \in {orders[call[c].order].closer, "transition"}
         \/ /\ o.status = "COMPLETED" /\ stage'[c] = "moved" /\ call'[c].op \in Closers
            /\ call'[c].order = call[c].order
  PROVE  OrdersClosed'
<1> DEFINE w == call[c].order
<1>1. /\ orders \in [Orders -> WorkOrders] /\ w \in Orders
  BY DEF IInv, TypeOK, CallsKnown, Known, Fit, Calls
<1>2. \A v \in Orders : (v = w => orders'[v] = o) /\ (v # w => orders'[v] = orders[v])
  BY <1>1
<1>3. orders[w].closer \notin Closers
  BY <1>1 DEF CloseInv, OrdersClosed, Terminal
<1>4. o.closer \in Closers => /\ o.status = "COMPLETED" /\ stage'[c] = "moved"
                              /\ call'[c].op \in Closers /\ call'[c].order = w
  BY <1>3 DEF Closers
<1>5. \A d \in Callers, v \in Orders : ~Closing(d, v)
  BY ClosingAlone DEF Closing
<1>6. ASSUME NEW v \in Orders, v # w, Emptied(v) PROVE Emptied(v)'
  BY <1>2, <1>6 DEF Emptied
<1>7. OrdersClosed
  BY DEF CloseInv
<1>8. ASSUME NEW v \in Orders, orders'[v].closer \in Closers
      PROVE  /\ orders'[v].status = "COMPLETED"
             /\ v \notin torn => Emptied(v)' \/ \E d \in Callers : Closing(d, v)'
  <2>1. CASE v = w
    BY <1>2, <1>4, <1>8, <2>1 DEF Closing
  <2>2. CASE v # w
    BY <1>2, <1>5, <1>6, <1>7, <1>8, <2>2 DEF OrdersClosed
  <2> QED BY <2>1, <2>2
<1> QED
  BY <1>8 DEF OrdersClosed

\* A transition or an assignment ends its call.
LEMMA TransitionCloses ==
  ASSUME IInv, SerialInv, CloseInv, NEW c \in Callers, CommitTransition(c) \/ CommitAssign(c),
         ~overlapped'
  PROVE  CloseInv'
<1>1. /\ stage[c] = "read" /\ End(c) /\ UNCHANGED <<appointments, torn>>
  BY DEF CommitTransition, CommitAssign
<1>2. ~overlapped /\ \A d \in Callers : stage'[d] = "idle"
  BY <1>1, EndsAlone DEF IInv
<1>3. Allowed(call[c]) /\ call[c].order \in Orders
  BY <1>1, <1>2 DEF SerialInv, IInv, CallsKnown, Known, Fit, Calls
<1> DEFINE w == call[c].order
<1>4. CASE CommitTransition(c)
  <2> DEFINE m == Moved(orders[w], call[c].to, call[c].op)
  <2>1. orders' = [orders EXCEPT ![w] = m] /\ call[c].op = "transition"
    BY <1>4 DEF CommitTransition, MoveOrder
  <2>2. orders[w].status \notin Terminal
    BY <1>3, <2>1 DEF Allowed, Moves, Matrix, Terminal
  <2>3. m.closer = orders[w].closer \/ m.closer = "transition"
    BY <2>1 DEF Moved
  <2> HIDE DEF m
  <2>4. OrdersClosed'
    BY <1>1, <1>2, <2>1, <2>2, <2>3, OrderWriteCloses
  <2> QED BY <1>2, <2>4 DEF CloseInv, ClosesWell
<1>5. CASE CommitAssign(c)
  <2> DEFINE o == [orders[w] EXCEPT !.technician = call[c].technician]
  <2>1. orders' = [orders EXCEPT ![w] = o] /\ call[c].op = "assign"
    BY <1>5 DEF CommitAssign
  <2>2. orders[w].status \notin Terminal
    BY <1>3, <2>1 DEF Allowed
  <2>3. o.closer = orders[w].closer
    BY <1>3 DEF IInv, TypeOK, WorkOrders
  <2> HIDE DEF o
  <2>4. OrdersClosed'
    BY <1>1, <1>2, <2>1, <2>2, <2>3, OrderWriteCloses
  <2> QED BY <1>2, <2>4 DEF CloseInv, ClosesWell
<1> QED BY <1>4, <1>5

\* A technician's call moves its order: a completion is then between the two.
LEMMA MoveCloses ==
  ASSUME IInv, SerialInv, CloseInv, NEW c \in Callers, CommitMove(c), ~overlapped'
  PROVE  CloseInv'
<1> DEFINE w == call[c].order
           m == Moved(orders[w], call[c].to, call[c].op)
<1>1. /\ stage[c] = "read" /\ call[c].op \in FieldMoves
      /\ UNCHANGED <<appointments, torn, call, overlapped>>
      /\ stage' = [stage EXCEPT ![c] = "moved"] /\ orders' = [orders EXCEPT ![w] = m]
  BY DEF CommitMove, MoveOrder, To
<1>2. /\ ~overlapped /\ stage'[c] = "moved"
      /\ \A d \in Callers : d # c => stage'[d] = "idle"
  BY <1>1 DEF SerialInv, IInv, TypeOK
<1>3. /\ Allowed(call[c]) /\ w \in Orders /\ orders[w] \in WorkOrders
      /\ call[c].to = "COMPLETED" => call[c].op \in Closers
      /\ ClosesWell(c) /\ orders \in [Orders -> WorkOrders]
  BY <1>1, <1>2
     DEF SerialInv, IInv, TypeOK, CallsKnown, Known, Fit, Calls, Moves, FieldMoves, Closers, CloseInv
<1>4. orders[w].status \notin Terminal
  BY <1>1, <1>3 DEF Allowed, Moves, Matrix, Terminal
<1>5. /\ m.status = call[c].to
      /\ m.closer = orders[w].closer \/ (m.status = "COMPLETED" /\ call[c].op \in Closers)
      /\ m.technician = orders[w].technician \/ call[c].to = "OPEN"
  BY <1>3 DEF Moved
<1> HIDE DEF m
<1>6. orders'[w] = m
  BY <1>1, <1>3
<1>7. m.closer \in {orders[w].closer, "transition"}
      \/ (m.status = "COMPLETED" /\ stage'[c] = "moved" /\ call'[c].op \in Closers
          /\ call'[c].order = w)
  BY <1>1, <1>2, <1>5
<1>8. OrdersClosed'
  BY <1>1, <1>2, <1>4, <1>7, OrderWriteCloses
<1>9. ClosesWell(c)'
  BY <1>1, <1>2, <1>3, <1>5, <1>6 DEF ClosesWell, Closers
<1> QED BY <1>2, <1>8, <1>9 DEF CloseInv, ClosesWell

\* A completion finds the active appointments of its order and technician.
LEMMA FindCloses ==
  ASSUME IInv, SerialInv, CloseInv, NEW c \in Callers, Find(c), ~overlapped'
  PROVE  CloseInv'
<1>1. PICK found \in SUBSET Appointments, i \in EntriesToClose(c) \cup {0} :
        /\ FindAppointments(c, found)
        /\ call' = [call EXCEPT ![c].about = found, ![c].entry = i]
  BY DEF Find
<1>2. /\ stage' = [stage EXCEPT ![c] = "found"] /\ stage[c] = "moved"
      /\ UNCHANGED <<orders, appointments, torn, overlapped>>
  BY DEF Find, To, rows
<1>3. call[c] \in Calls
  BY <1>2 DEF IInv, CallsKnown, Known, Fit
<1>4. /\ stage'[c] = "found" /\ call'[c].op = call[c].op /\ call'[c].to = call[c].to
      /\ call'[c].order = call[c].order
      /\ call'[c].technician = call[c].technician /\ call'[c].about = found
      /\ \A d \in Callers : d # c => stage'[d] = stage[d] /\ call'[d] = call[d]
  BY <1>1, <1>2, <1>3 DEF IInv, TypeOK, Calls
<1>5. ~overlapped
  BY <1>2
<1>6. Linked(c)' = Linked(c)
  BY <1>2, <1>4 DEF Linked
<1>7. call[c].op \in Closers => found = {a \in Linked(c) : appointments[a].status = "ACTIVE"}
  BY <1>1 DEF FindAppointments, Closers
<1>8. ClosesWell(c)'
  BY <1>2, <1>4, <1>5, <1>6, <1>7 DEF ClosesWell, CloseInv
<1>9. \A d \in Callers : d # c => ClosesWell(d)'
  BY <1>2, <1>4, <1>5, ClosesWellStays DEF CloseInv
<1>10. \A d \in Callers, w \in Orders : Closing(d, w) => Closing(d, w)'
  BY <1>4 DEF Closing
<1>11. \A w \in Orders : Emptied(w) => Emptied(w)'
  BY <1>2 DEF Emptied
<1>12. OrdersClosed'
  BY <1>2, <1>5, <1>10, <1>11 DEF CloseInv, OrdersClosed
<1> QED BY <1>8, <1>9, <1>12 DEF CloseInv

\* A call that is not a completion ends and makes no appointment active.
LEMMA EndCloses ==
  ASSUME IInv, SerialInv, CloseInv, ~overlapped', NEW c \in Callers, stage[c] # "idle", End(c),
         call[c].op \notin Closers, UNCHANGED <<orders, torn>>,
         \A a \in Appointments :
           /\ appointments'[a] # None => appointments[a] # None
           /\ appointments[a] # None => /\ appointments'[a].order = appointments[a].order
                                        /\ appointments'[a].technician = appointments[a].technician
                                        /\ appointments'[a].status = appointments[a].status
  PROVE  CloseInv'
<1>1. ~overlapped /\ \A d \in Callers : stage'[d] = "idle"
  BY EndsAlone DEF IInv
<1>2. \A d \in Callers, w \in Orders : ~Closing(d, w)
  BY <1>1, ClosingAlone DEF Closing
<1>3. \A w \in Orders : Emptied(w) => Emptied(w)'
  BY EmptiedStays
<1>4. OrdersClosed'
  BY <1>1, <1>2, <1>3 DEF CloseInv, OrdersClosed
<1> QED BY <1>1, <1>4 DEF CloseInv, ClosesWell

\* A completion completes every active appointment of its order and technician.
LEMMA CompleteCloses ==
  ASSUME IInv, SerialInv, CloseInv, ~overlapped', NEW c \in Callers, CommitComplete(c)
  PROVE  CloseInv'
<1>0. PICK w : w = call[c].order
  OBVIOUS
<1>1. /\ stage[c] = "found" /\ call[c].op \in Closers /\ End(c) /\ UNCHANGED <<orders, torn>>
      /\ appointments' = [a \in Appointments |->
                            IF a \in call[c].about
                            THEN [appointments[a] EXCEPT !.status = "COMPLETED"]
                            ELSE appointments[a]]
  BY DEF CommitComplete, CommitField, Closers
<1>2. ~overlapped /\ \A d \in Callers : stage'[d] = "idle"
  BY <1>1, EndsAlone DEF IInv
<1>3. /\ call[c].about = {a \in Linked(c) : appointments[a].status = "ACTIVE"}
      /\ call[c].op = "complete" => orders[w].technician = call[c].technician
  BY <1>0, <1>1, <1>2 DEF CloseInv, ClosesWell
<1>4. \A b \in Bookings : [b EXCEPT !.status = "COMPLETED"].status = "COMPLETED"
  BY DEF Bookings
<1>5. /\ \A a \in Appointments : a \in call[c].about => appointments[a] \in Bookings
      /\ \A a \in call[c].about : appointments[a] \in Bookings
  BY <1>3 DEF Linked, IInv, TypeOK
<1>6. ASSUME NEW a \in Appointments, appointments'[a] # None, appointments'[a].status = "ACTIVE"
      PROVE  a \notin call[c].about /\ appointments'[a] = appointments[a]
  BY <1>1, <1>4, <1>5, <1>6
<1>7. ASSUME NEW v \in Orders, Emptied(v) PROVE Emptied(v)'
  BY <1>1, <1>6, <1>7, EmptiedStays
<1>8. Emptied(w)'
  <2>1. ASSUME NEW a \in Appointments, appointments'[a] # None, appointments'[a].order = w,
               appointments'[a].technician = orders'[w].technician, appointments'[a].status = "ACTIVE"
        PROVE  FALSE
    <3>1. a \notin call[c].about /\ appointments'[a] = appointments[a]
      BY <1>6, <2>1
    <3>2. a \in Linked(c)
      BY <1>0, <1>1, <1>3, <2>1, <3>1 DEF Linked, Closers
    <3> QED BY <1>3, <2>1, <3>1, <3>2
  <2> QED BY <2>1 DEF Emptied
<1>9. \A d \in Callers, v \in Orders : Closing(d, v) => v = w
  BY <1>0, <1>1, <1>2, ClosingAlone DEF Closing
<1>10. OrdersClosed'
  BY <1>1, <1>2, <1>7, <1>8, <1>9 DEF CloseInv, OrdersClosed
<1> QED BY <1>2, <1>10 DEF CloseInv, ClosesWell

\* A completion cut short leaves its order torn.
LEMMA FailCloses ==
  ASSUME IInv, SerialInv, CloseInv, ~overlapped', NEW c \in Callers, Fail(c)
  PROVE  CloseInv'
<1>1. /\ stage[c] # "idle" /\ End(c) /\ UNCHANGED <<orders, appointments>>
      /\ torn' = IF stage[c] \in {"moved", "found"} THEN torn \cup {call[c].order} ELSE torn
  BY DEF Fail, rows
<1>2. ~overlapped /\ \A d \in Callers : stage'[d] = "idle"
  BY <1>1, EndsAlone DEF IInv
<1>3. \A d \in Callers, w \in Orders : Closing(d, w) => w \in torn'
  BY <1>1, <1>2, ClosingAlone DEF Closing
<1>4. \A w \in Orders : Emptied(w) => Emptied(w)'
  BY <1>1 DEF Emptied
<1>5. torn \subseteq torn'
  BY <1>1
<1>6. OrdersClosed'
  BY <1>1, <1>2, <1>3, <1>4, <1>5 DEF CloseInv, OrdersClosed
<1> QED BY <1>2, <1>6 DEF CloseInv, ClosesWell

\* Between calls an appointment is booked only for an order that is not completed.
LEMMA BookingCloses ==
  ASSUME IInv, CloseInv, ~overlapped', NEW a \in Appointments,
         \/ Acknowledge(a) \/ Recall(a) \/ CancelSchedule(a)
         \/ \E w \in Orders : CreateSchedule(a, w)
  PROVE  CloseInv'
<1>1. PICK b : /\ Booking(a, b)
               /\ \/ /\ appointments[a] # None /\ b.order = appointments[a].order
                     /\ b.technician = appointments[a].technician
                     /\ b.status = "ACTIVE" => appointments[a].status = "ACTIVE"
                  \/ appointments[a] = None /\ b.order \in Orders
                     /\ orders[b.order].status \notin Terminal
  <2>1. ASSUME NEW w \in Orders, CreateSchedule(a, w)
        PROVE  \E b : Booking(a, b) /\ appointments[a] = None /\ b.order \in Orders
                      /\ orders[b.order].status \notin Terminal
    BY <2>1 DEF CreateSchedule
  <2>2. ASSUME appointments[a] # None
        PROVE  appointments[a] \in Bookings
    BY <2>2 DEF IInv, TypeOK
  <2>3. ASSUME NEW x \in Bookings, NEW y \in BOOLEAN
        PROVE  /\ [x EXCEPT !.acknowledged = y].order = x.order
               /\ [x EXCEPT !.acknowledged = y].technician = x.technician
               /\ [x EXCEPT !.acknowledged = y].status = x.status
               /\ [x EXCEPT !.status = "CANCELLED", !.acknowledged = y].order = x.order
               /\ [x EXCEPT !.status = "CANCELLED", !.acknowledged = y].technician = x.technician
               /\ [x EXCEPT !.status = "CANCELLED", !.acknowledged = y].status = "CANCELLED"
    BY DEF Bookings
  <2>4. CASE Acknowledge(a) \/ Recall(a)
    <3>1. PICK y \in BOOLEAN : /\ appointments[a] # None
                              /\ Booking(a, [appointments[a] EXCEPT !.acknowledged = y])
      BY <2>4 DEF Acknowledge, Recall
    <3>2. PICK b : b = [appointments[a] EXCEPT !.acknowledged = y]
      OBVIOUS
    <3>3. /\ b.order = appointments[a].order /\ b.technician = appointments[a].technician
          /\ b.status = appointments[a].status
      BY <2>2, <2>3, <3>1, <3>2
    <3> QED BY <3>1, <3>2, <3>3
  <2>5. CASE CancelSchedule(a)
    <3>1. PICK b : b = [appointments[a] EXCEPT !.status = "CANCELLED", !.acknowledged = FALSE]
      OBVIOUS
    <3>2. appointments[a] # None /\ Booking(a, b)
      BY <2>5, <3>1 DEF CancelSchedule
    <3>3. /\ b.order = appointments[a].order /\ b.technician = appointments[a].technician
          /\ b.status = "CANCELLED"
      BY <2>2, <2>3, <3>1, <3>2
    <3> QED BY <3>2, <3>3
  <2> QED BY <2>1, <2>4, <2>5
<1>2. /\ ~overlapped /\ \A d \in Callers : stage[d] = "idle"
      /\ UNCHANGED <<orders, stage, call, torn>>
      /\ appointments' = [appointments EXCEPT ![a] = b]
  BY <1>1 DEF Booking
<1>3. /\ OrdersClosed
      /\ \A d \in Callers, w \in Orders : ~Closing(d, w)
  BY <1>2 DEF CloseInv, Closing
<1>4. ASSUME NEW w \in Orders \ torn, orders[w].closer \in Closers PROVE Emptied(w)'
  <2>1. orders[w].status = "COMPLETED" /\ Emptied(w)
    BY <1>3, <1>4 DEF OrdersClosed
  <2>2. appointments'[a] = b /\ \A x \in Appointments : x # a => appointments'[x] = appointments[x]
    BY <1>2 DEF IInv, TypeOK
  <2>3. appointments[a] = None => b.order # w
    BY <1>1, <2>1 DEF Terminal
  <2> QED BY <1>1, <1>2, <2>1, <2>2, <2>3, EmptiedStays
<1>5. OrdersClosed'
  BY <1>2, <1>3, <1>4 DEF OrdersClosed
<1> QED BY <1>2, <1>5 DEF CloseInv, ClosesWell

\* Every step, of calls in series, keeps what completions promise.
LEMMA CloseStep ==
  ASSUME IInv, SerialInv, CloseInv, [Next]_vars
  PROVE  CloseInv'
<1>1. SUFFICES ASSUME ~overlapped' PROVE CloseInv'
  BY DEF CloseInv
<1>2. ASSUME NEW c \in Callers,
             \/ CommitStart(c) \/ CommitHold(c) \/ CommitResume(c)
             \/ CommitTravel(c) \/ CommitRecord(c) \/ CommitEdit(c)
      PROVE  CloseInv'
  <2>1. /\ stage[c] # "idle" /\ End(c) /\ UNCHANGED <<orders, torn>>
        /\ call[c].op \notin Closers
        /\ UNCHANGED appointments \/ StampBegun(c)
    BY <1>2 DEF CommitStart, CommitHold, CommitResume, CommitTravel, CommitRecord, CommitEdit,
                CommitField, Closers
  <2>2. call[c].about \in SUBSET Appointments /\ \A a \in call[c].about : appointments[a] # None
    BY <2>1 DEF IInv, CallsKnown, Known, Fit, Calls
  <2>3. ASSUME NEW x \in Bookings
        PROVE  /\ [x EXCEPT !.begun = TRUE].order = x.order /\ [x EXCEPT !.begun = TRUE].status = x.status
               /\ [x EXCEPT !.begun = TRUE].technician = x.technician
    BY DEF Bookings
  <2>4. \A a \in Appointments : appointments[a] # None => appointments[a] \in Bookings
    BY DEF IInv, TypeOK
  <2>5. \A a \in Appointments :
          /\ appointments'[a] # None => appointments[a] # None
          /\ appointments[a] # None => /\ appointments'[a].order = appointments[a].order
                                       /\ appointments'[a].technician = appointments[a].technician
                                       /\ appointments'[a].status = appointments[a].status
    <3>1. CASE UNCHANGED appointments
      BY <3>1
    <3>2. CASE StampBegun(c)
      BY <2>2, <2>3, <2>4, <3>2 DEF StampBegun
    <3> QED BY <2>1, <3>1, <3>2
  <2> QED BY <1>1, <2>1, <2>5, EndCloses
<1>3. ASSUME NEW c \in Callers, Proceed(c) \/ Fail(c) PROVE CloseInv'
  BY <1>1, <1>2, <1>3, TransitionCloses, MoveCloses, FindCloses, CompleteCloses, FailCloses DEF Proceed
<1>4. CASE UNCHANGED vars
  BY <1>4 DEF vars, CloseInv, OrdersClosed, ClosesWell, Emptied, Closing, Linked
<1> QED
  BY <1>1, <1>3, <1>4, StartCloses, BookingCloses DEF Next

\* A completion by the field services that is over, of calls in series, has completed
\* the appointments of the order's technician, unless its own transaction was lost
\* after the nested one (completeTechnicianWorkOrder, completeWorkOrderAdmin).
THEOREM CompletionsWhole == Spec => []WholeUnlessTorn
<1>1. Init => CloseInv
  BY NoneIsNoRow DEF Init, CloseInv, OrdersClosed, ClosesWell, Closers
<1>2. IInv /\ SerialInv /\ CloseInv /\ [Next]_vars => CloseInv'
  BY CloseStep
<1>3. IInv /\ CloseInv => WholeUnlessTorn
  BY DEF CloseInv, OrdersClosed, Closing, Closers, Emptied, Whole, WholeUnlessTorn
<1> QED BY <1>1, <1>2, <1>3, InductiveInSeries, PTL DEF Spec

=============================================================================
