-------------------- MODULE SchedulingAutomationProofs ---------------------
(***************************************************************************)
(* Bookings of a technician exclude each other whatever the calls, and     *)
(* calls that do not overlap keep the calendar exact and the ends final,   *)
(* for any number of callers, technicians, orders and slots.               *)
(*                                                                         *)
(* Concurrently, what carries the argument is Cleared: from the check      *)
(* under the lock to the commit, nobody else can add a booking that        *)
(* clashes.  For calls in series it is SerialInv: what the running call    *)
(* read still holds when it writes.                                        *)
(*                                                                         *)
(* The second half is about automations: their due times are claimed once, *)
(* an execution has one action under way, and the breaker counts the ticks *)
(* that failed in a row.  Workers are kept apart by the ticks and the      *)
(* queues they hold (TicksApart, QueuesApart), due times by the order in   *)
(* which they are claimed (DueInTurn), and the count is right because a    *)
(* worker that nothing disturbs is alone (TickAlone).                      *)
(***************************************************************************)
EXTENDS Scheduling, Automation, FiniteSetTheorems, SequenceTheorems, TLAPS

InTransaction == {"locked", "clear", "numbered"}
Verified == {"clear", "numbered"}

\* A call in progress has its arguments, and an appointment if it is about one.
CallsKnown ==
  \A c \in Callers : stage[c] # "idle" =>
    /\ call[c] \in Calls
    /\ call[c].op = "create" => call[c].at = 0
    /\ call[c].op # "create" =>
         /\ call[c].at \in DOMAIN appointments
         /\ call[c].technician = appointments[call[c].at].technician

\* A booking transaction holds its technician.
BookersHold ==
  \A c \in Callers : stage[c] \in InTransaction =>
    call[c].op = "create" /\ holder[call[c].technician] = c

\* No booking that is as createSchedule left it is in the way of call c.
Free(c) ==
  \A i \in DOMAIN appointments :
    appointments[i].technician = call[c].technician /\ appointments[i].status = "SCHEDULED"
      => ~Overlap(appointments[i].slot, call[c].slot)

\* What a booking found clear stays clear of bookings.
Cleared == \A c \in Callers : stage[c] \in Verified => Free(c)

IInv == /\ TypeOK /\ CallsKnown /\ BookersHold /\ LocksEndWithTransactions
        /\ Cleared /\ BookingsExclusive

\* What call c found its appointment to be.
Admitted(c) ==
  LET a == appointments[call[c].at] IN
  /\ call[c].op \in {"reschedule", "cancel", "dispatch", "complete"} => a.status \in Active
  /\ a.status # "CANCELLED"

\* In series, what a call read and checked still holds.
SerialInv ==
  ~overlapped =>
    /\ \A c, d \in Callers : stage[c] # "idle" /\ stage[d] # "idle" => c = d
    /\ \A c \in Callers : stage[c] # "idle" /\ call[c].op # "create" => Admitted(c)
    /\ \A c \in Callers : (\/ stage[c] = "checked" /\ call[c].op = "reschedule"
                           \/ stage[c] \in Verified) => NoConflicts(c)
    /\ \A i \in DOMAIN appointments :
         appointments[i].status = "CANCELLED" => appointments[i].dispatch = "PENDING_DISPATCH"
    /\ \A i, j \in DOMAIN appointments : ~Clash(i, j)

-----------------------------------------------------------------------------
(* Appointments: their sequence, one of them replaced, one added. *)

\* The number of an appointment is its place in the sequence.
LEMMA Numbers ==
  ASSUME TypeOK
  PROVE  /\ Len(appointments) \in Nat
         /\ DOMAIN appointments = 1..Len(appointments)
         /\ \A i \in DOMAIN appointments : appointments[i] \in Appointments
BY LenProperties, ElementOfSeq DEF TypeOK

\* Replacing one appointment leaves a sequence of appointments of the same length.
LEMMA Replaced ==
  ASSUME TypeOK, NEW k \in DOMAIN appointments, NEW v \in Appointments,
         appointments' = [appointments EXCEPT ![k] = v]
  PROVE  /\ appointments' \in Seq(Appointments)
         /\ DOMAIN appointments' = DOMAIN appointments
         /\ appointments'[k] = v
         /\ \A i \in DOMAIN appointments : i # k => appointments'[i] = appointments[i]
<1>1. appointments \in Seq(Appointments) /\ k \in 1..Len(appointments)
  BY Numbers DEF TypeOK
<1>2. appointments' \in Seq(Appointments)
  BY <1>1, ExceptSeq
<1> QED
  BY <1>1, <1>2

\* Adding an appointment leaves the others at their numbers.
LEMMA Appended ==
  ASSUME TypeOK, NEW v \in Appointments, appointments' = Append(appointments, v)
  PROVE  /\ appointments' \in Seq(Appointments)
         /\ DOMAIN appointments' = 1..(Len(appointments) + 1)
         /\ appointments'[Len(appointments) + 1] = v
         /\ \A i \in DOMAIN appointments :
              i \in DOMAIN appointments' /\ appointments'[i] = appointments[i]
<1>1. appointments \in Seq(Appointments)
  BY DEF TypeOK
<1>2. appointments' \in Seq(Appointments) /\ Len(appointments') = Len(appointments) + 1
  BY <1>1
<1> QED
  BY <1>1, <1>2, Numbers, LenProperties

-----------------------------------------------------------------------------
(* IInv, whatever the interleaving. *)

\* No call is under way in an initial state, and nothing is locked.
LEMMA InitIInv ==
  ASSUME Init
  PROVE  IInv
<1>1. TypeOK
  <2>1. appointments \in Seq(Appointments)
    BY EmptySeq DEF Init
  <2>2. tries \in [Callers -> 0..MaxTries]
    BY SchedulingAssumption DEF Init
  <2> QED
    BY <2>1, <2>2 DEF Init, TypeOK, Stages
<1>2. DOMAIN appointments = {}
  BY DEF Init
<1> QED
  BY <1>1, <1>2, SchedulingAssumption
  DEF Init, IInv, CallsKnown, BookersHold, InTransaction, Verified, Cleared,
      LocksEndWithTransactions, BookingsExclusive, Clash

\* A call that starts holds nothing yet and touches nothing.
LEMMA EnterKeepsIInv ==
  ASSUME IInv, NEW c \in Callers, NEW op \in Operations, NEW i \in Nat, NEW w \in Orders,
         NEW t \in Technicians, NEW s \in Slots, NEW next \in {"read", "checked"},
         op = "create" => i = 0,
         op # "create" => i \in DOMAIN appointments /\ t = appointments[i].technician,
         Enter(c, op, i, w, t, s, next)
  PROVE  IInv'
<1> USE DEF Enter, To
<1>1. TypeOK'
  BY DEF IInv, TypeOK, Stages, Calls, numberVars
<1>2. \A d \in Callers : d # c => stage'[d] = stage[d] /\ call'[d] = call[d]
  BY DEF IInv, TypeOK
<1>3. stage'[c] = next /\ call'[c] = [op |-> op, at |-> i, order |-> w,
                                      technician |-> t, slot |-> s]
  BY DEF IInv, TypeOK
<1>4. CallsKnown'
  BY <1>2, <1>3 DEF IInv, CallsKnown, Calls
<1>5. BookersHold' /\ Cleared'
  BY <1>2, <1>3 DEF IInv, BookersHold, InTransaction, Cleared, Verified, Free
<1>6. LocksEndWithTransactions'
  BY <1>2, <1>3 DEF IInv, LocksEndWithTransactions
<1>7. BookingsExclusive'
  BY DEF IInv, BookingsExclusive, Clash
<1> QED
  BY <1>1, <1>4, <1>5, <1>6, <1>7 DEF IInv

\* An appointment keeps its technician, and none becomes a fresh booking again.
Kept ==
  \A i \in DOMAIN appointments :
    /\ i \in DOMAIN appointments'
    /\ appointments'[i].technician = appointments[i].technician
    /\ appointments'[i].status = "SCHEDULED" =>
         appointments[i].status = "SCHEDULED" /\ appointments'[i].slot = appointments[i].slot

\* A call that ends gives back what it held and leaves the others as they are.
LEMMA EndFacts ==
  ASSUME IInv, NEW c \in Callers, End(c), appointments' \in Seq(Appointments), Kept
  PROVE  /\ TypeOK' /\ CallsKnown' /\ BookersHold' /\ LocksEndWithTransactions'
         /\ stage'[c] = "idle"
         /\ \A d \in Callers : d # c => stage'[d] = stage[d] /\ call'[d] = call[d]
<1> USE DEF End, To
<1>1. TypeOK'
  <2>1. tries' \in [Callers -> 0..MaxTries]
    BY SchedulingAssumption DEF IInv, TypeOK
  <2>2. holder' \in [Technicians -> Callers \cup {None}]
    BY DEF IInv, TypeOK
  <2>3. stage' \in [Callers -> Stages] /\ call' \in [Callers -> Calls \cup {NoCall}]
    BY DEF IInv, TypeOK, Stages
  <2> QED
    BY <2>1, <2>2, <2>3 DEF IInv, TypeOK
<1>2. \A d \in Callers : d # c => stage'[d] = stage[d] /\ call'[d] = call[d]
  BY DEF IInv, TypeOK
<1>3. stage'[c] = "idle"
  BY DEF IInv, TypeOK
<1>4. \A d \in Callers : stage'[d] # "idle" => d # c /\ call[d] \in Calls
  BY <1>2, <1>3 DEF IInv, CallsKnown
<1>5. CallsKnown'
  BY <1>2, <1>4 DEF IInv, CallsKnown, Kept
<1>6. BookersHold'
  <2> SUFFICES ASSUME NEW d \in Callers, stage'[d] \in InTransaction
               PROVE  call'[d].op = "create" /\ holder'[call'[d].technician] = d
    BY DEF BookersHold
  <2>1. d # c /\ call'[d] = call[d] /\ stage'[d] = stage[d] /\ call[d] \in Calls
    BY <1>2, <1>3, <1>4 DEF InTransaction
  <2>2. call[d].op = "create" /\ holder[call[d].technician] = d
    BY <2>1 DEF IInv, BookersHold
  <2>3. call[d].technician \in Technicians
    BY <2>1 DEF Calls
  <2> QED
    BY <2>1, <2>2, <2>3
<1>7. LocksEndWithTransactions'
  BY <1>2, SchedulingAssumption DEF IInv, TypeOK, LocksEndWithTransactions
<1> QED
  BY <1>1, <1>2, <1>3, <1>5, <1>6, <1>7

\* A call that ends without booking: its update, or nothing.
LEMMA EndKeepsIInv ==
  ASSUME IInv, NEW c \in Callers, End(c), appointments' \in Seq(Appointments), Kept,
         DOMAIN appointments' = DOMAIN appointments
  PROVE  IInv'
<1>1. /\ TypeOK' /\ CallsKnown' /\ BookersHold' /\ LocksEndWithTransactions'
      /\ stage'[c] = "idle"
      /\ \A d \in Callers : d # c => stage'[d] = stage[d] /\ call'[d] = call[d]
  BY EndFacts
<1>2. Cleared'
  BY <1>1 DEF IInv, Cleared, Free, Kept, Verified
<1>3. BookingsExclusive'
  <2> SUFFICES ASSUME NEW i \in DOMAIN appointments, NEW j \in DOMAIN appointments,
                      Clash(i, j)', appointments'[i].status # "RESCHEDULED",
                      appointments'[j].status # "RESCHEDULED"
               PROVE  FALSE
    BY DEF BookingsExclusive
  <2>1. appointments'[i].status = "SCHEDULED" /\ appointments'[j].status = "SCHEDULED"
    BY DEF Clash, Active
  <2>2. \A k \in {i, j} : /\ appointments'[k].technician = appointments[k].technician
                          /\ appointments[k].status = "SCHEDULED"
                          /\ appointments'[k].slot = appointments[k].slot
    BY <2>1 DEF Kept
  <2>3. Clash(i, j)
    BY <2>1, <2>2 DEF Clash
  <2> QED
    BY <2>2, <2>3 DEF IInv, BookingsExclusive
<1> QED
  BY <1>1, <1>2, <1>3 DEF IInv

\* A call that ends without a write keeps the invariant.
LEMMA UnchangedEnds ==
  ASSUME IInv, NEW c \in Callers, End(c), UNCHANGED appointments
  PROVE  IInv'
<1>1. appointments' \in Seq(Appointments) /\ Kept
  BY DEF IInv, TypeOK, Kept
<1> QED
  BY <1>1, EndKeepsIInv

\* An update of the call's appointment that is not a booking.
LEMMA UpdateKeepsIInv ==
  ASSUME IInv, NEW c \in Callers, stage[c] # "idle", call[c].op # "create",
         NEW v \in Appointments, Update(c, v),
         v.technician = appointments[call[c].at].technician,
         v.status = "SCHEDULED" => /\ appointments[call[c].at].status = "SCHEDULED"
                                   /\ v.slot = appointments[call[c].at].slot
  PROVE  IInv'
<1>1. call[c].at \in DOMAIN appointments
  BY DEF IInv, CallsKnown
<1>2. appointments' = [appointments EXCEPT ![call[c].at] = v] /\ End(c)
  BY DEF Update
<1>3. /\ appointments' \in Seq(Appointments)
      /\ DOMAIN appointments' = DOMAIN appointments
      /\ appointments'[call[c].at] = v
      /\ \A i \in DOMAIN appointments : i # call[c].at => appointments'[i] = appointments[i]
  BY <1>1, <1>2, Replaced DEF IInv
<1>4. Kept
  BY <1>3 DEF Kept
<1> QED
  BY <1>2, <1>3, <1>4, EndKeepsIInv

\* Steps of call c that write no appointment: what they may change is its stage
\* and the lock it takes or gives back.
LEMMA MoveKeeps ==
  ASSUME IInv, NEW c \in Callers, NEW next \in Stages, To(c, next), stage[c] # "idle",
         UNCHANGED <<appointments, call>>
  PROVE  /\ CallsKnown' /\ BookingsExclusive'
         /\ stage'[c] = next
         /\ \A d \in Callers : d # c => stage'[d] = stage[d]
<1>1. stage'[c] = next /\ \A d \in Callers : d # c => stage'[d] = stage[d]
  BY DEF To, IInv, TypeOK
<1>2. CallsKnown'
  BY <1>1 DEF IInv, CallsKnown
<1>3. BookingsExclusive'
  BY DEF IInv, BookingsExclusive, Clash
<1> QED
  BY <1>1, <1>2, <1>3

\* The check before the transaction: it proves nothing about what follows it.
LEMMA CheckConflictsKeepsIInv ==
  ASSUME IInv, NEW c \in Callers, CheckConflicts(c)
  PROVE  IInv'
<1>1. To(c, "checked") /\ stage[c] = "read" /\ "checked" \in Stages
  BY DEF CheckConflicts, Stages
<1>2. UNCHANGED <<order, appointments, holder, call, latest, tries, overlapped, calls>>
  BY DEF CheckConflicts, numberVars
<1>3. /\ CallsKnown' /\ BookingsExclusive' /\ stage'[c] = "checked"
      /\ \A d \in Callers : d # c => stage'[d] = stage[d]
  BY <1>1, <1>2, MoveKeeps
<1>4. TypeOK'
  BY <1>1, <1>2 DEF IInv, TypeOK, To
<1>5. BookersHold' /\ Cleared'
  BY <1>2, <1>3 DEF IInv, BookersHold, InTransaction, Cleared, Verified, Free
<1>6. LocksEndWithTransactions'
  BY <1>1, <1>2, <1>3 DEF IInv, LocksEndWithTransactions
<1> QED
  BY <1>3, <1>4, <1>5, <1>6 DEF IInv

\* The lock is taken only when it is free.
LEMMA LockTechnicianKeepsIInv ==
  ASSUME IInv, NEW c \in Callers, LockTechnician(c)
  PROVE  IInv'
<1>1. /\ To(c, "locked") /\ stage[c] = "checked" /\ call[c].op = "create" /\ "locked" \in Stages
      /\ call[c].technician \in Technicians /\ holder[call[c].technician] = None
  BY DEF LockTechnician, Stages, IInv, CallsKnown, Calls
<1>2. /\ UNCHANGED <<order, appointments, call, latest, tries, overlapped, calls>>
      /\ holder' = [holder EXCEPT ![call[c].technician] = c]
  BY DEF LockTechnician, numberVars
<1>3. /\ CallsKnown' /\ BookingsExclusive' /\ stage'[c] = "locked"
      /\ \A d \in Callers : d # c => stage'[d] = stage[d]
  BY <1>1, <1>2, MoveKeeps
<1>4. TypeOK'
  BY <1>1, <1>2 DEF IInv, TypeOK, To
<1>5. BookersHold'
  <2> SUFFICES ASSUME NEW d \in Callers, stage'[d] \in InTransaction
               PROVE  call'[d].op = "create" /\ holder'[call'[d].technician] = d
    BY DEF BookersHold
  <2>1. CASE d = c
    BY <1>1, <1>2, <2>1 DEF IInv, TypeOK
  <2>2. CASE d # c
    <3>1. call[d].op = "create" /\ holder[call[d].technician] = d
      BY <1>3, <2>2 DEF IInv, BookersHold
    <3> QED
      BY <1>1, <1>2, <3>1, SchedulingAssumption DEF IInv, TypeOK
  <2> QED
    BY <2>1, <2>2
<1>6. Cleared'
  BY <1>2, <1>3 DEF IInv, Cleared, Verified, Free
<1>7. LocksEndWithTransactions'
  BY <1>1, <1>2, <1>3 DEF IInv, TypeOK, LocksEndWithTransactions
<1> QED
  BY <1>3, <1>4, <1>5, <1>6, <1>7 DEF IInv

\* The check under the lock: from here on the way is clear.
LEMMA RecheckKeepsIInv ==
  ASSUME IInv, NEW c \in Callers, RecheckConflicts(c)
  PROVE  IInv'
<1>1. To(c, "clear") /\ stage[c] = "locked" /\ "clear" \in Stages
  BY DEF RecheckConflicts, Stages
<1>2. UNCHANGED <<order, appointments, holder, call, latest, tries, overlapped, calls>>
  BY DEF RecheckConflicts, numberVars
<1>3. /\ CallsKnown' /\ BookingsExclusive' /\ stage'[c] = "clear"
      /\ \A d \in Callers : d # c => stage'[d] = stage[d]
  BY <1>1, <1>2, MoveKeeps
<1>4. TypeOK'
  BY <1>1, <1>2 DEF IInv, TypeOK, To
<1>5. BookersHold' /\ LocksEndWithTransactions'
  BY <1>1, <1>2, <1>3 DEF IInv, BookersHold, InTransaction, LocksEndWithTransactions
<1>6. Cleared'
  <2>1. call[c].at = 0
    BY <1>1 DEF IInv, BookersHold, InTransaction, CallsKnown
  <2>2. Free(c)
    BY <2>1, Numbers DEF RecheckConflicts, NoConflicts, Free, Active, IInv
  <2> QED
    BY <1>2, <1>3, <2>2 DEF IInv, Cleared, Verified, Free
<1> QED
  BY <1>3, <1>4, <1>5, <1>6 DEF IInv

\* Reading the latest number moves the call to its insert and keeps the lock.
LEMMA ReadLatestKeepsIInv ==
  ASSUME IInv, NEW c \in Callers, ReadLatest(c)
  PROVE  IInv'
<1>1. To(c, "numbered") /\ stage[c] = "clear" /\ "numbered" \in Stages
  BY DEF ReadLatest, Stages
<1>2. UNCHANGED <<order, appointments, holder, call, tries, overlapped, calls>>
  BY DEF ReadLatest
<1>3. /\ CallsKnown' /\ BookingsExclusive' /\ stage'[c] = "numbered"
      /\ \A d \in Callers : d # c => stage'[d] = stage[d]
  BY <1>1, <1>2, MoveKeeps
<1>4. TypeOK'
  BY <1>1, <1>2, Numbers DEF IInv, TypeOK, To, ReadLatest
<1>5. BookersHold' /\ LocksEndWithTransactions' /\ Cleared'
  BY <1>1, <1>2, <1>3
  DEF IInv, BookersHold, InTransaction, LocksEndWithTransactions, Cleared, Verified, Free
<1> QED
  BY <1>3, <1>4, <1>5 DEF IInv

\* The transaction that collides gives its technician back.
LEMMA CollideKeepsIInv ==
  ASSUME IInv, NEW c \in Callers, Collide(c)
  PROVE  IInv'
<1>1. /\ To(c, "checked") /\ stage[c] = "numbered" /\ "checked" \in Stages
      /\ holder[call[c].technician] = c
  BY DEF Collide, Stages, IInv, BookersHold, InTransaction
<1>2. /\ UNCHANGED <<order, appointments, call, overlapped, calls>>
      /\ holder' = [holder EXCEPT ![call[c].technician] = None]
  BY DEF Collide
<1>3. /\ CallsKnown' /\ BookingsExclusive' /\ stage'[c] = "checked"
      /\ \A d \in Callers : d # c => stage'[d] = stage[d]
  BY <1>1, <1>2, MoveKeeps
<1>4. TypeOK'
  <2>1. tries' \in [Callers -> 0..MaxTries]
    BY SchedulingAssumption DEF Collide, IInv, TypeOK
  <2>2. latest' \in [Callers -> Nat] /\ holder' \in [Technicians -> Callers \cup {None}]
    BY <1>2 DEF Collide, IInv, TypeOK
  <2> QED
    BY <1>1, <1>2, <2>1, <2>2 DEF IInv, TypeOK, To
<1>5. BookersHold'
  <2> SUFFICES ASSUME NEW d \in Callers, stage'[d] \in InTransaction
               PROVE  call'[d].op = "create" /\ holder'[call'[d].technician] = d
    BY DEF BookersHold
  <2>1. d # c
    BY <1>3 DEF InTransaction
  <2>2. call[d].op = "create" /\ holder[call[d].technician] = d
    BY <1>3, <2>1 DEF IInv, BookersHold
  <2> QED
    BY <1>1, <1>2, <2>1, <2>2
<1>6. Cleared'
  BY <1>2, <1>3 DEF IInv, Cleared, Verified, Free
<1>7. LocksEndWithTransactions'
  <2> SUFFICES ASSUME NEW t \in Technicians, NEW d \in Callers, holder'[t] = d
               PROVE  stage'[d] \in {"locked", "clear", "numbered"}
                      /\ call'[d].op = "create" /\ call'[d].technician = t
    BY DEF LocksEndWithTransactions
  <2>1. d # None
    BY SchedulingAssumption
  <2>2. t # call[c].technician /\ holder[t] = d
    BY <1>2, <2>1 DEF IInv, TypeOK
  <2>3. stage[d] \in {"locked", "clear", "numbered"} /\ call[d].op = "create"
        /\ call[d].technician = t
    BY <2>2 DEF IInv, LocksEndWithTransactions
  <2> QED
    BY <1>2, <1>3, <2>2, <2>3
<1> QED
  BY <1>3, <1>4, <1>5, <1>6, <1>7 DEF IInv

\* A booking is added while its technician is held: it clashes with no booking,
\* and stands in the way of no other call that found its own way clear.
LEMMA BookKeepsIInv ==
  ASSUME IInv, NEW c \in Callers, Book(c)
  PROVE  IInv'
<1> DEFINE v == [order |-> call[c].order, technician |-> call[c].technician,
                 slot |-> call[c].slot, status |-> "SCHEDULED",
                 dispatch |-> "PENDING_DISPATCH", begun |-> FALSE]
           n == Len(appointments) + 1
<1>1. /\ appointments' = Append(appointments, v) /\ End(c)
      /\ stage[c] = "numbered" /\ call[c] \in Calls
  BY DEF Book, IInv, CallsKnown
<1>2. v \in Appointments
  BY <1>1 DEF Calls, Appointments, Active, Terminal, DispatchStatuses
<1> HIDE DEF v
<1>3. /\ appointments' \in Seq(Appointments) /\ DOMAIN appointments' = 1..n
      /\ appointments'[n] = v
      /\ \A i \in DOMAIN appointments :
           i \in DOMAIN appointments' /\ appointments'[i] = appointments[i]
  BY <1>1, <1>2, Appended DEF IInv
<1>4. /\ DOMAIN appointments = 1..Len(appointments) /\ Len(appointments) \in Nat
      /\ \A i \in DOMAIN appointments' : i # n => i \in DOMAIN appointments
      /\ \A i \in DOMAIN appointments' : appointments'[i] \in Appointments
  BY <1>3, Numbers, ElementOfSeq, LenProperties DEF IInv
<1>5. Kept
  BY <1>3 DEF Kept
<1>6. /\ TypeOK' /\ CallsKnown' /\ BookersHold' /\ LocksEndWithTransactions'
      /\ stage'[c] = "idle"
      /\ \A d \in Callers : d # c => stage'[d] = stage[d] /\ call'[d] = call[d]
  BY <1>1, <1>3, <1>5, EndFacts
<1>7. /\ v.technician = call[c].technician /\ v.slot = call[c].slot
      /\ v.status = "SCHEDULED"
  BY DEF v
<1>8. Cleared'
  <2> SUFFICES ASSUME NEW d \in Callers, stage'[d] \in Verified
               PROVE  Free(d)'
    BY DEF Cleared
  <2>1. d # c /\ stage[d] \in Verified /\ call'[d] = call[d]
    BY <1>6 DEF Verified
  <2>2. Free(d)
    BY <2>1 DEF IInv, Cleared
  <2>3. call[d].technician # call[c].technician
    BY <1>1, <2>1 DEF IInv, BookersHold, InTransaction, Verified
  <2>4. ASSUME NEW i \in DOMAIN appointments',
               appointments'[i].technician = call[d].technician,
               appointments'[i].status = "SCHEDULED"
        PROVE  ~Overlap(appointments'[i].slot, call[d].slot)
    BY <1>3, <1>4, <1>7, <2>2, <2>3, <2>4 DEF Free
  <2> QED
    BY <2>1, <2>4 DEF Free
<1>9. BookingsExclusive'
  <2>1. Free(c)
    BY <1>1 DEF IInv, Cleared, Verified
  <2> SUFFICES ASSUME NEW i \in DOMAIN appointments', NEW j \in DOMAIN appointments', i # j,
                      appointments'[i].technician = appointments'[j].technician,
                      appointments'[i].status = "SCHEDULED",
                      appointments'[j].status = "SCHEDULED"
               PROVE  ~Overlap(appointments'[i].slot, appointments'[j].slot)
    BY DEF BookingsExclusive, Clash, Active
  <2>2. CASE i # n /\ j # n
    BY <1>3, <1>4, <2>2 DEF IInv, BookingsExclusive, Clash, Active
  <2>3. CASE i = n
    <3>1. j \in DOMAIN appointments /\ appointments'[j] = appointments[j]
      BY <1>3, <1>4, <2>3
    <3>2. ~Overlap(appointments[j].slot, call[c].slot)
      BY <1>3, <1>7, <2>1, <2>3, <3>1 DEF Free
    <3> QED
      BY <1>3, <1>7, <2>3, <3>1, <3>2 DEF Overlap
  <2>4. CASE j = n
    <3>1. i \in DOMAIN appointments /\ appointments'[i] = appointments[i]
      BY <1>3, <1>4, <2>4
    <3> QED
      BY <1>3, <1>7, <2>1, <2>4, <3>1 DEF Free
  <2> QED
    BY <2>2, <2>3, <2>4
<1> QED
  BY <1>6, <1>8, <1>9 DEF IInv

\* The calls that update an appointment.
Commits(c) ==
  \/ CommitReschedule(c) \/ CommitCancel(c) \/ CommitDispatch(c) \/ CommitUndispatch(c)
  \/ CommitAcknowledge(c) \/ CommitBegin(c) \/ CommitComplete(c)

\* What an update may make of the appointment, concurrently or in series.
Legal(c, v) ==
  LET a == appointments[call[c].at] IN
  /\ v \in Appointments
  /\ v.technician = a.technician
  /\ v.status = "SCHEDULED" => a.status = "SCHEDULED" /\ v.slot = a.slot

LegalInSeries(c, v) ==
  LET a == appointments[call[c].at] IN
  /\ a.status # "CANCELLED"
  /\ a.status = "COMPLETED" => v.status = "COMPLETED" /\ v.slot = a.slot
  /\ v.status = "CANCELLED" => v.dispatch = "PENDING_DISPATCH"
  /\ v.status \in Active => /\ a.status \in Active
                            /\ v.slot = a.slot \/ (v.slot = call[c].slot /\ NoConflicts(c))

\* Every update of an appointment is one of the two kinds of legal change.
LEMMA CommitsAreLegal ==
  ASSUME IInv, NEW c \in Callers, Commits(c)
  PROVE  /\ stage[c] = "checked" /\ call[c].op # "create"
         /\ \E v : /\ Update(c, v) /\ Legal(c, v)
                   /\ SerialInv /\ ~overlapped => LegalInSeries(c, v)
<1> DEFINE a == appointments[call[c].at]
<1>1. stage[c] = "checked" /\ call[c].op # "create"
  BY DEF Commits, CommitReschedule, CommitCancel, CommitDispatch, CommitUndispatch,
         CommitAcknowledge, CommitBegin, CommitComplete
<1>2. a \in Appointments /\ call[c] \in Calls
  BY <1>1, Numbers DEF IInv, CallsKnown
<1>3. SerialInv /\ ~overlapped => Admitted(c)
  BY <1>1 DEF SerialInv
<1>4. CASE CommitReschedule(c)
  <2> DEFINE v == [a EXCEPT !.slot = call[c].slot, !.status = "RESCHEDULED",
                            !.dispatch = "PENDING_DISPATCH"]
  <2>1. Update(c, v)
    BY <1>4 DEF CommitReschedule
  <2>2. Legal(c, v)
    BY <1>2 DEF Legal, Appointments, Active, DispatchStatuses, Calls
  <2>3. SerialInv /\ ~overlapped => LegalInSeries(c, v)
    <3> SUFFICES ASSUME SerialInv, ~overlapped  PROVE LegalInSeries(c, v)
      OBVIOUS
    <3>1. call[c].op = "reschedule" /\ NoConflicts(c)
      BY <1>4 DEF CommitReschedule, SerialInv
    <3> QED
      BY <1>2, <1>3, <3>1 DEF LegalInSeries, Admitted, Appointments, Active
  <2> QED
    BY <1>1, <2>1, <2>2, <2>3
<1>5. CASE CommitCancel(c)
  <2> DEFINE v == [a EXCEPT !.status = "CANCELLED", !.dispatch = "PENDING_DISPATCH"]
  <2>1. Update(c, v) /\ call[c].op = "cancel"
    BY <1>5 DEF CommitCancel
  <2>2. Legal(c, v)
    BY <1>2 DEF Legal, Appointments, Terminal, DispatchStatuses
  <2>3. SerialInv /\ ~overlapped => LegalInSeries(c, v)
    BY <1>2, <1>3, <2>1 DEF LegalInSeries, Admitted, Appointments, Active
  <2> QED
    BY <1>1, <2>1, <2>2, <2>3
<1>6. CASE CommitComplete(c)
  <2> DEFINE v == [a EXCEPT !.status = "COMPLETED"]
  <2>1. Update(c, v) /\ call[c].op = "complete"
    BY <1>6 DEF CommitComplete
  <2>2. Legal(c, v)
    BY <1>2 DEF Legal, Appointments, Terminal
  <2>3. SerialInv /\ ~overlapped => LegalInSeries(c, v)
    BY <1>2, <1>3, <2>1 DEF LegalInSeries, Admitted, Appointments, Active
  <2> QED
    BY <1>1, <2>1, <2>2, <2>3
<1>7. CASE CommitBegin(c)
  <2> DEFINE v == [a EXCEPT !.begun = TRUE]
  <2>1. Update(c, v)
    BY <1>7 DEF CommitBegin
  <2>2. Legal(c, v)
    BY <1>2 DEF Legal, Appointments
  <2>3. v.status = a.status /\ v.slot = a.slot
    BY <1>2 DEF Appointments
  <2>4. SerialInv /\ ~overlapped => LegalInSeries(c, v)
    BY <1>3, <2>3 DEF LegalInSeries, Admitted
  <2> QED
    BY <1>1, <2>1, <2>2, <2>4
<1>8. ASSUME NEW d \in DispatchStatuses, Update(c, [a EXCEPT !.dispatch = d])
      PROVE  \E v : /\ Update(c, v) /\ Legal(c, v)
                    /\ SerialInv /\ ~overlapped => LegalInSeries(c, v)
  <2> DEFINE v == [a EXCEPT !.dispatch = d]
  <2>1. Legal(c, v)
    BY <1>2 DEF Legal, Appointments
  <2>2. v.status = a.status /\ v.slot = a.slot
    BY <1>2 DEF Appointments
  <2>3. SerialInv /\ ~overlapped => LegalInSeries(c, v)
    BY <1>3, <2>2 DEF LegalInSeries, Admitted
  <2> QED
    BY <1>8, <2>1, <2>3
<1>9. CASE CommitDispatch(c) \/ CommitUndispatch(c) \/ CommitAcknowledge(c)
  BY <1>1, <1>8, <1>9
  DEF CommitDispatch, CommitUndispatch, CommitAcknowledge, DispatchStatuses
<1> QED
  BY <1>4, <1>5, <1>6, <1>7, <1>9 DEF Commits

\* A call that starts has its arguments from the rows it read, and found them so.
Starts(c, op, i, w, t, s, next) ==
  /\ Enter(c, op, i, w, t, s, next)
  /\ op = "create" => i = 0
  /\ op = "reschedule" => next = "read"
  /\ op # "create" =>
       LET a == appointments[i] IN
       /\ i \in DOMAIN appointments /\ t = a.technician
       /\ op \in {"reschedule", "cancel", "dispatch", "complete"} => a.status \in Active
       /\ op \in {"undispatch", "acknowledge"} => a.dispatch # "PENDING_DISPATCH"
       /\ op = "begin" => a.status # "CANCELLED"

\* Every operation that starts does so as Starts says.
LEMMA StartsEnter ==
  ASSUME IInv, NEW c \in Callers, Start(c)
  PROVE  \E op \in Operations, i \in Nat, w \in Orders, t \in Technicians, s \in Slots,
            next \in {"read", "checked"} : Starts(c, op, i, w, t, s, next)
<1>1. \A i \in DOMAIN appointments :
        /\ i \in Nat /\ appointments[i] \in Appointments
        /\ appointments[i].order \in Orders /\ appointments[i].technician \in Technicians
        /\ appointments[i].slot \in Slots
  BY Numbers DEF IInv, Appointments
<1>2. CASE \E w \in Orders, s \in Slots : CreateSchedule(c, w, s)
  <2>1. PICK w \in Orders, s \in Slots : CreateSchedule(c, w, s)
    BY <1>2
  <2>2. order[w].technician \in Technicians
    BY <2>1 DEF CreateSchedule, IInv, TypeOK
  <2>3. Enter(c, "create", 0, w, order[w].technician, s, "read")
    BY <2>1 DEF CreateSchedule
  <2> QED
    BY <2>2, <2>3 DEF Operations, Starts
<1>3. ASSUME NEW i \in DOMAIN appointments, NEW op \in Operations, op # "create",
             NEW s \in Slots, NEW next \in {"read", "checked"},
             About(c, op, i, s, next), op = "reschedule" => next = "read",
             LET a == appointments[i] IN
             /\ op \in {"reschedule", "cancel", "dispatch", "complete"} => a.status \in Active
             /\ op \in {"undispatch", "acknowledge"} => a.dispatch # "PENDING_DISPATCH"
             /\ op = "begin" => a.status # "CANCELLED"
      PROVE  \E w \in Orders, t \in Technicians : Starts(c, op, i, w, t, s, next)
  BY <1>1, <1>3, Zenon DEF About, Starts
<1>4. ASSUME NEW i \in DOMAIN appointments, NEW s \in Slots, RescheduleSchedule(c, i, s)
      PROVE  About(c, "reschedule", i, s, "read") /\ appointments[i].status \in Active
  BY <1>1, <1>4 DEF RescheduleSchedule, Appointments, Terminal
<1>5. ASSUME NEW i \in DOMAIN appointments, CancelSchedule(c, i)
      PROVE  /\ About(c, "cancel", i, appointments[i].slot, "checked")
             /\ appointments[i].status \in Active
  BY <1>1, <1>5 DEF CancelSchedule, Appointments, Terminal
<1>6. CASE \E i \in DOMAIN appointments, s \in Slots : RescheduleSchedule(c, i, s)
  BY <1>1, <1>3, <1>4, <1>6 DEF Operations
<1>7. CASE \E i \in DOMAIN appointments : CancelSchedule(c, i)
  BY <1>1, <1>3, <1>5, <1>7 DEF Operations
<1>8. CASE \E i \in DOMAIN appointments : DispatchAppointment(c, i)
  BY <1>1, <1>3, <1>8 DEF DispatchAppointment, Operations
<1>9. CASE \E i \in DOMAIN appointments : UndispatchAppointment(c, i)
  BY <1>1, <1>3, <1>9 DEF UndispatchAppointment, Operations
<1>10. CASE \E i \in DOMAIN appointments : AcknowledgeDispatch(c, i)
  BY <1>1, <1>3, <1>10 DEF AcknowledgeDispatch, Operations
<1>11. CASE \E i \in DOMAIN appointments : BeginFieldWork(c, i)
  BY <1>1, <1>3, <1>11 DEF BeginFieldWork, Operations
<1>12. CASE \E i \in DOMAIN appointments : CompleteAppointment(c, i)
  BY <1>1, <1>3, <1>12 DEF CompleteAppointment, Operations
<1> QED
  BY <1>2, <1>6, <1>7, <1>8, <1>9, <1>10, <1>11, <1>12 DEF Start

\* Every call that starts only enters.
LEMMA StartKeepsIInv ==
  ASSUME IInv, NEW c \in Callers, Start(c)
  PROVE  IInv'
<1>1. PICK op \in Operations, i \in Nat, w \in Orders, t \in Technicians, s \in Slots,
           next \in {"read", "checked"} : Starts(c, op, i, w, t, s, next)
  BY StartsEnter
<1> QED
  BY <1>1, EnterKeepsIInv DEF Starts

\* The writes of the other calls: updates of one appointment that book nothing.
LEMMA CommitsKeepIInv ==
  ASSUME IInv, NEW c \in Callers, Commits(c)
  PROVE  IInv'
<1>1. PICK v : Update(c, v) /\ Legal(c, v)
  BY CommitsAreLegal
<1>2. stage[c] # "idle" /\ call[c].op # "create"
  BY CommitsAreLegal
<1> QED
  BY <1>1, <1>2, UpdateKeepsIInv DEF Legal

\* Work orders change without touching an appointment, a call or a lock.
LEMMA ChangeOrderKeepsIInv ==
  ASSUME IInv, NEW w \in Orders, ChangeOrder(w)
  PROVE  IInv'
<1>1. UNCHANGED <<appointments, holder, stage, call, latest, tries, calls>>
  BY DEF ChangeOrder, numberVars
<1>2. order' \in [Orders -> [status : OrderStatuses, technician : Technicians \cup {None}]]
      /\ overlapped' \in BOOLEAN
  BY DEF ChangeOrder, IInv, TypeOK
<1> QED
  BY <1>1, <1>2 DEF IInv, TypeOK, CallsKnown, BookersHold, LocksEndWithTransactions,
                    Cleared, Free, BookingsExclusive, Clash

\* One step of the system, whichever it is.
LEMMA NextKeepsIInv ==
  ASSUME IInv, [Next]_vars
  PROVE  IInv'
<1>1. ASSUME NEW c \in Callers, Start(c)  PROVE IInv'
  BY <1>1, StartKeepsIInv
<1>2. ASSUME NEW c \in Callers, Proceed(c)  PROVE IInv'
  <2>1. CASE CheckConflicts(c)
    BY <2>1, CheckConflictsKeepsIInv
  <2>2. CASE LockTechnician(c)
    BY <2>2, LockTechnicianKeepsIInv
  <2>3. CASE RecheckConflicts(c)
    BY <2>3, RecheckKeepsIInv
  <2>4. CASE ReadLatest(c)
    BY <2>4, ReadLatestKeepsIInv
  <2>5. CASE Book(c)
    BY <2>5, BookKeepsIInv
  <2>6. CASE Collide(c)
    BY <2>6, CollideKeepsIInv
  <2>7. CASE Commits(c)
    BY <2>7, CommitsKeepIInv
  <2>8. CASE Refuse(c)
    BY <2>8, UnchangedEnds DEF Refuse
  <2> QED
    BY <1>2, <2>1, <2>2, <2>3, <2>4, <2>5, <2>6, <2>7, <2>8 DEF Proceed, Commits
<1>3. ASSUME NEW c \in Callers, Rollback(c)  PROVE IInv'
  BY <1>3, UnchangedEnds DEF Rollback
<1>4. ASSUME NEW w \in Orders, ChangeOrder(w)  PROVE IInv'
  BY <1>4, ChangeOrderKeepsIInv
<1>5. CASE UNCHANGED vars
  BY <1>5 DEF vars, IInv, TypeOK, CallsKnown, BookersHold, LocksEndWithTransactions,
              Cleared, Free, BookingsExclusive, Clash
<1> QED
  BY <1>1, <1>2, <1>3, <1>4, <1>5 DEF Next

\* The invariant the theorems are read off from.
LEMMA Inductive == Spec => []IInv
<1>1. Init => IInv
  BY InitIInv
<1>2. IInv /\ [Next]_vars => IInv'
  BY NextKeepsIInv
<1> QED
  BY <1>1, <1>2, PTL DEF Spec

\* The rows, the locks and the calls keep their types.
THEOREM TypeCorrect == Spec => []TypeOK
<1>1. IInv => TypeOK
  BY DEF IInv
<1> QED
  BY <1>1, Inductive, PTL

\* createSchedule: however calls interleave, two active appointments of one
\* technician overlap only if one of them was moved by a reschedule.
THEOREM BookingsExclude == Spec => []BookingsExclusive
<1>1. IInv => BookingsExclusive
  BY DEF IInv
<1> QED
  BY <1>1, Inductive, PTL

\* createSchedule: a technician's row is held by a booking transaction of that
\* technician only, which waits for nothing else.
THEOREM LocksEnd == Spec => []LocksEndWithTransactions
<1>1. IInv => LocksEndWithTransactions
  BY DEF IInv
<1> QED
  BY <1>1, Inductive, PTL

-----------------------------------------------------------------------------
(* Calls in series. *)

\* What SerialEndsAreFinal says of a step.
EndsFinal ==
  \A i \in DOMAIN appointments :
    LET a == appointments[i]  b == appointments'[i] IN
    /\ a.status = "CANCELLED" => b = a
    /\ a.status = "COMPLETED" => b.status = a.status /\ b.slot = a.slot

\* The conjuncts of SerialInv.
OneAtATime == \A c, d \in Callers : stage[c] # "idle" /\ stage[d] # "idle" => c = d
AllAdmitted == \A c \in Callers : stage[c] # "idle" /\ call[c].op # "create" => Admitted(c)
AllChecked ==
  \A c \in Callers : (\/ stage[c] = "checked" /\ call[c].op = "reschedule"
                      \/ stage[c] \in Verified) => NoConflicts(c)
Withdrawn ==
  \A i \in DOMAIN appointments :
    appointments[i].status = "CANCELLED" => appointments[i].dispatch = "PENDING_DISPATCH"
OnePlace == \A i, j \in DOMAIN appointments : ~Clash(i, j)

\* What SerialInv says once the calls do not overlap.
LEMMA SerialParts ==
  /\ SerialInv <=> (~overlapped => OneAtATime /\ AllAdmitted /\ AllChecked
                                   /\ Withdrawn /\ OnePlace)
  /\ SerialInv' <=> (~overlapped' => OneAtATime' /\ AllAdmitted' /\ AllChecked'
                                     /\ Withdrawn' /\ OnePlace')
BY DEF SerialInv, OneAtATime, AllAdmitted, AllChecked, Withdrawn, OnePlace

\* A call that starts alone finds what it is admitted for.
LEMMA StartInSeries ==
  ASSUME IInv, SerialInv, NEW c \in Callers, Start(c)
  PROVE  SerialInv' /\ EndsFinal
<1>1. PICK op \in Operations, i \in Nat, w \in Orders, t \in Technicians, s \in Slots,
           next \in {"read", "checked"} : Starts(c, op, i, w, t, s, next)
  BY StartsEnter
<1>2. UNCHANGED appointments
  BY <1>1 DEF Starts, Enter
<1>3. EndsFinal
  BY <1>2 DEF EndsFinal
<1> SUFFICES ASSUME ~overlapped'
             PROVE  OneAtATime' /\ AllAdmitted' /\ AllChecked' /\ Withdrawn' /\ OnePlace'
  BY <1>3, SerialParts
<1>4. ~overlapped /\ Alone(c)
  BY <1>1 DEF Starts, Enter
<1>5. OneAtATime /\ AllAdmitted /\ AllChecked /\ Withdrawn /\ OnePlace
  BY <1>4, SerialParts
<1>6. /\ stage'[c] = next
      /\ call'[c] = [op |-> op, at |-> i, order |-> w, technician |-> t, slot |-> s]
      /\ \A d \in Callers : d # c => stage'[d] = "idle" /\ stage[d] = "idle"
  BY <1>1, <1>4 DEF Starts, Enter, To, Alone, IInv, TypeOK
<1>7. OneAtATime'
  BY <1>6 DEF OneAtATime
<1>8. AllAdmitted'
  <2> SUFFICES ASSUME op # "create"  PROVE Admitted(c)'
    BY <1>6 DEF AllAdmitted
  <2>1. appointments[i].status # "CANCELLED"
    BY <1>1, <1>5 DEF Starts, Operations, Active, Withdrawn
  <2> QED
    BY <1>1, <1>2, <1>6, <2>1 DEF Admitted, Starts
<1>9. AllChecked'
  BY <1>1, <1>6 DEF AllChecked, Starts, Verified
<1>10. Withdrawn' /\ OnePlace'
  BY <1>2, <1>5 DEF Withdrawn, OnePlace, Clash
<1> QED
  BY <1>7, <1>8, <1>9, <1>10

\* The call that ends was the only one.
LEMMA EndInSeries ==
  ASSUME IInv, SerialInv, NEW c \in Callers, stage[c] # "idle", End(c), ~overlapped'
  PROVE  /\ ~overlapped /\ OneAtATime' /\ AllAdmitted' /\ AllChecked'
<1>1. ~overlapped
  BY DEF End
<1>2. OneAtATime
  BY <1>1, SerialParts
<1>3. \A d \in Callers : stage'[d] = "idle"
  BY <1>2 DEF OneAtATime, End, To, IInv, TypeOK
<1> QED
  BY <1>1, <1>3 DEF OneAtATime, AllAdmitted, AllChecked, Verified

\* A call that ends without a write, in series.
LEMMA UnchangedEndInSeries ==
  ASSUME IInv, SerialInv, NEW c \in Callers, stage[c] # "idle", End(c), UNCHANGED appointments
  PROVE  SerialInv' /\ EndsFinal
<1>1. EndsFinal
  BY DEF EndsFinal
<1>2. ASSUME ~overlapped' PROVE Withdrawn' /\ OnePlace'
  <2>1. Withdrawn /\ OnePlace
    BY <1>2, EndInSeries, SerialParts
  <2> QED
    BY <2>1 DEF Withdrawn, OnePlace, Clash
<1> QED
  BY <1>1, <1>2, EndInSeries, SerialParts

\* The update of the only call.
LEMMA CommitInSeries ==
  ASSUME IInv, SerialInv, NEW c \in Callers, Commits(c)
  PROVE  SerialInv' /\ (~overlapped' => EndsFinal)
<1>1. PICK v : /\ Update(c, v) /\ Legal(c, v)
               /\ SerialInv /\ ~overlapped => LegalInSeries(c, v)
  BY CommitsAreLegal
<1>2. stage[c] = "checked" /\ call[c].op # "create" /\ End(c)
  BY <1>1, CommitsAreLegal DEF Update
<1> DEFINE k == call[c].at
<1>3. k \in DOMAIN appointments /\ call[c].technician = appointments[k].technician
  BY <1>2 DEF IInv, CallsKnown
<1>4. /\ DOMAIN appointments' = DOMAIN appointments /\ appointments'[k] = v
      /\ \A i \in DOMAIN appointments : i # k => appointments'[i] = appointments[i]
  BY <1>1, <1>3, Replaced DEF Update, Legal, IInv
<1> SUFFICES ASSUME ~overlapped'
             PROVE  Withdrawn' /\ OnePlace' /\ EndsFinal
  BY <1>2, EndInSeries, SerialParts
<1>5. LegalInSeries(c, v) /\ Withdrawn /\ OnePlace
  BY <1>1, <1>2, EndInSeries, SerialParts
<1> HIDE DEF k
<1>6. Withdrawn'
  BY <1>4, <1>5 DEF Withdrawn, LegalInSeries
<1>7. EndsFinal
  BY <1>3, <1>4, <1>5 DEF EndsFinal, LegalInSeries, k
<1>8. v.technician = appointments[k].technician
  BY <1>1 DEF Legal, k
<1>9. ASSUME NEW j \in DOMAIN appointments, j # k, v.status \in Active,
             appointments[j].technician = v.technician, appointments[j].status \in Active
      PROVE  ~Overlap(appointments[j].slot, v.slot) /\ ~Overlap(v.slot, appointments[j].slot)
  <2>1. CASE v.slot = appointments[k].slot
    <3>1. appointments[k].status \in Active
      BY <1>5, <1>9 DEF LegalInSeries, k
    <3> QED
      BY <1>3, <1>5, <1>8, <1>9, <2>1, <3>1 DEF OnePlace, Clash
  <2>2. CASE v.slot = call[c].slot /\ NoConflicts(c)
    <3>1. ~Overlap(appointments[j].slot, call[c].slot)
      BY <1>3, <1>8, <1>9, <2>2 DEF NoConflicts, k
    <3> QED
      BY <2>2, <3>1 DEF Overlap
  <2> QED
    BY <1>5, <1>9, <2>1, <2>2 DEF LegalInSeries, k
<1>10. OnePlace'
  <2> SUFFICES ASSUME NEW i \in DOMAIN appointments', NEW j \in DOMAIN appointments', Clash(i, j)'
               PROVE  FALSE
    BY DEF OnePlace
  <2>1. CASE i = k
    BY <1>4, <1>9, <2>1 DEF Clash
  <2>2. CASE j = k
    BY <1>4, <1>9, <2>2 DEF Clash
  <2>3. CASE i # k /\ j # k
    BY <1>4, <1>5, <2>3 DEF OnePlace, Clash
  <2> QED
    BY <2>1, <2>2, <2>3
<1> QED
  BY <1>6, <1>7, <1>10

\* A booking that nobody raced is checked against the calendar as it is.
LEMMA BookInSeries ==
  ASSUME IInv, SerialInv, NEW c \in Callers, Book(c)
  PROVE  SerialInv' /\ EndsFinal
<1> DEFINE v == [order |-> call[c].order, technician |-> call[c].technician,
                 slot |-> call[c].slot, status |-> "SCHEDULED",
                 dispatch |-> "PENDING_DISPATCH", begun |-> FALSE]
           n == Len(appointments) + 1
<1>1. /\ appointments' = Append(appointments, v) /\ End(c)
      /\ stage[c] = "numbered" /\ call[c] \in Calls
      /\ call[c].at = 0
  BY DEF Book, IInv, CallsKnown, BookersHold, InTransaction
<1>2. v \in Appointments
  BY <1>1 DEF Calls, Appointments, Active, Terminal, DispatchStatuses
<1>3. /\ v.technician = call[c].technician /\ v.slot = call[c].slot
      /\ v.status = "SCHEDULED" /\ v.dispatch = "PENDING_DISPATCH"
  OBVIOUS
<1> HIDE DEF v
<1>4. /\ DOMAIN appointments' = 1..n /\ appointments'[n] = v
      /\ \A i \in DOMAIN appointments :
           i \in DOMAIN appointments' /\ appointments'[i] = appointments[i]
  BY <1>1, <1>2, Appended DEF IInv
<1>5. /\ \A i \in DOMAIN appointments' : i # n => i \in DOMAIN appointments
      /\ \A i \in DOMAIN appointments : i # 0 /\ i # n
  BY <1>4, Numbers DEF IInv
<1>6. EndsFinal
  BY <1>4 DEF EndsFinal
<1> SUFFICES ASSUME ~overlapped'  PROVE Withdrawn' /\ OnePlace'
  BY <1>1, <1>6, EndInSeries, SerialParts
<1>7. Withdrawn /\ OnePlace /\ NoConflicts(c)
  BY <1>1, EndInSeries, SerialParts DEF AllChecked, Verified
<1> HIDE DEF n
<1>8. Withdrawn'
  BY <1>3, <1>4, <1>5, <1>7 DEF Withdrawn
<1>9. ASSUME NEW j \in DOMAIN appointments, appointments[j].status \in Active,
             appointments[j].technician = v.technician
      PROVE  ~Overlap(appointments[j].slot, v.slot) /\ ~Overlap(v.slot, appointments[j].slot)
  BY <1>1, <1>3, <1>5, <1>7, <1>9 DEF NoConflicts, Overlap
<1>10. OnePlace'
  <2> SUFFICES ASSUME NEW i \in DOMAIN appointments', NEW j \in DOMAIN appointments', Clash(i, j)'
               PROVE  FALSE
    BY DEF OnePlace
  <2>1. CASE i = n
    BY <1>4, <1>5, <1>9, <2>1 DEF Clash
  <2>2. CASE j = n
    BY <1>4, <1>5, <1>9, <2>2 DEF Clash
  <2>3. CASE i # n /\ j # n
    BY <1>4, <1>5, <1>7, <2>3 DEF OnePlace, Clash
  <2> QED
    BY <2>1, <2>2, <2>3
<1> QED
  BY <1>8, <1>10

\* A step of the only call that writes nothing and goes on.
LEMMA MoveInSeries ==
  ASSUME IInv, SerialInv, NEW c \in Callers, NEW next \in Stages, To(c, next), stage[c] # "idle",
         UNCHANGED <<appointments, call, overlapped>>,
         (next = "checked" /\ call[c].op = "reschedule") \/ next \in Verified => NoConflicts(c)
  PROVE  SerialInv' /\ EndsFinal
<1>1. stage'[c] = next /\ \A d \in Callers : d # c => stage'[d] = stage[d]
  BY DEF To, IInv, TypeOK
<1>2. EndsFinal
  BY DEF EndsFinal
<1> SUFFICES ASSUME ~overlapped'
             PROVE  OneAtATime' /\ AllAdmitted' /\ AllChecked' /\ Withdrawn' /\ OnePlace'
  BY <1>2, SerialParts
<1>3. OneAtATime /\ AllAdmitted /\ AllChecked /\ Withdrawn /\ OnePlace
  BY SerialParts
<1>4. OneAtATime' /\ AllAdmitted'
  BY <1>1, <1>3 DEF OneAtATime, AllAdmitted, Admitted
<1>5. AllChecked'
  BY <1>1, <1>3 DEF AllChecked, NoConflicts
<1>6. Withdrawn' /\ OnePlace'
  BY <1>3 DEF Withdrawn, OnePlace, Clash
<1> QED
  BY <1>4, <1>5, <1>6

\* The steps of a booking before its insert, in series: none writes an appointment.
LEMMA BookingInSeries ==
  ASSUME IInv, SerialInv, NEW c \in Callers,
         \/ CheckConflicts(c) \/ LockTechnician(c) \/ RecheckConflicts(c)
         \/ ReadLatest(c) \/ Collide(c)
  PROVE  SerialInv' /\ EndsFinal
<1>1. CASE CheckConflicts(c)
  <2>1. /\ To(c, "checked") /\ stage[c] # "idle" /\ NoConflicts(c) /\ "checked" \in Stages
        /\ UNCHANGED <<appointments, call, overlapped>>
    BY <1>1 DEF CheckConflicts, Stages
  <2> QED
    BY <2>1, MoveInSeries
<1>2. CASE LockTechnician(c)
  <2>1. /\ To(c, "locked") /\ stage[c] # "idle" /\ "locked" \in Stages
        /\ UNCHANGED <<appointments, call, overlapped>>
    BY <1>2 DEF LockTechnician, Stages
  <2> QED
    BY <2>1, MoveInSeries DEF Verified
<1>3. CASE RecheckConflicts(c)
  <2>1. /\ To(c, "clear") /\ stage[c] # "idle" /\ NoConflicts(c) /\ "clear" \in Stages
        /\ UNCHANGED <<appointments, call, overlapped>>
    BY <1>3 DEF RecheckConflicts, Stages
  <2> QED
    BY <2>1, MoveInSeries
<1>4. CASE ReadLatest(c)
  <2>1. /\ To(c, "numbered") /\ stage[c] = "clear" /\ "numbered" \in Stages
        /\ UNCHANGED <<appointments, call, overlapped>>
    BY <1>4 DEF ReadLatest, Stages
  <2>2. ~overlapped => NoConflicts(c)
    BY <2>1, SerialParts DEF AllChecked, Verified
  <2>3. CASE ~overlapped
    BY <2>1, <2>2, <2>3, MoveInSeries
  <2>4. CASE overlapped
    BY <2>1, <2>4 DEF SerialInv, EndsFinal, IInv, TypeOK
  <2> QED
    BY <2>3, <2>4
<1>5. CASE Collide(c)
  <2>1. /\ To(c, "checked") /\ stage[c] = "numbered" /\ "checked" \in Stages
        /\ UNCHANGED <<appointments, call, overlapped>>
    BY <1>5 DEF Collide, Stages
  <2>2. call[c].op = "create"
    BY <2>1 DEF IInv, BookersHold, InTransaction
  <2> QED
    BY <2>1, <2>2, MoveInSeries DEF Verified
<1> QED
  BY <1>1, <1>2, <1>3, <1>4, <1>5

\* A work order that changes while a call runs overlaps it.
LEMMA ChangeOrderInSeries ==
  ASSUME IInv, SerialInv, NEW w \in Orders, ChangeOrder(w)
  PROVE  SerialInv' /\ EndsFinal
BY DEF ChangeOrder, numberVars, SerialInv, EndsFinal, Admitted, NoConflicts, Clash, Verified

\* One step of the system, as long as calls do not overlap.
LEMMA NextInSeries ==
  ASSUME IInv, SerialInv, [Next]_vars
  PROVE  SerialInv' /\ (~overlapped' => EndsFinal)
<1>1. ASSUME NEW c \in Callers, Start(c)  PROVE SerialInv' /\ EndsFinal
  BY <1>1, StartInSeries
<1>2. ASSUME NEW c \in Callers, Proceed(c)  PROVE SerialInv' /\ (~overlapped' => EndsFinal)
  <2>1. CASE CheckConflicts(c) \/ LockTechnician(c) \/ RecheckConflicts(c)
             \/ ReadLatest(c) \/ Collide(c)
    BY <2>1, BookingInSeries
  <2>2. CASE Book(c)
    BY <2>2, BookInSeries
  <2>3. CASE Commits(c)
    BY <2>3, CommitInSeries
  <2>4. CASE Refuse(c)
    <3>1. stage[c] # "idle" /\ End(c) /\ UNCHANGED appointments
      BY <2>4 DEF Refuse
    <3> QED
      BY <3>1, UnchangedEndInSeries
  <2> QED
    BY <1>2, <2>1, <2>2, <2>3, <2>4 DEF Proceed, Commits
<1>3. ASSUME NEW c \in Callers, Rollback(c)  PROVE SerialInv' /\ EndsFinal
  BY <1>3, UnchangedEndInSeries DEF Rollback
<1>4. ASSUME NEW w \in Orders, ChangeOrder(w)  PROVE SerialInv' /\ EndsFinal
  BY <1>4, ChangeOrderInSeries
<1>5. CASE UNCHANGED vars
  BY <1>5 DEF vars, SerialInv, EndsFinal, Admitted, NoConflicts, Clash
<1> QED
  BY <1>1, <1>2, <1>3, <1>4, <1>5 DEF Next

\* What a call checked still holds when it writes, if it is alone.
LEMMA InductiveInSeries == Spec => [](IInv /\ SerialInv)
<1>1. Init => IInv /\ SerialInv
  <2>1. Init => SerialInv
    BY DEF Init, SerialInv, Verified
  <2> QED
    BY <2>1, InitIInv
<1>2. IInv /\ SerialInv /\ [Next]_vars => (IInv /\ SerialInv)'
  BY NextKeepsIInv, NextInSeries
<1> QED
  BY <1>1, <1>2, PTL DEF Spec

\* assertNoTechnicianConflicts: calls that do not overlap in time keep every
\* technician in one place.
THEOREM SerialCalendar == Spec => []SerialCalendarIsExact
<1>1. SerialInv => SerialCalendarIsExact
  BY DEF SerialInv, SerialCalendarIsExact
<1> QED
  BY <1>1, InductiveInSeries, PTL

\* The guards on terminal statuses: calls that do not overlap in time leave
\* cancelled appointments alone and completed ones completed in their slot.
THEOREM SerialEnds == Spec => SerialEndsAreFinal
<1>1. IInv /\ SerialInv /\ [Next]_vars =>
        [~overlapped' => \A i \in DOMAIN appointments :
           LET a == appointments[i]  b == appointments'[i] IN
           /\ a.status = "CANCELLED" => b = a
           /\ a.status = "COMPLETED" => b.status = a.status /\ b.slot = a.slot]_vars
  BY NextInSeries DEF EndsFinal
<1> QED
  BY <1>1, InductiveInSeries, PTL DEF Spec, SerialEndsAreFinal

-----------------------------------------------------------------------------
(* Automations: what workers, executions and ticks have to do with each other. *)

Stepping(w) == phase[w] \in {"stepping", "acting"}

\* What a worker has in hand, by its phase.
Shape(w) ==
  /\ phase[w] \in {"idle", "polled"} <=> tick[w] = 0
  /\ Stepping(w) => queue[w] # <<>>
  /\ phase[w] \notin {"running", "stepping", "acting"} => queue[w] = <<>>

Shapes == \A w \in Workers : Shape(w)

\* A worker dispatches a tick that is open, and another one than the others.
TicksApart ==
  /\ \A w \in Workers : tick[w] # 0 => ticks[tick[w]].end = "open"
  /\ \A v, w \in Workers : tick[v] = tick[w] /\ tick[v] # 0 => v = w

\* The executions that it has to run are of its tick, the first one RUNNING once it
\* steps; and nobody else has them.
Queued(w) ==
  \A i \in DOMAIN queue[w] :
    /\ runs[queue[w][i]].tick = tick[w]
    /\ runs[queue[w][i]].status =
         IF i = 1 /\ phase[w] \in {"stepping", "acting"} THEN "RUNNING" ELSE "PENDING"

QueuesApart ==
  /\ \A w \in Workers : Queued(w)
  /\ \A v, w \in Workers : \A i \in DOMAIN queue[v], j \in DOMAIN queue[w] :
       queue[v][i] = queue[w][j] => v = w /\ i = j

\* An action is under way that a worker waits for, or that it has given up on.
ActionsKnown ==
  \A x \in acting :
    \/ runs[x[1]].status = "TIMED_OUT"
    \/ \E w \in Workers : phase[w] = "acting" /\ x = Action(w)

\* What was claimed of an interval was due before the time the job waits for now.
DueInTurn ==
  /\ \A w \in Workers : phase[w] = "polled" => copy[w].next <= copy[w].at
  /\ kind = "INTERVAL" =>
       \A t \in DOMAIN ticks : ticks[t].end # "unplanned" => ticks[t].due < job.next

\* While nothing disturbs it, a worker in a tick is the only one, its tick is the last
\* one, and the job is as it read it.
TickAlone(w) ==
  InTick(w) =>
    /\ \A v \in Workers : InTick(v) => v = w
    /\ job.active /\ wanted /\ copy[w].failures = job.failures
    /\ tick[w] # 0 => tick[w] = Len(ticks)

BreakerAgrees ==
  job.exists /\ ~disturbed =>
    /\ \A w \in Workers : TickAlone(w)
    /\ job.failures = Cardinality(Streak)
    /\ job.active => wanted
    /\ ~job.active => ~wanted \/ job.failures >= Threshold

AutomationInv ==
  /\ AutomationTypeOK /\ Shapes /\ TicksApart /\ QueuesApart /\ ActionsKnown
  /\ OneActionAtATime /\ DueInTurn /\ OneTickPerDueTime /\ BreakerAgrees

-----------------------------------------------------------------------------
(* Ticks and executions: types, and how one of them changes. *)

Claims == [due : Times, end : Ends]

JobTypes ==
  /\ now \in 0..MaxTime /\ kind \in {"INTERVAL", "OFFSET"}
  /\ date \in Times \cup {Never, Gone}
  /\ job \in Jobs
  /\ rule \in [Rules -> {"enabled", "disabled", "deleted"}]
  /\ wanted \in BOOLEAN /\ disturbed \in BOOLEAN /\ changes \in 0..MaxChanges

BookTypes ==
  /\ phase \in [Workers -> Phases]
  /\ copy \in [Workers -> Copies]
  /\ tick \in [Workers -> 0..Len(ticks)]
  /\ ticks \in Seq(Claims)

WorkTypes ==
  /\ runs \in Seq(Executions)
  /\ acting \subseteq (DOMAIN runs) \X (1..Actions)
  /\ todo \in [Workers -> SUBSET (Rules \X {"PENDING", "SKIPPED"})]
  /\ queue \in [Workers -> Seq(DOMAIN runs)]
  /\ plan \in [Workers -> Plans] /\ step \in [Workers -> 0..Actions]

LEMMA AutomationTypes == AutomationTypeOK <=> JobTypes /\ BookTypes /\ WorkTypes
BY DEF AutomationTypeOK, JobTypes, BookTypes, WorkTypes, Claims

LEMMA TypesNext ==
  ASSUME JobTypes', BookTypes', WorkTypes'
  PROVE  AutomationTypeOK'
BY DEF AutomationTypeOK, JobTypes, BookTypes, WorkTypes, Claims

LEMMA SequenceDomain ==
  ASSUME NEW S, NEW s \in Seq(S)
  PROVE  /\ Len(s) \in Nat /\ DOMAIN s = 1..Len(s)
         /\ \A i \in DOMAIN s : s[i] \in S
BY LenProperties, ElementOfSeq

\* One claim ends: its due time stays, and so do the others.
LEMMA ClaimEnds ==
  ASSUME NEW cs \in Seq(Claims), NEW t \in DOMAIN cs, NEW e \in Ends
  PROVE  /\ [cs EXCEPT ![t].end = e] \in Seq(Claims)
         /\ Len([cs EXCEPT ![t].end = e]) = Len(cs)
         /\ DOMAIN [cs EXCEPT ![t].end = e] = DOMAIN cs
         /\ \A u \in DOMAIN cs : [cs EXCEPT ![t].end = e][u].due = cs[u].due
         /\ \A u \in DOMAIN cs : [cs EXCEPT ![t].end = e][u].end = IF u = t THEN e ELSE cs[u].end
<1> DEFINE c == [cs[t] EXCEPT !.end = e]
<1>1. DOMAIN cs = 1..Len(cs) /\ cs[t] \in Claims
  BY SequenceDomain
<1>2. c \in Claims /\ c.due = cs[t].due /\ c.end = e
  BY <1>1 DEF Claims
<1>3. [cs EXCEPT ![t].end = e] = [cs EXCEPT ![t] = c]
  OBVIOUS
<1> HIDE DEF c
<1>4. /\ [cs EXCEPT ![t] = c] \in Seq(Claims)
      /\ Len([cs EXCEPT ![t] = c]) = Len(cs)
      /\ \A u \in 1..Len(cs) : [cs EXCEPT ![t] = c][u] = IF u = t THEN c ELSE cs[u]
  BY <1>1, <1>2, ExceptSeq
<1> QED
  BY <1>1, <1>2, <1>3, <1>4

\* One more claim.
LEMMA ClaimAdded ==
  ASSUME NEW cs \in Seq(Claims), NEW c \in Claims
  PROVE  /\ Append(cs, c) \in Seq(Claims)
         /\ Len(Append(cs, c)) = Len(cs) + 1
         /\ DOMAIN Append(cs, c) = DOMAIN cs \cup {Len(cs) + 1}
         /\ \A u \in DOMAIN cs : Append(cs, c)[u] = cs[u]
         /\ Append(cs, c)[Len(cs) + 1] = c
<1>1. DOMAIN cs = 1..Len(cs) /\ Len(cs) \in Nat
  BY SequenceDomain
<1>2. /\ Append(cs, c) \in Seq(Claims) /\ Len(Append(cs, c)) = Len(cs) + 1
      /\ \A u \in 1..Len(cs) : Append(cs, c)[u] = cs[u]
      /\ Append(cs, c)[Len(cs) + 1] = c
  BY AppendProperties
<1>3. DOMAIN Append(cs, c) = 1..(Len(cs) + 1)
  BY <1>2, SequenceDomain
<1> QED
  BY <1>1, <1>2, <1>3

\* One more execution.
LEMMA RunAdded ==
  ASSUME NEW rs \in Seq(Executions), NEW r \in Executions
  PROVE  /\ Append(rs, r) \in Seq(Executions)
         /\ DOMAIN Append(rs, r) = DOMAIN rs \cup {Len(rs) + 1}
         /\ Len(rs) + 1 \notin DOMAIN rs
         /\ \A x \in DOMAIN rs : Append(rs, r)[x] = rs[x]
         /\ Append(rs, r)[Len(rs) + 1] = r
<1>1. DOMAIN rs = 1..Len(rs) /\ Len(rs) \in Nat
  BY SequenceDomain
<1>2. /\ Append(rs, r) \in Seq(Executions) /\ Len(Append(rs, r)) = Len(rs) + 1
      /\ \A u \in 1..Len(rs) : Append(rs, r)[u] = rs[u]
      /\ Append(rs, r)[Len(rs) + 1] = r
  BY AppendProperties
<1>3. DOMAIN Append(rs, r) = 1..(Len(rs) + 1)
  BY <1>2, SequenceDomain
<1> QED
  BY <1>1, <1>2, <1>3

\* The time a job waits for next.
LEMMA NextRunTyped ==
  ASSUME JobTypes, NEW at \in 0..MaxTime
  PROVE  /\ NextRun(at) # Gone => NextRun(at) \in Times \cup {Never}
         /\ kind = "INTERVAL" => NextRun(at) = at + 1 /\ NextRun(at) # Gone
<1>1. MaxTime \in Nat
  BY AutomationAssumption DEF AutomationAssumption
<1> QED
  BY <1>1 DEF NextRun, JobTypes, Times, Never, Gone

-----------------------------------------------------------------------------
(* The job and its ticks. *)

\* The others are where they were.
OthersStay(w) ==
  \A v \in Workers \ {w} : phase'[v] = phase[v] /\ tick'[v] = tick[v] /\ copy'[v] = copy[v]

LEMMA BookedTyped ==
  ASSUME BookTypes, NEW w \in Workers, NEW s \in Phases, NEW t \in 0..Len(ticks'), NEW c \in Copies,
         phase' = [phase EXCEPT ![w] = s], tick' = [tick EXCEPT ![w] = t],
         copy' = [copy EXCEPT ![w] = c], ticks' \in Seq(Claims), Len(ticks) <= Len(ticks')
  PROVE  /\ BookTypes' /\ OthersStay(w)
         /\ phase'[w] = s /\ tick'[w] = t /\ copy'[w] = c
<1>1. Len(ticks) \in Nat /\ Len(ticks') \in Nat
  BY SequenceDomain DEF BookTypes
<1> QED
  BY <1>1 DEF BookTypes, OthersStay

LEMMA Leaves ==
  ASSUME BookTypes, NEW w \in Workers, Leave(w), ticks' \in Seq(Claims), Len(ticks) <= Len(ticks')
  PROVE  BookTypes' /\ OthersStay(w) /\ phase'[w] = "idle" /\ tick'[w] = 0
<1>1. "idle" \in Phases /\ NoCopy \in Copies /\ 0 \in 0..Len(ticks')
  BY SequenceDomain, AutomationAssumption DEF Phases, NoCopy, Copies, Times, AutomationAssumption
<1> QED
  BY <1>1, BookedTyped DEF Leave, Goto

\* A failure is counted on the copy, where the job is still there.
Counted(w, end) ==
  \/ ~job.exists /\ UNCHANGED <<job, ticks>>
  \/ /\ job.exists /\ ticks' = end
     /\ job'.exists /\ job'.next = job.next
     /\ job'.failures = copy[w].failures + 1
     /\ job'.active = (copy[w].failures + 1 < Threshold)

LEMMA Counts ==
  ASSUME JobTypes, BookTypes, NEW w \in Workers, NEW end \in Seq(Claims), Len(ticks) <= Len(end),
         Count(w, end)
  PROVE  /\ Counted(w, end) /\ JobTypes' /\ BookTypes' /\ OthersStay(w)
         /\ phase'[w] = "idle" /\ tick'[w] = 0
         /\ UNCHANGED <<kind, outside, runs, acting, todo, queue, plan, step, wanted, disturbed>>
<1>1. /\ Leave(w)
      /\ UNCHANGED <<kind, outside, runs, acting, todo, queue, plan, step, wanted, disturbed>>
  BY DEF Count
<1>2. copy[w].failures \in Nat /\ Threshold \in Nat
  BY AutomationAssumption DEF BookTypes, Copies, AutomationAssumption
<1>3. CASE ~job.exists
  <2>1. UNCHANGED <<job, ticks>>
    BY <1>3 DEF Count
  <2>2. ticks' \in Seq(Claims) /\ Len(ticks) <= Len(ticks')
    BY <2>1, SequenceDomain DEF BookTypes
  <2> QED
    BY <1>1, <1>3, <2>1, <2>2, Leaves DEF Counted, JobTypes, outside
<1>4. CASE job.exists
  <2>1. /\ job' = [job EXCEPT !.failures = copy[w].failures + 1,
                              !.active = (copy[w].failures + 1 < Threshold)]
        /\ ticks' = end
    BY <1>4 DEF Count
  <2> DEFINE n == copy[w].failures + 1
             off == n < Threshold
  <2>2. /\ job' \in Jobs /\ job'.exists /\ job'.next = job.next
        /\ job'.failures = n /\ job'.active = off
    <3>1. n \in Nat /\ off \in BOOLEAN /\ job \in Jobs
      BY <1>2 DEF JobTypes
    <3>2. job' = [job EXCEPT !.failures = n, !.active = off]
      BY <2>1
    <3> HIDE DEF n, off
    <3>3. job' \in Jobs
      BY <3>1, <3>2 DEF Jobs
    <3>4. job'.exists = job.exists /\ job'.next = job.next
      BY <3>1, <3>2 DEF Jobs
    <3>5. job'.failures = n /\ job'.active = off
      BY <3>1, <3>2 DEF Jobs
    <3> QED
      BY <1>4, <3>3, <3>4, <3>5
  <2>3. BookTypes' /\ OthersStay(w) /\ phase'[w] = "idle" /\ tick'[w] = 0
    BY <1>1, <2>1, Leaves
  <2>4. JobTypes'
    BY <1>1, <2>2 DEF JobTypes, outside
  <2> QED
    BY <1>1, <1>4, <2>1, <2>2, <2>3, <2>4 DEF Counted
<1> QED
  BY <1>3, <1>4

\* What becomes of the job and the ticks, action by action.
LEMMA Polls ==
  ASSUME JobTypes, BookTypes, NEW w \in Workers, Poll(w)
  PROVE  /\ JobTypes' /\ BookTypes' /\ OthersStay(w)
         /\ phase'[w] = "polled" /\ tick'[w] = tick[w]
         /\ copy'[w] = [next |-> job.next, failures |-> job.failures, at |-> now]
         /\ job.exists /\ job.active /\ job.next <= now
         /\ UNCHANGED <<kind, job, ticks, outside, runs, acting, todo, queue, plan, step, wanted>>
<1> DEFINE c == [next |-> job.next, failures |-> job.failures, at |-> now]
<1>1. /\ copy' = [copy EXCEPT ![w] = c] /\ phase' = [phase EXCEPT ![w] = "polled"]
      /\ tick' = tick /\ disturbed' \in BOOLEAN
      /\ job.exists /\ job.active /\ job.next <= now
      /\ UNCHANGED <<kind, job, ticks, outside, runs, acting, todo, queue, plan, step, wanted>>
  BY DEF Poll, Goto, jobVars, JobTypes
<1>2. c \in Copies
  BY <1>1, AutomationAssumption DEF JobTypes, Jobs, Copies, Times, Never, AutomationAssumption
<1>3. "polled" \in Phases /\ tick[w] \in 0..Len(ticks) /\ tick' = [tick EXCEPT ![w] = tick[w]]
  BY <1>1 DEF Phases, BookTypes
<1>4. ticks' \in Seq(Claims) /\ Len(ticks) <= Len(ticks') /\ tick[w] \in 0..Len(ticks')
  BY <1>1, <1>3, SequenceDomain DEF BookTypes
<1> HIDE DEF c
<1>5. BookTypes' /\ OthersStay(w) /\ phase'[w] = "polled" /\ tick'[w] = tick[w] /\ copy'[w] = c
  BY <1>1, <1>2, <1>3, <1>4, BookedTyped
<1>6. JobTypes'
  BY <1>1 DEF JobTypes, outside
<1> QED
  BY <1>1, <1>5, <1>6 DEF c

LEMMA ClaimsDue ==
  ASSUME JobTypes, BookTypes, NEW w \in Workers, Claim(w)
  PROVE  /\ JobTypes' /\ BookTypes' /\ OthersStay(w)
         /\ phase[w] = "polled" /\ phase'[w] = "claimed" /\ tick'[w] = Len(ticks) + 1
         /\ copy'[w] = copy[w]
         /\ job.exists /\ job.active /\ job.next = copy[w].next
         /\ NextRun(copy[w].at) # Gone
         /\ job'.exists = job.exists /\ job'.active = job.active /\ job'.failures = job.failures
         /\ job'.next = NextRun(copy[w].at)
         /\ [due |-> copy[w].next, end |-> "open"] \in Claims
         /\ ticks' = Append(ticks, [due |-> copy[w].next, end |-> "open"])
         /\ UNCHANGED <<kind, outside, runs, acting, todo, queue, plan, step, wanted, disturbed>>
<1>1. /\ phase[w] = "polled" /\ phase' = [phase EXCEPT ![w] = "claimed"]
      /\ tick' = [tick EXCEPT ![w] = Len(ticks) + 1]
      /\ copy' = copy /\ NextRun(copy[w].at) # Gone
      /\ job.exists /\ job.active /\ job.next = copy[w].next
      /\ job' = [job EXCEPT !.next = NextRun(copy[w].at)]
      /\ ticks' = Append(ticks, [due |-> copy[w].next, end |-> "open"])
      /\ UNCHANGED <<kind, outside, runs, acting, todo, queue, plan, step, wanted, disturbed>>
  BY DEF Claim, Goto
<1>2. copy[w] \in Copies /\ copy[w].next \in Times /\ copy[w].at \in 0..MaxTime
  BY DEF BookTypes, Copies
<1>3. NextRun(copy[w].at) \in Times \cup {Never}
  BY <1>1, <1>2, NextRunTyped
<1>4. /\ job' \in Jobs
      /\ job'.exists = job.exists /\ job'.active = job.active /\ job'.failures = job.failures
      /\ job'.next = NextRun(copy[w].at)
  BY <1>1, <1>3 DEF JobTypes, Jobs
<1>5. [due |-> copy[w].next, end |-> "open"] \in Claims
  BY <1>2 DEF Claims, Ends
<1>6. ticks' \in Seq(Claims) /\ Len(ticks') = Len(ticks) + 1 /\ Len(ticks) \in Nat
  BY <1>1, <1>5, ClaimAdded, SequenceDomain DEF BookTypes
<1>7. "claimed" \in Phases /\ Len(ticks) + 1 \in 0..Len(ticks') /\ copy' = [copy EXCEPT ![w] = copy[w]]
  BY <1>1, <1>6 DEF Phases, Dispatching, BookTypes
<1>8. BookTypes' /\ OthersStay(w) /\ phase'[w] = "claimed" /\ tick'[w] = Len(ticks) + 1 /\ copy'[w] = copy[w]
  <2>1. PICK t : t = Len(ticks) + 1
    OBVIOUS
  <2>2. t \in 0..Len(ticks') /\ Len(ticks) <= Len(ticks') /\ ticks' \in Seq(Claims)
    BY <1>6, <2>1
  <2>3. phase' \in [Workers -> Phases] /\ phase'[w] = "claimed"
    BY <1>1, <1>7 DEF BookTypes
  <2>4. tick' = [tick EXCEPT ![w] = t]
    BY <1>1, <2>1
  <2>5. tick \in [Workers -> 0..Len(ticks)] /\ Len(ticks) \in Nat /\ Len(ticks') \in Nat
    BY <1>6 DEF BookTypes
  <2>6. tick' \in [Workers -> 0..Len(ticks')] /\ tick'[w] = t
    BY <2>2, <2>4, <2>5
  <2>7. BookTypes'
    BY <1>1, <2>2, <2>3, <2>6 DEF BookTypes
  <2>8. OthersStay(w)
    BY <1>1, <2>4, <2>5 DEF BookTypes, OthersStay
  <2> QED
    BY <1>1, <2>1, <2>3, <2>6, <2>7, <2>8
<1>9. JobTypes'
  BY <1>1, <1>4 DEF JobTypes, outside
<1> QED
  BY <1>1, <1>4, <1>5, <1>8, <1>9

\* The end that a failing tick gets.
LEMMA FailingEnds ==
  ASSUME BookTypes, Shapes, NEW w \in Workers, TickFails(w)
  PROVE  \E e \in {"ended", "thrown"} :
           /\ e = "ended" => HasFailure(tick[w])
           /\ tick[w] \in DOMAIN ticks /\ queue[w] = <<>> /\ phase[w] # "acting"
           /\ [ticks EXCEPT ![tick[w]].end = e] \in Seq(Claims)
           /\ Len(ticks) <= Len([ticks EXCEPT ![tick[w]].end = e])
           /\ Count(w, [ticks EXCEPT ![tick[w]].end = e])
<1>1. PICK e \in {"ended", "thrown"} :
        /\ e = "ended" => HasFailure(tick[w])
        /\ Count(w, [ticks EXCEPT ![tick[w]].end = e])
        /\ Dispatched(w) \/ phase[w] = "ended"
  BY DEF TickFails
<1>2. tick[w] # 0 /\ queue[w] = <<>> /\ phase[w] # "acting"
  BY <1>1 DEF Dispatched, Shapes, Shape
<1>3. tick[w] \in DOMAIN ticks /\ Len(ticks) \in Nat /\ e \in Ends
  BY <1>1, <1>2, SequenceDomain DEF BookTypes, Ends
<1>4. /\ [ticks EXCEPT ![tick[w]].end = e] \in Seq(Claims)
      /\ Len([ticks EXCEPT ![tick[w]].end = e]) = Len(ticks)
  BY <1>3, ClaimEnds DEF BookTypes
<1>5. Len(ticks) <= Len([ticks EXCEPT ![tick[w]].end = e])
  BY <1>3, <1>4
<1> QED
  BY <1>1, <1>2, <1>3, <1>4, <1>5, Zenon

LEMMA Succeeds ==
  ASSUME JobTypes, BookTypes, NEW w \in Workers, TickSucceeds(w)
  PROVE  /\ JobTypes' /\ BookTypes' /\ OthersStay(w)
         /\ phase'[w] = "idle" /\ tick'[w] = 0
         /\ tick[w] \in DOMAIN ticks /\ queue[w] = <<>> /\ phase[w] = "running"
         /\ ~HasFailure(tick[w])
         /\ ticks' = [ticks EXCEPT ![tick[w]].end = "ended"]
         /\ job'.exists = job.exists /\ job'.active = job.active /\ job'.next = job.next
         /\ job'.failures = IF copy[w].failures > 0 /\ job.exists THEN 0 ELSE job.failures
         /\ UNCHANGED <<kind, outside, runs, acting, todo, queue, plan, step, wanted, disturbed>>
<1>1. /\ phase[w] = "running" /\ queue[w] = <<>> /\ tick[w] # 0 /\ ~HasFailure(tick[w]) /\ Leave(w)
      /\ ticks' = [ticks EXCEPT ![tick[w]].end = "ended"]
      /\ job' = IF copy[w].failures > 0 /\ job.exists THEN [job EXCEPT !.failures = 0] ELSE job
      /\ UNCHANGED <<kind, outside, runs, acting, todo, queue, plan, step, wanted, disturbed>>
  BY DEF TickSucceeds, Dispatched
<1>2. tick[w] \in DOMAIN ticks /\ Len(ticks) \in Nat /\ "ended" \in Ends
  BY <1>1, SequenceDomain DEF BookTypes, Ends
<1>3. ticks' \in Seq(Claims) /\ Len(ticks') = Len(ticks)
  BY <1>1, <1>2, ClaimEnds DEF BookTypes
<1>4. BookTypes' /\ OthersStay(w) /\ phase'[w] = "idle" /\ tick'[w] = 0
  BY <1>1, <1>2, <1>3, Leaves
<1>5. /\ job' \in Jobs
      /\ job'.exists = job.exists /\ job'.active = job.active /\ job'.next = job.next
      /\ job'.failures = IF copy[w].failures > 0 /\ job.exists THEN 0 ELSE job.failures
  BY <1>1 DEF JobTypes, Jobs
<1>6. JobTypes'
  BY <1>1, <1>5 DEF JobTypes, outside
<1> QED
  BY <1>1, <1>2, <1>4, <1>5, <1>6

LEMMA Unplanned ==
  ASSUME JobTypes, BookTypes, NEW w \in Workers, NextRunFails(w)
  PROVE  /\ phase[w] = "polled" /\ NextRun(copy[w].at) = Gone
         /\ [due |-> copy[w].next, end |-> "unplanned"] \in Claims
         /\ Append(ticks, [due |-> copy[w].next, end |-> "unplanned"]) \in Seq(Claims)
         /\ Len(ticks) <= Len(Append(ticks, [due |-> copy[w].next, end |-> "unplanned"]))
         /\ Count(w, Append(ticks, [due |-> copy[w].next, end |-> "unplanned"]))
<1>1. /\ phase[w] = "polled" /\ NextRun(copy[w].at) = Gone
      /\ Count(w, Append(ticks, [due |-> copy[w].next, end |-> "unplanned"]))
  BY DEF NextRunFails
<1>2. [due |-> copy[w].next, end |-> "unplanned"] \in Claims
  BY DEF Claims, Ends, BookTypes, Copies
<1>3. /\ Append(ticks, [due |-> copy[w].next, end |-> "unplanned"]) \in Seq(Claims)
      /\ Len(Append(ticks, [due |-> copy[w].next, end |-> "unplanned"])) = Len(ticks) + 1
      /\ Len(ticks) \in Nat
  BY <1>2, ClaimAdded, SequenceDomain DEF BookTypes
<1> QED
  BY <1>1, <1>2, <1>3

-----------------------------------------------------------------------------
(* What the schedule keeps. *)

LEMMA ScheduleMoves ==
  ASSUME JobTypes, BookTypes, Shapes, NEW w \in Workers, Schedule(w)
  PROVE  /\ JobTypes' /\ BookTypes' /\ OthersStay(w)
         /\ queue[w] = <<>> /\ phase[w] # "acting" /\ phase'[w] \in {"idle", "polled", "claimed"}
         /\ phase'[w] \in {"idle", "polled"} <=> tick'[w] = 0
         /\ UNCHANGED <<kind, outside, runs, acting, todo, queue, plan, step, wanted>>
<1>1. Shape(w)
  BY DEF Shapes
<1>2. CASE Poll(w)
  <2>1. phase[w] = "idle"
    BY <1>2 DEF Poll
  <2> QED
    BY <1>1, <1>2, <2>1, Polls DEF Shape
<1>3. CASE NextRunFails(w)
  BY <1>1, <1>3, Unplanned, Counts DEF Shape
<1>4. CASE Claim(w)
  <2>1. Len(ticks) + 1 # 0
    BY SequenceDomain DEF BookTypes
  <2> QED
    BY <1>1, <1>4, <2>1, ClaimsDue DEF Shape
<1>5. CASE SkipClaimed(w)
  <2>1. /\ phase[w] = "polled" /\ Leave(w)
        /\ UNCHANGED <<kind, job, outside, ticks, wanted, disturbed>>
        /\ UNCHANGED <<runs, acting, todo, queue, plan, step>>
    BY <1>5 DEF SkipClaimed, jobVars, history
  <2>2. ticks' \in Seq(Claims) /\ Len(ticks) <= Len(ticks')
    BY <2>1, SequenceDomain DEF BookTypes
  <2>3. BookTypes' /\ OthersStay(w) /\ phase'[w] = "idle" /\ tick'[w] = 0
    BY <2>1, <2>2, Leaves
  <2> QED
    BY <1>1, <2>1, <2>3 DEF Shape, JobTypes, outside
<1>6. CASE TickFails(w)
  <2>1. PICK e \in {"ended", "thrown"} :
          /\ queue[w] = <<>> /\ phase[w] # "acting"
          /\ [ticks EXCEPT ![tick[w]].end = e] \in Seq(Claims)
          /\ Len(ticks) <= Len([ticks EXCEPT ![tick[w]].end = e])
          /\ Count(w, [ticks EXCEPT ![tick[w]].end = e])
    BY <1>6, FailingEnds, Zenon
  <2>2. /\ JobTypes' /\ BookTypes' /\ OthersStay(w)
        /\ phase'[w] = "idle" /\ tick'[w] = 0
        /\ UNCHANGED <<kind, outside, runs, acting, todo, queue, plan, step, wanted, disturbed>>
    BY <2>1, Counts
  <2> QED
    BY <2>1, <2>2
<1>7. CASE TickSucceeds(w)
  BY <1>7, Succeeds
<1> QED
  BY <1>2, <1>3, <1>4, <1>5, <1>6, <1>7 DEF Schedule

\* A worker without executions leaves those of the others alone.
LEMMA WorkRests ==
  ASSUME Shapes, QueuesApart, ActionsKnown, OneActionAtATime, NEW w \in Workers,
         UNCHANGED <<runs, acting, queue, step>>, queue[w] = <<>>, phase[w] # "acting",
         phase'[w] \notin {"stepping", "acting"}, phase'[w] \in {"idle", "polled"} <=> tick'[w] = 0,
         OthersStay(w)
  PROVE  Shapes' /\ QueuesApart' /\ ActionsKnown' /\ OneActionAtATime'
<1>1. \A v \in Workers \ {w} : phase'[v] = phase[v] /\ tick'[v] = tick[v]
  BY DEF OthersStay
<1>2. Shapes'
  <2>1. \A v \in Workers \ {w} : Shape(v)'
    BY <1>1 DEF Shapes, Shape, Stepping
  <2>2. Shape(w)'
    BY DEF Shape, Stepping
  <2> QED
    BY <2>1, <2>2 DEF Shapes
<1>3. QueuesApart'
  <2>1. Queued(w)'
    BY EmptySeq DEF Queued
  <2>2. \A v \in Workers \ {w} : Queued(v)'
    BY <1>1 DEF QueuesApart, Queued
  <2> QED
    BY <2>1, <2>2 DEF QueuesApart
<1>4. ActionsKnown'
  BY <1>1 DEF ActionsKnown, Action, Current
<1> QED
  BY <1>2, <1>3, <1>4 DEF OneActionAtATime

\* The other ticks stay open, and w's own is another one.
LEMMA TicksStayApart ==
  ASSUME TicksApart, NEW w \in Workers, OthersStay(w),
         \A v \in Workers \ {w} : tick[v] # 0 => ticks'[tick[v]].end = "open",
         tick'[w] # 0 => ticks'[tick'[w]].end = "open" /\ \A v \in Workers \ {w} : tick[v] # tick'[w]
  PROVE  TicksApart'
BY DEF TicksApart, OthersStay

LEMMA ScheduleKeepsApart ==
  ASSUME JobTypes, BookTypes, Shapes, TicksApart, NEW w \in Workers, Schedule(w)
  PROVE  TicksApart'
<1>1. /\ OthersStay(w) /\ phase'[w] \in {"idle", "polled", "claimed"}
      /\ phase'[w] \in {"idle", "polled"} <=> tick'[w] = 0
  BY ScheduleMoves
<1>2. \A v \in Workers : tick[v] # 0 => tick[v] \in DOMAIN ticks /\ tick[v] # Len(ticks) + 1
                                        /\ ticks[tick[v]].end = "open"
  BY SequenceDomain DEF BookTypes, TicksApart
<1>3. ASSUME ticks' = ticks, tick'[w] = 0
      PROVE  TicksApart'
  BY <1>1, <1>2, <1>3, TicksStayApart
<1>4. ASSUME NEW c \in Claims, ticks' = Append(ticks, c),
             tick'[w] # 0 => tick'[w] = Len(ticks) + 1 /\ c.end = "open"
      PROVE  TicksApart'
  <2>1. /\ \A u \in DOMAIN ticks : ticks'[u] = ticks[u]
        /\ ticks'[Len(ticks) + 1] = c
    BY <1>4, ClaimAdded DEF BookTypes
  <2>2. \A v \in Workers \ {w} : tick[v] # 0 => ticks'[tick[v]].end = "open"
    BY <1>2, <2>1
  <2>3. tick'[w] # 0 => ticks'[tick'[w]].end = "open" /\ \A v \in Workers \ {w} : tick[v] # tick'[w]
    BY <1>2, <1>4, <2>1 DEF BookTypes
  <2> QED
    BY <1>1, <2>2, <2>3, TicksStayApart
<1>5. ASSUME NEW e \in Ends, tick[w] \in DOMAIN ticks, tick[w] # 0,
             ticks' = [ticks EXCEPT ![tick[w]].end = e], tick'[w] = 0
      PROVE  TicksApart'
  <2>1. \A u \in DOMAIN ticks : ticks'[u].end = IF u = tick[w] THEN e ELSE ticks[u].end
    BY <1>5, ClaimEnds DEF BookTypes
  <2>2. \A v \in Workers \ {w} : tick[v] # 0 => ticks'[tick[v]].end = "open"
    BY <1>2, <1>5, <2>1 DEF TicksApart
  <2> QED
    BY <1>1, <1>5, <2>2, TicksStayApart
<1>6. tick[w] \in DOMAIN ticks => tick[w] # 0
  BY SequenceDomain DEF BookTypes
<1>7. CASE Poll(w)
  BY <1>1, <1>3, <1>7, Polls
<1>8. CASE NextRunFails(w)
  BY <1>3, <1>4, <1>8, Unplanned, Counts DEF Counted
<1>9. CASE Claim(w)
  BY <1>4, <1>9, ClaimsDue
<1>10. CASE SkipClaimed(w)
  <2>1. tick'[w] = 0 /\ ticks' = ticks
    BY <1>10 DEF SkipClaimed, Leave, history, BookTypes
  <2> QED
    BY <1>3, <2>1
<1>11. CASE TickFails(w)
  <2>1. PICK e \in {"ended", "thrown"} :
          /\ tick[w] \in DOMAIN ticks
          /\ [ticks EXCEPT ![tick[w]].end = e] \in Seq(Claims)
          /\ Len(ticks) <= Len([ticks EXCEPT ![tick[w]].end = e])
          /\ Count(w, [ticks EXCEPT ![tick[w]].end = e])
    BY <1>11, FailingEnds, Zenon
  <2>2. Counted(w, [ticks EXCEPT ![tick[w]].end = e]) /\ tick'[w] = 0 /\ e \in Ends
    BY <2>1, Counts DEF Ends
  <2> QED
    BY <1>3, <1>5, <1>6, <2>1, <2>2 DEF Counted
<1>12. CASE TickSucceeds(w)
  BY <1>5, <1>6, <1>12, Succeeds DEF Ends
<1> QED
  BY <1>7, <1>8, <1>9, <1>10, <1>11, <1>12 DEF Schedule

\* No due time is added, and none comes to be claimed.
LEMMA DueStays ==
  ASSUME DueInTurn, OneTickPerDueTime, kind' = kind, job'.next = job.next,
         DOMAIN ticks' = DOMAIN ticks,
         \A t \in DOMAIN ticks : /\ ticks'[t].due = ticks[t].due
                                 /\ ticks'[t].end # "unplanned" => ticks[t].end # "unplanned",
         \A v \in Workers : phase'[v] = "polled" =>
           (phase[v] = "polled" /\ copy'[v] = copy[v]) \/ copy'[v].next <= copy'[v].at
  PROVE  DueInTurn' /\ OneTickPerDueTime'
<1>1. DueInTurn'
  BY DEF DueInTurn
<1>2. OneTickPerDueTime'
  BY DEF OneTickPerDueTime
<1> QED
  BY <1>1, <1>2

LEMMA ScheduleInTurn ==
  ASSUME JobTypes, BookTypes, Shapes, TicksApart, DueInTurn, OneTickPerDueTime,
         NEW w \in Workers, Schedule(w)
  PROVE  DueInTurn' /\ OneTickPerDueTime'
<1>1. OthersStay(w) /\ kind' = kind
  BY ScheduleMoves
<1>2. ASSUME ticks' = ticks, job'.next = job.next, phase'[w] # "polled" \/ copy'[w].next <= copy'[w].at
      PROVE  DueInTurn' /\ OneTickPerDueTime'
  BY <1>1, <1>2, DueStays DEF OthersStay
<1>3. ASSUME NEW e \in {"ended", "thrown"}, tick[w] \in DOMAIN ticks, tick[w] # 0,
             ticks' = [ticks EXCEPT ![tick[w]].end = e], job'.next = job.next, phase'[w] = "idle"
      PROVE  DueInTurn' /\ OneTickPerDueTime'
  <2>1. e \in Ends
    BY DEF Ends
  <2>2. /\ DOMAIN ticks' = DOMAIN ticks
        /\ \A u \in DOMAIN ticks : ticks'[u].due = ticks[u].due
        /\ \A u \in DOMAIN ticks : ticks'[u].end = IF u = tick[w] THEN e ELSE ticks[u].end
    BY <1>3, <2>1, ClaimEnds DEF BookTypes
  <2>3. ticks[tick[w]].end = "open"
    BY <1>3 DEF TicksApart
  <2>4. \A t \in DOMAIN ticks : /\ ticks'[t].due = ticks[t].due
                                /\ ticks'[t].end # "unplanned" => ticks[t].end # "unplanned"
    BY <2>2, <2>3
  <2>5. \A v \in Workers : phase'[v] = "polled" => phase[v] = "polled" /\ copy'[v] = copy[v]
    BY <1>1, <1>3 DEF OthersStay
  <2> QED
    BY <1>1, <1>3, <2>2, <2>4, <2>5, DueStays
<1>4. tick[w] \in DOMAIN ticks => tick[w] # 0
  BY SequenceDomain DEF BookTypes
<1>5. CASE Poll(w)
  <2>1. copy'[w] = [next |-> job.next, failures |-> job.failures, at |-> now] /\ job.next <= now
        /\ ticks' = ticks /\ job' = job
    BY <1>5, Polls
  <2> QED
    BY <1>2, <2>1
<1>6. CASE NextRunFails(w)
  <2> DEFINE c == [due |-> copy[w].next, end |-> "unplanned"]
  <2>1. /\ phase[w] = "polled" /\ NextRun(copy[w].at) = Gone /\ c \in Claims
        /\ Counted(w, Append(ticks, c)) /\ phase'[w] = "idle" /\ tick'[w] = 0
    BY <1>6, Unplanned, Counts
  <2>2. kind # "INTERVAL"
    <3>1. copy[w].at \in 0..MaxTime
      BY DEF BookTypes, Copies
    <3> QED
      BY <2>1, <3>1, NextRunTyped
  <2>3. \A v \in Workers : phase'[v] = "polled" => phase[v] = "polled" /\ copy'[v] = copy[v]
    BY <1>1, <2>1 DEF OthersStay
  <2>4. kind' # "INTERVAL" /\ \A v \in Workers : phase'[v] = "polled" => copy'[v].next <= copy'[v].at
    BY <1>1, <2>2, <2>3 DEF DueInTurn
  <2>5. OneTickPerDueTime'
    BY <2>4 DEF OneTickPerDueTime
  <2>6. DueInTurn'
    BY <2>4 DEF DueInTurn
  <2> QED
    BY <2>5, <2>6
<1>7. CASE Claim(w)
  <2> DEFINE c == [due |-> copy[w].next, end |-> "open"]
  <2>1. /\ phase[w] = "polled" /\ phase'[w] = "claimed" /\ c \in Claims
        /\ job.next = copy[w].next /\ job'.next = NextRun(copy[w].at) /\ ticks' = Append(ticks, c)
    BY <1>7, ClaimsDue
  <2>2. c.due = copy[w].next
    OBVIOUS
  <2> HIDE DEF c
  <2>3. /\ DOMAIN ticks' = DOMAIN ticks \cup {Len(ticks) + 1}
        /\ \A u \in DOMAIN ticks : ticks'[u] = ticks[u]
        /\ ticks'[Len(ticks) + 1] = c
    BY <2>1, ClaimAdded DEF BookTypes
  <2>4. copy[w].next \in Nat /\ copy[w].at \in 0..MaxTime /\ copy[w].next <= copy[w].at
    BY <2>1 DEF BookTypes, Copies, Times, DueInTurn
  <2>5. \A u \in DOMAIN ticks : ticks[u].due \in Nat
    <3>1. \A u \in DOMAIN ticks : ticks[u] \in Claims
      BY SequenceDomain DEF BookTypes
    <3> QED
      BY <3>1 DEF Claims, Times
  <2>6. kind = "INTERVAL" => job'.next = copy[w].at + 1
    BY <2>1, <2>4, NextRunTyped
  <2>7. kind = "INTERVAL" =>
          \A u \in DOMAIN ticks : ticks[u].end # "unplanned" => ticks[u].due < c.due
    BY <2>1, <2>2 DEF DueInTurn
  <2>8. \A v \in Workers : phase'[v] = "polled" => phase[v] = "polled" /\ copy'[v] = copy[v]
    BY <1>1, <2>1 DEF OthersStay
  <2>9. DueInTurn'
    <3>1. \A v \in Workers : phase'[v] = "polled" => copy'[v].next <= copy'[v].at
      BY <2>8 DEF DueInTurn
    <3>2. ASSUME kind = "INTERVAL", NEW t \in DOMAIN ticks', ticks'[t].end # "unplanned"
          PROVE  ticks'[t].due < job'.next
      <4>1. c.due < job'.next /\ job'.next \in Nat
        BY <2>2, <2>4, <2>6, <3>2
      <4>2. t \in DOMAIN ticks => ticks[t].due < c.due /\ ticks[t].due \in Nat
        BY <2>3, <2>5, <2>7, <3>2
      <4> QED
        BY <2>2, <2>3, <2>4, <4>1, <4>2
    <3> QED
      BY <1>1, <3>1, <3>2 DEF DueInTurn
  <2>10. OneTickPerDueTime'
    <3> SUFFICES ASSUME kind = "INTERVAL",
                        NEW s \in DOMAIN ticks', NEW t \in DOMAIN ticks',
                        ticks'[s].end # "unplanned", ticks'[t].end # "unplanned",
                        ticks'[s].due = ticks'[t].due
                 PROVE  s = t
      BY <1>1 DEF OneTickPerDueTime
    <3>1. \A u \in DOMAIN ticks : ticks'[u].end # "unplanned" => ticks'[u].due # c.due
      BY <2>2, <2>3, <2>4, <2>5, <2>7
    <3>2. CASE s \in DOMAIN ticks /\ t \in DOMAIN ticks
      BY <2>3, <3>2 DEF OneTickPerDueTime
    <3> QED
      BY <2>3, <3>1, <3>2
  <2> QED
    BY <2>9, <2>10
<1>8. CASE SkipClaimed(w)
  <2>1. phase'[w] = "idle" /\ ticks' = ticks /\ job' = job
    BY <1>8 DEF SkipClaimed, Leave, Goto, history, jobVars, BookTypes
  <2> QED
    BY <1>2, <2>1
<1>9. CASE TickFails(w)
  <2>1. PICK e \in {"ended", "thrown"} :
          /\ tick[w] \in DOMAIN ticks
          /\ [ticks EXCEPT ![tick[w]].end = e] \in Seq(Claims)
          /\ Len(ticks) <= Len([ticks EXCEPT ![tick[w]].end = e])
          /\ Count(w, [ticks EXCEPT ![tick[w]].end = e])
    BY <1>9, FailingEnds, Zenon
  <2>2. Counted(w, [ticks EXCEPT ![tick[w]].end = e]) /\ phase'[w] = "idle"
    BY <2>1, Counts
  <2>3. CASE UNCHANGED <<job, ticks>>
    BY <1>2, <2>2, <2>3
  <2>4. CASE ticks' = [ticks EXCEPT ![tick[w]].end = e] /\ job'.next = job.next
    BY <1>3, <1>4, <2>1, <2>2, <2>4
  <2> QED
    BY <2>2, <2>3, <2>4 DEF Counted
<1>10. CASE TickSucceeds(w)
  BY <1>3, <1>4, <1>10, Succeeds
<1> QED
  BY <1>5, <1>6, <1>7, <1>8, <1>9, <1>10 DEF Schedule

-----------------------------------------------------------------------------
(* The streak of failures. *)

LEMMA StreakFinite ==
  ASSUME ticks \in Seq(Claims)
  PROVE  IsFiniteSet(Streak) /\ Cardinality(Streak) \in Nat /\ Streak \subseteq 1..Len(ticks)
<1>1. Streak \subseteq 1..Len(ticks) /\ Len(ticks) \in Nat
  BY SequenceDomain DEF Streak
<1>2. IsFiniteSet(1..Len(ticks))
  BY <1>1, FS_Interval
<1>3. IsFiniteSet(Streak)
  BY <1>1, <1>2, FS_Subset
<1> QED
  BY <1>1, <1>3, FS_CardinalityType

\* What the failures of ended ticks come to, when the last tick becomes a failure or not.
LEMMA StreakStays ==
  ASSUME ticks \in Seq(Claims), DOMAIN ticks' = DOMAIN ticks, Len(ticks') = Len(ticks),
         \A u \in DOMAIN ticks : /\ ticks'[u].end = ticks[u].end
                                 /\ ticks[u].end # "open" => (HasFailure(u)' <=> HasFailure(u))
  PROVE  Streak' = Streak
<1>1. \A u \in DOMAIN ticks : ticks[u].end # "open" => (TickFailed(u)' <=> TickFailed(u))
  BY DEF TickFailed
<1>2. DOMAIN ticks = 1..Len(ticks) /\ Len(ticks) \in Nat
  BY SequenceDomain
<1>3. \A t \in DOMAIN ticks :
        (\A u \in t..Len(ticks') : ticks'[u].end = "open" \/ TickFailed(u)')
          <=> (\A u \in t..Len(ticks) : ticks[u].end = "open" \/ TickFailed(u))
  BY <1>1, <1>2
<1> QED
  BY <1>3 DEF Streak

LEMMA StreakOverOpen ==
  ASSUME ticks \in Seq(Claims), NEW c \in Claims, c.end = "open",
         ticks' = Append(ticks, c), runs' = runs
  PROVE  Streak' = Streak
<1>1. /\ DOMAIN ticks' = DOMAIN ticks \cup {Len(ticks) + 1} /\ Len(ticks') = Len(ticks) + 1
      /\ \A u \in DOMAIN ticks : ticks'[u] = ticks[u]
      /\ ticks'[Len(ticks) + 1] = c
  BY ClaimAdded
<1>2. DOMAIN ticks = 1..Len(ticks) /\ Len(ticks) \in Nat
  BY SequenceDomain
<1>3. \A u \in DOMAIN ticks : TickFailed(u)' <=> TickFailed(u)
  BY <1>1 DEF TickFailed, HasFailure
<1>4. \A t \in DOMAIN ticks :
        (\A u \in t..Len(ticks') : ticks'[u].end = "open" \/ TickFailed(u)')
          <=> (\A u \in t..Len(ticks) : ticks[u].end = "open" \/ TickFailed(u))
  BY <1>1, <1>2, <1>3
<1> QED
  BY <1>1, <1>4 DEF Streak

\* Ticks that have ended, and ticks that break no streak.
Ended == {t \in DOMAIN ticks : ticks[t].end # "open"}
Neutral == {t \in DOMAIN ticks : ticks[t].end = "open" \/ TickFailed(t)}

LEMMA StreakByParts ==
  ASSUME NEW m \in Nat, m = Len(ticks), DOMAIN ticks = 1..m
  PROVE  Streak = {t \in Ended : t..m \subseteq Neutral}
<1>1. ASSUME NEW t \in DOMAIN ticks
      PROVE  (\A u \in t..m : ticks[u].end = "open" \/ TickFailed(u)) <=> t..m \subseteq Neutral
  BY DEF Neutral
<1> QED
  BY <1>1 DEF Streak, Ended

\* The last tick ends: n is its number, after the step and maybe before.
LEMMA PartsGrow ==
  ASSUME NEW E, NEW G, NEW m \in Nat, NEW n \in Nat, E \subseteq 1..m, G \subseteq 1..m,
         (m = n /\ n \in G) \/ m + 1 = n, n \notin E, n > 0
  PROVE  {t \in E \cup {n} : t..n \subseteq G \cup {n}} = {t \in E : t..m \subseteq G} \cup {n}
<1>1. n..n \subseteq G \cup {n}
  OBVIOUS
<1>2. ASSUME NEW t \in E
      PROVE  t..n \subseteq G \cup {n} <=> t..m \subseteq G
  <2>1. t \in 1..m
    BY <1>2
  <2>2. CASE m = n /\ n \in G
    BY <2>1, <2>2
  <2>3. CASE m + 1 = n
    <3>1. \A u : u \in t..n <=> u \in t..m \/ u = n
      BY <2>1, <2>3
    <3>2. n \notin t..m
      BY <2>1, <2>3
    <3> QED
      BY <3>1, <3>2
  <2> QED
    BY <2>2, <2>3
<1> QED
  BY <1>1, <1>2

LEMMA StreakGrows ==
  ASSUME NEW m \in Nat, NEW n \in Nat, m = Len(ticks), n = Len(ticks'), n > 0,
         DOMAIN ticks = 1..m, DOMAIN ticks' = 1..n,
         (m = n /\ ticks[n].end = "open") \/ m + 1 = n,
         \A u \in 1..m : u # n => ticks'[u].end = ticks[u].end,
         ticks'[n].end # "open", TickFailed(n)', runs' = runs
  PROVE  Cardinality(Streak') = Cardinality(Streak) + 1
<1>1. \A u \in DOMAIN ticks' : u # n => u \in DOMAIN ticks /\ ticks'[u].end = ticks[u].end
  OBVIOUS
<1>2. n \in DOMAIN ticks' /\ \A u \in DOMAIN ticks : u \in DOMAIN ticks'
  OBVIOUS
<1>3. \A u : HasFailure(u)' <=> HasFailure(u)
  BY DEF HasFailure
<1>4. \A u \in DOMAIN ticks' : u # n => (TickFailed(u)' <=> TickFailed(u))
  BY <1>1, <1>3 DEF TickFailed
<1>5. Ended' = Ended \cup {n}
  BY <1>1, <1>2 DEF Ended
<1>6. Neutral' = Neutral \cup {n}
  BY <1>1, <1>2, <1>4 DEF Neutral
<1>7. Ended \subseteq 1..m /\ Neutral \subseteq 1..m
  BY DEF Ended, Neutral
<1>8. (m = n /\ n \in Neutral) \/ m + 1 = n
  BY <1>2 DEF Neutral
<1>9. n \notin Ended
  <2>1. CASE m = n /\ ticks[n].end = "open"
    BY <2>1 DEF Ended
  <2>2. CASE m + 1 = n
    BY <1>7, <2>2
  <2> QED
    BY <2>1, <2>2
<1>10. Streak = {t \in Ended : t..m \subseteq Neutral}
  BY StreakByParts
<1>11. Streak' = {t \in Ended' : t..n \subseteq Neutral'}
  <2>1. ASSUME NEW t \in DOMAIN ticks'
        PROVE  (\A u \in t..n : ticks'[u].end = "open" \/ TickFailed(u)') <=> t..n \subseteq Neutral'
    BY <2>1 DEF Neutral
  <2> QED
    BY <2>1 DEF Streak, Ended
<1>12. Streak' = Streak \cup {n}
  <2>1. {t \in Ended \cup {n} : t..n \subseteq Neutral \cup {n}}
          = {t \in Ended : t..m \subseteq Neutral} \cup {n}
    BY <1>7, <1>8, <1>9, PartsGrow
  <2>2. Streak' = {t \in Ended \cup {n} : t..n \subseteq Neutral \cup {n}}
    BY <1>5, <1>6, <1>11
  <2> QED
    BY <1>10, <2>1, <2>2
<1>13. Streak \subseteq Ended
  BY <1>10
<1>14. n \notin Streak /\ Streak \subseteq 1..m
  BY <1>7, <1>9, <1>13
<1>15. IsFiniteSet(1..m)
  <2>1. 1 \in Int /\ m \in Int
    OBVIOUS
  <2> QED
    BY <2>1, FS_Interval
<1>16. IsFiniteSet(Streak)
  BY <1>14, <1>15, FS_Subset
<1> QED
  BY <1>12, <1>14, <1>16, FS_AddElement

\* A success ends it.
LEMMA StreakEnds ==
  ASSUME NEW n \in Nat, n = Len(ticks'), n > 0, DOMAIN ticks' = 1..n,
         ticks'[n].end = "ended", ~HasFailure(n)'
  PROVE  Cardinality(Streak') = 0
<1>1. ticks'[n].end # "open" /\ ~TickFailed(n)'
  BY DEF TickFailed, HasFailure
<1>2. \A t \in DOMAIN ticks' : n \in t..n
  OBVIOUS
<1>3. Streak' = {}
  BY <1>1, <1>2 DEF Streak
<1> QED
  BY <1>3, FS_EmptySet

\* The last tick in the table fails: it was open, or is new.
LEMMA FailureCounts ==
  ASSUME BookTypes, ticks' \in Seq(Claims), runs' = runs, NEW t \in Nat, t = Len(ticks'), t > 0,
         \/ /\ t = Len(ticks) /\ ticks[t].end = "open"
            /\ \A u \in DOMAIN ticks : u # t => ticks'[u].end = ticks[u].end
         \/ /\ t = Len(ticks) + 1
            /\ \A u \in DOMAIN ticks : ticks'[u].end = ticks[u].end,
         ticks'[t].end \in {"thrown", "unplanned"} \/ (ticks'[t].end = "ended" /\ HasFailure(t))
  PROVE  Cardinality(Streak') = Cardinality(Streak) + 1
<1>1. PICK m \in Nat : m = Len(ticks)
  BY SequenceDomain DEF BookTypes
<1>2. DOMAIN ticks = 1..m /\ DOMAIN ticks' = 1..t
  BY <1>1, SequenceDomain DEF BookTypes
<1>3. TickFailed(t)'
  BY DEF TickFailed, HasFailure
<1>4. ticks'[t].end # "open"
  OBVIOUS
<1>5. CASE t = Len(ticks) /\ ticks[t].end = "open"
             /\ \A u \in DOMAIN ticks : u # t => ticks'[u].end = ticks[u].end
  BY <1>1, <1>2, <1>3, <1>4, <1>5, StreakGrows
<1>6. CASE t = Len(ticks) + 1 /\ \A u \in DOMAIN ticks : ticks'[u].end = ticks[u].end
  BY <1>1, <1>2, <1>3, <1>4, <1>6, StreakGrows
<1> QED
  BY <1>5, <1>6

\* Nobody is in a tick any more, and the job and the count are told.
LEMMA BreakerTold ==
  ASSUME \A v \in Workers : ~InTick(v)',
         job'.failures = Cardinality(Streak'),
         job'.active => wanted',
         ~job'.active => ~wanted' \/ job'.failures >= Threshold
  PROVE  BreakerAgrees'
BY DEF BreakerAgrees, TickAlone

LEMMA ScheduleCounts ==
  ASSUME JobTypes, BookTypes, Shapes, TicksApart, BreakerAgrees, NEW w \in Workers, Schedule(w)
  PROVE  BreakerAgrees'
<1>1. /\ JobTypes' /\ BookTypes' /\ OthersStay(w)
      /\ UNCHANGED <<kind, outside, runs, acting, todo, queue, plan, step, wanted>>
  BY ScheduleMoves
<1>2. \A v \in Workers \ {w} : InTick(v)' <=> InTick(v)
  BY <1>1 DEF OthersStay, InTick
<1>3. ASSUME job.exists, ~disturbed
      PROVE  /\ \A v \in Workers : TickAlone(v)
             /\ job.failures = Cardinality(Streak)
             /\ job.active => wanted
             /\ ~job.active => ~wanted \/ job.failures >= Threshold
  BY <1>3 DEF BreakerAgrees
<1>4. ASSUME job.exists, ~disturbed, InTick(w)
      PROVE  /\ \A v \in Workers \ {w} : ~InTick(v)'
             /\ job.active /\ wanted /\ copy[w].failures = job.failures
             /\ tick[w] # 0 => tick[w] = Len(ticks)
  BY <1>2, <1>3, <1>4 DEF TickAlone
<1>5. ASSUME ticks' = ticks
      PROVE  Streak' = Streak
  BY <1>1, <1>5, StreakStays DEF BookTypes, HasFailure
<1>6. job.failures \in Nat /\ Threshold \in Nat /\ Cardinality(Streak) \in Nat
  BY StreakFinite, AutomationAssumption DEF JobTypes, Jobs, BookTypes, AutomationAssumption
<1>7. CASE Poll(w)
  <2>1. /\ phase[w] = "idle" /\ disturbed' = (disturbed \/ \E v \in Workers \ {w} : InTick(v))
        /\ ticks' = ticks /\ job' = job /\ tick'[w] = tick[w] /\ job.active
        /\ copy'[w] = [next |-> job.next, failures |-> job.failures, at |-> now]
    BY <1>7, Polls DEF Poll
  <2> SUFFICES ASSUME job'.exists, ~disturbed' PROVE BreakerAgrees'
    BY DEF BreakerAgrees
  <2>2. job.exists /\ ~disturbed /\ \A v \in Workers \ {w} : ~InTick(v)
    BY <2>1
  <2>3. tick[w] = 0
    BY <2>1 DEF Shapes, Shape
  <2>4. TickAlone(w)'
    <3>1. \A v \in Workers : InTick(v)' => v = w
      BY <1>2, <2>2
    <3>2. job'.active /\ wanted' /\ copy'[w].failures = job'.failures /\ tick'[w] = 0
      BY <1>1, <1>3, <2>1, <2>2, <2>3
    <3> QED
      BY <3>1, <3>2 DEF TickAlone
  <2>5. \A v \in Workers \ {w} : TickAlone(v)'
    BY <1>2, <2>2 DEF TickAlone
  <2>6. /\ job'.failures = Cardinality(Streak')
        /\ job'.active => wanted'
        /\ ~job'.active => ~wanted' \/ job'.failures >= Threshold
    BY <1>1, <1>3, <1>5, <2>1, <2>2
  <2>7. \A v \in Workers : TickAlone(v)'
    BY <2>4, <2>5
  <2> QED
    BY <2>6, <2>7 DEF BreakerAgrees
<1>8. CASE Claim(w)
  <2> DEFINE c == [due |-> copy[w].next, end |-> "open"]
  <2>1. /\ phase[w] = "polled" /\ copy'[w] = copy[w] /\ tick'[w] = Len(ticks) + 1
        /\ job.exists /\ job'.active = job.active /\ job'.failures = job.failures
        /\ c \in Claims /\ ticks' = Append(ticks, c) /\ disturbed' = disturbed
    BY <1>8, ClaimsDue
  <2>2. c.end = "open"
    OBVIOUS
  <2> HIDE DEF c
  <2> SUFFICES ASSUME ~disturbed PROVE BreakerAgrees'
    BY <2>1 DEF BreakerAgrees
  <2>3. Len(ticks') = Len(ticks) + 1 /\ Streak' = Streak
    BY <1>1, <2>1, <2>2, ClaimAdded, StreakOverOpen DEF BookTypes
  <2>4. InTick(w)
    BY <2>1 DEF InTick
  <2>5. TickAlone(w)'
    <3>1. \A v \in Workers : InTick(v)' => v = w
      BY <1>4, <2>1, <2>4
    <3>2. /\ job'.active /\ wanted' /\ copy'[w].failures = job'.failures
          /\ tick'[w] = Len(ticks')
      BY <1>1, <1>4, <2>1, <2>3, <2>4
    <3> QED
      BY <3>1, <3>2 DEF TickAlone
  <2>6. \A v \in Workers \ {w} : TickAlone(v)'
    BY <1>4, <2>1, <2>4 DEF TickAlone
  <2>7. /\ job'.failures = Cardinality(Streak')
        /\ job'.active => wanted'
        /\ ~job'.active => ~wanted' \/ job'.failures >= Threshold
    BY <1>1, <1>3, <2>1, <2>3
  <2>8. \A v \in Workers : TickAlone(v)'
    BY <2>5, <2>6
  <2> QED
    BY <2>7, <2>8 DEF BreakerAgrees
<1>9. ASSUME NEW end \in Seq(Claims), Counted(w, end), InTick(w), ~InTick(w)', disturbed' = disturbed,
             job.exists /\ ~disturbed /\ ticks' = end => Cardinality(Streak') = Cardinality(Streak) + 1
      PROVE  BreakerAgrees'
  <2> SUFFICES ASSUME job'.exists, ~disturbed PROVE BreakerAgrees'
    BY <1>9 DEF BreakerAgrees
  <2>1. /\ job.exists /\ ticks' = end
        /\ job'.failures = copy[w].failures + 1
        /\ job'.active = (copy[w].failures + 1 < Threshold)
    BY <1>9 DEF Counted
  <2>2. /\ \A v \in Workers : ~InTick(v)'
        /\ wanted /\ copy[w].failures = job.failures
    BY <1>4, <1>9, <2>1
  <2>3. job'.failures = Cardinality(Streak')
    BY <1>3, <1>9, <2>1, <2>2
  <2>4. ~job'.active => job'.failures >= Threshold
    <3>1. CASE copy[w].failures + 1 < Threshold
      BY <2>1, <3>1
    <3>2. CASE ~(copy[w].failures + 1 < Threshold)
      BY <1>6, <2>1, <2>2, <3>2
    <3> QED
      BY <3>1, <3>2
  <2> QED
    BY <1>1, <2>2, <2>3, <2>4, BreakerTold
<1>10. CASE NextRunFails(w)
  <2> DEFINE c == [due |-> copy[w].next, end |-> "unplanned"]
  <2>1. /\ phase[w] = "polled" /\ c \in Claims /\ Append(ticks, c) \in Seq(Claims)
        /\ Counted(w, Append(ticks, c)) /\ disturbed' = disturbed
        /\ phase'[w] = "idle" /\ tick'[w] = 0
    BY <1>10, Unplanned, Counts
  <2>2. c.end = "unplanned"
    OBVIOUS
  <2> HIDE DEF c
  <2>3. InTick(w) /\ ~InTick(w)'
    BY <2>1 DEF InTick
  <2>4. ASSUME ticks' = Append(ticks, c)
        PROVE  Cardinality(Streak') = Cardinality(Streak) + 1
    <3>1. PICK t \in Nat : t = Len(ticks) + 1
      BY SequenceDomain DEF BookTypes
    <3>2. /\ Len(ticks') = t /\ t > 0 /\ ticks'[t].end = "unplanned"
          /\ \A u \in DOMAIN ticks : ticks'[u].end = ticks[u].end
      BY <2>1, <2>2, <2>4, <3>1, ClaimAdded, SequenceDomain DEF BookTypes
    <3>3. ticks' \in Seq(Claims)
      BY <1>1 DEF BookTypes
    <3> QED
      BY <1>1, <3>1, <3>2, <3>3, FailureCounts
  <2> QED
    BY <1>9, <2>1, <2>3, <2>4
<1>11. CASE SkipClaimed(w)
  <2>1. /\ phase[w] = "polled" /\ phase'[w] = "idle" /\ tick'[w] = 0
        /\ ticks' = ticks /\ job' = job /\ disturbed' = disturbed
    BY <1>11 DEF SkipClaimed, Leave, Goto, history, jobVars, BookTypes
  <2> SUFFICES ASSUME job.exists, ~disturbed PROVE BreakerAgrees'
    BY <2>1 DEF BreakerAgrees
  <2>2. InTick(w) /\ ~InTick(w)'
    BY <2>1 DEF InTick
  <2>3. \A v \in Workers : ~InTick(v)'
    BY <1>4, <2>2
  <2> QED
    BY <1>1, <1>3, <1>5, <2>1, <2>3, BreakerTold
<1>12. CASE TickFails(w)
  <2>1. PICK e \in {"ended", "thrown"} :
          /\ e = "ended" => HasFailure(tick[w])
          /\ tick[w] \in DOMAIN ticks
          /\ [ticks EXCEPT ![tick[w]].end = e] \in Seq(Claims)
          /\ Len(ticks) <= Len([ticks EXCEPT ![tick[w]].end = e])
          /\ Count(w, [ticks EXCEPT ![tick[w]].end = e])
    BY <1>12, FailingEnds, Zenon
  <2>2. /\ Counted(w, [ticks EXCEPT ![tick[w]].end = e]) /\ disturbed' = disturbed
        /\ phase'[w] = "idle" /\ tick'[w] = 0 /\ e \in Ends
    BY <2>1, Counts DEF Ends
  <2>3. tick[w] # 0 /\ InTick(w) /\ ~InTick(w)' /\ tick[w] \in Nat
    BY <2>1, <2>2, SequenceDomain DEF InTick, BookTypes
  <2>4. ASSUME job.exists, ~disturbed, ticks' = [ticks EXCEPT ![tick[w]].end = e]
        PROVE  Cardinality(Streak') = Cardinality(Streak) + 1
    <3>1. PICK t \in Nat : t = tick[w]
      BY <2>3
    <3>2. t = Len(ticks) /\ t > 0 /\ ticks[t].end = "open"
      BY <1>4, <2>3, <2>4, <3>1 DEF TicksApart
    <3>3. /\ Len(ticks') = t /\ ticks'[t].end = e
          /\ \A u \in DOMAIN ticks : u # t => ticks'[u].end = ticks[u].end
      <4>1. ticks \in Seq(Claims) /\ t \in DOMAIN ticks /\ ticks' = [ticks EXCEPT ![t].end = e]
        BY <2>1, <2>4, <3>1 DEF BookTypes
      <4>2. /\ Len(ticks') = Len(ticks)
            /\ \A u \in DOMAIN ticks : ticks'[u].end = IF u = t THEN e ELSE ticks[u].end
        BY <2>2, <4>1, ClaimEnds
      <4> QED
        BY <3>2, <4>1, <4>2
    <3>4. ticks' \in Seq(Claims) /\ runs' = runs
      BY <1>1 DEF BookTypes
    <3>5. e = "thrown" \/ (e = "ended" /\ HasFailure(t))
      BY <2>1, <3>1
    <3> QED
      BY <3>2, <3>3, <3>4, <3>5, FailureCounts
  <2> QED
    BY <1>9, <2>1, <2>2, <2>3, <2>4
<1>13. CASE TickSucceeds(w)
  <2>1. /\ tick[w] \in DOMAIN ticks /\ ~HasFailure(tick[w]) /\ disturbed' = disturbed
        /\ ticks' = [ticks EXCEPT ![tick[w]].end = "ended"]
        /\ job'.exists = job.exists /\ job'.active = job.active
        /\ job'.failures = IF copy[w].failures > 0 /\ job.exists THEN 0 ELSE job.failures
        /\ phase'[w] = "idle" /\ tick'[w] = 0
    BY <1>13, Succeeds
  <2> SUFFICES ASSUME job.exists, ~disturbed PROVE BreakerAgrees'
    BY <2>1 DEF BreakerAgrees
  <2>2. tick[w] # 0 /\ InTick(w) /\ ~InTick(w)' /\ tick[w] \in Nat
    BY <2>1, SequenceDomain DEF InTick, BookTypes
  <2>3. Cardinality(Streak') = 0
    <3>1. PICK t \in Nat : t = tick[w]
      BY <2>2
    <3>2. t = Len(ticks) /\ t > 0
      BY <1>4, <2>2, <3>1
    <3>3. Len(ticks') = t /\ ticks'[t].end = "ended" /\ ticks' \in Seq(Claims)
      <4>1. /\ ticks \in Seq(Claims) /\ t \in DOMAIN ticks /\ "ended" \in Ends
            /\ ticks' = [ticks EXCEPT ![t].end = "ended"]
        BY <2>1, <3>1 DEF BookTypes, Ends
      <4>2. /\ Len(ticks') = Len(ticks) /\ ticks' \in Seq(Claims)
            /\ \A u \in DOMAIN ticks : ticks'[u].end = IF u = t THEN "ended" ELSE ticks[u].end
        BY <4>1, ClaimEnds
      <4> QED
        BY <3>2, <4>1, <4>2
    <3>4. ~HasFailure(t)'
      BY <1>1, <2>1, <3>1 DEF HasFailure
    <3>5. DOMAIN ticks' = 1..t
      BY <3>3, SequenceDomain
    <3> QED
      BY <3>2, <3>3, <3>4, <3>5, StreakEnds
  <2>4. \A v \in Workers : ~InTick(v)'
    BY <1>4, <2>2
  <2>5. job.active /\ wanted /\ copy[w].failures = job.failures
    BY <1>4, <2>2
  <2>6. job'.failures = 0
    BY <1>6, <2>1, <2>5
  <2> QED
    BY <1>1, <2>1, <2>3, <2>4, <2>5, <2>6, BreakerTold
<1> QED
  BY <1>7, <1>8, <1>10, <1>11, <1>12, <1>13 DEF Schedule

-----------------------------------------------------------------------------
(* Executions. *)

\* What a worker has to run first.
LEMMA Heads ==
  ASSUME WorkTypes, QueuesApart, NEW w \in Workers, queue[w] # <<>>
  PROVE  /\ Current(w) \in DOMAIN runs /\ runs[Current(w)].tick = tick[w]
         /\ 1 \in DOMAIN queue[w] /\ queue[w][1] = Current(w)
         /\ \A v \in Workers : \A j \in DOMAIN queue[v] :
              queue[v][j] = Current(w) => v = w /\ j = 1
         /\ \A v \in Workers : queue[v] # <<>> /\ Current(v) = Current(w) => v = w
<1>1. ASSUME NEW v \in Workers, queue[v] # <<>>
      PROVE  1 \in DOMAIN queue[v] /\ queue[v][1] = Current(v) /\ Current(v) \in DOMAIN runs
  <2>1. queue[v] \in Seq(DOMAIN runs)
    BY DEF WorkTypes
  <2>2. DOMAIN queue[v] = 1..Len(queue[v]) /\ Len(queue[v]) \in Nat /\ Len(queue[v]) # 0
    BY <1>1, <2>1, SequenceDomain, EmptySeq
  <2>3. Head(queue[v]) = queue[v][1] /\ Head(queue[v]) \in DOMAIN runs
    BY <1>1, <2>1, HeadTailProperties
  <2> QED
    BY <2>2, <2>3 DEF Current
<1>2. runs[Current(w)].tick = tick[w]
  BY <1>1 DEF QueuesApart, Queued
<1>3. \A v \in Workers : \A j \in DOMAIN queue[v] : queue[v][j] = Current(w) => v = w /\ j = 1
  BY <1>1 DEF QueuesApart
<1> QED
  BY <1>1, <1>2, <1>3

\* An execution that no worker waits for, and that was not given up on, does not act.
LEMMA Inactive ==
  ASSUME WorkTypes, QueuesApart, Shapes, ActionsKnown, NEW w \in Workers, queue[w] # <<>>,
         NEW x \in acting, x[1] = Current(w)
  PROVE  phase[w] = "acting" /\ x = Action(w)
<1>1. runs[Current(w)].status \in {"PENDING", "RUNNING"}
  BY Heads DEF QueuesApart, Queued
<1>2. PICK v \in Workers : phase[v] = "acting" /\ x = Action(v)
  BY <1>1 DEF ActionsKnown
<1>3. queue[v] # <<>>
  BY <1>2 DEF Shapes, Shape, Stepping
<1>4. Current(v) = Current(w)
  BY <1>2 DEF Action
<1>5. v = w
  BY <1>3, <1>4, Heads
<1> QED
  BY <1>2, <1>5

\* What a step of an execution leaves: the job, its ticks, and which others failed.
Worked(w) ==
  /\ UNCHANGED <<jobVars, outside, history, copy, tick>>
  /\ tick[w] # 0
  /\ WorkTypes' /\ phase' \in [Workers -> Phases]
  /\ phase'[w] \in {"running", "stepping", "acting"}
  /\ \A v \in Workers \ {w} : phase'[v] = phase[v]
  /\ Shapes' /\ QueuesApart' /\ ActionsKnown' /\ OneActionAtATime'
  /\ \A t : t # tick[w] => (HasFailure(t)' <=> HasFailure(t))

\* A run takes another status; its tick's failures alone may change.
LEMMA FailuresElsewhere ==
  ASSUME WorkTypes, NEW e \in DOMAIN runs, NEW s \in Final \cup {"PENDING", "RUNNING"},
         runs' = [runs EXCEPT ![e].status = s]
  PROVE  /\ runs' \in Seq(Executions) /\ DOMAIN runs' = DOMAIN runs
         /\ \A x \in DOMAIN runs : runs'[x].tick = runs[x].tick
         /\ \A x \in DOMAIN runs : runs'[x].status = IF x = e THEN s ELSE runs[x].status
         /\ \A t : t # runs[e].tick => (HasFailure(t)' <=> HasFailure(t))
<1>1. /\ runs' \in Seq(Executions) /\ DOMAIN runs' = DOMAIN runs
      /\ \A x \in DOMAIN runs : runs'[x].tick = runs[x].tick
      /\ \A x \in DOMAIN runs : runs'[x].status = IF x = e THEN s ELSE runs[x].status
  <2> DEFINE r == [runs[e] EXCEPT !.status = s]
  <2>1. runs \in Seq(Executions) /\ DOMAIN runs = 1..Len(runs) /\ runs[e] \in Executions
    BY SequenceDomain DEF WorkTypes
  <2>2. r \in Executions /\ r.tick = runs[e].tick /\ r.status = s
    BY <2>1 DEF Executions
  <2>3. runs' = [runs EXCEPT ![e] = r]
    OBVIOUS
  <2> HIDE DEF r
  <2>4. /\ runs' \in Seq(Executions) /\ Len(runs') = Len(runs)
        /\ \A u \in 1..Len(runs) : runs'[u] = IF u = e THEN r ELSE runs[u]
    BY <2>1, <2>2, <2>3, ExceptSeq
  <2>5. DOMAIN runs' = 1..Len(runs)
    BY <2>4, SequenceDomain
  <2> QED
    BY <2>1, <2>2, <2>4, <2>5
<1>2. ASSUME NEW t, t # runs[e].tick
      PROVE  HasFailure(t)' <=> HasFailure(t)
  <2>1. \A x \in DOMAIN runs :
          (runs'[x].tick = t /\ runs'[x].status = "FAILED")
            <=> (runs[x].tick = t /\ runs[x].status = "FAILED")
    BY <1>1, <1>2
  <2> QED
    BY <1>1, <2>1 DEF HasFailure
<1> QED
  BY <1>1, <1>2

\* The rest of a queue.
LEMMA TailOf ==
  ASSUME NEW S, NEW q \in Seq(S), q # <<>>
  PROVE  /\ Tail(q) \in Seq(S) /\ Len(Tail(q)) = Len(q) - 1
         /\ \A i \in 1..Len(Tail(q)) : Tail(q)[i] = q[i + 1]
BY HeadTailProperties

LEMMA Finishes ==
  ASSUME BookTypes, WorkTypes, Shapes, QueuesApart, ActionsKnown, OneActionAtATime,
         NEW w \in Workers, NEW s \in Final, Finish(w, s), queue[w] # <<>>,
         acting' \subseteq acting, \A x \in acting \ acting' : x = Action(w),
         \A x \in acting' : x[1] = Current(w) => s = "TIMED_OUT"
  PROVE  Worked(w)
<1> PICK e \in DOMAIN runs : e = Current(w)
  BY Heads
<1>1. /\ runs' = [runs EXCEPT ![e].status = s]
      /\ queue' = [queue EXCEPT ![w] = Tail(@)] /\ plan' = [plan EXCEPT ![w] = NoPlan]
      /\ step' = [step EXCEPT ![w] = 0] /\ phase' = [phase EXCEPT ![w] = "running"]
      /\ UNCHANGED <<jobVars, outside, history, copy, tick, todo>>
  BY DEF Finish, Goto
<1>2. /\ runs' \in Seq(Executions) /\ DOMAIN runs' = DOMAIN runs
      /\ \A x \in DOMAIN runs : runs'[x].tick = runs[x].tick
      /\ \A x \in DOMAIN runs : runs'[x].status = IF x = e THEN s ELSE runs[x].status
      /\ \A t : t # runs[e].tick => (HasFailure(t)' <=> HasFailure(t))
  BY <1>1, FailuresElsewhere
<1>3. queue[w] \in Seq(DOMAIN runs) /\ Len(queue[w]) \in Nat
  BY SequenceDomain DEF WorkTypes
<1>4. /\ Tail(queue[w]) \in Seq(DOMAIN runs)
      /\ \A i \in DOMAIN Tail(queue[w]) :
           /\ i + 1 \in DOMAIN queue[w] /\ i + 1 # 1
           /\ Tail(queue[w])[i] = queue[w][i + 1]
  <2>1. /\ Tail(queue[w]) \in Seq(DOMAIN runs) /\ Len(Tail(queue[w])) = Len(queue[w]) - 1
        /\ \A i \in 1..Len(Tail(queue[w])) : Tail(queue[w])[i] = queue[w][i + 1]
    BY <1>3, TailOf
  <2>2. DOMAIN Tail(queue[w]) = 1..Len(Tail(queue[w])) /\ DOMAIN queue[w] = 1..Len(queue[w])
    BY <1>3, <2>1, SequenceDomain
  <2> QED
    BY <1>3, <2>1, <2>2
<1>5. /\ queue'[w] = Tail(queue[w]) /\ \A v \in Workers \ {w} : queue'[v] = queue[v]
      /\ phase'[w] = "running" /\ \A v \in Workers \ {w} : phase'[v] = phase[v]
      /\ \A v \in Workers \ {w} : step'[v] = step[v]
  BY <1>1 DEF WorkTypes, BookTypes
<1>6. phase' \in [Workers -> Phases] /\ "running" \in Phases
  BY <1>1 DEF BookTypes, Phases, Dispatching
<1>7. WorkTypes'
  <2>1. plan' \in [Workers -> Plans] /\ step' \in [Workers -> 0..Actions]
    BY <1>1, AutomationAssumption DEF WorkTypes, Plans, NoPlan, AutomationAssumption
  <2>2. queue' \in [Workers -> Seq(DOMAIN runs')]
    BY <1>1, <1>2, <1>4 DEF WorkTypes
  <2> QED
    BY <1>1, <1>2, <2>1, <2>2 DEF WorkTypes
<1>8. phase[w] \in {"running", "stepping", "acting"} /\ tick[w] # 0
  BY DEF Shapes, Shape
<1>9. Shapes'
  <2>1. Shape(w)'
    BY <1>1, <1>5, <1>8 DEF Shape, Stepping
  <2>2. \A v \in Workers \ {w} : Shape(v)'
    BY <1>1, <1>5 DEF Shapes, Shape, Stepping
  <2> QED
    BY <2>1, <2>2 DEF Shapes
<1>10. \A v \in Workers : \A j \in DOMAIN queue[v] : queue[v][j] = e => v = w /\ j = 1
  BY Heads
<1>11. \A v \in Workers : \A j \in DOMAIN queue[v] : queue[v][j] \in DOMAIN runs
  <2>1. \A v \in Workers : queue[v] \in Seq(DOMAIN runs)
    BY DEF WorkTypes
  <2> QED
    BY <2>1, SequenceDomain
<1>12. QueuesApart'
  <2>1. Queued(w)'
    <3>1. ASSUME NEW i \in DOMAIN queue'[w]
          PROVE  runs'[queue'[w][i]].tick = tick[w] /\ runs'[queue'[w][i]].status = "PENDING"
      <4>1. i + 1 \in DOMAIN queue[w] /\ i + 1 # 1 /\ queue'[w][i] = queue[w][i + 1]
        BY <1>4, <1>5
      <4>2. queue[w][i + 1] \in DOMAIN runs /\ queue[w][i + 1] # e
        BY <1>10, <1>11, <4>1
      <4>3. runs[queue[w][i + 1]].tick = tick[w] /\ runs[queue[w][i + 1]].status = "PENDING"
        BY <4>1 DEF QueuesApart, Queued
      <4> QED
        BY <1>2, <4>1, <4>2, <4>3
    <3> QED
      BY <1>1, <1>5, <3>1 DEF Queued
  <2>2. ASSUME NEW v \in Workers \ {w}
        PROVE  Queued(v)'
    <3>1. \A i \in DOMAIN queue[v] : queue[v][i] \in DOMAIN runs /\ queue[v][i] # e
      BY <1>10, <1>11
    <3> QED
      BY <1>1, <1>2, <1>5, <3>1 DEF QueuesApart, Queued
  <2>3. ASSUME NEW u \in Workers, NEW v \in Workers,
               NEW i \in DOMAIN queue'[u], NEW j \in DOMAIN queue'[v], queue'[u][i] = queue'[v][j]
        PROVE  u = v /\ i = j
    <3>1. /\ u = w => i + 1 \in DOMAIN queue[u] /\ queue'[u][i] = queue[u][i + 1]
          /\ u # w => i \in DOMAIN queue[u] /\ queue'[u][i] = queue[u][i]
      BY <1>4, <1>5
    <3>2. /\ v = w => j + 1 \in DOMAIN queue[v] /\ queue'[v][j] = queue[v][j + 1]
          /\ v # w => j \in DOMAIN queue[v] /\ queue'[v][j] = queue[v][j]
      BY <1>4, <1>5
    <3>3. u = v
      BY <2>3, <3>1, <3>2 DEF QueuesApart
    <3>4. CASE u = w
      <4>1. i + 1 = j + 1
        BY <2>3, <3>1, <3>2, <3>3, <3>4 DEF QueuesApart
      <4>2. i \in Nat /\ j \in Nat
        BY <1>4, <1>5, <3>3, <3>4, SequenceDomain
      <4> QED
        BY <3>3, <4>1, <4>2
    <3>5. CASE u # w
      BY <2>3, <3>1, <3>2, <3>3, <3>5 DEF QueuesApart
    <3> QED
      BY <3>4, <3>5
  <2> QED
    BY <2>1, <2>2, <2>3 DEF QueuesApart
<1>13. \A x \in acting : x[1] \in DOMAIN runs
  BY DEF WorkTypes
<1>14. OneActionAtATime'
  <2>1. \A x \in acting' : runs'[x[1]].status \in {"RUNNING", "TIMED_OUT"}
    BY <1>2, <1>13 DEF OneActionAtATime
  <2> QED
    BY <2>1 DEF OneActionAtATime
<1>15. ActionsKnown'
  <2> SUFFICES ASSUME NEW x \in acting', runs'[x[1]].status # "TIMED_OUT"
               PROVE  \E v \in Workers : phase'[v] = "acting" /\ x = Action(v)'
    BY DEF ActionsKnown
  <2>1. x[1] # e
    BY <1>2, <1>13
  <2>2. PICK v \in Workers : phase[v] = "acting" /\ x = Action(v)
    BY <1>2, <1>13, <2>1 DEF ActionsKnown
  <2>3. v # w
    BY <2>1, <2>2 DEF Action
  <2>4. Action(v)' = Action(v)
    BY <1>5, <2>3 DEF Action, Current
  <2> QED
    BY <1>5, <2>2, <2>3, <2>4
<1>16. runs[e].tick = tick[w]
  BY Heads
<1> QED
  BY <1>1, <1>2, <1>5, <1>6, <1>7, <1>8, <1>9, <1>12, <1>14, <1>15, <1>16 DEF Worked

LEMMA ConditionsNotMetWorks ==
  ASSUME BookTypes, WorkTypes, Shapes, QueuesApart, ActionsKnown, OneActionAtATime,
         NEW w \in Workers, ConditionsNotMet(w)
  PROVE  Worked(w)
<1>1. Finish(w, "SKIPPED") /\ acting' = acting /\ queue[w] # <<>> /\ phase[w] # "acting"
  BY DEF ConditionsNotMet, Ready
<1>2. "SKIPPED" \in Final
  BY DEF Final
<1>3. \A x \in acting' : x[1] # Current(w)
  BY <1>1, Inactive
<1> QED
  BY <1>1, <1>2, <1>3, Finishes

LEMMA CompleteWorks ==
  ASSUME BookTypes, WorkTypes, Shapes, QueuesApart, ActionsKnown, OneActionAtATime,
         NEW w \in Workers, Complete(w)
  PROVE  Worked(w)
<1>1. Finish(w, "COMPLETED") /\ acting' = acting /\ queue[w] # <<>> /\ phase[w] # "acting"
  BY DEF Complete, Shapes, Shape, Stepping
<1>2. "COMPLETED" \in Final
  BY DEF Final
<1>3. \A x \in acting' : x[1] # Current(w)
  BY <1>1, Inactive
<1> QED
  BY <1>1, <1>2, <1>3, Finishes

LEMMA TimesOutWorks ==
  ASSUME BookTypes, WorkTypes, Shapes, QueuesApart, ActionsKnown, OneActionAtATime,
         NEW w \in Workers, StepTimesOut(w)
  PROVE  Worked(w)
<1>1. Finish(w, "TIMED_OUT") /\ acting' = acting /\ queue[w] # <<>>
  BY DEF StepTimesOut, Shapes, Shape, Stepping
<1>2. "TIMED_OUT" \in Final
  BY DEF Final
<1> QED
  BY <1>1, <1>2, Finishes

LEMMA FailWorks ==
  ASSUME BookTypes, WorkTypes, Shapes, QueuesApart, ActionsKnown, OneActionAtATime,
         NEW w \in Workers, StepFails(w), plan[w].halts
  PROVE  Worked(w)
<1>1. Finish(w, "FAILED") /\ acting' = acting \ {Action(w)} /\ queue[w] # <<>>
  BY DEF StepFails, Shapes, Shape, Stepping
<1>2. "FAILED" \in Final
  BY DEF Final
<1>3. \A x \in acting' : x[1] # Current(w)
  BY <1>1, Inactive
<1> QED
  BY <1>1, <1>2, <1>3, Finishes

\* The outcome of a step is in, and the next one may begin.
LEMMA GoesOn ==
  ASSUME BookTypes, WorkTypes, Shapes, QueuesApart, ActionsKnown, OneActionAtATime,
         NEW w \in Workers, GoOn(w), acting' = acting \ {Action(w)}
  PROVE  Worked(w)
<1>1. /\ phase[w] = "acting" /\ phase' = [phase EXCEPT ![w] = "stepping"]
      /\ UNCHANGED <<jobVars, outside, history, runs, copy, tick, todo, queue, plan, step>>
  BY DEF GoOn, Goto
<1>2. phase' \in [Workers -> Phases] /\ phase'[w] = "stepping"
  BY <1>1 DEF BookTypes, Phases, Dispatching
<1>3. \A v \in Workers \ {w} : phase'[v] = phase[v]
  BY <1>1 DEF BookTypes
<1>4. WorkTypes'
  BY <1>1 DEF WorkTypes
<1>5. queue[w] # <<>> /\ tick[w] # 0
  BY <1>1 DEF Shapes, Shape, Stepping
<1>6. Shapes'
  <2>1. Shape(w)'
    BY <1>1, <1>2, <1>5 DEF Shape, Stepping
  <2>2. \A v \in Workers \ {w} : Shape(v)'
    BY <1>1, <1>3 DEF Shapes, Shape, Stepping
  <2> QED
    BY <2>1, <2>2 DEF Shapes
<1>7. QueuesApart'
  <2>1. \A v \in Workers : Queued(v)'
    BY <1>1, <1>2, <1>3 DEF QueuesApart, Queued
  <2> QED
    BY <1>1, <2>1 DEF QueuesApart
<1>8. ActionsKnown'
  <2> SUFFICES ASSUME NEW x \in acting', runs'[x[1]].status # "TIMED_OUT"
               PROVE  \E v \in Workers : phase'[v] = "acting" /\ x = Action(v)'
    BY DEF ActionsKnown
  <2>1. PICK v \in Workers : phase[v] = "acting" /\ x = Action(v)
    BY <1>1 DEF ActionsKnown
  <2>2. Action(v)' = Action(v) /\ v # w
    BY <1>1, <2>1 DEF Action, Current
  <2> QED
    BY <1>3, <2>1, <2>2
<1>9. OneActionAtATime'
  BY <1>1 DEF OneActionAtATime
<1>10. \A t : HasFailure(t)' <=> HasFailure(t)
  BY <1>1 DEF HasFailure
<1> QED
  BY <1>1, <1>2, <1>3, <1>4, <1>5, <1>6, <1>7, <1>8, <1>9, <1>10 DEF Worked

\* The first execution of the queue runs.
LEMMA RunStarts ==
  ASSUME BookTypes, WorkTypes, Shapes, QueuesApart, ActionsKnown, OneActionAtATime,
         NEW w \in Workers, StartExecution(w)
  PROVE  Worked(w)
<1>1. phase[w] = "running" /\ queue[w] # <<>>
  BY DEF StartExecution, Ready
<1> PICK e \in DOMAIN runs : e = Current(w)
  BY <1>1, Heads
<1>2. /\ runs' = [runs EXCEPT ![e].status = "RUNNING"]
      /\ phase' = [phase EXCEPT ![w] = "stepping"]
      /\ UNCHANGED <<jobVars, outside, history, acting, copy, tick, todo, queue, step>>
  BY DEF StartExecution, Goto
<1>3. plan' = plan \/ \E h \in BOOLEAN : plan' = [plan EXCEPT ![w] = [actions |-> Actions, halts |-> h]]
  BY DEF StartExecution
<1>4. /\ runs' \in Seq(Executions) /\ DOMAIN runs' = DOMAIN runs
      /\ \A x \in DOMAIN runs : runs'[x].tick = runs[x].tick
      /\ \A x \in DOMAIN runs : runs'[x].status = IF x = e THEN "RUNNING" ELSE runs[x].status
      /\ \A t : t # runs[e].tick => (HasFailure(t)' <=> HasFailure(t))
  BY <1>2, FailuresElsewhere
<1>5. phase' \in [Workers -> Phases] /\ phase'[w] = "stepping"
  BY <1>2 DEF BookTypes, Phases, Dispatching
<1>6. \A v \in Workers \ {w} : phase'[v] = phase[v]
  BY <1>2 DEF BookTypes
<1>7. WorkTypes'
  <2>1. ASSUME NEW h \in BOOLEAN, plan' = [plan EXCEPT ![w] = [actions |-> Actions, halts |-> h]]
        PROVE  plan' \in [Workers -> Plans]
    <3>1. [actions |-> Actions, halts |-> h] \in Plans
      BY AutomationAssumption DEF Plans, AutomationAssumption
    <3> QED
      BY <2>1, <3>1 DEF WorkTypes
  <2>2. plan' \in [Workers -> Plans]
    BY <1>3, <2>1 DEF WorkTypes
  <2> QED
    BY <1>2, <1>4, <2>2 DEF WorkTypes
<1>8. tick[w] # 0
  BY <1>1 DEF Shapes, Shape
<1>9. Shapes'
  <2>1. Shape(w)'
    BY <1>1, <1>2, <1>5, <1>8 DEF Shape, Stepping
  <2>2. \A v \in Workers \ {w} : Shape(v)'
    BY <1>2, <1>6 DEF Shapes, Shape, Stepping
  <2> QED
    BY <2>1, <2>2 DEF Shapes
<1>10. /\ runs[e].tick = tick[w]
       /\ 1 \in DOMAIN queue[w] /\ queue[w][1] = e
       /\ \A v \in Workers : \A j \in DOMAIN queue[v] : queue[v][j] = e => v = w /\ j = 1
  BY <1>1, Heads
<1>11. \A v \in Workers : \A j \in DOMAIN queue[v] : queue[v][j] \in DOMAIN runs
  <2>1. \A v \in Workers : queue[v] \in Seq(DOMAIN runs)
    BY DEF WorkTypes
  <2> QED
    BY <2>1, SequenceDomain
<1>12. QueuesApart'
  <2>1. ASSUME NEW v \in Workers, NEW i \in DOMAIN queue[v]
        PROVE  /\ runs'[queue[v][i]].tick = tick[v]
               /\ runs'[queue[v][i]].status =
                    IF i = 1 /\ phase'[v] \in {"stepping", "acting"} THEN "RUNNING" ELSE "PENDING"
    <3>1. /\ queue[v][i] \in DOMAIN runs /\ runs[queue[v][i]].tick = tick[v]
          /\ runs[queue[v][i]].status =
               IF i = 1 /\ phase[v] \in {"stepping", "acting"} THEN "RUNNING" ELSE "PENDING"
      BY <1>11 DEF QueuesApart, Queued
    <3>2. CASE v = w /\ i = 1
      BY <1>4, <1>5, <1>10, <3>1, <3>2
    <3>3. CASE v = w /\ i # 1
      BY <1>1, <1>4, <1>10, <3>1, <3>3
    <3>4. CASE v # w
      BY <1>4, <1>6, <1>10, <3>1, <3>4
    <3> QED
      BY <3>2, <3>3, <3>4
  <2>2. \A v \in Workers : Queued(v)'
    BY <1>2, <2>1 DEF Queued
  <2> QED
    BY <1>2, <2>2 DEF QueuesApart
<1>13. \A x \in acting : x[1] \in DOMAIN runs /\ x[1] # e
  <2>1. \A x \in acting : x[1] # Current(w)
    BY <1>1, Inactive
  <2> QED
    BY <2>1 DEF WorkTypes
<1>14. OneActionAtATime'
  BY <1>2, <1>4, <1>13 DEF OneActionAtATime
<1>15. ActionsKnown'
  <2> SUFFICES ASSUME NEW x \in acting', runs'[x[1]].status # "TIMED_OUT"
               PROVE  \E v \in Workers : phase'[v] = "acting" /\ x = Action(v)'
    BY DEF ActionsKnown
  <2>1. PICK v \in Workers : phase[v] = "acting" /\ x = Action(v)
    BY <1>2, <1>4, <1>13 DEF ActionsKnown
  <2>2. Action(v)' = Action(v) /\ v # w
    BY <1>1, <1>2, <2>1 DEF Action, Current
  <2> QED
    BY <1>6, <2>1, <2>2
<1> QED
  BY <1>2, <1>4, <1>5, <1>6, <1>7, <1>8, <1>9, <1>10, <1>12, <1>14, <1>15 DEF Worked

\* The next action of the execution that runs: nothing of it is under way.
LEMMA Begins ==
  ASSUME BookTypes, WorkTypes, Shapes, QueuesApart, ActionsKnown, OneActionAtATime,
         NEW w \in Workers, BeginStep(w)
  PROVE  Worked(w)
<1> DEFINE a == <<Current(w), step[w] + 1>>
<1>1. /\ phase[w] = "stepping" /\ step[w] < plan[w].actions
      /\ step' = [step EXCEPT ![w] = step[w] + 1] /\ acting' = acting \cup {a}
      /\ phase' = [phase EXCEPT ![w] = "acting"]
      /\ UNCHANGED <<jobVars, outside, history, runs, copy, tick, todo, queue, plan>>
  BY DEF BeginStep, Goto
<1>2. queue[w] # <<>> /\ tick[w] # 0
  BY <1>1 DEF Shapes, Shape, Stepping
<1>3. /\ phase' \in [Workers -> Phases] /\ phase'[w] = "acting"
      /\ \A v \in Workers \ {w} : phase'[v] = phase[v] /\ step'[v] = step[v]
      /\ step'[w] = step[w] + 1
  BY <1>1 DEF BookTypes, WorkTypes, Phases, Dispatching
<1>4. step[w] + 1 \in 1..Actions
  BY <1>1, AutomationAssumption DEF WorkTypes, Plans, AutomationAssumption
<1>5. Current(w) \in DOMAIN runs /\ 1 \in DOMAIN queue[w] /\ queue[w][1] = Current(w)
  BY <1>2, Heads
<1>6. WorkTypes'
  <2>1. a \in (DOMAIN runs) \X (1..Actions)
    BY <1>4, <1>5
  <2>2. step[w] + 1 \in 0..Actions
    BY <1>4, AutomationAssumption DEF AutomationAssumption
  <2>3. step' \in [Workers -> 0..Actions]
    BY <1>1, <2>2 DEF WorkTypes
  <2> QED
    BY <1>1, <2>1, <2>3 DEF WorkTypes
<1>7. Shapes'
  <2>1. Shape(w)'
    BY <1>1, <1>2, <1>3 DEF Shape, Stepping
  <2>2. \A v \in Workers \ {w} : Shape(v)'
    BY <1>1, <1>3 DEF Shapes, Shape, Stepping
  <2> QED
    BY <2>1, <2>2 DEF Shapes
<1>8. QueuesApart'
  <2>1. \A v \in Workers : Queued(v)'
    BY <1>1, <1>3 DEF QueuesApart, Queued
  <2> QED
    BY <1>1, <2>1 DEF QueuesApart
<1>9. \A x \in acting : x[1] # Current(w)
  BY <1>1, <1>2, Inactive
<1>10. OneActionAtATime'
  <2>1. runs[Current(w)].status = "RUNNING"
    BY <1>1, <1>5 DEF QueuesApart, Queued
  <2>2. a[1] = Current(w)
    OBVIOUS
  <2> HIDE DEF a
  <2>3. \A x \in acting' : runs'[x[1]].status \in {"RUNNING", "TIMED_OUT"}
    BY <1>1, <2>1, <2>2 DEF OneActionAtATime
  <2>4. \A x, y \in acting' : x[1] = y[1] => x = y
    BY <1>1, <1>9, <2>2 DEF OneActionAtATime
  <2> QED
    BY <2>3, <2>4 DEF OneActionAtATime
<1>11. ActionsKnown'
  <2>1. Action(w)' = a
    BY <1>1, <1>3 DEF Action, Current
  <2>2. ASSUME NEW x \in acting, runs[x[1]].status # "TIMED_OUT"
        PROVE  \E v \in Workers : phase'[v] = "acting" /\ x = Action(v)'
    <3>1. PICK v \in Workers : phase[v] = "acting" /\ x = Action(v)
      BY <2>2 DEF ActionsKnown
    <3>2. Action(v)' = Action(v) /\ v # w
      BY <1>1, <1>3, <3>1 DEF Action, Current
    <3> QED
      BY <1>3, <3>1, <3>2
  <2> HIDE DEF a
  <2> QED
    BY <1>1, <1>3, <2>1, <2>2 DEF ActionsKnown
<1>12. \A t : HasFailure(t)' <=> HasFailure(t)
  BY <1>1 DEF HasFailure
<1> QED
  BY <1>1, <1>2, <1>3, <1>6, <1>7, <1>8, <1>10, <1>11, <1>12 DEF Worked

\* An execution is new to every queue; one that is PENDING is the last of its worker's.
LEMMA Creates ==
  ASSUME BookTypes, WorkTypes, Shapes, QueuesApart, ActionsKnown, OneActionAtATime,
         NEW w \in Workers, CreateExecution(w)
  PROVE  Worked(w)
<1>1. PICK x \in todo[w] :
        /\ runs' = Append(runs, [rule |-> x[1], status |-> x[2], tick |-> tick[w]])
        /\ queue' = IF x[2] = "PENDING"
                    THEN [queue EXCEPT ![w] = Append(@, Len(runs) + 1)] ELSE queue
        /\ todo' = [todo EXCEPT ![w] = @ \ {x}]
  BY DEF CreateExecution
<1>2. /\ phase[w] = "running"
      /\ UNCHANGED <<jobVars, outside, history, acting, phase, copy, tick, plan, step>>
  BY DEF CreateExecution
<1>3. tick[w] # 0 /\ tick[w] \in Nat
  BY <1>2, SequenceDomain DEF Shapes, Shape, BookTypes
<1>4. x[1] \in Rules /\ x[2] \in {"PENDING", "SKIPPED"}
  BY DEF WorkTypes
<1> DEFINE r == [rule |-> x[1], status |-> x[2], tick |-> tick[w]]
<1>5. r \in Executions /\ r.tick = tick[w] /\ r.status = x[2]
  BY <1>3, <1>4 DEF Executions, Final
<1>6. runs' = Append(runs, r) /\ runs \in Seq(Executions)
  BY <1>1 DEF WorkTypes
<1> HIDE DEF r
<1>7. PICK n : n = Len(runs) + 1
  OBVIOUS
<1>8. /\ runs' \in Seq(Executions) /\ DOMAIN runs' = DOMAIN runs \cup {n} /\ n \notin DOMAIN runs
      /\ \A y \in DOMAIN runs : runs'[y] = runs[y]
      /\ runs'[n] = r
  BY <1>5, <1>6, <1>7, RunAdded
<1>9. /\ x[2] = "PENDING" => queue' = [queue EXCEPT ![w] = Append(queue[w], n)]
      /\ x[2] # "PENDING" => queue' = queue
  BY <1>1, <1>7
<1>10. \A v \in Workers : /\ queue[v] \in Seq(DOMAIN runs) /\ queue[v] \in Seq(DOMAIN runs')
                          /\ \A j \in DOMAIN queue[v] : queue[v][j] \in DOMAIN runs
  <2>1. ASSUME NEW v \in Workers
        PROVE  /\ queue[v] \in Seq(DOMAIN runs)
               /\ \A j \in DOMAIN queue[v] : queue[v][j] \in DOMAIN runs
    <3>1. queue[v] \in Seq(DOMAIN runs)
      BY DEF WorkTypes
    <3> QED
      BY <3>1, SequenceDomain
  <2>2. DOMAIN runs \subseteq DOMAIN runs'
    BY <1>8
  <2> QED
    BY <2>1, <2>2, SeqMonotonic
<1>11. /\ Append(queue[w], n) \in Seq(DOMAIN runs')
       /\ \A i \in DOMAIN Append(queue[w], n) :
            \/ i \in DOMAIN queue[w] /\ Append(queue[w], n)[i] = queue[w][i]
            \/ i = Len(queue[w]) + 1 /\ Append(queue[w], n)[i] = n
  <2>1. queue[w] \in Seq(DOMAIN runs') /\ n \in DOMAIN runs'
    BY <1>8, <1>10
  <2>2. /\ Append(queue[w], n) \in Seq(DOMAIN runs')
        /\ Len(Append(queue[w], n)) = Len(queue[w]) + 1
        /\ \A i \in 1..Len(queue[w]) : Append(queue[w], n)[i] = queue[w][i]
        /\ Append(queue[w], n)[Len(queue[w]) + 1] = n
    BY <2>1, AppendProperties
  <2>3. /\ DOMAIN queue[w] = 1..Len(queue[w]) /\ Len(queue[w]) \in Nat
        /\ DOMAIN Append(queue[w], n) = 1..Len(Append(queue[w], n))
    BY <2>1, <2>2, SequenceDomain
  <2> QED
    BY <2>2, <2>3
<1>12. \A v \in Workers : \A i \in DOMAIN queue'[v] :
         \/ i \in DOMAIN queue[v] /\ queue'[v][i] = queue[v][i]
         \/ /\ v = w /\ x[2] = "PENDING"
            /\ i = Len(queue[w]) + 1 /\ queue'[v][i] = n
  <2>1. CASE x[2] = "PENDING"
    <3>1. /\ queue'[w] = Append(queue[w], n)
          /\ \A v \in Workers \ {w} : queue'[v] = queue[v]
      BY <1>9, <2>1 DEF WorkTypes
    <3> QED
      BY <1>11, <2>1, <3>1
  <2>2. CASE x[2] # "PENDING"
    BY <1>9, <2>2
  <2> QED
    BY <2>1, <2>2
<1>13. WorkTypes'
  <2>1. acting' \subseteq (DOMAIN runs') \X (1..Actions)
    BY <1>2, <1>8 DEF WorkTypes
  <2>2. todo' \in [Workers -> SUBSET (Rules \X {"PENDING", "SKIPPED"})]
    BY <1>1 DEF WorkTypes
  <2>3. queue' \in [Workers -> Seq(DOMAIN runs')]
    <3>1. CASE x[2] = "PENDING"
      BY <1>9, <1>10, <1>11, <3>1 DEF WorkTypes
    <3>2. CASE x[2] # "PENDING"
      BY <1>9, <1>10, <3>2 DEF WorkTypes
    <3> QED
      BY <3>1, <3>2
  <2> QED
    BY <1>2, <1>8, <2>1, <2>2, <2>3 DEF WorkTypes
<1>14. Shapes'
  <2>1. Shape(w)'
    BY <1>2, <1>3 DEF Shape, Stepping
  <2>2. \A v \in Workers \ {w} : queue'[v] = queue[v]
    BY <1>9 DEF WorkTypes
  <2>3. \A v \in Workers \ {w} : Shape(v)'
    BY <1>2, <2>2 DEF Shapes, Shape, Stepping
  <2> QED
    BY <2>1, <2>3 DEF Shapes
<1>15. QueuesApart'
  <2>1. ASSUME NEW v \in Workers, NEW i \in DOMAIN queue'[v]
        PROVE  /\ runs'[queue'[v][i]].tick = tick[v]
               /\ runs'[queue'[v][i]].status =
                    IF i = 1 /\ phase[v] \in {"stepping", "acting"} THEN "RUNNING" ELSE "PENDING"
    <3>1. CASE i \in DOMAIN queue[v] /\ queue'[v][i] = queue[v][i]
      BY <1>8, <1>10, <3>1 DEF QueuesApart, Queued
    <3>2. CASE v = w /\ x[2] = "PENDING" /\ queue'[v][i] = n
      BY <1>2, <1>5, <1>8, <3>2
    <3> QED
      BY <1>12, <3>1, <3>2
  <2>2. \A v \in Workers : Queued(v)'
    BY <1>2, <2>1 DEF Queued
  <2>3. ASSUME NEW u \in Workers, NEW v \in Workers,
               NEW i \in DOMAIN queue'[u], NEW j \in DOMAIN queue'[v], queue'[u][i] = queue'[v][j]
        PROVE  u = v /\ i = j
    <3>1. CASE i \in DOMAIN queue[u] /\ queue'[u][i] = queue[u][i]
      <4>1. queue'[v][j] # n
        BY <1>8, <1>10, <2>3, <3>1
      <4>2. j \in DOMAIN queue[v] /\ queue'[v][j] = queue[v][j]
        BY <1>12, <4>1
      <4>3. queue[u][i] = queue[v][j]
        BY <2>3, <3>1, <4>2
      <4>4. \A k \in DOMAIN queue[u], l \in DOMAIN queue[v] :
              queue[u][k] = queue[v][l] => u = v /\ k = l
        BY DEF QueuesApart
      <4> QED
        BY <3>1, <4>2, <4>3, <4>4
    <3>2. CASE u = w /\ i = Len(queue[w]) + 1 /\ queue'[u][i] = n
      <4>1. ~(j \in DOMAIN queue[v] /\ queue'[v][j] = queue[v][j])
        BY <1>8, <1>10, <2>3, <3>2
      <4>2. v = w /\ j = Len(queue[w]) + 1
        BY <1>12, <4>1
      <4> QED
        BY <3>2, <4>2
    <3> QED
      BY <1>12, <3>1, <3>2
  <2> QED
    BY <2>2, <2>3 DEF QueuesApart
<1>16. \A y \in acting : y[1] \in DOMAIN runs
  BY DEF WorkTypes
<1>17. OneActionAtATime'
  BY <1>2, <1>8, <1>16 DEF OneActionAtATime
<1>18. ActionsKnown'
  <2> SUFFICES ASSUME NEW y \in acting', runs'[y[1]].status # "TIMED_OUT"
               PROVE  \E v \in Workers : phase'[v] = "acting" /\ y = Action(v)'
    BY DEF ActionsKnown
  <2>1. PICK v \in Workers : phase[v] = "acting" /\ y = Action(v)
    BY <1>2, <1>8, <1>16 DEF ActionsKnown
  <2>2. v # w
    BY <1>2, <2>1
  <2>3. queue'[v] = queue[v]
    BY <1>9, <2>2 DEF WorkTypes
  <2>4. Action(v)' = Action(v)
    BY <1>2, <2>3 DEF Action, Current
  <2> QED
    BY <1>2, <2>1, <2>4
<1>19. ASSUME NEW t, t # tick[w]
       PROVE  HasFailure(t)' <=> HasFailure(t)
  BY <1>5, <1>8, <1>19 DEF HasFailure
<1>20. phase' \in [Workers -> Phases]
  BY <1>2 DEF BookTypes
<1> QED
  BY <1>2, <1>3, <1>13, <1>14, <1>15, <1>17, <1>18, <1>19, <1>20 DEF Worked

LEMMA Ingests ==
  ASSUME BookTypes, WorkTypes, Shapes, QueuesApart, ActionsKnown, OneActionAtATime,
         NEW w \in Workers, Ingest(w)
  PROVE  Worked(w)
<1>1. /\ phase[w] = "claimed" /\ phase' = [phase EXCEPT ![w] = "running"]
      /\ UNCHANGED <<jobVars, outside, history, runs, acting, copy, tick, queue, plan, step>>
  BY DEF Ingest, Goto
<1>2. PICK entitled \in BOOLEAN :
        todo' = [todo EXCEPT ![w] =
          {<<r, IF entitled /\ rule[r] = "enabled" THEN "PENDING" ELSE "SKIPPED">> :
             r \in {r \in Rules : rule[r] # "deleted"}}]
  BY DEF Ingest
<1>3. todo' \in [Workers -> SUBSET (Rules \X {"PENDING", "SKIPPED"})]
  BY <1>2 DEF WorkTypes
<1>4. WorkTypes'
  BY <1>1, <1>3 DEF WorkTypes
<1>5. /\ phase' \in [Workers -> Phases] /\ phase'[w] = "running"
      /\ \A v \in Workers \ {w} : phase'[v] = phase[v]
  BY <1>1 DEF BookTypes, Phases, Dispatching
<1>6. tick[w] # 0 /\ queue[w] = <<>>
  BY <1>1 DEF Shapes, Shape
<1>7. OthersStay(w)
  BY <1>1, <1>5 DEF OthersStay
<1>8. Shapes' /\ QueuesApart' /\ ActionsKnown' /\ OneActionAtATime'
  BY <1>1, <1>5, <1>6, <1>7, WorkRests
<1>9. \A t : HasFailure(t)' <=> HasFailure(t)
  BY <1>1 DEF HasFailure
<1> QED
  BY <1>1, <1>4, <1>5, <1>6, <1>8, <1>9 DEF Worked

LEMMA ExecuteWorks ==
  ASSUME BookTypes, WorkTypes, Shapes, QueuesApart, ActionsKnown, OneActionAtATime,
         NEW w \in Workers, Execute(w)
  PROVE  Worked(w)
<1>1. CASE StepSucceeds(w)
  BY <1>1, GoesOn DEF StepSucceeds
<1>2. CASE StepFails(w)
  <2>1. CASE plan[w].halts
    BY <1>2, <2>1, FailWorks
  <2>2. CASE ~plan[w].halts
    BY <1>2, <2>2, GoesOn DEF StepFails
  <2> QED
    BY <2>1, <2>2
<1> QED
  BY <1>1, <1>2, Ingests, Creates, ConditionsNotMetWorks, RunStarts, Begins, TimesOutWorks, CompleteWorks
     DEF Execute

\* A worker lets go of what it has in hand.
LEMMA Drops ==
  ASSUME BookTypes, WorkTypes, Shapes, QueuesApart, ActionsKnown, OneActionAtATime,
         NEW w \in Workers, Drop(w), OthersStay(w), phase'[w] \in {"ended", "idle"},
         phase'[w] = "idle" <=> tick'[w] = 0
  PROVE  /\ WorkTypes' /\ Shapes' /\ QueuesApart' /\ ActionsKnown' /\ OneActionAtATime'
         /\ UNCHANGED <<jobVars, outside, history, runs>>
<1>1. /\ acting' = IF phase[w] = "acting" THEN acting \ {Action(w)} ELSE acting
      /\ todo' = [todo EXCEPT ![w] = {}] /\ queue' = [queue EXCEPT ![w] = <<>>]
      /\ plan' = [plan EXCEPT ![w] = NoPlan] /\ step' = [step EXCEPT ![w] = 0]
      /\ UNCHANGED <<jobVars, outside, history, runs>>
  BY DEF Drop
<1>2. /\ queue'[w] = <<>> /\ \A v \in Workers \ {w} : queue'[v] = queue[v] /\ step'[v] = step[v]
      /\ \A v \in Workers \ {w} : phase'[v] = phase[v] /\ tick'[v] = tick[v]
  BY <1>1 DEF WorkTypes, OthersStay
<1>3. acting' \subseteq acting /\ (phase[w] = "acting" => Action(w) \notin acting')
  BY <1>1
<1>4. WorkTypes'
  <2>1. plan' \in [Workers -> Plans] /\ step' \in [Workers -> 0..Actions]
    BY <1>1, AutomationAssumption DEF WorkTypes, Plans, NoPlan, AutomationAssumption
  <2>2. <<>> \in Seq(DOMAIN runs)
    BY EmptySeq
  <2>3. queue' \in [Workers -> Seq(DOMAIN runs')]
    BY <1>1, <2>2 DEF WorkTypes
  <2>4. todo' \in [Workers -> SUBSET (Rules \X {"PENDING", "SKIPPED"})]
    BY <1>1 DEF WorkTypes
  <2> QED
    BY <1>1, <1>3, <2>1, <2>3, <2>4 DEF WorkTypes
<1>5. Shapes'
  <2>1. Shape(w)'
    BY <1>2 DEF Shape, Stepping
  <2>2. \A v \in Workers \ {w} : Shape(v)'
    BY <1>2 DEF Shapes, Shape, Stepping
  <2> QED
    BY <2>1, <2>2 DEF Shapes
<1>6. QueuesApart'
  <2>1. DOMAIN queue'[w] = {}
    BY <1>2, EmptySeq
  <2>2. Queued(w)'
    BY <2>1 DEF Queued
  <2>3. \A v \in Workers \ {w} : Queued(v)'
    BY <1>1, <1>2 DEF QueuesApart, Queued
  <2>4. ASSUME NEW u \in Workers, NEW v \in Workers,
               NEW i \in DOMAIN queue'[u], NEW j \in DOMAIN queue'[v], queue'[u][i] = queue'[v][j]
        PROVE  u = v /\ i = j
    <3>1. queue'[u] = queue[u] /\ queue'[v] = queue[v]
      BY <1>2, <2>1
    <3>2. \A k \in DOMAIN queue[u], l \in DOMAIN queue[v] :
            queue[u][k] = queue[v][l] => u = v /\ k = l
      BY DEF QueuesApart
    <3> QED
      BY <2>4, <3>1, <3>2
  <2> QED
    BY <2>2, <2>3, <2>4 DEF QueuesApart
<1>7. OneActionAtATime'
  BY <1>1, <1>3 DEF OneActionAtATime
<1>8. ActionsKnown'
  <2> SUFFICES ASSUME NEW x \in acting', runs'[x[1]].status # "TIMED_OUT"
               PROVE  \E v \in Workers : phase'[v] = "acting" /\ x = Action(v)'
    BY DEF ActionsKnown
  <2>1. PICK v \in Workers : phase[v] = "acting" /\ x = Action(v)
    BY <1>1, <1>3 DEF ActionsKnown
  <2>2. v # w
    BY <1>3, <2>1
  <2>3. Action(v)' = Action(v)
    BY <1>2, <2>2 DEF Action, Current
  <2> QED
    BY <1>2, <2>1, <2>2, <2>3
<1> QED
  BY <1>1, <1>4, <1>5, <1>6, <1>7, <1>8

-----------------------------------------------------------------------------
(* The whole step. *)

\* The ticks stay, and a worker is in the tick that it was in, or in none.
TicksStay ==
  /\ ticks' = ticks /\ kind' = kind /\ disturbed' = disturbed
  /\ job'.next = job.next /\ job'.failures = job.failures /\ (job'.exists => job.exists)
  /\ \A t \in DOMAIN ticks : ticks[t].end # "open" => (HasFailure(t)' <=> HasFailure(t))
  /\ \A v \in Workers :
       \/ phase'[v] = "idle" /\ tick'[v] = 0
       \/ copy'[v] = copy[v] /\ tick'[v] = tick[v] /\ (phase'[v] = "polled" <=> phase[v] = "polled")

LEMMA TicksStayed ==
  ASSUME AutomationInv, TicksStay
  PROVE  /\ TicksApart' /\ DueInTurn' /\ OneTickPerDueTime' /\ Streak' = Streak
         /\ \A v \in Workers : InTick(v)' => InTick(v) /\ copy'[v] = copy[v] /\ tick'[v] = tick[v]
<1>1. TicksApart'
  BY DEF AutomationInv, TicksApart, TicksStay
<1>2. DueInTurn' /\ OneTickPerDueTime'
  <2>1. \A v \in Workers : phase'[v] = "polled" => phase[v] = "polled" /\ copy'[v] = copy[v]
    BY DEF TicksStay
  <2> QED
    BY <2>1, DueStays DEF AutomationInv, TicksStay
<1>3. Streak' = Streak
  BY StreakStays, AutomationTypes DEF AutomationInv, BookTypes, TicksStay
<1>4. \A v \in Workers : InTick(v)' => InTick(v) /\ copy'[v] = copy[v] /\ tick'[v] = tick[v]
  BY DEF TicksStay, InTick
<1> QED
  BY <1>1, <1>2, <1>3, <1>4

\* The breaker, where nobody switches the job.
LEMMA BreakerStays ==
  ASSUME AutomationInv, TicksStay, job'.active = job.active, wanted' = wanted
  PROVE  BreakerAgrees'
<1> SUFFICES ASSUME job'.exists, ~disturbed' PROVE BreakerAgrees'
  BY DEF BreakerAgrees
<1>1. job.exists /\ ~disturbed /\ ticks' = ticks /\ job'.failures = job.failures
  BY DEF TicksStay
<1>2. /\ \A w \in Workers : TickAlone(w)
      /\ job.failures = Cardinality(Streak)
      /\ job.active => wanted
      /\ ~job.active => ~wanted \/ job.failures >= Threshold
  BY <1>1 DEF AutomationInv, BreakerAgrees
<1>3. /\ Streak' = Streak
      /\ \A v \in Workers : InTick(v)' => InTick(v) /\ copy'[v] = copy[v] /\ tick'[v] = tick[v]
  BY TicksStayed
<1>4. ASSUME NEW w \in Workers
      PROVE  TickAlone(w)'
  <2> SUFFICES ASSUME InTick(w)' PROVE TickAlone(w)'
    BY DEF TickAlone
  <2>1. InTick(w) /\ copy'[w] = copy[w] /\ tick'[w] = tick[w]
    BY <1>3
  <2>2. /\ \A v \in Workers : InTick(v) => v = w
        /\ job.active /\ wanted /\ copy[w].failures = job.failures
        /\ tick[w] # 0 => tick[w] = Len(ticks)
    BY <1>2, <2>1 DEF TickAlone
  <2>3. \A v \in Workers : InTick(v)' => v = w
    BY <1>3, <2>2
  <2> QED
    BY <1>1, <2>1, <2>2, <2>3 DEF TickAlone
<1> QED
  BY <1>1, <1>2, <1>3, <1>4 DEF BreakerAgrees

LEMMA WorkKeeps ==
  ASSUME AutomationInv, NEW w \in Workers, Worked(w)
  PROVE  AutomationInv'
<1>1. JobTypes /\ BookTypes /\ WorkTypes
  BY AutomationTypes DEF AutomationInv
<1>2. /\ UNCHANGED <<kind, job, now, date, rule, changes, ticks, wanted, disturbed, copy, tick>>
      /\ tick[w] # 0 /\ phase'[w] \in {"running", "stepping", "acting"}
      /\ \A v \in Workers \ {w} : phase'[v] = phase[v]
  BY DEF Worked, jobVars, outside, history
<1>3. JobTypes' /\ BookTypes' /\ WorkTypes'
  BY <1>1, <1>2 DEF Worked, JobTypes, BookTypes
<1>4. AutomationTypeOK'
  BY <1>3, TypesNext
<1>5. TicksStay
  <2>1. ASSUME NEW t \in DOMAIN ticks, ticks[t].end # "open"
        PROVE  HasFailure(t)' <=> HasFailure(t)
    <3>1. t # tick[w]
      BY <1>2, <2>1 DEF AutomationInv, TicksApart
    <3> QED
      BY <3>1 DEF Worked
  <2>2. phase[w] # "polled"
    BY <1>2 DEF AutomationInv, Shapes, Shape
  <2> QED
    BY <1>2, <2>1, <2>2 DEF TicksStay
<1>6. TicksApart' /\ DueInTurn' /\ OneTickPerDueTime' /\ BreakerAgrees'
  BY <1>2, <1>5, TicksStayed, BreakerStays
<1> QED
  BY <1>4, <1>6 DEF Worked, AutomationInv

LEMMA ScheduleKeeps ==
  ASSUME AutomationInv, NEW w \in Workers, Schedule(w)
  PROVE  AutomationInv'
<1>1. JobTypes /\ BookTypes /\ WorkTypes
  BY AutomationTypes DEF AutomationInv
<1>2. /\ JobTypes' /\ BookTypes' /\ OthersStay(w)
      /\ queue[w] = <<>> /\ phase[w] # "acting" /\ phase'[w] \in {"idle", "polled", "claimed"}
      /\ phase'[w] \in {"idle", "polled"} <=> tick'[w] = 0
      /\ UNCHANGED <<kind, outside, runs, acting, todo, queue, plan, step, wanted>>
  BY <1>1, ScheduleMoves DEF AutomationInv
<1>3. WorkTypes'
  BY <1>1, <1>2 DEF WorkTypes
<1>4. AutomationTypeOK'
  BY <1>2, <1>3, TypesNext
<1>5. Shapes' /\ QueuesApart' /\ ActionsKnown' /\ OneActionAtATime'
  BY <1>2, WorkRests DEF AutomationInv
<1>6. TicksApart'
  BY <1>1, ScheduleKeepsApart DEF AutomationInv
<1>7. DueInTurn' /\ OneTickPerDueTime'
  BY <1>1, ScheduleInTurn DEF AutomationInv
<1>8. BreakerAgrees'
  BY <1>1, ScheduleCounts DEF AutomationInv
<1> QED
  BY <1>4, <1>5, <1>6, <1>7, <1>8 DEF AutomationInv

\* A worker throws, or crashes: its tick is thrown later, or stays open.
LEMMA DropKeeps ==
  ASSUME AutomationInv, NEW w \in Workers, Throw(w) \/ Crash(w)
  PROVE  AutomationInv'
<1>1. JobTypes /\ BookTypes /\ WorkTypes
  BY AutomationTypes DEF AutomationInv
<1>2. Drop(w) /\ UNCHANGED <<jobVars, outside, history, runs>>
  BY DEF Throw, Crash, Drop
<1>3. ticks' \in Seq(Claims) /\ Len(ticks) <= Len(ticks')
  BY <1>1, <1>2, SequenceDomain DEF history, BookTypes
<1>4. /\ BookTypes' /\ OthersStay(w) /\ phase'[w] \in {"ended", "idle"}
      /\ phase'[w] = "idle" <=> tick'[w] = 0
      /\ \/ phase'[w] = "idle" /\ tick'[w] = 0
         \/ copy'[w] = copy[w] /\ tick'[w] = tick[w] /\ phase'[w] = "ended" /\ phase[w] # "polled"
  <2>1. CASE Throw(w)
    <3>1. /\ phase[w] \in Dispatching \ {"ended"} /\ phase' = [phase EXCEPT ![w] = "ended"]
          /\ UNCHANGED <<copy, tick>> /\ ticks' = ticks
      BY <1>2, <2>1 DEF Throw, Goto, history
    <3>2. tick[w] # 0 /\ phase[w] # "polled"
      BY <3>1 DEF Dispatching, AutomationInv, Shapes, Shape
    <3>3. BookTypes' /\ OthersStay(w) /\ phase'[w] = "ended"
      BY <1>1, <3>1 DEF BookTypes, OthersStay, Phases, Dispatching
    <3> QED
      BY <3>1, <3>2, <3>3
  <2>2. CASE Crash(w)
    <3>1. BookTypes' /\ OthersStay(w) /\ phase'[w] = "idle" /\ tick'[w] = 0
      BY <1>1, <1>3, <2>2, Leaves DEF Crash
    <3> QED
      BY <3>1
  <2> QED
    BY <2>1, <2>2
<1>5. WorkTypes' /\ Shapes' /\ QueuesApart' /\ ActionsKnown' /\ OneActionAtATime'
  BY <1>1, <1>2, <1>4, Drops DEF AutomationInv
<1>6. JobTypes'
  BY <1>1, <1>2 DEF JobTypes, jobVars, outside, history
<1>7. AutomationTypeOK'
  BY <1>4, <1>5, <1>6, TypesNext
<1>8. TicksStay
  <2>1. \A t : HasFailure(t)' <=> HasFailure(t)
    BY <1>2 DEF HasFailure
  <2>2. \A v \in Workers \ {w} : phase'[v] = phase[v] /\ tick'[v] = tick[v] /\ copy'[v] = copy[v]
    BY <1>4 DEF OthersStay
  <2> QED
    BY <1>2, <1>4, <2>1, <2>2 DEF TicksStay, jobVars, history
<1>9. TicksApart' /\ DueInTurn' /\ OneTickPerDueTime' /\ BreakerAgrees'
  BY <1>2, <1>8, TicksStayed, BreakerStays DEF jobVars, history
<1> QED
  BY <1>5, <1>7, <1>9 DEF AutomationInv

\* Executions, workers and ticks stay; JobTypes and the breaker are to be shown.
LEMMA OthersKeep ==
  ASSUME AutomationInv, JobTypes', BreakerAgrees',
         UNCHANGED <<kind, workVars, ticks, runs>>, job'.next = job.next,
         acting' = acting \/ Land
  PROVE  AutomationInv'
<1>1. JobTypes /\ BookTypes /\ WorkTypes
  BY AutomationTypes DEF AutomationInv
<1>2. UNCHANGED <<phase, copy, tick, todo, queue, plan, step, ticks, runs, kind>>
  BY DEF workVars
<1>3. acting' \subseteq acting
  BY DEF Land
<1>4. AutomationTypeOK'
  BY <1>1, <1>2, <1>3, TypesNext DEF BookTypes, WorkTypes
<1>5. Shapes' /\ TicksApart'
  BY <1>2 DEF AutomationInv, Shapes, Shape, Stepping, TicksApart
<1>6. QueuesApart'
  BY <1>2 DEF AutomationInv, QueuesApart, Queued
<1>7. ActionsKnown' /\ OneActionAtATime'
  BY <1>2, <1>3 DEF AutomationInv, ActionsKnown, OneActionAtATime, Action, Current
<1>8. DueInTurn' /\ OneTickPerDueTime'
  BY <1>2 DEF AutomationInv, DueInTurn, OneTickPerDueTime
<1> QED
  BY <1>4, <1>5, <1>6, <1>7, <1>8 DEF AutomationInv

LEMMA RestStays ==
  ASSUME UNCHANGED <<kind, workVars, ticks, runs, disturbed>>, job'.next = job.next,
         job'.failures = job.failures, job'.exists => job.exists
  PROVE  TicksStay
BY DEF TicksStay, HasFailure, workVars

LEMMA LandKeeps ==
  ASSUME AutomationInv, Land
  PROVE  AutomationInv'
<1>1. UNCHANGED <<jobVars, outside, history, workVars, runs>>
  BY DEF Land
<1>2. UNCHANGED <<kind, job, now, date, rule, changes, ticks, wanted, disturbed>>
  BY <1>1 DEF jobVars, outside, history
<1>3. JobTypes'
  BY <1>2, AutomationTypes DEF AutomationInv, JobTypes
<1>4. BreakerAgrees'
  BY <1>1, <1>2, RestStays, BreakerStays
<1> QED
  BY <1>1, <1>2, <1>3, <1>4, OthersKeep

LEMMA TockKeeps ==
  ASSUME AutomationInv, Tock
  PROVE  AutomationInv'
<1>1. /\ now < MaxTime /\ now' = now + 1
      /\ UNCHANGED <<kind, job, workVars, ticks, wanted, disturbed, runs, acting, date, rule, changes>>
  BY DEF Tock, jobVars, history
<1>2. JobTypes'
  BY <1>1, AutomationTypes, AutomationAssumption DEF AutomationInv, JobTypes, AutomationAssumption
<1>3. BreakerAgrees'
  BY <1>1, RestStays, BreakerStays
<1> QED
  BY <1>1, <1>2, <1>3, OthersKeep

\* A member switches the job: to what he wanted, if no poll is under way.
LEMMA ToggleKeeps ==
  ASSUME AutomationInv, ToggleJob
  PROVE  AutomationInv'
<1>1. /\ job.exists /\ job' = [job EXCEPT !.active = ~job.active] /\ wanted' = ~job.active
      /\ disturbed' = (disturbed \/ \E w \in Workers : InTick(w))
      /\ UNCHANGED <<date, rule, now, kind, workVars, ticks, runs, acting>>
      /\ changes < MaxChanges /\ changes' = changes + 1
  BY DEF ToggleJob, Change
<1>2. JobTypes
  BY AutomationTypes DEF AutomationInv
<1>3. /\ job' \in Jobs /\ job'.exists = job.exists /\ job'.next = job.next
      /\ job'.failures = job.failures /\ job'.active = ~job.active
  BY <1>1, <1>2 DEF JobTypes, Jobs
<1>4. JobTypes'
  BY <1>1, <1>2, <1>3, AutomationAssumption DEF JobTypes, AutomationAssumption
<1>5. BreakerAgrees'
  <2> SUFFICES ASSUME ~disturbed' PROVE BreakerAgrees'
    BY DEF BreakerAgrees
  <2>1. ~disturbed /\ \A w \in Workers : ~InTick(w)
    BY <1>1
  <2>2. job.failures = Cardinality(Streak)
    BY <1>1, <2>1 DEF AutomationInv, BreakerAgrees
  <2>3. \A w \in Workers : ~InTick(w)'
    BY <1>1, <2>1 DEF InTick, workVars
  <2>4. Streak' = Streak
    BY <1>1 DEF Streak, TickFailed, HasFailure
  <2> QED
    BY <1>1, <1>3, <2>2, <2>3, <2>4, BreakerTold
<1> QED
  BY <1>1, <1>3, <1>4, <1>5, OthersKeep

\* Nobody switches the job: it is deleted, or its rule, or what it runs for changes.
LEMMA ChangeKeeps ==
  ASSUME AutomationInv, Change, job' \in Jobs, job'.exists => job.exists,
         job'.next = job.next, job'.failures = job.failures, job'.active = job.active,
         date' \in Times \cup {Never, Gone},
         rule' \in [Rules -> {"enabled", "disabled", "deleted"}], UNCHANGED <<wanted, disturbed>>
  PROVE  AutomationInv'
<1>1. /\ changes < MaxChanges /\ changes' = changes + 1
      /\ UNCHANGED <<now, kind, workVars, ticks, runs, acting>>
  BY DEF Change
<1>2. JobTypes'
  BY <1>1, AutomationTypes, AutomationAssumption DEF AutomationInv, JobTypes, AutomationAssumption
<1>3. BreakerAgrees'
  BY <1>1, RestStays, BreakerStays
<1> QED
  BY <1>1, <1>2, <1>3, OthersKeep

LEMMA MembersKeep ==
  ASSUME AutomationInv, Members
  PROVE  AutomationInv'
<1>1. /\ job \in Jobs /\ rule \in [Rules -> {"enabled", "disabled", "deleted"}]
      /\ date \in Times \cup {Never, Gone} /\ MaxTime \in Times
  BY AutomationTypes, AutomationAssumption DEF AutomationInv, JobTypes, Times, AutomationAssumption
<1>2. CASE ToggleJob
  BY <1>2, ToggleKeeps
<1>3. CASE DeleteJob
  <2>1. /\ job' = [job EXCEPT !.exists = FALSE] /\ job.exists
        /\ UNCHANGED <<date, rule, wanted, disturbed>> /\ Change
    BY <1>3 DEF DeleteJob
  <2>2. /\ job' \in Jobs /\ job'.next = job.next /\ job'.failures = job.failures
        /\ job'.active = job.active
    BY <1>1, <2>1 DEF Jobs
  <2> QED
    BY <1>1, <2>1, <2>2, ChangeKeeps
<1>4. CASE MoveEntity
  <2>1. /\ date' \in Times \cup {Never, Gone}
        /\ UNCHANGED <<job, rule, wanted, disturbed>> /\ Change
    BY <1>1, <1>4 DEF MoveEntity
  <2> QED
    BY <1>1, <2>1, ChangeKeeps
<1>5. ASSUME NEW r \in Rules, ToggleRule(r)
      PROVE  AutomationInv'
  <2>1. /\ rule' = [rule EXCEPT ![r] = IF @ = "enabled" THEN "disabled" ELSE "enabled"]
        /\ UNCHANGED <<date, job, wanted, disturbed>> /\ Change
    BY <1>5 DEF ToggleRule
  <2>2. rule' \in [Rules -> {"enabled", "disabled", "deleted"}]
    BY <1>1, <2>1
  <2> QED
    BY <1>1, <2>1, <2>2, ChangeKeeps
<1>6. ASSUME NEW r \in Rules, DeleteRule(r)
      PROVE  AutomationInv'
  <2> DEFINE e == job.exists /\ r # Owner
  <2>1. /\ rule' = [rule EXCEPT ![r] = "deleted"]
        /\ job' = [job EXCEPT !.exists = e]
        /\ UNCHANGED <<date, wanted, disturbed>> /\ Change
    BY <1>6 DEF DeleteRule
  <2>2. rule' \in [Rules -> {"enabled", "disabled", "deleted"}]
    BY <1>1, <2>1
  <2>3. e \in BOOLEAN /\ (e => job.exists)
    OBVIOUS
  <2> HIDE DEF e
  <2>4. /\ job' \in Jobs /\ job'.next = job.next /\ job'.failures = job.failures
        /\ job'.active = job.active /\ job'.exists = e
    BY <1>1, <2>1, <2>3 DEF Jobs
  <2> QED
    BY <1>1, <2>1, <2>2, <2>3, <2>4, ChangeKeeps
<1> QED
  BY <1>2, <1>3, <1>4, <1>5, <1>6 DEF Members

-----------------------------------------------------------------------------
(* The specification. *)

LEMMA AutomationInductive == AutomationSpec => []AutomationInv
<1>1. AutomationInit => AutomationInv
  <2> SUFFICES ASSUME AutomationInit PROVE AutomationInv
    OBVIOUS
  <2>1. ticks = <<>> /\ DOMAIN ticks = {} /\ runs = <<>> /\ acting = {} /\ Len(ticks) = 0
    BY EmptySeq DEF AutomationInit
  <2>2. JobTypes
    <3>1. MaxTime \in Nat /\ MaxChanges \in Nat
      BY AutomationAssumption DEF AutomationAssumption
    <3>2. date \in Times \cup {Never, Gone}
      BY <3>1 DEF AutomationInit, Times
    <3>3. NextRun(0) = 1
      <4>1. kind # "INTERVAL" => date = 1
        BY DEF AutomationInit
      <4> QED
        BY <4>1 DEF NextRun
    <3>4. 1 \in Times
      BY <3>1 DEF Times
    <3>5. job = [exists |-> TRUE, active |-> TRUE, next |-> 1, failures |-> 0]
      BY <3>3 DEF AutomationInit
    <3>6. job \in Jobs
      BY <3>4, <3>5 DEF Jobs
    <3>7. rule \in [Rules -> {"enabled", "disabled", "deleted"}]
      BY DEF AutomationInit
    <3>8. now \in 0..MaxTime /\ changes \in 0..MaxChanges
      BY <3>1 DEF AutomationInit
    <3> QED
      BY <3>2, <3>6, <3>7, <3>8 DEF AutomationInit, JobTypes
  <2>3. BookTypes
    BY <2>1, EmptySeq, AutomationAssumption
       DEF AutomationInit, BookTypes, Phases, Copies, NoCopy, Times, AutomationAssumption
  <2>4. WorkTypes
    BY <2>1, EmptySeq, AutomationAssumption
       DEF AutomationInit, WorkTypes, Plans, NoPlan, AutomationAssumption
  <2>5. AutomationTypeOK
    BY <2>2, <2>3, <2>4, AutomationTypes
  <2>6. \A w \in Workers : phase[w] = "idle" /\ tick[w] = 0 /\ queue[w] = <<>>
    BY DEF AutomationInit
  <2>7. Shapes /\ TicksApart
    BY <2>6 DEF Shapes, Shape, Stepping, TicksApart
  <2>8. QueuesApart
    BY <2>6, EmptySeq DEF QueuesApart, Queued
  <2>9. ActionsKnown /\ OneActionAtATime
    BY <2>1 DEF ActionsKnown, OneActionAtATime
  <2>10. DueInTurn /\ OneTickPerDueTime
    BY <2>1, <2>6 DEF DueInTurn, OneTickPerDueTime
  <2>11. BreakerAgrees
    <3>1. \A w \in Workers : ~InTick(w)
      BY <2>6 DEF InTick
    <3>2. Streak = {}
      BY <2>1 DEF Streak
    <3>3. job.failures = 0 /\ wanted /\ job.active
      BY DEF AutomationInit
    <3> QED
      BY <3>1, <3>2, <3>3, FS_EmptySet DEF BreakerAgrees, TickAlone
  <2> QED
    BY <2>5, <2>7, <2>8, <2>9, <2>10, <2>11 DEF AutomationInv
<1>2. AutomationInv /\ [AutomationNext]_automationVars => AutomationInv'
  <2> SUFFICES ASSUME AutomationInv, [AutomationNext]_automationVars PROVE AutomationInv'
    OBVIOUS
  <2>1. ASSUME NEW w \in Workers, Schedule(w) \/ Execute(w) \/ Throw(w) \/ Crash(w)
        PROVE  AutomationInv'
    <3>1. ASSUME Execute(w)
          PROVE  AutomationInv'
      <4>1. Worked(w)
        BY <3>1, ExecuteWorks, AutomationTypes DEF AutomationInv
      <4> QED
        BY <4>1, WorkKeeps
    <3> QED
      BY <2>1, <3>1, ScheduleKeeps, DropKeeps
  <2>2. CASE UNCHANGED automationVars
    <3>1. UNCHANGED <<kind, job, workVars, ticks, wanted, disturbed, now, date, rule, changes, runs, acting>>
      BY <2>2 DEF automationVars, jobVars, history, outside
    <3>2. JobTypes'
      BY <3>1, AutomationTypes DEF AutomationInv, JobTypes
    <3>3. BreakerAgrees'
      BY <3>1, RestStays, BreakerStays
    <3> QED
      BY <3>1, <3>2, <3>3, OthersKeep
  <2> QED
    BY <2>1, <2>2, LandKeeps, TockKeeps, MembersKeep DEF AutomationNext
<1> QED
  BY <1>1, <1>2, PTL DEF AutomationSpec

\* Jobs, executions, claims and what the workers hold have their types
\* (automationScheduleService, automationEngineService).
THEOREM AutomationTyped == AutomationSpec => []AutomationTypeOK
<1>1. AutomationInv => AutomationTypeOK
  BY DEF AutomationInv
<1> QED
  BY <1>1, AutomationInductive, PTL

\* The lease of pollAndDispatchDueScheduleJobs, a conditional update on the time the job
\* was polled with, gives a due time of a job at an interval to one claim, for any
\* workers that poll, crash and throw, and whatever members switch meanwhile.
THEOREM DueTimesOnce == AutomationSpec => []OneTickPerDueTime
<1>1. AutomationInv => OneTickPerDueTime
  BY DEF AutomationInv
<1> QED
  BY <1>1, AutomationInductive, PTL

\* executeAutomationPipeline has one action of an execution under way at a time, although
\* executeWithTimeout leaves the one that it gives up on running.
THEOREM ActionsInTurn == AutomationSpec => []OneActionAtATime
<1>1. AutomationInv => OneActionAtATime
  BY DEF AutomationInv
<1> QED
  BY <1>1, AutomationInductive, PTL

\* Between undisturbed polls the consecutive failures of a job are those of its last
\* ticks, and its breaker is open for them or because a member switched it.
THEOREM BreakerExact == AutomationSpec => []BreakerIsExact
<1>1. AutomationInv => BreakerIsExact
  BY DEF AutomationInv, BreakerAgrees, BreakerIsExact
<1> QED
  BY <1>1, AutomationInductive, PTL
=============================================================================
