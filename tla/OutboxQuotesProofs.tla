-------------------------- MODULE OutboxQuotesProofs --------------------------
(***************************************************************************)
(* Outbox: an event has a row exactly when an operation that emits it      *)
(* committed, and a notification more than one only where the sweep        *)
(* returned the row, for any number of events, callers, workers, crashes   *)
(* and sweeps.  The second argument counts: a claim takes a PENDING row    *)
(* away and becomes at most one notification, so what was sent, what is    *)
(* held and what waits never exceed the rows ever made PENDING.            *)
(*                                                                         *)
(* Quotes: header and lines of a quote and of its invoice agree to the     *)
(* cent, what was sent stands, and a quote becomes one order, for any      *)
(* lines, prices, rates and discounts and any number of edits.  First what *)
(* sums of functions over finite sets are, by induction over the subsets   *)
(* of the set; then what the calculation engines return; then that a call  *)
(* without another beside it writes what it computed of lines still there. *)
(***************************************************************************)
EXTENDS Outbox, Quotes, FiniteSetTheorems, WellFoundedInduction, TLAPS

(* The outbox. *)

\* A caller inside its transaction has an event; the row it found exists, the
\* one it created is its alone and not committed.
CallersKnow ==
  \A c \in Callers :
    /\ stage[c] # "idle" => event[c] \in Events
    /\ stage[c] = "found" => status[event[c]] # "ABSENT"
    /\ stage[c] = "created" => status[event[c]] = "ABSENT"
    /\ \A d \in Callers : stage[c] = "created" /\ stage[d] = "created"
                          /\ event[c] = event[d] => c = d

\* Rows that workers or the sweep have in hand exist.
InHandExist ==
  \A e \in Events :
    status[e] = "ABSENT" =>
      e \notin old /\ swept[e] = None /\ \A w \in Workers : e \notin batch[w]

Holders(e) == {w \in Workers : e \in batch[w]}

Waiting(e) == IF status[e] \in {"ABSENT", "PENDING"} THEN 1 ELSE 0

\* Sent, held and waiting never exceed the rows made PENDING.
ClaimsAreBudgeted ==
  \A e \in Events :
    /\ IsFiniteSet(Holders(e))
    /\ notifications[e] + Cardinality(Holders(e)) + Waiting(e) <= 1 + recoveries[e]

IInv == /\ TypeOK /\ RowIffCommitted /\ CallersKnow /\ InHandExist /\ ClaimsAreBudgeted

\* With no row, nobody in a transaction and nothing claimed.
LEMMA InitIInv ==
  ASSUME Init
  PROVE  IInv
<1> USE OutboxAssumption
<1>1. TypeOK
  BY DEF Init, TypeOK, Statuses, Stages
<1>2. RowIffCommitted /\ CallersKnow /\ InHandExist
  BY DEF Init, RowIffCommitted, CallersKnow, InHandExist
<1>3. ClaimsAreBudgeted
  <2> SUFFICES ASSUME NEW e \in Events
               PROVE  /\ IsFiniteSet(Holders(e))
                      /\ notifications[e] + Cardinality(Holders(e)) + Waiting(e)
                           <= 1 + recoveries[e]
    BY DEF ClaimsAreBudgeted
  <2>1. Holders(e) = {}
    BY DEF Init, Holders
  <2> QED BY <2>1, FS_EmptySet DEF Init, Waiting
<1> QED BY <1>1, <1>2, <1>3 DEF IInv

\* The budget of an event depends on its own row and on who holds it.
LEMMA BudgetUnchanged ==
  ASSUME ClaimsAreBudgeted, UNCHANGED <<notifications, recoveries, batch>>,
         \A e \in Events : Waiting(e)' = Waiting(e)
  PROVE  ClaimsAreBudgeted'
BY DEF ClaimsAreBudgeted, Holders

\* A worker more or less in the set of holders.
LEMMA HoldersGrow ==
  ASSUME NEW w \in Workers, NEW e \in Events, IsFiniteSet(Holders(e)), e \notin batch[w],
         e \in batch'[w], \A v \in Workers \ {w} : batch'[v] = batch[v]
  PROVE  /\ IsFiniteSet(Holders(e)')
         /\ Cardinality(Holders(e)') = Cardinality(Holders(e)) + 1
         /\ Cardinality(Holders(e)) \in Nat
<1>1. Holders(e)' = Holders(e) \cup {w} /\ w \notin Holders(e)
  BY DEF Holders
<1> QED BY <1>1, FS_AddElement, FS_CardinalityType

LEMMA HoldersShrink ==
  ASSUME NEW w \in Workers, NEW e \in Events, IsFiniteSet(Holders(e)), e \in batch[w],
         e \notin batch'[w], \A v \in Workers \ {w} : batch'[v] = batch[v]
  PROVE  /\ IsFiniteSet(Holders(e)')
         /\ Cardinality(Holders(e)') = Cardinality(Holders(e)) - 1
         /\ Cardinality(Holders(e)) \in Nat
<1>1. Holders(e)' = Holders(e) \ {w} /\ w \in Holders(e)
  BY DEF Holders
<1> QED BY <1>1, FS_RemoveElement, FS_CardinalityType

LEMMA HoldersKept ==
  ASSUME NEW w \in Workers, NEW e \in Events, IsFiniteSet(Holders(e)),
         e \in batch'[w] <=> e \in batch[w], \A v \in Workers \ {w} : batch'[v] = batch[v]
  PROVE  Holders(e)' = Holders(e) /\ Cardinality(Holders(e)) \in Nat
<1>1. Holders(e)' = Holders(e)
  BY DEF Holders
<1> QED BY <1>1, FS_CardinalityType

-----------------------------------------------------------------------------
(* The callers. *)

\* The steps of a transaction before it commits touch only its caller.
LEMMA BeforeCommitKeepsIInv ==
  ASSUME IInv, NEW c \in Callers,
         FindExisting(c) \/ Create(c) \/ RollBack(c) \/ \E e \in Events : Change(c, e)
  PROVE  IInv'
<1> USE DEF IInv
<1>0. UNCHANGED <<rowVars, changes, workerVars, sweepVars>>
  BY DEF FindExisting, Create, RollBack, Change
<1>1. TypeOK'
  BY <1>0 DEF FindExisting, Create, RollBack, Change, To, TypeOK, Stages,
              rowVars, workerVars, sweepVars
<1>2. RowIffCommitted' /\ InHandExist'
  BY <1>0 DEF RowIffCommitted, InHandExist, rowVars, workerVars, sweepVars
<1>3. CallersKnow'
  <2>1. CASE FindExisting(c)
    BY <1>0, <2>1 DEF FindExisting, To, CallersKnow, TypeOK, rowVars
  <2>2. CASE Create(c)
    BY <1>0, <2>2 DEF Create, To, CallersKnow, TypeOK, rowVars
  <2>3. CASE RollBack(c)
    BY <1>0, <2>3 DEF RollBack, To, CallersKnow, TypeOK, rowVars
  <2>4. CASE \E e \in Events : Change(c, e)
    BY <1>0, <2>4 DEF Change, To, CallersKnow, TypeOK, rowVars
  <2> QED BY <2>1, <2>2, <2>3, <2>4
<1>4. ClaimsAreBudgeted'
  BY <1>0, BudgetUnchanged DEF Waiting, rowVars, workerVars, sweepVars
<1> QED BY <1>1, <1>2, <1>3, <1>4

\* A commit makes row and change visible together; nobody else has created
\* the row.
LEMMA CommitChangeKeepsIInv ==
  ASSUME IInv, NEW c \in Callers, CommitChange(c)
  PROVE  IInv'
<1> USE DEF IInv
<1> DEFINE e == event[c]
<1>0. /\ e \in Events
      /\ UNCHANGED <<attempts, old, batch, notifications, crashes, swept, recoveries>>
      /\ changes' = [changes EXCEPT ![e] = @ + 1] /\ changes[e] < MaxChanges
      /\ stage' = [stage EXCEPT ![c] = "idle"]
      /\ event' = [event EXCEPT ![c] = None]
  BY DEF CommitChange, To, CallersKnow, workerVars, sweepVars
<1>s. \/ stage[c] = "created" /\ status' = [status EXCEPT ![e] = "PENDING"]
      \/ stage[c] = "found" /\ status' = status
  BY DEF CommitChange
<1>1. TypeOK'
  BY OutboxAssumption, <1>0, <1>s DEF TypeOK, Stages, Statuses
<1>2. RowIffCommitted'
  BY <1>0, <1>s DEF RowIffCommitted, CallersKnow, TypeOK
<1>3. CallersKnow'
  BY <1>0, <1>s DEF CallersKnow, TypeOK
<1>4. InHandExist'
  BY <1>0, <1>s DEF InHandExist, TypeOK
<1>5. ClaimsAreBudgeted'
  BY <1>0, <1>s, BudgetUnchanged DEF Waiting, CallersKnow, TypeOK
<1> QED BY <1>1, <1>2, <1>3, <1>4, <1>5

-----------------------------------------------------------------------------
(* The workers. *)

\* What a worker writes to existing rows leaves the callers' knowledge true.
LEMMA RowsStayPut ==
  ASSUME RowIffCommitted, CallersKnow,
         UNCHANGED <<stage, event, changes>>,
         \A e \in Events : status'[e] = "ABSENT" <=> status[e] = "ABSENT"
  PROVE  RowIffCommitted' /\ CallersKnow'
BY DEF RowIffCommitted, CallersKnow

\* A claim turns waiting rows into held ones, one for one.
LEMMA ClaimKeepsIInv ==
  ASSUME IInv, NEW w \in Workers, Claim(w)
  PROVE  IInv'
<1> USE DEF IInv
<1>0. PICK rows \in SUBSET {e \in Events : status[e] = "PENDING"} :
        /\ batch' = [batch EXCEPT ![w] = rows]
        /\ status' = [e \in Events |-> IF e \in rows THEN "PROCESSING" ELSE status[e]]
  BY DEF Claim
<1>f. /\ batch[w] = {}
      /\ UNCHANGED <<attempts, old, stage, event, changes, notifications, crashes,
                     swept, recoveries>>
  BY DEF Claim, callerVars, sweepVars
<1>1. TypeOK'
  BY <1>0, <1>f DEF TypeOK, Statuses
<1>2. RowIffCommitted' /\ CallersKnow'
  <2>1. \A e \in Events : status'[e] = "ABSENT" <=> status[e] = "ABSENT"
    BY <1>0
  <2> QED BY <2>1, <1>f, RowsStayPut
<1>3. InHandExist'
  BY <1>0, <1>f DEF InHandExist, TypeOK
<1>4. ClaimsAreBudgeted'
  <2> SUFFICES ASSUME NEW e \in Events
               PROVE  /\ IsFiniteSet(Holders(e)')
                      /\ notifications[e] + Cardinality(Holders(e)') + Waiting(e)'
                           <= 1 + recoveries[e]
    BY <1>f DEF ClaimsAreBudgeted
  <2>1. /\ IsFiniteSet(Holders(e))
        /\ notifications[e] + Cardinality(Holders(e)) + Waiting(e) <= 1 + recoveries[e]
        /\ notifications[e] \in Nat /\ recoveries[e] \in Nat
    BY DEF ClaimsAreBudgeted, TypeOK
  <2>2. \A v \in Workers \ {w} : batch'[v] = batch[v]
    BY <1>0 DEF TypeOK
  <2>3. batch'[w] = rows
    BY <1>0 DEF TypeOK
  <2>4. CASE e \in rows
    <3>1. Waiting(e) = 1 /\ Waiting(e)' = 0
      BY <1>0, <2>4 DEF Waiting
    <3>2. /\ IsFiniteSet(Holders(e)')
          /\ Cardinality(Holders(e)') = Cardinality(Holders(e)) + 1
          /\ Cardinality(Holders(e)) \in Nat
      BY <1>f, <2>1, <2>2, <2>3, <2>4, HoldersGrow
    <3> QED BY <2>1, <3>1, <3>2
  <2>5. CASE e \notin rows
    <3>1. Waiting(e)' = Waiting(e)
      BY <1>0, <2>5 DEF Waiting
    <3>2. Holders(e)' = Holders(e)
      BY <1>f, <2>1, <2>2, <2>3, <2>5, HoldersKept
    <3> QED BY <2>1, <3>1, <3>2
  <2> QED BY <2>4, <2>5
<1> QED BY <1>1, <1>2, <1>3, <1>4

\* A worker that lets go of rows leaves the rest of the budget as it is.
LEMMA LetGoKeepsBudget ==
  ASSUME TypeOK, ClaimsAreBudgeted, NEW w \in Workers, NEW gone \in SUBSET Events,
         batch' = [batch EXCEPT ![w] = @ \ gone],
         \A e \in Events : /\ notifications'[e] \in Nat
                           /\ recoveries'[e] = recoveries[e]
                           /\ Waiting(e)' \in {0, Waiting(e)}
                           /\ \/ notifications'[e] = notifications[e]
                              \/ /\ notifications'[e] = notifications[e] + 1
                                 /\ e \in gone /\ e \in batch[w]
  PROVE  ClaimsAreBudgeted'
<1> SUFFICES ASSUME NEW e \in Events
             PROVE  /\ IsFiniteSet(Holders(e)')
                    /\ notifications'[e] + Cardinality(Holders(e)') + Waiting(e)'
                         <= 1 + recoveries'[e]
  BY DEF ClaimsAreBudgeted
<1>1. /\ IsFiniteSet(Holders(e))
      /\ notifications[e] + Cardinality(Holders(e)) + Waiting(e) <= 1 + recoveries[e]
      /\ notifications[e] \in Nat /\ recoveries[e] \in Nat
      /\ Waiting(e) \in {0, 1}
  BY DEF ClaimsAreBudgeted, TypeOK, Waiting
<1>2. \A v \in Workers \ {w} : batch'[v] = batch[v]
  BY DEF TypeOK
<1>3. batch'[w] = batch[w] \ gone
  BY DEF TypeOK
<1>4. CASE e \in gone /\ e \in batch[w]
  <2>1. /\ IsFiniteSet(Holders(e)')
        /\ Cardinality(Holders(e)') = Cardinality(Holders(e)) - 1
        /\ Cardinality(Holders(e)) \in Nat
    BY <1>1, <1>2, <1>3, <1>4, HoldersShrink
  <2>2. Cardinality(Holders(e)') \in Nat
    BY <2>1, FS_CardinalityType
  <2> QED BY <1>1, <2>1, <2>2
<1>5. CASE ~(e \in gone /\ e \in batch[w])
  <2>1. Holders(e)' = Holders(e) /\ Cardinality(Holders(e)) \in Nat
    BY <1>1, <1>2, <1>3, <1>5, HoldersKept
  <2>2. notifications'[e] = notifications[e]
    BY <1>5
  <2> QED BY <1>1, <2>1, <2>2
<1> QED BY <1>4, <1>5

\* An outcome for a claimed row, a lost one and a crash.
LEMMA OutcomeKeepsIInv ==
  ASSUME IInv, NEW w \in Workers, NEW e \in Events,
         FanOut(w, e) \/ FailFanOut(w, e) \/ LoseFailure(w, e)
  PROVE  IInv'
<1> USE DEF IInv
<1>0. /\ e \in batch[w] /\ status[e] # "ABSENT"
      /\ batch' = [batch EXCEPT ![w] = @ \ {e}]
      /\ UNCHANGED <<old, stage, event, changes, swept, recoveries>>
  BY DEF FanOut, FailFanOut, LoseFailure, Finished, InHandExist, callerVars, sweepVars, rowVars
<1>s. \/ status' = status
      \/ status' = [status EXCEPT ![e] = "PROCESSED"]
      \/ status' = [status EXCEPT ![e] = "FAILED"]
  BY DEF FanOut, FailFanOut, LoseFailure, rowVars
<1>n. \/ notifications' = notifications
      \/ notifications' = [notifications EXCEPT ![e] = @ + 1]
  BY DEF FanOut, FailFanOut, LoseFailure
<1>1. TypeOK'
  BY OutboxAssumption, <1>0, <1>s, <1>n
  DEF FanOut, FailFanOut, LoseFailure, TypeOK, Statuses, rowVars
<1>2. RowIffCommitted' /\ CallersKnow'
  <2>1. \A d \in Events : status'[d] = "ABSENT" <=> status[d] = "ABSENT"
    BY <1>0, <1>s DEF TypeOK
  <2> QED BY <2>1, <1>0, RowsStayPut
<1>3. InHandExist'
  BY <1>0, <1>s DEF InHandExist, TypeOK
<1>4. ClaimsAreBudgeted'
  <2>1. ASSUME NEW d \in Events
        PROVE  /\ notifications'[d] \in Nat
               /\ recoveries'[d] = recoveries[d]
               /\ Waiting(d)' \in {0, Waiting(d)}
               /\ \/ notifications'[d] = notifications[d]
                  \/ /\ notifications'[d] = notifications[d] + 1
                     /\ d \in {e} /\ d \in batch[w]
    BY <1>0, <1>s, <1>n DEF Waiting, TypeOK
  <2> QED BY <1>0, <2>1, LetGoKeepsBudget
<1> QED BY <1>1, <1>2, <1>3, <1>4

LEMMA CrashWorkerKeepsIInv ==
  ASSUME IInv, NEW w \in Workers, CrashWorker(w)
  PROVE  IInv'
<1> USE DEF IInv
<1>0. UNCHANGED <<status, attempts, old, stage, event, changes, notifications,
                  swept, recoveries>>
  BY DEF CrashWorker, rowVars, callerVars, sweepVars
<1>1. TypeOK'
  BY OutboxAssumption, <1>0 DEF CrashWorker, TypeOK
<1>2. RowIffCommitted' /\ CallersKnow'
  BY <1>0, RowsStayPut
<1>3. InHandExist'
  BY <1>0 DEF CrashWorker, InHandExist, TypeOK
<1>4. ClaimsAreBudgeted'
  <2>1. batch' = [batch EXCEPT ![w] = @ \ Events]
    BY DEF CrashWorker, TypeOK
  <2>2. \A d \in Events : /\ notifications'[d] \in Nat
                          /\ recoveries'[d] = recoveries[d]
                          /\ Waiting(d)' \in {0, Waiting(d)}
                          /\ notifications'[d] = notifications[d]
    BY <1>0 DEF Waiting, TypeOK
  <2> QED BY <2>1, <2>2, LetGoKeepsBudget
<1> QED BY <1>1, <1>2, <1>3, <1>4

-----------------------------------------------------------------------------
(* The sweep and the clock. *)

LEMMA FindStuckKeepsIInv ==
  ASSUME IInv, FindStuck
  PROVE  IInv'
<1> USE DEF IInv
<1>0. UNCHANGED <<status, attempts, old, stage, event, changes, batch, notifications,
                  crashes, recoveries>>
  BY DEF FindStuck, rowVars, callerVars, workerVars
<1>1. TypeOK'
  BY <1>0 DEF FindStuck, TypeOK
<1>2. RowIffCommitted' /\ CallersKnow'
  BY <1>0, RowsStayPut
<1>3. InHandExist'
  BY <1>0 DEF FindStuck, InHandExist
<1>4. ClaimsAreBudgeted'
  BY <1>0, BudgetUnchanged DEF Waiting
<1> QED BY <1>1, <1>2, <1>3, <1>4

\* A row returned to PENDING brings its own allowance.
LEMMA RecoverKeepsIInv ==
  ASSUME IInv, NEW e \in Events, Recover(e)
  PROVE  IInv'
<1> USE DEF IInv
<1>0. /\ swept[e] # None /\ status[e] # "ABSENT"
      /\ swept' = [swept EXCEPT ![e] = None]
      /\ UNCHANGED <<attempts, old, stage, event, changes, batch, notifications, crashes>>
  BY DEF Recover, InHandExist, callerVars, workerVars
<1>s. \/ /\ status' = [status EXCEPT ![e] = "PENDING"]
         /\ recoveries' = [recoveries EXCEPT ![e] = @ + 1]
      \/ /\ status' = [status EXCEPT ![e] = "FAILED"]
         /\ recoveries' = recoveries
  BY DEF Recover
<1>1. TypeOK'
  BY <1>0, <1>s DEF TypeOK, Statuses
<1>2. RowIffCommitted' /\ CallersKnow'
  <2>1. \A d \in Events : status'[d] = "ABSENT" <=> status[d] = "ABSENT"
    BY <1>0, <1>s DEF TypeOK
  <2> QED BY <2>1, <1>0, RowsStayPut
<1>3. InHandExist'
  BY <1>0, <1>s DEF InHandExist, TypeOK
<1>4. ClaimsAreBudgeted'
  <2> SUFFICES ASSUME NEW d \in Events
               PROVE  /\ IsFiniteSet(Holders(d)')
                      /\ notifications'[d] + Cardinality(Holders(d)') + Waiting(d)'
                           <= 1 + recoveries'[d]
    BY DEF ClaimsAreBudgeted
  <2>1. /\ IsFiniteSet(Holders(d))
        /\ notifications[d] + Cardinality(Holders(d)) + Waiting(d) <= 1 + recoveries[d]
        /\ notifications[d] \in Nat /\ recoveries[d] \in Nat
        /\ notifications'[d] = notifications[d]
    BY <1>0 DEF ClaimsAreBudgeted, TypeOK
  <2>2. Holders(d)' = Holders(d) /\ Cardinality(Holders(d)) \in Nat
    BY <1>0, <2>1, FS_CardinalityType DEF Holders
  <2>3. /\ Waiting(d) \in {0, 1} /\ Waiting(d)' \in {0, 1}
        /\ \/ recoveries'[d] = recoveries[d] /\ Waiting(d)' \in {0, Waiting(d)}
           \/ recoveries'[d] = recoveries[d] + 1
    BY <1>s DEF Waiting, TypeOK
  <2> QED BY <2>1, <2>2, <2>3
<1> QED BY <1>1, <1>2, <1>3, <1>4

LEMMA AgeKeepsIInv ==
  ASSUME IInv, NEW e \in Events, Age(e)
  PROVE  IInv'
<1> USE DEF IInv
<1>0. UNCHANGED <<status, attempts, stage, event, changes, batch, notifications, crashes,
                  swept, recoveries>>
  BY DEF Age, callerVars, workerVars, sweepVars
<1>1. TypeOK'
  BY <1>0 DEF Age, TypeOK
<1>2. RowIffCommitted' /\ CallersKnow'
  BY <1>0, RowsStayPut
<1>3. InHandExist'
  BY <1>0 DEF Age, InHandExist
<1>4. ClaimsAreBudgeted'
  BY <1>0, BudgetUnchanged DEF Waiting
<1> QED BY <1>1, <1>2, <1>3, <1>4

-----------------------------------------------------------------------------

\* Every step keeps the invariant, and so does a step that changes nothing.
LEMMA NextKeepsIInv ==
  ASSUME IInv, [Next]_vars
  PROVE  IInv'
<1>1. ASSUME NEW c \in Callers, Emit(c) \/ RollBack(c) \/ \E e \in Events : Change(c, e)
      PROVE  IInv'
  BY <1>1, BeforeCommitKeepsIInv, CommitChangeKeepsIInv DEF Emit
<1>2. ASSUME NEW w \in Workers,
             \/ Process(w) \/ CrashWorker(w) \/ \E e \in Events : LoseFailure(w, e)
      PROVE  IInv'
  BY <1>2, ClaimKeepsIInv, OutcomeKeepsIInv, CrashWorkerKeepsIInv DEF Process
<1>3. CASE Sweep
  BY <1>3, FindStuckKeepsIInv, RecoverKeepsIInv DEF Sweep
<1>4. CASE \E e \in Events : Age(e)
  BY <1>4, AgeKeepsIInv
<1>5. CASE UNCHANGED vars
  BY <1>5 DEF vars, IInv, TypeOK, RowIffCommitted, CallersKnow, InHandExist,
              ClaimsAreBudgeted, Holders, Waiting
<1> QED BY <1>1, <1>2, <1>3, <1>4, <1>5 DEF Next

\* The inductive invariant holds of every behaviour.
THEOREM Invariance == Spec => []IInv
BY InitIInv, NextKeepsIInv, PTL DEF Spec

\* Every variable keeps its type: in particular the sweep never takes an
\* attempt back.
THEOREM TypeCorrect == Spec => []TypeOK
<1>1. IInv => TypeOK
  BY DEF IInv
<1> QED BY <1>1, Invariance, PTL

\* A row is there exactly when an operation that emits its event committed.
THEOREM RowsFollowCommits == Spec => []RowIffCommitted
<1>1. IInv => RowIffCommitted
  BY DEF IInv
<1> QED BY <1>1, Invariance, PTL

\* Notifications beyond the first are the sweep's.
THEOREM NotificationsFollowClaims == Spec => []OneNotificationPerClaim
<1>1. ASSUME IInv PROVE OneNotificationPerClaim
  <2> SUFFICES ASSUME NEW e \in Events
               PROVE  notifications[e] <= 1 + recoveries[e]
    BY DEF OneNotificationPerClaim
  <2>1. /\ IsFiniteSet(Holders(e))
        /\ notifications[e] + Cardinality(Holders(e)) + Waiting(e) <= 1 + recoveries[e]
        /\ notifications[e] \in Nat /\ recoveries[e] \in Nat /\ Waiting(e) \in {0, 1}
    BY <1>1 DEF IInv, ClaimsAreBudgeted, TypeOK, Waiting
  <2>2. Cardinality(Holders(e)) \in Nat
    BY <2>1, FS_CardinalityType
  <2> QED BY <2>1, <2>2
<1> QED BY <1>1, Invariance, PTL

-----------------------------------------------------------------------------
(* Sums over finite sets. *)

\* Induction over the subsets of a finite set S: G has S when it has every subset
\* of S whose proper subsets it has.
LEMMA SetInduction ==
  ASSUME NEW S, IsFiniteSet(S), NEW G,
         \A T \in SUBSET S : (\A U \in SUBSET T : U # T => U \in G) => T \in G
  PROVE  S \in G
<1> SUFFICES ASSUME S \notin G
             PROVE  FALSE
  OBVIOUS
<1> DEFINE Bad == {T \in SUBSET S : T \notin G}
<1>1. Bad \subseteq FiniteSubsetsOf(S) /\ Bad # {}
  BY FS_Subset DEF FiniteSubsetsOf
<1>2. PICK T \in Bad : \A U \in Bad : ~(<<U, T>> \in StrictSubsetOrdering(S))
  <2> HIDE DEF Bad
  <2> QED
  BY <1>1, FS_StrictSubsetOrderingWellFounded, WFMin
<1>3. \A U \in SUBSET T : U # T => U \in G
  BY <1>2 DEF StrictSubsetOrdering
<1> QED
  BY <1>3

\* The element the library's sums take first.
First(s) == CHOOSE x \in s : TRUE

\* g adds up the values of v over every subset of T.
Adds(g, v, T) ==
  g = [s \in SUBSET T |-> IF s = {} THEN 0 ELSE v[First(s)] + g[s \ {First(s)}]]

\* Two such functions agree on the subsets they share.
LEMMA AddsAgree ==
  ASSUME NEW S, IsFiniteSet(S), NEW v, NEW g, NEW h, NEW T \in SUBSET S, NEW U \in SUBSET S,
         Adds(g, v, T), Adds(h, v, U)
  PROVE  \A s \in SUBSET (T \cap U) : g[s] = h[s]
<1> SUFFICES ASSUME NEW s \in SUBSET (T \cap U)
             PROVE  g[s] = h[s]
  OBVIOUS
<1> DEFINE G == {r \in SUBSET (T \cap U) : g[r] = h[r]}
<1>1. IsFiniteSet(s)
  BY FS_Subset
<1>2. ASSUME NEW r \in SUBSET s, \A q \in SUBSET r : q # r => q \in G
      PROVE  r \in G
  <2>1. CASE r = {}
    BY <2>1 DEF Adds
  <2>2. CASE r # {}
    <3>1. First(r) \in r
      BY <2>2 DEF First
    <3>2. r \ {First(r)} \in G
      <4>1. r \ {First(r)} \in SUBSET r /\ r \ {First(r)} # r
        BY <3>1
      <4> QED
        BY <1>2, <4>1
    <3>3. g[r] = v[First(r)] + g[r \ {First(r)}]
      BY <2>2 DEF Adds
    <3>4. h[r] = v[First(r)] + h[r \ {First(r)}]
      BY <2>2 DEF Adds
    <3> QED
      BY <3>2, <3>3, <3>4
  <2> QED
    BY <2>1, <2>2
<1>3. s \in G
  <2> HIDE DEF G
  <2> QED
    BY <1>1, <1>2, SetInduction
<1> QED
  BY <1>3

\* There is one, for the subsets of any finite set.
LEMMA AddsExist ==
  ASSUME NEW S, IsFiniteSet(S), NEW v
  PROVE  \E g : Adds(g, v, S)
<1> DEFINE G == {T \in SUBSET S : \E g : Adds(g, v, T)}
<1>1. ASSUME NEW T \in SUBSET S, \A U \in SUBSET T : U # T => U \in G
      PROVE  T \in G
  <2> DEFINE of(s) == CHOOSE g : Adds(g, v, s)
             sum(s) == of(s)[s]
  <2>1. PICK g : g = [s \in SUBSET T |-> IF s = {} THEN 0 ELSE v[First(s)] + sum(s \ {First(s)})]
    OBVIOUS
  <2>2. ASSUME NEW s \in SUBSET T, s # T
        PROVE  Adds(of(s), v, s)
    BY <1>1, <2>2
  <2> HIDE DEF of
  <2>3. ASSUME NEW s \in SUBSET T, s # {}
        PROVE  g[s \ {First(s)}] = sum(s \ {First(s)})
    <3>1. PICK u : u = s \ {First(s)}
      OBVIOUS
    <3>2. u \in SUBSET T /\ u # T
      BY <2>3, <3>1 DEF First
    <3>3. Adds(of(u), v, u)
      BY <2>2, <3>2
    <3>4. CASE u = {}
      <4>1. of(u)[u] = 0
        BY <3>3, <3>4 DEF Adds
      <4> QED
        BY <2>1, <3>1, <3>2, <3>4, <4>1
    <3>5. CASE u # {}
      <4>1. PICK w : w = u \ {First(u)}
        OBVIOUS
      <4>2. First(u) \in u /\ w \in SUBSET u /\ w \in SUBSET T /\ w # T /\ w \in SUBSET (u \cap w)
        BY <3>2, <3>5, <4>1 DEF First
      <4>3. Adds(of(w), v, w)
        BY <2>2, <4>2
      <4>4. of(u)[w] = of(w)[w]
        <5>1. u \in SUBSET S /\ w \in SUBSET S
          BY <3>2, <4>2
        <5> QED
          BY <3>3, <4>2, <4>3, <5>1, AddsAgree
      <4>5. of(u)[u] = v[First(u)] + of(u)[w]
        BY <3>3, <3>5, <4>1 DEF Adds
      <4>6. g[u] = v[First(u)] + sum(w)
        BY <2>1, <3>2, <3>5, <4>1
      <4> QED
        BY <3>1, <4>4, <4>5, <4>6
    <3> QED
      BY <3>4, <3>5
  <2>4. Adds(g, v, T)
    <3>1. \A s \in SUBSET T : g[s] = IF s = {} THEN 0 ELSE v[First(s)] + g[s \ {First(s)}]
      BY <2>1, <2>3
    <3>2. g = [s \in SUBSET T |-> g[s]]
      BY <2>1
    <3> HIDE DEF sum
    <3> QED
      BY <3>1, <3>2 DEF Adds
  <2> QED
    BY <2>4
<1>2. S \in G
  <2> HIDE DEF G
  <2> QED
    BY <1>1, SetInduction
<1> QED
  BY <1>2

\* What SumFunction(v) is: g adds an element at a time, and the elements in one order.
Accumulates(g, v) ==
  /\ g[{}] = 0 /\ SumFunction(v) = g[DOMAIN v]
  /\ \A s \in SUBSET DOMAIN v : s # {} =>
       First(s) \in s /\ g[s] = v[First(s)] + g[s \ {First(s)}]

\* What the library's sum computes, one element at a time.
LEMMA SumAccumulates ==
  ASSUME NEW v, IsFiniteSet(DOMAIN v)
  PROVE  \E g : Accumulates(g, v)
<1>1. PICK g : g = CHOOSE h : Adds(h, v, DOMAIN v)
  OBVIOUS
<1>2. Adds(g, v, DOMAIN v)
  BY <1>1, AddsExist
<1>3. SumFunction(v) = (CHOOSE h : Adds(h, v, DOMAIN v))[DOMAIN v]
  BY DEF SumFunction, SumFunctionOnSet, FoldFunctionOnSet, MapThenFoldSet, Adds, First
<1>4. g[{}] = 0
  BY <1>2 DEF Adds
<1>5. ASSUME NEW s \in SUBSET DOMAIN v, s # {}
      PROVE  First(s) \in s /\ g[s] = v[First(s)] + g[s \ {First(s)}]
  BY <1>2, <1>5 DEF Adds, First
<1> QED
  BY <1>1, <1>3, <1>4, <1>5 DEF Accumulates

\* A sum is in every set of numbers that has the values and is closed under addition.
LEMMA SumInSet ==
  ASSUME NEW v, IsFiniteSet(DOMAIN v), NEW N, 0 \in N, \A i \in DOMAIN v : v[i] \in N,
         \A a, b \in N : a + b \in N
  PROVE  SumFunction(v) \in N
<1>1. PICK g : Accumulates(g, v)
  BY SumAccumulates
<1> DEFINE G == {s \in SUBSET DOMAIN v : g[s] \in N}
<1>2. ASSUME NEW T \in SUBSET DOMAIN v, \A U \in SUBSET T : U # T => U \in G
      PROVE  T \in G
  <2>1. CASE T = {}
    BY <1>1, <2>1 DEF Accumulates
  <2>2. CASE T # {}
    <3>1. PICK i, U : i = First(T) /\ U = T \ {i}
      OBVIOUS
    <3>2. i \in T /\ g[T] = v[i] + g[U]
      BY <1>1, <2>2, <3>1 DEF Accumulates
    <3>3. g[U] \in N
      BY <1>2, <3>1, <3>2
    <3> QED
      BY <3>2, <3>3
  <2> QED
    BY <2>1, <2>2
<1>3. DOMAIN v \in G
  <2> HIDE DEF G
  <2> QED
    BY <1>2, SetInduction
<1> QED
  BY <1>1, <1>3 DEF Accumulates

\* Naturals add up to a natural.
LEMMA SumNatural ==
  ASSUME NEW D, IsFiniteSet(D), NEW v \in [D -> Nat]
  PROVE  SumFunction(v) \in Nat
<1>1. PICK N : N = Nat
  OBVIOUS
<1>2. 0 \in N /\ \A a, b \in N : a + b \in N
  BY <1>1
<1>3. IsFiniteSet(DOMAIN v) /\ \A i \in DOMAIN v : v[i] \in N
  BY <1>1
<1>4. SumFunction(v) \in N
  BY <1>2, <1>3, SumInSet
<1> QED
  BY <1>1, <1>4

\* Integers add up to an integer.
LEMMA SumInteger ==
  ASSUME NEW D, IsFiniteSet(D), NEW v \in [D -> Int]
  PROVE  SumFunction(v) \in Int
<1>1. PICK N : N = Int
  OBVIOUS
<1>2. 0 \in N /\ \A a, b \in N : a + b \in N
  BY <1>1
<1>3. IsFiniteSet(DOMAIN v) /\ \A i \in DOMAIN v : v[i] \in N
  BY <1>1
<1>4. SumFunction(v) \in N
  BY <1>2, <1>3, SumInSet
<1> QED
  BY <1>1, <1>4

\* The sum of sums is the sum of the sums.
LEMMA SumPlus ==
  ASSUME NEW D, IsFiniteSet(D), NEW u \in [D -> Int], NEW v \in [D -> Int],
         NEW w \in [D -> Int], \A i \in D : w[i] = u[i] + v[i]
  PROVE  SumFunction(w) = SumFunction(u) + SumFunction(v)
<1>1. PICK f, g, h : Accumulates(f, u) /\ Accumulates(g, v) /\ Accumulates(h, w)
  BY SumAccumulates
<1> DEFINE G == {s \in SUBSET D : f[s] \in Int /\ g[s] \in Int /\ h[s] = f[s] + g[s]}
<1>2. ASSUME NEW T \in SUBSET D, \A U \in SUBSET T : U # T => U \in G
      PROVE  T \in G
  <2>1. CASE T = {}
    BY <1>1, <2>1 DEF Accumulates
  <2>2. CASE T # {}
    <3>1. PICK i, U : i = First(T) /\ U = T \ {i}
      OBVIOUS
    <3>2. /\ i \in T
          /\ f[T] = u[i] + f[U] /\ g[T] = v[i] + g[U] /\ h[T] = w[i] + h[U]
      BY <1>1, <2>2, <3>1 DEF Accumulates
    <3>3. f[U] \in Int /\ g[U] \in Int /\ h[U] = f[U] + g[U]
      BY <1>2, <3>1, <3>2
    <3>4. u[i] \in Int /\ v[i] \in Int /\ w[i] = u[i] + v[i]
      BY <3>2
    <3> QED
      BY <3>2, <3>3, <3>4
  <2> QED
    BY <2>1, <2>2
<1>3. D \in G
  <2> HIDE DEF G
  <2> QED
    BY <1>2, SetInduction
<1> QED
  BY <1>1, <1>3 DEF Accumulates

\* A common factor comes out of a sum.
LEMMA SumScaled ==
  ASSUME NEW D, IsFiniteSet(D), NEW u \in [D -> Int], NEW k \in Int, NEW w \in [D -> Int],
         \A i \in D : w[i] = k * u[i]
  PROVE  SumFunction(w) = k * SumFunction(u)
<1>1. PICK f, h : Accumulates(f, u) /\ Accumulates(h, w)
  BY SumAccumulates
<1> DEFINE G == {s \in SUBSET D : f[s] \in Int /\ h[s] = k * f[s]}
<1>2. ASSUME NEW T \in SUBSET D, \A U \in SUBSET T : U # T => U \in G
      PROVE  T \in G
  <2>1. CASE T = {}
    BY <1>1, <2>1 DEF Accumulates
  <2>2. CASE T # {}
    <3>1. PICK i, U : i = First(T) /\ U = T \ {i}
      OBVIOUS
    <3>2. i \in T /\ f[T] = u[i] + f[U] /\ h[T] = w[i] + h[U]
      BY <1>1, <2>2, <3>1 DEF Accumulates
    <3>3. f[U] \in Int /\ h[U] = k * f[U]
      BY <1>2, <3>1, <3>2
    <3>4. u[i] \in Int /\ w[i] = k * u[i]
      BY <3>2
    <3>5. \A a, b \in Int : k * a + k * b = k * (a + b)
      OBVIOUS
    <3>6. k * u[i] + k * f[U] = k * (u[i] + f[U])
      BY <3>3, <3>4, <3>5
    <3>7. h[T] = k * f[T]
      BY <3>2, <3>3, <3>4, <3>6
    <3>8. f[T] \in Int
      BY <3>2, <3>3, <3>4
    <3> QED
      BY <3>7, <3>8
  <2> QED
    BY <2>1, <2>2
<1>3. D \in G
  <2> HIDE DEF G
  <2> QED
    BY <1>2, SetInduction
<1> QED
  BY <1>1, <1>3 DEF Accumulates

\* One value and zeros.
LEMMA SumSingle ==
  ASSUME NEW D, IsFiniteSet(D), NEW i \in D, NEW r \in Int,
         NEW w, w = [j \in D |-> IF j = i THEN r ELSE 0]
  PROVE  SumFunction(w) = r
<1>1. PICK h : Accumulates(h, w)
  BY SumAccumulates
<1> DEFINE G == {s \in SUBSET D : h[s] = IF i \in s THEN r ELSE 0}
<1>2. ASSUME NEW T \in SUBSET D, \A U \in SUBSET T : U # T => U \in G
      PROVE  T \in G
  <2>1. CASE T = {}
    BY <1>1, <2>1 DEF Accumulates
  <2>2. CASE T # {}
    <3>1. PICK j, U : j = First(T) /\ U = T \ {j}
      OBVIOUS
    <3>2. j \in T /\ h[T] = w[j] + h[U]
      BY <1>1, <2>2, <3>1 DEF Accumulates
    <3>3. h[U] = IF i \in U THEN r ELSE 0
      BY <1>2, <3>1, <3>2
    <3>4. w[j] = IF j = i THEN r ELSE 0
      BY <3>2
    <3> QED
      BY <3>1, <3>2, <3>3, <3>4
  <2> QED
    BY <2>1, <2>2
<1>3. D \in G
  <2> HIDE DEF G
  <2> QED
    BY <1>2, SetInduction
<1> QED
  BY <1>1, <1>3 DEF Accumulates

\* Nothing adds up to zero.
LEMMA SumEmpty == SumFunction([i \in {} |-> 0]) = 0
<1>1. PICK v : v = [i \in {} |-> 0]
  OBVIOUS
<1>2. IsFiniteSet(DOMAIN v)
  BY <1>1, FS_EmptySet
<1>3. PICK g : Accumulates(g, v)
  BY <1>2, SumAccumulates
<1> QED
  BY <1>1, <1>3 DEF Accumulates

\* Larger values add up to more.
LEMMA SumMonotone ==
  ASSUME NEW D, IsFiniteSet(D), NEW u \in [D -> Int], NEW v \in [D -> Int],
         \A i \in D : u[i] <= v[i]
  PROVE  SumFunction(u) <= SumFunction(v)
<1>1. PICK w : w = [i \in D |-> v[i] - u[i]]
  OBVIOUS
<1>2. w \in [D -> Int] /\ (\A i \in D : w[i] \in Nat /\ v[i] = u[i] + w[i])
  <2>1. \A i \in D : u[i] \in Int /\ v[i] \in Int
    OBVIOUS
  <2> QED
    BY <1>1, <2>1
<1>3. SumFunction(v) = SumFunction(u) + SumFunction(w)
  BY <1>2, SumPlus
<1>4. SumFunction(w) \in Nat
  <2>1. w \in [D -> Nat]
    BY <1>1, <1>2
  <2> QED
    BY <2>1, SumNatural
<1>5. SumFunction(u) \in Int
  BY SumInteger
<1> QED
  BY <1>3, <1>4, <1>5

-----------------------------------------------------------------------------
(* The calculation of a document. *)

\* The lines of a document, by id.
LineMaps == UNION {[ids -> Lines] : ids \in {s \in SUBSET LineIds : IsFiniteSet(s)}}

\* Lines by their ids, finitely many.
LEMMA LineMapsAre ==
  ASSUME NEW ls
  PROVE  ls \in LineMaps <=> /\ DOMAIN ls \in SUBSET LineIds /\ IsFiniteSet(DOMAIN ls)
                             /\ ls \in [DOMAIN ls -> Lines]
  BY DEF LineMaps

\* The types of a line.
LEMMA LineFields ==
  ASSUME NEW ls \in LineMaps, NEW i \in DOMAIN ls
  PROVE  /\ i \in Nat
         /\ ls[i] \in Lines
         /\ ls[i].gross \in Nat /\ ls[i].off \in Nat /\ ls[i].rate \in Nat /\ ls[i].order \in Nat
         /\ ls[i].base \in Nat /\ ls[i].tax \in Int /\ ls[i].total \in Int
         /\ Base(ls[i]) \in Int
<1>1. ls[i] \in Lines /\ i \in LineIds
  BY LineMapsAre
<1> QED
  BY <1>1, QuotesAssumption DEF Lines, Base

\* Of lines that are there, one takes the cents that are left over.
LEMMA CandidateIsALine ==
  ASSUME NEW ls \in LineMaps, DOMAIN ls # {}
  PROVE  RemainderCandidate(ls) \in DOMAIN ls
<1> DEFINE D == DOMAIN ls
           G == {s \in SUBSET D : s = {} \/ \E i \in s : \A j \in s \ {i} : Precedes(ls, i, j)}
<1>1. \A i \in D : i \in Nat /\ Base(ls[i]) \in Int /\ ls[i].order \in Nat
  BY LineFields
<1>2. \A i, j \in D : i # j => Precedes(ls, i, j) \/ Precedes(ls, j, i)
  BY <1>1 DEF Precedes
<1>3. \A i, j, k \in D : Precedes(ls, i, j) /\ Precedes(ls, j, k) => Precedes(ls, i, k)
  BY <1>1 DEF Precedes
<1>4. ASSUME NEW T \in SUBSET D, \A U \in SUBSET T : U # T => U \in G
      PROVE  T \in G
  <2>1. CASE T = {}
    BY <2>1
  <2>2. CASE T # {}
    <3>1. PICK x \in T : TRUE
      BY <2>2
    <3>2. T \ {x} \in G
      BY <1>4, <3>1
    <3>3. CASE T = {x}
      BY <3>1, <3>3
    <3>4. CASE T # {x}
      <4>1. PICK b \in T \ {x} : \A j \in (T \ {x}) \ {b} : Precedes(ls, b, j)
        BY <3>1, <3>2, <3>4
      <4>2. CASE Precedes(ls, b, x)
        BY <4>1, <4>2
      <4>3. CASE ~Precedes(ls, b, x)
        <5>1. Precedes(ls, x, b)
          BY <1>2, <3>1, <4>1, <4>3
        <5>2. \A j \in T \ {x} : Precedes(ls, x, j)
          BY <1>3, <3>1, <4>1, <5>1
        <5> QED
          BY <3>1, <5>2
      <4> QED
        BY <4>2, <4>3
    <3> QED
      BY <3>3, <3>4
  <2> QED
    BY <2>1, <2>2
<1>5. D \in G
  <2>1. IsFiniteSet(D)
    BY LineMapsAre
  <2> HIDE DEF D, G
  <2> QED
    BY <1>4, <2>1, SetInduction
<1>6. \E i \in D : \A j \in D \ {i} : Precedes(ls, i, j)
  BY <1>5
<1> QED
  BY <1>6 DEF RemainderCandidate

\* A finite set of integers has a maximum.
LEMMA MaxOfFinite ==
  ASSUME NEW S \in SUBSET Int, IsFiniteSet(S), S # {}
  PROVE  Max(S) \in S /\ \A x \in S : x <= Max(S)
<1> DEFINE G == {s \in SUBSET S : s = {} \/ \E m \in s : \A y \in s : m >= y}
<1>1. ASSUME NEW T \in SUBSET S, \A U \in SUBSET T : U # T => U \in G
      PROVE  T \in G
  <2>1. CASE T = {}
    BY <2>1
  <2>2. CASE T # {}
    <3>1. PICK x \in T : TRUE
      BY <2>2
    <3>2. T \ {x} \in G
      BY <1>1, <3>1
    <3>3. CASE T = {x}
      BY <3>1, <3>3
    <3>4. CASE T # {x}
      <4>1. PICK b \in T \ {x} : \A y \in T \ {x} : b >= y
        BY <3>1, <3>2, <3>4
      <4>2. CASE b >= x
        BY <4>1, <4>2
      <4>3. CASE ~(b >= x)
        <5>1. \A y \in T : x >= y
          BY <3>1, <4>1, <4>3
        <5> QED
          BY <3>1, <5>1
      <4> QED
        BY <4>2, <4>3
    <3> QED
      BY <3>3, <3>4
  <2> QED
    BY <2>1, <2>2
<1>2. S \in G
  <2> HIDE DEF G
  <2> QED
    BY <1>1, SetInduction
<1>3. \E m \in S : \A y \in S : m >= y
  BY <1>2
<1> QED
  BY <1>3 DEF Max

\* A share that is rounded down does not exceed what it rounds.
LEMMA ShareBounds ==
  ASSUME NEW s \in Nat \ {0}, NEW n \in Nat
  PROVE  n \div s \in Nat /\ s * (n \div s) <= n
  OBVIOUS

\* Rounding half up gives an integer, of what is not negative none that is.
LEMMA HalfUpTyped ==
  ASSUME NEW n \in Int
  PROVE  HalfUp(n, 100) \in Int /\ (n >= 0 => HalfUp(n, 100) \in Nat)
  BY DEF HalfUp

\* The discount of the header does not exceed the subtotal.
LEMMA HeaderDiscountBounds ==
  ASSUME NEW s \in Settings, NEW n \in Nat
  PROVE  HeaderDiscount(s, n) \in 0..n
<1>1. s.type \in {"PERCENTAGE", "FIXED"} /\ s.value \in Nat
  BY QuotesAssumption
<1>2. n * s.value \in Nat
  BY <1>1
<1>3. HalfUp(n * s.value, 100) \in Nat
  BY <1>2, HalfUpTyped
<1> QED
  BY <1>1, <1>3 DEF HeaderDiscount

\* The shares of the header's discount are not negative and add up to it: rounding
\* down leaves a remainder that is not negative, and one line takes all of it.
THEOREM DiscountIsAllocated ==
  ASSUME NEW ls \in LineMaps, Priceable(ls), NEW s, NEW n \in 0..s,
         s = SumFunction([i \in DOMAIN ls |-> Base(ls[i])])
  PROVE  /\ s \in Nat
         /\ Allocation(ls, s, n) \in [DOMAIN ls -> Nat]
         /\ SumFunction(Allocation(ls, s, n)) = n
<1>1. PICK D, b : D = DOMAIN ls /\ b = [i \in D |-> Base(ls[i])]
  OBVIOUS
<1>2. IsFiniteSet(D) /\ b \in [D -> Nat]
  <2>1. IsFiniteSet(D)
    BY <1>1, LineMapsAre
  <2>2. \A i \in D : Base(ls[i]) \in Nat
    BY <1>1, LineFields DEF Priceable
  <2> QED
    BY <1>1, <2>1, <2>2
<1>3. s = SumFunction(b) /\ s \in Nat /\ n \in Nat /\ n <= s
  <2>1. s = SumFunction(b)
    BY <1>1
  <2>2. s \in Nat
    BY <1>2, <2>1, SumNatural
  <2> QED
    BY <2>1, <2>2
<1>4. PICK f : f = [i \in D |-> IF s = 0 THEN 0 ELSE (n * b[i]) \div s]
  OBVIOUS
<1>5. f \in [D -> Nat] /\ \A i \in D : s * f[i] <= n * b[i]
  <2> SUFFICES ASSUME NEW i \in D
               PROVE  f[i] \in Nat /\ s * f[i] <= n * b[i]
    BY <1>4
  <2>1. n * b[i] \in Nat
    BY <1>2, <1>3
  <2>2. CASE s = 0
    <3>1. f[i] = 0 /\ n = 0
      BY <1>3, <1>4, <2>2
    <3> QED
      BY <1>2, <2>2, <3>1
  <2>3. CASE s # 0
    <3>1. f[i] = (n * b[i]) \div s
      BY <1>4, <2>3
    <3> QED
      BY <1>3, <2>1, <2>3, <3>1, ShareBounds
  <2> QED
    BY <2>2, <2>3
<1>6. PICK t : t = SumFunction(f)
  OBVIOUS
<1>7. t \in Nat
  BY <1>2, <1>5, <1>6, SumNatural
<1>8. t <= n
  <2>1. CASE s = 0
    <3>1. n = 0
      BY <1>3, <2>1
    <3>2. \A i \in D : f[i] = 0 * b[i]
      BY <1>2, <1>4, <2>1
    <3>3. b \in [D -> Int] /\ f \in [D -> Int]
      BY <1>2, <1>5
    <3>4. t = 0 * SumFunction(b)
      BY <1>2, <1>6, <3>2, <3>3, SumScaled
    <3> QED
      BY <1>3, <3>1, <3>4
  <2>2. CASE s # 0
    <3>1. PICK u, v : u = [i \in D |-> s * f[i]] /\ v = [i \in D |-> n * b[i]]
      OBVIOUS
    <3>2. u \in [D -> Int] /\ v \in [D -> Int] /\ \A i \in D : u[i] <= v[i]
      <4>1. \A i \in D : s * f[i] \in Int /\ n * b[i] \in Int
        BY <1>2, <1>3, <1>5
      <4> QED
        BY <1>5, <3>1, <4>1
    <3>3. SumFunction(u) <= SumFunction(v)
      BY <1>2, <3>2, SumMonotone
    <3>4. b \in [D -> Int] /\ f \in [D -> Int]
      BY <1>2, <1>5
    <3>5. SumFunction(u) = s * t
      <4>1. \A i \in D : u[i] = s * f[i]
        BY <3>1
      <4>2. s \in Int
        BY <1>3
      <4> QED
        BY <1>2, <1>6, <3>2, <3>4, <4>1, <4>2, SumScaled
    <3>6. SumFunction(v) = n * s
      <4>1. \A i \in D : v[i] = n * b[i]
        BY <3>1
      <4>2. n \in Int
        BY <1>3
      <4> QED
        BY <1>2, <1>3, <3>2, <3>4, <4>1, <4>2, SumScaled
    <3>7. s * t <= n * s
      BY <3>3, <3>5, <3>6
    <3>8. \A x, y \in Nat : x > y => s * x > y * s
      BY <1>3, <2>2
    <3>9. s * t \in Int /\ n * s \in Int
      BY <1>3, <1>7
    <3>10. t > n => s * t > n * s
      BY <1>3, <1>7, <3>8
    <3> QED
      BY <1>3, <1>7, <3>7, <3>9, <3>10
  <2> QED
    BY <2>1, <2>2
<1>9. PICK r : r = RemainderCandidate(ls)
  OBVIOUS
<1>10. PICK g : g = [i \in D |-> IF i = r THEN n - t ELSE 0]
  OBVIOUS
<1>11. g \in [D -> Nat]
  BY <1>3, <1>7, <1>8, <1>10
<1>12. PICK a : a = Allocation(ls, s, n)
  OBVIOUS
<1>13. a = [i \in D |-> f[i] + g[i]]
  <2>1. f = [i \in DOMAIN ls |-> IF s = 0 THEN 0 ELSE (n * Base(ls[i])) \div s]
    BY <1>1, <1>4
  <2>2. a = [i \in DOMAIN ls |->
               f[i] + IF i = r THEN n - t ELSE 0]
    BY <1>6, <1>9, <1>12, <2>1 DEF Allocation
  <2> QED
    BY <1>1, <1>10, <2>2
<1>14. a \in [D -> Nat]
  <2>1. \A i \in D : f[i] \in Nat /\ g[i] \in Nat
    BY <1>5, <1>11
  <2> QED
    BY <1>13, <2>1
<1>15. SumFunction(a) = t + SumFunction(g)
  <2>1. /\ f \in [D -> Int] /\ g \in [D -> Int] /\ a \in [D -> Int]
        /\ \A i \in D : a[i] = f[i] + g[i]
    BY <1>5, <1>11, <1>13, <1>14
  <2> QED
    BY <1>2, <1>6, <2>1, SumPlus
<1>16. SumFunction(a) = n
  <2>1. CASE D = {}
    <3>1. a = [i \in {} |-> 0] /\ b = [i \in {} |-> 0]
      BY <1>1, <1>13, <2>1
    <3> QED
      BY <1>3, <3>1, SumEmpty
  <2>2. CASE D # {}
    <3>1. r \in D
      BY <1>1, <1>9, <2>2, CandidateIsALine
    <3>2. n - t \in Int
      BY <1>3, <1>7
    <3>3. SumFunction(g) = n - t
      BY <1>2, <1>10, <3>1, <3>2, SumSingle
    <3> QED
      BY <1>3, <1>7, <1>15, <3>3
  <2> QED
    BY <2>1, <2>2
<1> QED
  BY <1>1, <1>3, <1>12, <1>14, <1>16

\* What a quote or an invoice can be.
Docs == {x \in [status : QuoteStatuses, setting : Settings, subtotal : Nat, discount : Nat,
                tax : Int, total : Int, lines : LineMaps] : x.discount <= x.subtotal}

\* The header of document d is the sum of its lines.
Agrees(d) ==
  /\ d.subtotal = SumFunction([i \in DOMAIN d.lines |-> d.lines[i].base])
  /\ d.tax = SumFunction([i \in DOMAIN d.lines |-> d.lines[i].tax])
  /\ d.total = SumFunction([i \in DOMAIN d.lines |-> d.lines[i].total])
  /\ d.total = d.subtotal - d.discount + d.tax

\* The base of each of its lines is what was asked for it.
Charged(d) == \A i \in DOMAIN d.lines : d.lines[i].base = d.lines[i].gross - d.lines[i].off

\* Only base, tax and total of the lines count.
LEMMA SameSums ==
  ASSUME NEW x, NEW y, Agrees(x),
         y.subtotal = x.subtotal, y.discount = x.discount, y.tax = x.tax, y.total = x.total,
         DOMAIN y.lines = DOMAIN x.lines,
         \A i \in DOMAIN x.lines : /\ y.lines[i].base = x.lines[i].base
                                   /\ y.lines[i].tax = x.lines[i].tax
                                   /\ y.lines[i].total = x.lines[i].total
  PROVE  Agrees(y)
<1>1. /\ [i \in DOMAIN y.lines |-> y.lines[i].base] = [i \in DOMAIN x.lines |-> x.lines[i].base]
      /\ [i \in DOMAIN y.lines |-> y.lines[i].tax] = [i \in DOMAIN x.lines |-> x.lines[i].tax]
      /\ [i \in DOMAIN y.lines |-> y.lines[i].total] = [i \in DOMAIN x.lines |-> x.lines[i].total]
  OBVIOUS
<1> QED
  BY <1>1 DEF Agrees

\* What calculateQuoteTotals and calculateInvoiceTotals return: a document whose
\* header is the sum of its lines, and no line has lost what was asked for it.
THEOREM CalculationAgrees ==
  ASSUME NEW ls \in LineMaps, Priceable(ls), NEW setting \in Settings,
         NEW st \in QuoteStatuses, NEW p, p = Price(setting, ls),
         NEW x, x = Priced(st, setting, p)
  PROVE  /\ x \in Docs /\ Agrees(x) /\ Charged(x)
         /\ p.share \in [DOMAIN ls -> Nat]
         /\ x.status = st /\ x.lines = p.lines
         /\ DOMAIN p.lines = DOMAIN ls
         /\ \A i \in DOMAIN ls : p.lines[i].gross = ls[i].gross /\ p.lines[i].off = ls[i].off
<1> DEFINE D == DOMAIN ls
           b == [i \in D |-> Base(ls[i])]
           s == SumFunction(b)
           n == HeaderDiscount(setting, s)
           a == Allocation(ls, s, n)
           net == [i \in D |-> b[i] - a[i]]
           tax == [i \in D |-> HalfUp(net[i] * ls[i].rate, 100)]
           tot == [i \in D |-> net[i] + tax[i]]
           w == [i \in D |-> [ls[i] EXCEPT !.base = b[i], !.tax = tax[i], !.total = tot[i]]]
<1>1. /\ D = DOMAIN ls /\ b = [i \in D |-> Base(ls[i])] /\ s = SumFunction(b)
      /\ n = HeaderDiscount(setting, s) /\ a = Allocation(ls, s, n)
  OBVIOUS
<1>2. /\ net = [i \in D |-> b[i] - a[i]]
      /\ tax = [i \in D |-> HalfUp(net[i] * ls[i].rate, 100)]
      /\ tot = [i \in D |-> net[i] + tax[i]]
  OBVIOUS
<1>3. w = [i \in D |-> [ls[i] EXCEPT !.base = b[i], !.tax = tax[i], !.total = tot[i]]]
  OBVIOUS
<1>4. p = [subtotal |-> s, discount |-> n, tax |-> SumFunction(tax), total |-> SumFunction(tot),
           share |-> a, lines |-> w]
  BY DEF Price
<1> HIDE DEF D, b, s, n, a, net, tax, tot, w
<1>5. IsFiniteSet(D) /\ D \in SUBSET LineIds
  BY <1>1, LineMapsAre
<1>6. b \in [D -> Nat]
  <2>1. \A i \in D : Base(ls[i]) \in Nat
    BY <1>1, LineFields DEF Priceable
  <2> QED
    BY <1>1, <2>1
<1>7. s \in Nat /\ n \in Nat /\ n <= s
  <2>1. s \in Nat
    BY <1>1, <1>5, <1>6, SumNatural
  <2>2. n \in 0..s
    BY <1>1, <2>1, HeaderDiscountBounds
  <2> QED
    BY <2>1, <2>2
<1>8. a \in [D -> Nat] /\ SumFunction(a) = n
  <2>1. n \in 0..s /\ s = SumFunction([i \in DOMAIN ls |-> Base(ls[i])])
    BY <1>1, <1>7
  <2> QED
    BY <1>1, <2>1, DiscountIsAllocated
<1>9. net \in [D -> Int]
  <2>1. \A i \in D : b[i] - a[i] \in Int
    BY <1>6, <1>8
  <2> QED
    BY <1>2, <2>1
<1>10. tax \in [D -> Int]
  <2>1. \A i \in D : net[i] \in Int /\ ls[i].rate \in Int
    BY <1>1, <1>9, LineFields
  <2>2. \A i \in D : net[i] * ls[i].rate \in Int
    BY <2>1
  <2>3. \A i \in D : HalfUp(net[i] * ls[i].rate, 100) \in Int
    BY <2>2, HalfUpTyped
  <2> QED
    BY <1>2, <2>3
<1>11. tot \in [D -> Int]
  <2>1. \A i \in D : net[i] + tax[i] \in Int
    BY <1>9, <1>10
  <2> QED
    BY <1>2, <2>1
<1>12. /\ SumFunction(net) \in Int /\ SumFunction(tax) \in Int /\ SumFunction(tot) \in Int
  BY <1>5, <1>9, <1>10, <1>11, SumInteger
<1>13. s = SumFunction(net) + n
  <2>1. b \in [D -> Int] /\ a \in [D -> Int] /\ \A i \in D : b[i] = net[i] + a[i]
    BY <1>2, <1>6, <1>8
  <2> QED
    BY <1>1, <1>5, <1>8, <1>9, <2>1, SumPlus
<1>14. SumFunction(tot) = SumFunction(net) + SumFunction(tax)
  <2>1. \A i \in D : tot[i] = net[i] + tax[i]
    BY <1>2
  <2> QED
    BY <1>5, <1>9, <1>10, <1>11, <2>1, SumPlus
<1>15. ASSUME NEW i \in D
       PROVE  /\ w[i] \in Lines
              /\ w[i].gross = ls[i].gross /\ w[i].off = ls[i].off
              /\ w[i].base = b[i] /\ w[i].tax = tax[i] /\ w[i].total = tot[i]
              /\ w[i].base = w[i].gross - w[i].off
  <2>1. ls[i] \in Lines
    BY <1>1, LineFields
  <2>2. b[i] \in Nat /\ tax[i] \in Int /\ tot[i] \in Int /\ b[i] = ls[i].gross - ls[i].off
    BY <1>1, <1>6, <1>10, <1>11 DEF Base
  <2>3. w[i] = [ls[i] EXCEPT !.base = b[i], !.tax = tax[i], !.total = tot[i]]
    BY <1>3
  <2> QED
    BY <2>1, <2>2, <2>3 DEF Lines
<1>16. w \in LineMaps /\ DOMAIN w = D
  <2>1. DOMAIN w = D /\ w \in [D -> Lines]
    BY <1>3, <1>15
  <2> QED
    BY <1>5, <2>1, LineMapsAre
<1>17. x = [status |-> st, setting |-> setting, subtotal |-> s, discount |-> n,
            tax |-> SumFunction(tax), total |-> SumFunction(tot), lines |-> w]
  BY <1>4 DEF Priced
<1>18. x \in Docs
  BY <1>7, <1>12, <1>16, <1>17 DEF Docs
<1>19. Agrees(x)
  <2>1. /\ [i \in DOMAIN x.lines |-> x.lines[i].base] = b
        /\ [i \in DOMAIN x.lines |-> x.lines[i].tax] = tax
        /\ [i \in DOMAIN x.lines |-> x.lines[i].total] = tot
    BY <1>6, <1>10, <1>11, <1>15, <1>16, <1>17
  <2>2. SumFunction(tot) = s - n + SumFunction(tax)
    BY <1>7, <1>12, <1>13, <1>14
  <2> QED
    BY <1>1, <1>17, <2>1, <2>2 DEF Agrees
<1>20. Charged(x)
  BY <1>15, <1>16, <1>17 DEF Charged
<1>21. /\ p.share = a /\ p.lines = w /\ x.status = st /\ x.lines = w
  BY <1>4, <1>17
<1> QED
  BY <1>1, <1>8, <1>15, <1>16, <1>18, <1>19, <1>20, <1>21

\* The types of a document.
LEMMA DocFields ==
  ASSUME NEW x \in Docs
  PROVE  /\ x = [status |-> x.status, setting |-> x.setting, subtotal |-> x.subtotal,
                 discount |-> x.discount, tax |-> x.tax, total |-> x.total, lines |-> x.lines]
         /\ x.status \in QuoteStatuses /\ x.setting \in Settings
         /\ x.subtotal \in Nat /\ x.discount \in Nat /\ x.discount <= x.subtotal
         /\ x.tax \in Int /\ x.total \in Int /\ x.lines \in LineMaps
  BY DEF Docs

\* The amounts of one document and the lines of another.
LEMMA MakeDoc ==
  ASSUME NEW st \in QuoteStatuses, NEW setting \in Settings, NEW x \in Docs,
         NEW ls \in LineMaps, NEW y,
         y = [status |-> st, setting |-> setting, subtotal |-> x.subtotal,
              discount |-> x.discount, tax |-> x.tax, total |-> x.total, lines |-> ls]
  PROVE  y \in Docs
  BY DocFields DEF Docs

\* A document without lines.
LEMMA EmptyDoc ==
  ASSUME NEW st \in QuoteStatuses, NEW setting \in Settings, NEW x,
         x = Priced(st, setting, Unpriced)
  PROVE  x \in Docs /\ Agrees(x) /\ Charged(x) /\ x.status = st /\ DOMAIN x.lines = {}
<1>1. x = [status |-> st, setting |-> setting, subtotal |-> 0, discount |-> 0, tax |-> 0,
           total |-> 0, lines |-> NoLines]
  BY DEF Priced, Unpriced
<1>2. NoLines \in LineMaps /\ DOMAIN NoLines = {}
  <2>1. DOMAIN NoLines = {} /\ NoLines \in [{} -> Lines]
    BY DEF NoLines
  <2> QED
    BY <2>1, FS_EmptySet, LineMapsAre
<1>3. x \in Docs
  BY <1>1, <1>2 DEF Docs
<1>4. /\ [i \in DOMAIN x.lines |-> x.lines[i].base] = [i \in {} |-> 0]
      /\ [i \in DOMAIN x.lines |-> x.lines[i].tax] = [i \in {} |-> 0]
      /\ [i \in DOMAIN x.lines |-> x.lines[i].total] = [i \in {} |-> 0]
  BY <1>1, <1>2
<1>5. Agrees(x)
  BY <1>1, <1>4, SumEmpty DEF Agrees
<1> QED
  BY <1>1, <1>2, <1>3, <1>5 DEF Charged

-----------------------------------------------------------------------------
(* The calls. *)

\* The quote and the invoice made of it.
Names == {"quote", "invoice"}

\* What each turn of the quote's life finds it in and leaves it in.
Before == [send |-> "DRAFT", approve |-> "PENDING_APPROVAL", reject |-> "PENDING_APPROVAL",
           revise |-> "PENDING_APPROVAL", expire |-> "PENDING_APPROVAL",
           convert |-> "APPROVED", delete |-> "DRAFT"]
After == [send |-> "PENDING_APPROVAL", approve |-> "APPROVED", reject |-> "REJECTED",
          revise |-> "DRAFT", expire |-> "EXPIRED", convert |-> "CONVERTED",
          delete |-> "DELETED"]
\* The calls by what they change: the status, the prices, or a draft's other fields.
Turns == {"send", "approve", "reject", "revise", "expire", "convert", "delete"}
Pricings == {"add", "update", "remove", "header"}
Edits == Pricings \cup {"reorder", "renew"}

\* Call r has its operation, a document, a line and what it will write.
CallTyped(r) ==
  /\ r \in [op : Edits \cup Turns \cup {"invoice"}, doc : Names, at : Nat, will : Docs]
  /\ r.op \in Turns \cup {"renew"} => r.doc = "quote"
  /\ r.op = "invoice" => r.doc = "invoice"
  /\ r.op = "add" => r.at \in DOMAIN r.will.lines
  /\ r.op = "header" => r.at = 0

QuotesTyped ==
  /\ doc \in [Names -> Docs]
  /\ past \in BOOLEAN /\ overlapped \in BOOLEAN
  /\ orders \in Nat
  /\ phase \in [Requests -> {"idle", "read"}]
  /\ DOMAIN call = Requests
  /\ edits \in 0..MaxEdits
  /\ \A c \in Requests : phase[c] = "read" => CallTyped(call[c])

\* The lines there will be when call r has committed.
Left(r) ==
  LET ids == DOMAIN doc[r.doc].lines
  IN  IF r.op = "add" THEN ids \cup {r.at}
      ELSE IF r.op = "remove" THEN ids \ {r.at} ELSE ids

\* Call r writes what it computed of the lines as they still are.
PricesAsRead(r) ==
  r.op \in Pricings =>
    /\ Agrees(r.will)
    /\ DOMAIN r.will.lines = Left(r)
    /\ r.doc = "invoice" =>
         /\ Charged(r.will)
         /\ \A i \in DOMAIN r.will.lines \ {r.at} :
              /\ r.will.lines[i].gross = doc[r.doc].lines[i].gross
              /\ r.op = "header" => r.will.lines[i].off = doc[r.doc].lines[i].off

\* The status of the document is still the one that call r checked.
StatusAsRead(r) ==
  /\ r.op \in Edits => doc[r.doc].status = "DRAFT"
  /\ r.op \in Turns => doc["quote"].status = Before[r.op] /\ r.will.status = After[r.op]
  /\ r.op = "invoice" => Agrees(r.will) /\ Charged(r.will)

\* At most one call is in progress.
Alone == \A c, e \in Requests : phase[c] = "read" /\ phase[e] = "read" => c = e

SerialInv ==
  /\ \A d \in Names : Agrees(doc[d])
  /\ Charged(doc["invoice"])
  /\ orders = IF doc["quote"].status = "CONVERTED" THEN 1 ELSE 0
  /\ Alone
  /\ \A c \in Requests : phase[c] = "read" => PricesAsRead(call[c]) /\ StatusAsRead(call[c])

QuotesInv == QuotesTyped /\ (~overlapped => SerialInv)

\* What SentQuotesStand says of a step.
Stands ==
  ~overlapped' =>
    /\ doc["quote"].status # "DRAFT" => Prices(doc["quote"])' = Prices(doc["quote"])
    /\ doc["quote"].status \in Final => doc'["quote"].status = doc["quote"].status
    /\ orders' = IF doc'["quote"].status = "CONVERTED" THEN 1 ELSE 0

\* A new quote has no lines and no invoice.
LEMMA InitQuotesInv ==
  ASSUME QuotesInit
  PROVE  QuotesInv
<1>1. PICK s \in Settings :
        doc = [quote |-> Priced("DRAFT", s, Unpriced), invoice |-> Priced("NONE", s, Unpriced)]
  BY DEF QuotesInit
<1>2. "DRAFT" \in QuoteStatuses /\ "NONE" \in QuoteStatuses
  BY DEF QuoteStatuses
<1>3. PICK x, y : x = Priced("DRAFT", s, Unpriced) /\ y = Priced("NONE", s, Unpriced)
  OBVIOUS
<1>4. /\ x \in Docs /\ Agrees(x) /\ x.status = "DRAFT"
      /\ y \in Docs /\ Agrees(y) /\ Charged(y)
  BY <1>2, <1>3, EmptyDoc
<1>5. doc["quote"] = x /\ doc["invoice"] = y /\ doc \in [Names -> Docs]
  <2>1. doc = [quote |-> x, invoice |-> y]
    BY <1>1, <1>3
  <2>2. doc["quote"] = x /\ doc["invoice"] = y
    BY <2>1
  <2>3. doc = [d \in Names |-> IF d = "quote" THEN x ELSE y]
    BY <2>1 DEF Names
  <2> QED
    BY <1>4, <2>2, <2>3
<1>6. /\ past = FALSE /\ orders = 0 /\ edits = 0 /\ overlapped = FALSE
      /\ phase = [c \in Requests |-> "idle"] /\ call = [c \in Requests |-> NoCall]
  BY DEF QuotesInit
<1>7. QuotesTyped
  <2>1. edits \in 0..MaxEdits
    BY <1>6, QuotesAssumption
  <2>2. phase \in [Requests -> {"idle", "read"}] /\ DOMAIN call = Requests
    BY <1>6
  <2>3. \A c \in Requests : phase[c] # "read"
    BY <1>6
  <2> QED
    BY <1>5, <1>6, <2>1, <2>2, <2>3 DEF QuotesTyped
<1>8. SerialInv
  BY <1>4, <1>5, <1>6 DEF SerialInv, Names, Alone
<1> QED
  BY <1>7, <1>8 DEF QuotesInv

\* The documents and the orders stay.
LEMMA NothingWritten ==
  ASSUME QuotesInv, ~overlapped' => ~overlapped, UNCHANGED <<doc, orders>>
  PROVE  Stands
  BY DEF QuotesInv, SerialInv, Stands, Prices

\* A call begins that is typed and, alone, has computed what it read.
LEMMA EnterKeeps ==
  ASSUME QuotesInv, NEW c \in Requests, NEW op, NEW d, NEW i, NEW w, Enter(c, op, d, i, w),
         NEW r, r = [op |-> op, doc |-> d, at |-> i, will |-> w], CallTyped(r),
         PricesAsRead(r) \/ overlapped, StatusAsRead(r) \/ overlapped,
         edits' \in 0..MaxEdits
  PROVE  QuotesInv' /\ Stands
<1>1. QuotesTyped /\ ~overlapped /\ SerialInv
  BY DEF QuotesInv, Enter
<1>2. /\ phase' = [phase EXCEPT ![c] = "read"] /\ call' = [call EXCEPT ![c] = r]
      /\ overlapped' = \E e \in Requests \ {c} : phase[e] # "idle"
      /\ UNCHANGED <<doc, past, orders>>
  BY DEF Enter
<1>3. /\ phase' \in [Requests -> {"idle", "read"}] /\ DOMAIN call' = Requests
      /\ phase'[c] = "read" /\ call'[c] = r
      /\ \A e \in Requests \ {c} : phase'[e] = phase[e] /\ call'[e] = call[e]
  BY <1>1, <1>2 DEF QuotesTyped
<1>4. overlapped' \in BOOLEAN
  BY <1>2
<1>5. \A e \in Requests : phase'[e] = "read" => CallTyped(call'[e])
  BY <1>1, <1>3 DEF QuotesTyped
<1>6. QuotesTyped'
  BY <1>1, <1>2, <1>3, <1>4, <1>5 DEF QuotesTyped
<1>7. ASSUME ~overlapped' PROVE SerialInv'
  <2>1. \A e \in Requests : phase'[e] = "read" => e = c
    BY <1>1, <1>2, <1>3, <1>7 DEF QuotesTyped
  <2>2. PricesAsRead(r)' /\ StatusAsRead(r)'
    BY <1>1, <1>2 DEF PricesAsRead, StatusAsRead, Left
  <2>3. \A e \in Requests :
          phase'[e] = "read" => PricesAsRead(call[e])' /\ StatusAsRead(call[e])'
    BY <1>3, <2>1, <2>2
  <2>4. Alone'
    BY <2>1 DEF Alone
  <2> QED
    BY <1>1, <1>2, <2>3, <2>4 DEF SerialInv
<1>8. Stands
  BY <1>1, <1>2, NothingWritten
<1> QED
  BY <1>6, <1>7, <1>8 DEF QuotesInv

\* Call c ends and has written document y.
LEMMA CommitKeeps ==
  ASSUME QuotesInv, NEW c \in Requests, End(c), phase[c] = "read",
         NEW d \in Names, NEW y \in Docs, doc' = [doc EXCEPT ![d] = y],
         past' \in BOOLEAN, orders' \in Nat,
         overlapped \/ /\ Agrees(y)
                       /\ d = "invoice" => Charged(y)
                       /\ orders' = IF doc'["quote"].status = "CONVERTED" THEN 1 ELSE 0
                       /\ d = "quote" /\ doc["quote"].status # "DRAFT" =>
                            Prices(y) = Prices(doc["quote"])
                       /\ d = "quote" /\ doc["quote"].status \in Final =>
                            y.status = doc["quote"].status
  PROVE  QuotesInv' /\ Stands
<1>1. QuotesTyped /\ (~overlapped => SerialInv)
  BY DEF QuotesInv
<1>2. /\ phase' = [phase EXCEPT ![c] = "idle"] /\ call' = [call EXCEPT ![c] = NoCall]
      /\ overlapped' = overlapped /\ edits' = edits
  BY DEF End
<1>3. /\ phase' \in [Requests -> {"idle", "read"}] /\ DOMAIN call' = Requests
      /\ phase'[c] = "idle"
      /\ \A e \in Requests \ {c} : phase'[e] = phase[e] /\ call'[e] = call[e]
  BY <1>1, <1>2 DEF QuotesTyped
<1>4. /\ doc' \in [Names -> Docs] /\ doc'[d] = y
      /\ \A e \in Names \ {d} : doc'[e] = doc[e]
  BY <1>1 DEF QuotesTyped
<1>5. \A e \in Requests : phase'[e] = "read" => CallTyped(call'[e])
  BY <1>1, <1>3 DEF QuotesTyped
<1>6. QuotesTyped'
  BY <1>1, <1>2, <1>3, <1>4, <1>5 DEF QuotesTyped
<1>7. ASSUME ~overlapped' PROVE SerialInv' /\ Stands
  <2>1. SerialInv /\ ~overlapped
    BY <1>1, <1>2, <1>7
  <2>2. \A e \in Requests : phase'[e] # "read"
    BY <1>3, <2>1 DEF SerialInv, Alone
  <2>3. \A e \in Names : Agrees(doc'[e])
    BY <1>4, <2>1 DEF SerialInv
  <2>4. Charged(doc'["invoice"])
    BY <1>4, <2>1 DEF SerialInv, Names
  <2>5. SerialInv'
    BY <2>1, <2>2, <2>3, <2>4 DEF SerialInv, Alone
  <2>6. /\ doc["quote"].status # "DRAFT" => Prices(doc'["quote"]) = Prices(doc["quote"])
        /\ doc["quote"].status \in Final => doc'["quote"].status = doc["quote"].status
    BY <1>4, <2>1 DEF Names
  <2> QED
    BY <2>1, <2>5, <2>6 DEF Stands
<1> QED
  BY <1>6, <1>7 DEF QuotesInv, Stands

\* A call that fails has written nothing.
LEMMA FailKeeps ==
  ASSUME QuotesInv, NEW c \in Requests, Fail(c)
  PROVE  QuotesInv' /\ Stands
<1>1. phase[c] = "read" /\ End(c) /\ UNCHANGED <<doc, past, orders>>
  BY DEF Fail, QuotesInv, QuotesTyped
<1>2. PICK y : y = doc["quote"]
  OBVIOUS
<1>3. QuotesTyped /\ (~overlapped => SerialInv) /\ "quote" \in Names
  BY DEF QuotesInv, Names
<1>4. y \in Docs /\ doc' = [doc EXCEPT !["quote"] = y]
  BY <1>1, <1>2, <1>3 DEF QuotesTyped
<1>5. past' \in BOOLEAN /\ orders' \in Nat
  BY <1>1, <1>3 DEF QuotesTyped
<1>6. overlapped \/ /\ Agrees(y)
                    /\ orders' = IF doc'["quote"].status = "CONVERTED" THEN 1 ELSE 0
  BY <1>1, <1>2, <1>3 DEF SerialInv
<1> QED
  BY <1>1, <1>2, <1>3, <1>4, <1>5, <1>6, CommitKeeps

\* A day passes.
LEMMA ValidityEndsKeeps ==
  ASSUME QuotesInv, ValidityEnds
  PROVE  QuotesInv' /\ Stands
<1>1. /\ past' = TRUE
      /\ UNCHANGED <<doc, orders, phase, call, overlapped, edits>>
  BY DEF ValidityEnds
<1>2. QuotesTyped'
  BY <1>1 DEF QuotesInv, QuotesTyped
<1>3. SerialInv => SerialInv'
  <2>1. Alone => Alone'
    BY <1>1 DEF Alone
  <2>2. ASSUME NEW c \in Requests
        PROVE  /\ PricesAsRead(call[c]) => PricesAsRead(call[c])'
               /\ StatusAsRead(call[c]) => StatusAsRead(call[c])'
    BY <1>1 DEF PricesAsRead, StatusAsRead, Left
  <2> QED
    BY <1>1, <2>1, <2>2 DEF SerialInv
<1>4. Stands
  BY <1>1, NothingWritten
<1> QED
  BY <1>1, <1>2, <1>3, <1>4 DEF QuotesInv

-----------------------------------------------------------------------------
(* Calls begin. *)

\* The types of the documents that are there.
LEMMA DocsAreDocs ==
  ASSUME QuotesInv, NEW d \in Names
  PROVE  /\ doc[d] \in Docs /\ doc[d].lines \in LineMaps /\ doc[d].setting \in Settings
         /\ doc[d].status \in QuoteStatuses
         /\ edits < MaxEdits => edits + 1 \in 0..MaxEdits
  BY DocFields, QuotesAssumption DEF QuotesInv, QuotesTyped

\* Every line of the draft is priced again.
LEMMA EditLinesKeeps ==
  ASSUME QuotesInv, NEW c \in Requests, NEW op \in {"add", "update", "remove"},
         NEW d \in Names, NEW i \in LineIds, NEW ls \in LineMaps, EditLines(c, op, d, i, ls),
         DOMAIN ls = IF op = "add" THEN DOMAIN doc[d].lines \cup {i}
                     ELSE IF op = "remove" THEN DOMAIN doc[d].lines \ {i}
                     ELSE DOMAIN doc[d].lines,
         \A j \in DOMAIN ls \ {i} : ls[j].gross = doc[d].lines[j].gross
  PROVE  QuotesInv' /\ Stands
<1>1. PICK p, w : /\ p = Price(doc[d].setting, ls)
                  /\ w = Priced("DRAFT", doc[d].setting, p)
  OBVIOUS
<1>2. /\ Priceable(ls) /\ doc[d].status = "DRAFT" /\ edits < MaxEdits /\ edits' = edits + 1
      /\ Enter(c, op, d, i, w)
  BY <1>1 DEF EditLines, Edit, Calculate, CalculateQuoteTotals, CalculateInvoiceTotals
<1>3. /\ w \in Docs /\ Agrees(w) /\ Charged(w) /\ DOMAIN w.lines = DOMAIN ls
      /\ \A j \in DOMAIN ls : w.lines[j].gross = ls[j].gross
  <2>1. "DRAFT" \in QuoteStatuses
    BY DEF QuoteStatuses
  <2> QED
    BY <1>1, <1>2, <2>1, DocsAreDocs, CalculationAgrees
<1>4. PICK r : r = [op |-> op, doc |-> d, at |-> i, will |-> w]
  OBVIOUS
<1>5. r.op = op /\ r.doc = d /\ r.at = i /\ r.will = w
  BY <1>4
<1>6. CallTyped(r)
  <2>1. i \in Nat
    BY QuotesAssumption
  <2>2. r \in [op : Edits \cup Turns \cup {"invoice"}, doc : Names, at : Nat, will : Docs]
    BY <1>3, <1>4, <2>1 DEF Edits, Pricings
  <2>3. op = "add" => i \in DOMAIN w.lines
    BY <1>3
  <2> QED
    BY <1>5, <2>2, <2>3 DEF CallTyped, Turns
<1>7. PricesAsRead(r)
  <2>1. DOMAIN w.lines = Left(r)
    BY <1>3, <1>5 DEF Left
  <2>2. \A j \in DOMAIN w.lines \ {i} : w.lines[j].gross = doc[d].lines[j].gross
    BY <1>3
  <2> QED
    BY <1>3, <1>5, <2>1, <2>2 DEF PricesAsRead
<1>8. StatusAsRead(r)
  BY <1>2, <1>5 DEF StatusAsRead, Turns
<1>9. edits' \in 0..MaxEdits
  BY <1>2, DocsAreDocs
<1> QED
  BY <1>2, <1>4, <1>6, <1>7, <1>8, <1>9, EnterKeeps

\* A line after the others has an order of its own.
LEMMA NewLineTyped ==
  ASSUME NEW ls \in LineMaps, NEW k \in Kinds
  PROVE  NewLine(ls, k) \in Lines
<1>1. PICK D, S : D = DOMAIN ls /\ S = {ls[j].order : j \in D}
  OBVIOUS
<1>2. IsFiniteSet(D) /\ \A j \in D : ls[j].order \in Nat
  BY <1>1, LineMapsAre, LineFields
<1>3. IsFiniteSet(S)
  <2>1. PICK f : f = [j \in D |-> ls[j].order]
    OBVIOUS
  <2>2. S = {f[j] : j \in D}
    BY <1>1, <2>1
  <2>3. f \in Surjection(D, S)
    BY <2>1, <2>2 DEF Surjection
  <2> QED
    BY <1>2, <2>3, FS_Surjection
<1>4. PICK T : T = S \cup {-1}
  OBVIOUS
<1>5. IsFiniteSet(T) /\ T # {} /\ T \in SUBSET Int /\ \A x \in T : x >= -1
  <2>1. IsFiniteSet({-1})
    BY FS_Singleton
  <2>2. IsFiniteSet(T)
    BY <1>3, <1>4, <2>1, FS_Union
  <2> QED
    BY <1>1, <1>2, <1>4, <2>2
<1>6. Max(T) \in Int /\ Max(T) >= -1
  BY <1>5, MaxOfFinite
<1>7. 1 + Max(T) \in Nat
  BY <1>6
<1>8. NewLine(ls, k) = [gross |-> k.gross, off |-> k.off, rate |-> k.rate,
                        order |-> 1 + Max(T), base |-> 0, tax |-> 0, total |-> 0]
  BY <1>1, <1>4 DEF NewLine
<1>9. k.gross \in Nat /\ k.off \in Nat /\ k.rate \in Nat
  BY QuotesAssumption
<1> QED
  BY <1>7, <1>8, <1>9 DEF Lines

\* addQuoteLineItem and addInvoiceLineItem begin.
LEMMA AddLineKeeps ==
  ASSUME QuotesInv, NEW c \in Requests, NEW d \in Names, NEW i \in LineIds, NEW k \in Kinds,
         AddLine(c, d, i, k)
  PROVE  QuotesInv' /\ Stands
<1>1. PICK was, ls : /\ was = doc[d].lines
                     /\ ls = [j \in DOMAIN was \cup {i} |->
                                IF j = i THEN NewLine(was, k) ELSE was[j]]
  OBVIOUS
<1>2. EditLines(c, "add", d, i, ls)
  BY <1>1 DEF AddLine
<1>3. was \in LineMaps
  BY <1>1, DocsAreDocs
<1>4. ls \in LineMaps /\ DOMAIN ls = DOMAIN was \cup {i}
  <2>1. DOMAIN was \in SUBSET LineIds /\ IsFiniteSet(DOMAIN was) /\ was \in [DOMAIN was -> Lines]
    BY <1>3, LineMapsAre
  <2>2. IsFiniteSet(DOMAIN was \cup {i})
    BY <2>1, FS_AddElement
  <2>3. NewLine(was, k) \in Lines
    BY <1>3, NewLineTyped
  <2>4. DOMAIN ls = DOMAIN was \cup {i} /\ ls \in [DOMAIN ls -> Lines]
    BY <1>1, <2>1, <2>3
  <2> QED
    BY <2>1, <2>2, <2>4, LineMapsAre
<1>5. \A j \in DOMAIN ls \ {i} : ls[j].gross = was[j].gross
  BY <1>1, <1>4
<1> QED
  BY <1>1, <1>2, <1>4, <1>5, EditLinesKeeps

\* updateQuoteLineItem and updateInvoiceLineItem begin.
LEMMA UpdateLineKeeps ==
  ASSUME QuotesInv, NEW c \in Requests, NEW d \in Names, NEW i \in DOMAIN doc[d].lines,
         NEW k \in Kinds, NEW keep \in BOOLEAN, UpdateLine(c, d, i, k, keep)
  PROVE  QuotesInv' /\ Stands
<1>1. PICK was : was = doc[d].lines
  OBVIOUS
<1>2. PICK l, ls : l = Asked(was[i], k, keep) /\ ls = [was EXCEPT ![i] = l]
  OBVIOUS
<1>3. ls = [doc[d].lines EXCEPT ![i] = Asked(@, k, keep)]
  BY <1>1, <1>2
<1>4. EditLines(c, "update", d, i, ls)
  BY <1>3 DEF UpdateLine
<1>5. was \in LineMaps
  BY <1>1, DocsAreDocs
<1>6. l \in Lines
  <2>1. k.gross \in Nat /\ k.off \in Nat /\ k.rate \in Nat
    BY QuotesAssumption
  <2>2. was[i] \in Lines
    BY <1>1, <1>5, LineFields
  <2> QED
    BY <1>2, <2>1, <2>2 DEF Lines, Asked
<1>7. DOMAIN was \in SUBSET LineIds /\ IsFiniteSet(DOMAIN was) /\ was \in [DOMAIN was -> Lines]
  BY <1>5, LineMapsAre
<1>8. ls \in LineMaps /\ DOMAIN ls = DOMAIN was
  <2>1. DOMAIN ls = DOMAIN was /\ ls \in [DOMAIN ls -> Lines]
    BY <1>2, <1>6, <1>7
  <2> QED
    BY <1>7, <2>1, LineMapsAre
<1>9. \A j \in DOMAIN ls \ {i} : ls[j].gross = was[j].gross
  BY <1>2, <1>8
<1>10. i \in LineIds
  BY <1>1, <1>7
<1> QED
  BY <1>1, <1>4, <1>8, <1>9, <1>10, EditLinesKeeps

\* removeQuoteLineItem and removeInvoiceLineItem begin.
LEMMA RemoveLineKeeps ==
  ASSUME QuotesInv, NEW c \in Requests, NEW d \in Names, NEW i \in DOMAIN doc[d].lines,
         RemoveLine(c, d, i)
  PROVE  QuotesInv' /\ Stands
<1>1. PICK was, ls : was = doc[d].lines /\ ls = [j \in DOMAIN was \ {i} |-> was[j]]
  OBVIOUS
<1>2. EditLines(c, "remove", d, i, ls)
  BY <1>1 DEF RemoveLine, Restrict
<1>3. was \in LineMaps
  BY <1>1, DocsAreDocs
<1>4. DOMAIN was \in SUBSET LineIds /\ IsFiniteSet(DOMAIN was) /\ was \in [DOMAIN was -> Lines]
  BY <1>3, LineMapsAre
<1>5. ls \in LineMaps /\ DOMAIN ls = DOMAIN was \ {i}
  <2>1. DOMAIN ls = DOMAIN was \ {i} /\ ls \in [DOMAIN ls -> Lines]
    BY <1>1, <1>4
  <2>2. IsFiniteSet(DOMAIN ls)
    BY <1>4, <2>1, FS_Subset
  <2> QED
    BY <1>4, <2>1, <2>2, LineMapsAre
<1>6. \A j \in DOMAIN ls \ {i} : ls[j].gross = was[j].gross
  BY <1>1, <1>5
<1>7. i \in LineIds
  BY <1>1, <1>4
<1> QED
  BY <1>1, <1>2, <1>5, <1>6, <1>7, EditLinesKeeps

\* reorderQuoteLineItems and reorderInvoiceLineItems begin.
LEMMA ReorderKeeps ==
  ASSUME QuotesInv, NEW c \in Requests, NEW d \in Names, Reorder(c, d)
  PROVE  QuotesInv' /\ Stands
<1>1. PICK x, ls : x = doc[d] /\ ls = x.lines
  OBVIOUS
<1>2. PICK rank \in Bijection(DOMAIN ls, 0..Cardinality(DOMAIN ls) - 1) :
        Edit(c, "reorder", d, 0,
             [x EXCEPT !.lines = [i \in DOMAIN ls |-> [ls[i] EXCEPT !.order = rank[i]]]])
  BY <1>1 DEF Reorder
<1>3. x \in Docs /\ ls \in LineMaps
  BY <1>1, DocsAreDocs
<1>4. DOMAIN ls \in SUBSET LineIds /\ IsFiniteSet(DOMAIN ls)
  BY <1>3, LineMapsAre
<1>5. PICK m : m = [i \in DOMAIN ls |-> [ls[i] EXCEPT !.order = rank[i]]]
  OBVIOUS
<1>6. m \in LineMaps
  <2>1. rank \in [DOMAIN ls -> 0..Cardinality(DOMAIN ls) - 1]
    BY <1>2 DEF Bijection, Injection
  <2>2. Cardinality(DOMAIN ls) \in Nat
    BY <1>4, FS_CardinalityType
  <2>3. \A i \in DOMAIN ls : rank[i] \in Nat
    BY <2>1, <2>2
  <2>4. \A i \in DOMAIN ls : ls[i] \in Lines
    BY <1>3, LineFields
  <2>5. \A i \in DOMAIN ls : [ls[i] EXCEPT !.order = rank[i]] \in Lines
    BY <2>3, <2>4 DEF Lines
  <2>6. DOMAIN m = DOMAIN ls /\ m \in [DOMAIN ls -> Lines]
    BY <1>5, <2>5
  <2> QED
    BY <1>4, <2>6, LineMapsAre
<1>7. PICK w : w = [x EXCEPT !.lines = m]
  OBVIOUS
<1>8. w \in Docs
  BY <1>3, <1>6, <1>7 DEF Docs
<1>9. PICK r : r = [op |-> "reorder", doc |-> d, at |-> 0, will |-> w]
  OBVIOUS
<1>10. CallTyped(r)
  BY <1>8, <1>9 DEF CallTyped, Edits, Turns
<1>11. /\ x.status = "DRAFT" /\ edits < MaxEdits /\ edits' = edits + 1
       /\ Enter(c, "reorder", d, 0, w)
  BY <1>1, <1>2, <1>5, <1>7 DEF Edit
<1>12. PricesAsRead(r) /\ StatusAsRead(r)
  BY <1>1, <1>9, <1>11 DEF PricesAsRead, StatusAsRead, Pricings, Turns
<1> QED
  BY <1>9, <1>10, <1>11, <1>12, DocsAreDocs, EnterKeeps

\* A header of a draft is written, and what it makes of the lines.
LEMMA HeaderKeeps ==
  ASSUME QuotesInv, NEW c \in Requests, NEW d \in Names, NEW w \in Docs,
         Edit(c, "header", d, 0, w), Agrees(w) \/ overlapped,
         DOMAIN w.lines = DOMAIN doc[d].lines,
         d = "invoice" => \/ overlapped
                          \/ /\ Charged(w)
                             /\ \A i \in DOMAIN w.lines :
                                  /\ w.lines[i].gross = doc[d].lines[i].gross
                                  /\ w.lines[i].off = doc[d].lines[i].off
  PROVE  QuotesInv' /\ Stands
<1>1. PICK r : r = [op |-> "header", doc |-> d, at |-> 0, will |-> w]
  OBVIOUS
<1>2. r.op = "header" /\ r.doc = d /\ r.at = 0 /\ r.will = w
  BY <1>1
<1>3. CallTyped(r)
  <2>1. r \in [op : Edits \cup Turns \cup {"invoice"}, doc : Names, at : Nat, will : Docs]
    BY <1>1 DEF Edits, Pricings
  <2> QED
    BY <1>2, <2>1 DEF CallTyped, Turns
<1>4. /\ doc[d].status = "DRAFT" /\ edits < MaxEdits /\ edits' = edits + 1
      /\ Enter(c, "header", d, 0, w)
  BY DEF Edit
<1>5. PricesAsRead(r) \/ overlapped
  <2>1. DOMAIN w.lines = Left(r)
    BY <1>2 DEF Left
  <2> QED
    BY <1>2, <2>1 DEF PricesAsRead
<1>6. StatusAsRead(r)
  BY <1>2, <1>4 DEF StatusAsRead, Turns
<1>7. edits' \in 0..MaxEdits
  BY <1>4, DocsAreDocs
<1> QED
  BY <1>1, <1>3, <1>4, <1>5, <1>6, <1>7, EnterKeeps

\* A document without lines gets a new discount.
LEMMA NewSetting ==
  ASSUME NEW x \in Docs, NEW s \in Settings, NEW w, w = [x EXCEPT !.setting = s]
  PROVE  /\ w \in Docs /\ w.lines = x.lines /\ w.status = x.status
         /\ Agrees(x) => Agrees(w)
         /\ Charged(x) => Charged(w)
<1>1. /\ w \in Docs /\ w.lines = x.lines /\ w.status = x.status
      /\ w.subtotal = x.subtotal /\ w.discount = x.discount /\ w.tax = x.tax /\ w.total = x.total
  BY DEF Docs
<1> QED
  BY <1>1, SameSums DEF Charged

\* updateQuote begins: the shares become part of the lines' own discounts, their
\* amounts stay what was computed.
LEMMA UpdateQuoteKeeps ==
  ASSUME QuotesInv, NEW c \in Requests, NEW s \in Settings, UpdateQuote(c, s)
  PROVE  QuotesInv' /\ Stands
<1>1. PICK x, p : x = doc["quote"] /\ p = Price(s, x.lines)
  OBVIOUS
<1>2. PICK m : m = [i \in DOMAIN p.lines |-> [p.lines[i] EXCEPT !.off = @ + p.share[i]]]
  OBVIOUS
<1>3. PICK w : w = IF x.lines = NoLines THEN [x EXCEPT !.setting = s]
                   ELSE Priced("DRAFT", s, [p EXCEPT !.lines = m])
  OBVIOUS
<1>4. Priceable(x.lines) /\ Edit(c, "header", "quote", 0, w)
  BY <1>1, <1>2, <1>3 DEF UpdateQuote, CalculateQuoteTotals
<1>5. "quote" \in Names /\ x \in Docs /\ x.lines \in LineMaps
  BY <1>1, DocsAreDocs DEF Names
<1>6. w \in Docs /\ (Agrees(w) \/ overlapped) /\ DOMAIN w.lines = DOMAIN x.lines
  <2>1. CASE x.lines = NoLines
    <3>1. w = [x EXCEPT !.setting = s]
      BY <1>3, <2>1
    <3>2. overlapped \/ Agrees(x)
      BY <1>1, <1>5 DEF QuotesInv, SerialInv
    <3> QED
      BY <1>5, <3>1, <3>2, NewSetting
  <2>2. CASE x.lines # NoLines
    <3>1. PICK y : y = Priced("DRAFT", s, p)
      OBVIOUS
    <3>2. /\ y \in Docs /\ Agrees(y) /\ y.lines = p.lines /\ DOMAIN p.lines = DOMAIN x.lines
          /\ p.share \in [DOMAIN x.lines -> Nat]
      <4>1. "DRAFT" \in QuoteStatuses
        BY DEF QuoteStatuses
      <4> QED
        BY <1>1, <1>4, <1>5, <3>1, <4>1, CalculationAgrees
    <3>3. p.lines \in LineMaps
      BY <3>2, DocFields
    <3>4. ASSUME NEW i \in DOMAIN p.lines
          PROVE  /\ m[i] \in Lines /\ m[i].base = p.lines[i].base
                 /\ m[i].tax = p.lines[i].tax /\ m[i].total = p.lines[i].total
      <4>1. p.lines[i] \in Lines /\ p.share[i] \in Nat
        BY <3>2, <3>3, LineFields
      <4>2. m[i] = [p.lines[i] EXCEPT !.off = @ + p.share[i]]
        BY <1>2
      <4> QED
        BY <4>1, <4>2 DEF Lines
    <3>5. m \in LineMaps /\ DOMAIN m = DOMAIN p.lines
      <4>1. DOMAIN m = DOMAIN p.lines /\ m \in [DOMAIN m -> Lines]
        BY <1>2, <3>4
      <4> QED
        BY <3>3, <4>1, LineMapsAre
    <3>6. w = [status |-> "DRAFT", setting |-> s, subtotal |-> y.subtotal,
               discount |-> y.discount, tax |-> y.tax, total |-> y.total, lines |-> m]
      <4>1. w = Priced("DRAFT", s, [p EXCEPT !.lines = m])
        BY <1>3, <2>2
      <4>2. /\ y.subtotal = p.subtotal /\ y.discount = p.discount
            /\ y.tax = p.tax /\ y.total = p.total
        BY <3>1 DEF Priced
      <4>3. PICK q : q = [p EXCEPT !.lines = m]
        OBVIOUS
      <4>4. /\ q.subtotal = p.subtotal /\ q.discount = p.discount
            /\ q.tax = p.tax /\ q.total = p.total /\ q.lines = m
        BY <1>1, <4>3 DEF Price
      <4> QED
        BY <4>1, <4>2, <4>3, <4>4 DEF Priced
    <3>7. w \in Docs
      <4>1. "DRAFT" \in QuoteStatuses
        BY DEF QuoteStatuses
      <4> QED
        BY <3>2, <3>5, <3>6, <4>1, MakeDoc
    <3>8. Agrees(w)
      <4>1. /\ w.subtotal = y.subtotal /\ w.discount = y.discount /\ w.tax = y.tax
            /\ w.total = y.total /\ w.lines = m
        BY <3>6
      <4> QED
        BY <3>2, <3>4, <3>5, <4>1, SameSums
    <3> QED
      BY <3>2, <3>5, <3>6, <3>7, <3>8
  <2> QED
    BY <2>1, <2>2
<1> QED
  BY <1>1, <1>4, <1>5, <1>6, HeaderKeeps

\* updateInvoice begins.
LEMMA UpdateInvoiceKeeps ==
  ASSUME QuotesInv, NEW c \in Requests, NEW s \in Settings, UpdateInvoice(c, s)
  PROVE  QuotesInv' /\ Stands
<1>1. PICK x, p : x = doc["invoice"] /\ p = Price(s, x.lines)
  OBVIOUS
<1>2. PICK w : w = IF x.lines = NoLines THEN [x EXCEPT !.setting = s] ELSE Priced("DRAFT", s, p)
  OBVIOUS
<1>3. Priceable(x.lines) /\ Edit(c, "header", "invoice", 0, w)
  BY <1>1, <1>2 DEF UpdateInvoice, CalculateInvoiceTotals
<1>4. "invoice" \in Names /\ x \in Docs /\ x.lines \in LineMaps
  BY <1>1, DocsAreDocs DEF Names
<1>5. /\ w \in Docs /\ DOMAIN w.lines = DOMAIN x.lines
      /\ overlapped \/ (Agrees(w) /\ Charged(w))
      /\ \A i \in DOMAIN w.lines : /\ w.lines[i].gross = x.lines[i].gross
                                   /\ w.lines[i].off = x.lines[i].off
  <2>1. CASE x.lines = NoLines
    <3>1. w = [x EXCEPT !.setting = s]
      BY <1>2, <2>1
    <3>2. overlapped \/ (Agrees(x) /\ Charged(x))
      BY <1>1, <1>4 DEF QuotesInv, SerialInv
    <3> QED
      BY <1>4, <3>1, <3>2, NewSetting
  <2>2. CASE x.lines # NoLines
    <3>1. w = Priced("DRAFT", s, p) /\ "DRAFT" \in QuoteStatuses
      BY <1>2, <2>2 DEF QuoteStatuses
    <3> QED
      BY <1>1, <1>3, <1>4, <3>1, CalculationAgrees
  <2> QED
    BY <2>1, <2>2
<1> QED
  BY <1>1, <1>3, <1>4, <1>5, HeaderKeeps

\* updateQuote with a new validUntil begins.
LEMMA RenewQuoteKeeps ==
  ASSUME QuotesInv, NEW c \in Requests, RenewQuote(c)
  PROVE  QuotesInv' /\ Stands
<1>1. PICK w : w = doc["quote"]
  OBVIOUS
<1>2. /\ w.status = "DRAFT" /\ edits < MaxEdits /\ edits' = edits + 1
      /\ Enter(c, "renew", "quote", 0, w)
  BY <1>1 DEF RenewQuote, Edit
<1>3. "quote" \in Names /\ w \in Docs
  BY <1>1, DocsAreDocs DEF Names
<1>4. PICK r : r = [op |-> "renew", doc |-> "quote", at |-> 0, will |-> w]
  OBVIOUS
<1>5. CallTyped(r)
  BY <1>3, <1>4 DEF CallTyped, Edits
<1>6. PricesAsRead(r) /\ StatusAsRead(r)
  BY <1>1, <1>2, <1>4 DEF PricesAsRead, StatusAsRead, Pricings, Turns
<1> QED
  BY <1>2, <1>3, <1>4, <1>5, <1>6, DocsAreDocs, EnterKeeps

\* A turn of the quote's life: what it found and what it will set.
LEMMA TurnKeeps ==
  ASSUME QuotesInv, NEW c \in Requests, NEW op \in Turns, Turn(c, op, Before[op], After[op])
  PROVE  QuotesInv' /\ Stands
<1>1. PICK x, w : x = doc["quote"] /\ w = [x EXCEPT !.status = After[op]]
  OBVIOUS
<1>2. x.status = Before[op] /\ edits' = edits /\ Enter(c, op, "quote", 0, w)
  BY <1>1 DEF Turn
<1>3. x \in Docs
  BY <1>1, DocsAreDocs DEF Names
<1>4. After[op] \in QuoteStatuses
  BY DEF After, Turns, QuoteStatuses
<1>5. w \in Docs /\ w.status = After[op]
  BY <1>1, <1>3, <1>4 DEF Docs
<1>6. PICK r : r = [op |-> op, doc |-> "quote", at |-> 0, will |-> w]
  OBVIOUS
<1>7. r.op = op /\ r.doc = "quote" /\ r.at = 0 /\ r.will = w
  BY <1>6
<1>8. CallTyped(r)
  <2>1. r \in [op : Edits \cup Turns \cup {"invoice"}, doc : Names, at : Nat, will : Docs]
    BY <1>5, <1>6 DEF Names
  <2> QED
    BY <1>7, <2>1 DEF CallTyped, Turns
<1>9. PricesAsRead(r) /\ StatusAsRead(r)
  BY <1>1, <1>2, <1>5, <1>7 DEF PricesAsRead, StatusAsRead, Pricings, Edits, Turns
<1>10. edits' \in 0..MaxEdits
  BY <1>2 DEF QuotesInv, QuotesTyped
<1> QED
  BY <1>2, <1>6, <1>8, <1>9, <1>10, EnterKeeps

\* The turns of the quote's life begin.
LEMMA TurnsKeep ==
  ASSUME QuotesInv, NEW c \in Requests,
         \/ SendQuote(c) \/ ApproveQuote(c) \/ RejectQuote(c) \/ ReviseQuote(c)
         \/ EvaluateExpiration(c) \/ ConvertQuoteToWorkOrder(c) \/ DeleteQuote(c)
  PROVE  QuotesInv' /\ Stands
<1>1. \E op \in Turns : Turn(c, op, Before[op], After[op])
  BY DEF SendQuote, ApproveQuote, RejectQuote, ReviseQuote, EvaluateExpiration,
         ConvertQuoteToWorkOrder, DeleteQuote, Turns, Before, After
<1> QED
  BY <1>1, TurnKeeps

\* createInvoiceFromQuote begins: what was priced is an invoice of its own.
LEMMA CreateInvoiceKeeps ==
  ASSUME QuotesInv, NEW c \in Requests, CreateInvoiceFromQuote(c)
  PROVE  QuotesInv' /\ Stands
<1>1. PICK x, p, w : /\ x = doc["quote"] /\ p = Price(x.setting, x.lines)
                     /\ w = Priced("DRAFT", x.setting, p)
  OBVIOUS
<1>2. Priceable(x.lines) /\ edits' = edits /\ Enter(c, "invoice", "invoice", 0, w)
  BY <1>1 DEF CreateInvoiceFromQuote, CalculateInvoiceTotals
<1>3. w \in Docs /\ Agrees(w) /\ Charged(w)
  <2>1. "DRAFT" \in QuoteStatuses /\ x.setting \in Settings /\ x.lines \in LineMaps
    BY <1>1, DocsAreDocs DEF QuoteStatuses, Names
  <2> QED
    BY <1>1, <1>2, <2>1, CalculationAgrees
<1>4. PICK r : r = [op |-> "invoice", doc |-> "invoice", at |-> 0, will |-> w]
  OBVIOUS
<1>5. CallTyped(r)
  BY <1>3, <1>4 DEF CallTyped, Names, Turns
<1>6. PricesAsRead(r) /\ StatusAsRead(r)
  BY <1>3, <1>4 DEF PricesAsRead, StatusAsRead, Pricings, Edits, Turns
<1>7. edits' \in 0..MaxEdits
  BY <1>2 DEF QuotesInv, QuotesTyped
<1> QED
  BY <1>2, <1>4, <1>5, <1>6, <1>7, EnterKeeps

-----------------------------------------------------------------------------
(* Calls commit. *)

\* The types of a call in progress and, when it is alone, what it has read.
LEMMA CallRead ==
  ASSUME QuotesInv, NEW c \in Requests, phase[c] = "read"
  PROVE  /\ CallTyped(call[c])
         /\ call[c].op \in Edits \cup Turns \cup {"invoice"} /\ call[c].doc \in Names
         /\ call[c].at \in Nat /\ call[c].will \in Docs /\ call[c].will.lines \in LineMaps
         /\ call[c].op \in Turns \cup {"renew"} => call[c].doc = "quote"
         /\ call[c].op = "add" => call[c].at \in DOMAIN call[c].will.lines
         /\ call[c].op = "header" => call[c].at = 0
         /\ overlapped \/ (SerialInv /\ PricesAsRead(call[c]) /\ StatusAsRead(call[c]))
<1>1. CallTyped(call[c])
  BY DEF QuotesInv, QuotesTyped
<1>2. call[c].will \in Docs
  BY <1>1 DEF CallTyped
<1>3. overlapped \/ (SerialInv /\ PricesAsRead(call[c]) /\ StatusAsRead(call[c]))
  BY DEF QuotesInv, SerialInv
<1> QED
  BY <1>1, <1>2, <1>3, DocFields DEF CallTyped

\* What a call writes of the lines that are left.
LEMMA WrittenSays ==
  ASSUME QuotesInv, NEW c \in Requests, phase[c] = "read",
         NEW ids \in SUBSET LineIds, IsFiniteSet(ids), DOMAIN call[c].will.lines \subseteq ids,
         \A i \in ids : \/ i \in DOMAIN doc[call[c].doc].lines
                        \/ (i = call[c].at /\ i \in DOMAIN call[c].will.lines)
  PROVE  /\ Written(c, ids) \in LineMaps /\ DOMAIN Written(c, ids) = ids
         /\ \A i \in DOMAIN call[c].will.lines :
              /\ Written(c, ids)[i].off = call[c].will.lines[i].off
              /\ Written(c, ids)[i].base = call[c].will.lines[i].base
              /\ Written(c, ids)[i].tax = call[c].will.lines[i].tax
              /\ Written(c, ids)[i].total = call[c].will.lines[i].total
              /\ Written(c, ids)[i].gross = IF i = call[c].at THEN call[c].will.lines[i].gross
                                            ELSE doc[call[c].doc].lines[i].gross
<1>1. PICK ls, w, m : /\ ls = doc[call[c].doc].lines /\ w = call[c].will.lines
                      /\ m = Written(c, ids)
  OBVIOUS
<1>2. m = [i \in ids |->
             IF i \notin DOMAIN w THEN ls[i]
             ELSE IF i = call[c].at THEN w[i]
             ELSE [ls[i] EXCEPT !.off = w[i].off, !.rate = w[i].rate, !.base = w[i].base,
                                !.tax = w[i].tax, !.total = w[i].total]]
  BY <1>1 DEF Written
<1>3. ls \in LineMaps /\ w \in LineMaps
  BY <1>1, CallRead, DocsAreDocs
<1>4. ASSUME NEW i \in ids
      PROVE  /\ m[i] \in Lines
             /\ i \in DOMAIN w =>
                  /\ m[i].off = w[i].off /\ m[i].base = w[i].base
                  /\ m[i].tax = w[i].tax /\ m[i].total = w[i].total
                  /\ m[i].gross = IF i = call[c].at THEN w[i].gross ELSE ls[i].gross
  <2>1. CASE i \notin DOMAIN w
    <3>1. m[i] = ls[i] /\ i \in DOMAIN ls
      BY <1>2, <1>1, <2>1
    <3> QED
      BY <1>3, <2>1, <3>1, LineFields
  <2>2. CASE i \in DOMAIN w /\ i = call[c].at
    <3>1. m[i] = w[i]
      BY <1>2, <2>2
    <3> QED
      BY <1>3, <2>2, <3>1, LineFields
  <2>3. CASE i \in DOMAIN w /\ i # call[c].at
    <3>1. PICK l, v : l = ls[i] /\ v = w[i]
      OBVIOUS
    <3>2. l \in Lines /\ v \in Lines
      BY <1>3, <1>1, <2>3, <3>1, LineFields
    <3>3. m[i] = [l EXCEPT !.off = v.off, !.rate = v.rate, !.base = v.base,
                           !.tax = v.tax, !.total = v.total]
      BY <1>2, <2>3, <3>1
    <3>4. m[i] = [gross |-> l.gross, off |-> v.off, rate |-> v.rate, order |-> l.order,
                  base |-> v.base, tax |-> v.tax, total |-> v.total]
      BY <3>2, <3>3 DEF Lines
    <3>5. m[i] \in Lines
      BY <3>2, <3>4 DEF Lines
    <3>6. /\ m[i].off = v.off /\ m[i].base = v.base /\ m[i].tax = v.tax
          /\ m[i].total = v.total /\ m[i].gross = l.gross
      BY <3>4
    <3> QED
      BY <2>3, <3>1, <3>5, <3>6
  <2> QED
    BY <2>1, <2>2, <2>3
<1>5. DOMAIN m = ids /\ m \in [ids -> Lines]
  BY <1>2, <1>4
<1>6. m \in LineMaps
  BY <1>5, LineMapsAre
<1> QED
  BY <1>4, <1>5, <1>6, <1>1

\* The calls that price a line write what they priced.
LEMMA SaveKeeps ==
  ASSUME QuotesInv, NEW c \in Requests, phase[c] = "read",
         call[c].op \in {"add", "update", "remove"}, NEW ids,
         call[c].op = "add" => ids = DOMAIN doc[call[c].doc].lines \cup {call[c].at},
         call[c].op = "remove" => ids = DOMAIN doc[call[c].doc].lines \ {call[c].at},
         call[c].op = "update" => ids = DOMAIN doc[call[c].doc].lines,
         Save(c, ids)
  PROVE  QuotesInv' /\ Stands
<1>1. PICK d, x, ls, v, w, m :
        /\ d = call[c].doc /\ x = doc[d] /\ ls = x.lines
        /\ v = call[c].will /\ w = v.lines /\ m = Written(c, ids)
  OBVIOUS
<1>2. /\ DOMAIN w \subseteq ids
      /\ doc' = [doc EXCEPT ![d] = [@ EXCEPT !.subtotal = v.subtotal, !.discount = v.discount,
                                             !.tax = v.tax, !.total = v.total, !.lines = m]]
      /\ UNCHANGED <<past, orders>> /\ End(c)
  BY <1>1 DEF Save
<1>3. /\ d \in Names /\ x \in Docs /\ ls \in LineMaps /\ v \in Docs /\ w \in LineMaps
      /\ call[c].op = "add" => call[c].at \in DOMAIN w
      /\ overlapped \/ (SerialInv /\ PricesAsRead(call[c]) /\ StatusAsRead(call[c]))
  BY <1>1, CallRead, DocsAreDocs
<1>4. /\ m \in LineMaps /\ DOMAIN m = ids
      /\ \A i \in DOMAIN w :
           /\ m[i].off = w[i].off /\ m[i].base = w[i].base
           /\ m[i].tax = w[i].tax /\ m[i].total = w[i].total
           /\ m[i].gross = IF i = call[c].at THEN w[i].gross ELSE ls[i].gross
  <2>1. /\ DOMAIN ls \in SUBSET LineIds /\ IsFiniteSet(DOMAIN ls)
        /\ DOMAIN w \in SUBSET LineIds
    BY <1>3, LineMapsAre
  <2>2. ids \in SUBSET LineIds
    BY <1>1, <1>3, <2>1
  <2>3. IsFiniteSet(ids)
    BY <1>1, <2>1, FS_AddElement, FS_Subset
  <2>4. \A i \in ids : i \in DOMAIN ls \/ (i = call[c].at /\ i \in DOMAIN w)
    BY <1>1, <1>3
  <2>5. ls = doc[call[c].doc].lines /\ w = call[c].will.lines /\ m = Written(c, ids)
    BY <1>1
  <2>6. DOMAIN w \subseteq ids
    BY <1>2
  <2>7. /\ Written(c, ids) \in LineMaps /\ DOMAIN Written(c, ids) = ids
        /\ \A i \in DOMAIN call[c].will.lines :
             /\ Written(c, ids)[i].off = call[c].will.lines[i].off
             /\ Written(c, ids)[i].base = call[c].will.lines[i].base
             /\ Written(c, ids)[i].tax = call[c].will.lines[i].tax
             /\ Written(c, ids)[i].total = call[c].will.lines[i].total
             /\ Written(c, ids)[i].gross = IF i = call[c].at THEN call[c].will.lines[i].gross
                                           ELSE doc[call[c].doc].lines[i].gross
    <3>1. DOMAIN call[c].will.lines \subseteq ids
      BY <2>5, <2>6
    <3>2. \A i \in ids : \/ i \in DOMAIN doc[call[c].doc].lines
                          \/ (i = call[c].at /\ i \in DOMAIN call[c].will.lines)
      BY <2>4, <2>5
    <3> QED
      BY <2>2, <2>3, <3>1, <3>2, WrittenSays
  <2> QED
    BY <2>5, <2>7
<1>5. PICK y : y = [x EXCEPT !.subtotal = v.subtotal, !.discount = v.discount,
                              !.tax = v.tax, !.total = v.total, !.lines = m]
  OBVIOUS
<1>6. /\ y = [status |-> x.status, setting |-> x.setting, subtotal |-> v.subtotal,
              discount |-> v.discount, tax |-> v.tax, total |-> v.total, lines |-> m]
      /\ y \in Docs
  <2>1. x \in [status : QuoteStatuses, setting : Settings, subtotal : Nat, discount : Nat,
               tax : Int, total : Int, lines : LineMaps]
    BY <1>3 DEF Docs
  <2>2. y = [status |-> x.status, setting |-> x.setting, subtotal |-> v.subtotal,
             discount |-> v.discount, tax |-> v.tax, total |-> v.total, lines |-> m]
    BY <1>5, <2>1
  <2> QED
    BY <1>3, <1>4, <2>2, DocFields, MakeDoc
<1>7. doc' = [doc EXCEPT ![d] = y]
  BY <1>1, <1>2, <1>5
<1>8. past' \in BOOLEAN /\ orders' \in Nat /\ orders' = orders
  BY <1>2 DEF QuotesInv, QuotesTyped
<1>9. ASSUME ~overlapped
      PROVE  /\ Agrees(y)
             /\ d = "invoice" => Charged(y)
             /\ orders' = IF doc'["quote"].status = "CONVERTED" THEN 1 ELSE 0
             /\ x.status = "DRAFT"
  <2>1. SerialInv /\ PricesAsRead(call[c]) /\ StatusAsRead(call[c])
    BY <1>3, <1>9
  <2>2. /\ Agrees(v) /\ DOMAIN w = ids
        /\ d = "invoice" =>
             Charged(v) /\ \A i \in DOMAIN w \ {call[c].at} : w[i].gross = ls[i].gross
    BY <1>1, <2>1 DEF PricesAsRead, Pricings, Left
  <2>3. x.status = "DRAFT"
    BY <1>1, <2>1 DEF StatusAsRead, Edits, Pricings
  <2>4. /\ y.subtotal = v.subtotal /\ y.discount = v.discount /\ y.tax = v.tax
        /\ y.total = v.total /\ y.lines = m /\ y.status = x.status
    BY <1>6
  <2>5. /\ DOMAIN y.lines = DOMAIN v.lines
        /\ \A i \in DOMAIN v.lines : /\ y.lines[i].base = v.lines[i].base
                                     /\ y.lines[i].tax = v.lines[i].tax
                                     /\ y.lines[i].total = v.lines[i].total
    <3>1. v.lines = w /\ DOMAIN m = DOMAIN w
      BY <1>1, <1>4, <2>2
    <3> QED
      BY <1>4, <2>4, <3>1
  <2>6. Agrees(y)
    BY <2>2, <2>4, <2>5, SameSums
  <2>7. d = "invoice" => Charged(y)
    <3> SUFFICES ASSUME d = "invoice", NEW i \in DOMAIN m
                 PROVE  m[i].base = m[i].gross - m[i].off
      BY <2>4 DEF Charged
    <3>1. i \in DOMAIN w /\ w[i].base = w[i].gross - w[i].off
      BY <1>1, <1>4, <2>2 DEF Charged
    <3>2. m[i].gross = w[i].gross
      BY <1>4, <2>2, <3>1
    <3> QED
      BY <1>4, <3>1, <3>2
  <2>8. doc'["quote"].status = doc["quote"].status
    BY <1>1, <1>3, <1>7, <2>4 DEF QuotesInv, QuotesTyped, Names
  <2>9. orders = IF doc["quote"].status = "CONVERTED" THEN 1 ELSE 0
    BY <2>1 DEF SerialInv
  <2> QED
    BY <1>8, <2>3, <2>6, <2>7, <2>8, <2>9
<1>10. "DRAFT" \notin Final
  BY DEF Final
<1>11. overlapped \/ /\ Agrees(y)
                     /\ d = "invoice" => Charged(y)
                     /\ orders' = IF doc'["quote"].status = "CONVERTED" THEN 1 ELSE 0
                     /\ d = "quote" /\ doc["quote"].status # "DRAFT" =>
                          Prices(y) = Prices(doc["quote"])
                     /\ d = "quote" /\ doc["quote"].status \in Final =>
                          y.status = doc["quote"].status
  BY <1>1, <1>9, <1>10
<1>12. /\ QuotesInv /\ End(c) /\ phase[c] = "read" /\ d \in Names /\ y \in Docs
       /\ doc' = [doc EXCEPT ![d] = y] /\ past' \in BOOLEAN /\ orders' \in Nat
  BY <1>2, <1>3, <1>6, <1>7, <1>8
<1> QED
  BY <1>11, <1>12, CommitKeeps

\* The calls about one line commit.
LEMMA CommitPricingsKeep ==
  ASSUME QuotesInv, NEW c \in Requests, NEW d \in Names,
         CommitAdd(c, d) \/ CommitUpdate(c, d) \/ CommitRemove(c, d)
  PROVE  QuotesInv' /\ Stands
<1>1. CASE CommitAdd(c, d)
  BY <1>1, SaveKeeps DEF CommitAdd, Commits
<1>2. CASE CommitUpdate(c, d)
  BY <1>2, SaveKeeps DEF CommitUpdate, Commits
<1>3. CASE CommitRemove(c, d)
  BY <1>3, SaveKeeps DEF CommitRemove, Commits
<1> QED
  BY <1>1, <1>2, <1>3

\* The calls that reorder commit: only the order of the lines changes.
LEMMA CommitReorderKeeps ==
  ASSUME QuotesInv, NEW c \in Requests, NEW d \in Names, CommitReorder(c, d)
  PROVE  QuotesInv' /\ Stands
<1>1. PICK x, ls, w : x = doc[d] /\ ls = x.lines /\ w = call[c].will.lines
  OBVIOUS
<1>2. PICK m : m = [i \in DOMAIN ls |-> IF i \in DOMAIN w
                                        THEN [ls[i] EXCEPT !.order = w[i].order] ELSE ls[i]]
  OBVIOUS
<1>3. /\ phase[c] = "read" /\ call[c].op = "reorder" /\ call[c].doc = d
      /\ doc' = [doc EXCEPT ![d].lines = m] /\ UNCHANGED <<past, orders>> /\ End(c)
  BY <1>1, <1>2 DEF CommitReorder, Commits
<1>4. /\ x \in Docs /\ ls \in LineMaps /\ w \in LineMaps
      /\ overlapped \/ (SerialInv /\ StatusAsRead(call[c]))
  BY <1>1, <1>3, CallRead, DocsAreDocs
<1>5. ASSUME NEW i \in DOMAIN ls
      PROVE  /\ m[i] \in Lines /\ m[i].base = ls[i].base /\ m[i].tax = ls[i].tax
             /\ m[i].total = ls[i].total /\ m[i].gross = ls[i].gross /\ m[i].off = ls[i].off
  <2>1. ls[i] \in Lines
    BY <1>4, LineFields
  <2>2. CASE i \in DOMAIN w
    <3>1. m[i] = [ls[i] EXCEPT !.order = w[i].order] /\ w[i].order \in Nat
      BY <1>2, <1>4, <2>2, LineFields
    <3> QED
      BY <2>1, <3>1 DEF Lines
  <2>3. CASE i \notin DOMAIN w
    BY <1>2, <2>1, <2>3
  <2> QED
    BY <2>2, <2>3
<1>6. m \in LineMaps /\ DOMAIN m = DOMAIN ls
  <2>1. DOMAIN m = DOMAIN ls /\ m \in [DOMAIN m -> Lines]
    BY <1>2, <1>5
  <2> QED
    BY <1>4, <2>1, LineMapsAre
<1>7. PICK y : y = [x EXCEPT !.lines = m]
  OBVIOUS
<1>8. /\ y \in Docs /\ y.lines = m /\ y.status = x.status
      /\ y.subtotal = x.subtotal /\ y.discount = x.discount /\ y.tax = x.tax /\ y.total = x.total
  BY <1>4, <1>6, <1>7 DEF Docs
<1>9. doc' = [doc EXCEPT ![d] = y]
  BY <1>1, <1>3, <1>7
<1>10. /\ past' \in BOOLEAN /\ orders' \in Nat /\ orders' = orders
       /\ doc'["quote"].status = doc["quote"].status
  <2>1. doc'["quote"].status = doc["quote"].status
    BY <1>1, <1>8, <1>9 DEF QuotesInv, QuotesTyped, Names
  <2> QED
    BY <1>3, <2>1 DEF QuotesInv, QuotesTyped
<1>11. ASSUME ~overlapped
       PROVE  /\ Agrees(y)
              /\ d = "invoice" => Charged(y)
              /\ orders' = IF doc'["quote"].status = "CONVERTED" THEN 1 ELSE 0
              /\ x.status = "DRAFT"
  <2>1. SerialInv /\ StatusAsRead(call[c])
    BY <1>4, <1>11
  <2>2. Agrees(x) /\ (d = "invoice" => Charged(x))
    BY <1>1, <2>1 DEF SerialInv
  <2>3. Agrees(y)
    <3>1. DOMAIN y.lines = DOMAIN x.lines
      BY <1>1, <1>6, <1>8
    <3>2. \A i \in DOMAIN x.lines : /\ y.lines[i].base = x.lines[i].base
                                    /\ y.lines[i].tax = x.lines[i].tax
                                    /\ y.lines[i].total = x.lines[i].total
      BY <1>1, <1>5, <1>8
    <3> QED
      BY <1>8, <2>2, <3>1, <3>2, SameSums
  <2>4. d = "invoice" => Charged(y)
    BY <1>1, <1>5, <1>6, <1>8, <2>2 DEF Charged
  <2>5. x.status = "DRAFT"
    BY <1>1, <1>3, <2>1 DEF StatusAsRead, Edits
  <2>6. orders = IF doc["quote"].status = "CONVERTED" THEN 1 ELSE 0
    BY <2>1 DEF SerialInv
  <2> QED
    BY <1>10, <2>3, <2>4, <2>5, <2>6
<1>12. "DRAFT" \notin Final
  BY DEF Final
<1>13. overlapped \/ /\ Agrees(y)
                     /\ d = "invoice" => Charged(y)
                     /\ orders' = IF doc'["quote"].status = "CONVERTED" THEN 1 ELSE 0
                     /\ d = "quote" /\ doc["quote"].status # "DRAFT" =>
                          Prices(y) = Prices(doc["quote"])
                     /\ d = "quote" /\ doc["quote"].status \in Final =>
                          y.status = doc["quote"].status
  BY <1>1, <1>11, <1>12
<1> QED
  BY <1>3, <1>8, <1>9, <1>10, <1>13, CommitKeeps

\* updateQuote commits.
LEMMA CommitUpdateQuoteKeeps ==
  ASSUME QuotesInv, NEW c \in Requests, CommitUpdateQuote(c)
  PROVE  QuotesInv' /\ Stands
<1>1. PICK x, ls, v, w, m :
        /\ x = doc["quote"] /\ ls = x.lines /\ v = call[c].will /\ w = v.lines
        /\ m = Written(c, DOMAIN ls)
  OBVIOUS
<1>2. /\ phase[c] = "read" /\ call[c].op = "header" /\ call[c].doc = "quote"
      /\ DOMAIN w \subseteq DOMAIN ls
      /\ doc' = [doc EXCEPT !["quote"] = Priced(x.status, v.setting, [v EXCEPT !.lines = m])]
      /\ UNCHANGED <<past, orders>> /\ End(c)
  BY <1>1 DEF CommitUpdateQuote, Commits
<1>3. /\ "quote" \in Names /\ x \in Docs /\ ls \in LineMaps /\ v \in Docs /\ w \in LineMaps
      /\ call[c].at = 0
      /\ overlapped \/ (SerialInv /\ PricesAsRead(call[c]) /\ StatusAsRead(call[c]))
  BY <1>1, <1>2, CallRead, DocsAreDocs DEF Names
<1>4. DOMAIN ls \in SUBSET LineIds /\ IsFiniteSet(DOMAIN ls)
  BY <1>3, LineMapsAre
<1>5. /\ m \in LineMaps /\ DOMAIN m = DOMAIN ls
      /\ \A i \in DOMAIN w :
           m[i].base = w[i].base /\ m[i].tax = w[i].tax /\ m[i].total = w[i].total
  <2>1. PICK ids : ids = DOMAIN ls
    OBVIOUS
  <2>2. /\ ids \in SUBSET LineIds /\ IsFiniteSet(ids) /\ DOMAIN call[c].will.lines \subseteq ids
        /\ ids = DOMAIN doc[call[c].doc].lines
    BY <1>1, <1>2, <1>4, <2>1
  <2>3. \A i \in ids : \/ i \in DOMAIN doc[call[c].doc].lines
                       \/ (i = call[c].at /\ i \in DOMAIN call[c].will.lines)
    BY <2>2
  <2>4. /\ Written(c, ids) \in LineMaps /\ DOMAIN Written(c, ids) = ids
        /\ \A i \in DOMAIN call[c].will.lines :
             /\ Written(c, ids)[i].base = call[c].will.lines[i].base
             /\ Written(c, ids)[i].tax = call[c].will.lines[i].tax
             /\ Written(c, ids)[i].total = call[c].will.lines[i].total
    BY <1>2, <2>2, <2>3, WrittenSays
  <2> QED
    BY <1>1, <2>1, <2>4
<1>6. PICK y : y = [status |-> x.status, setting |-> v.setting, subtotal |-> v.subtotal,
                    discount |-> v.discount, tax |-> v.tax, total |-> v.total, lines |-> m]
  OBVIOUS
<1>7. y \in Docs
  BY <1>3, <1>5, <1>6, DocFields, MakeDoc
<1>8. doc' = [doc EXCEPT !["quote"] = y]
  <2>1. PICK q : q = [v EXCEPT !.lines = m]
    OBVIOUS
  <2>2. /\ q.subtotal = v.subtotal /\ q.discount = v.discount
        /\ q.tax = v.tax /\ q.total = v.total /\ q.lines = m
    BY <1>3, <2>1 DEF Docs
  <2>3. Priced(x.status, v.setting, q) = y
    BY <1>6, <2>2 DEF Priced
  <2> QED
    BY <1>2, <2>1, <2>3
<1>9. /\ past' \in BOOLEAN /\ orders' \in Nat /\ orders' = orders
      /\ doc'["quote"].status = x.status
  <2>1. doc'["quote"].status = x.status
    BY <1>3, <1>6, <1>8 DEF QuotesInv, QuotesTyped
  <2> QED
    BY <1>2, <2>1 DEF QuotesInv, QuotesTyped
<1>10. ASSUME ~overlapped
       PROVE  /\ Agrees(y) /\ x.status = "DRAFT"
              /\ orders' = IF doc'["quote"].status = "CONVERTED" THEN 1 ELSE 0
  <2>1. SerialInv /\ PricesAsRead(call[c]) /\ StatusAsRead(call[c])
    BY <1>3, <1>10
  <2>2. Agrees(v) /\ DOMAIN w = DOMAIN ls
    BY <1>1, <1>2, <2>1 DEF PricesAsRead, Pricings, Left
  <2>3. Agrees(y)
    <3>1. /\ y.subtotal = v.subtotal /\ y.discount = v.discount /\ y.tax = v.tax
          /\ y.total = v.total /\ DOMAIN y.lines = DOMAIN v.lines
      BY <1>1, <1>5, <1>6, <2>2
    <3>2. \A i \in DOMAIN v.lines : /\ y.lines[i].base = v.lines[i].base
                                    /\ y.lines[i].tax = v.lines[i].tax
                                    /\ y.lines[i].total = v.lines[i].total
      BY <1>1, <1>5, <1>6
    <3> QED
      BY <2>2, <3>1, <3>2, SameSums
  <2>4. x.status = "DRAFT"
    BY <1>1, <1>2, <2>1 DEF StatusAsRead, Edits, Pricings
  <2>5. orders = IF x.status = "CONVERTED" THEN 1 ELSE 0
    BY <1>1, <2>1 DEF SerialInv
  <2> QED
    BY <1>9, <2>3, <2>4, <2>5
<1>11. "DRAFT" \notin Final
  BY DEF Final
<1>12. overlapped \/ /\ Agrees(y)
                     /\ orders' = IF doc'["quote"].status = "CONVERTED" THEN 1 ELSE 0
                     /\ doc["quote"].status # "DRAFT" => Prices(y) = Prices(doc["quote"])
                     /\ doc["quote"].status \in Final => y.status = doc["quote"].status
  BY <1>1, <1>10, <1>11
<1> QED
  BY <1>2, <1>3, <1>7, <1>8, <1>9, <1>12, CommitKeeps

\* updateQuote with a new validUntil commits.
LEMMA CommitRenewQuoteKeeps ==
  ASSUME QuotesInv, NEW c \in Requests, CommitRenewQuote(c)
  PROVE  QuotesInv' /\ Stands
<1>1. phase[c] = "read" /\ End(c) /\ past' = FALSE /\ UNCHANGED <<doc, orders>>
  BY DEF CommitRenewQuote, Commits
<1>2. PICK y : y = doc["quote"]
  OBVIOUS
<1>3. QuotesTyped /\ (~overlapped => SerialInv) /\ "quote" \in Names
  BY DEF QuotesInv, Names
<1>4. y \in Docs /\ doc' = [doc EXCEPT !["quote"] = y]
  BY <1>1, <1>2, <1>3 DEF QuotesTyped
<1>5. past' \in BOOLEAN /\ orders' \in Nat
  BY <1>1, <1>3 DEF QuotesTyped
<1>6. overlapped \/ /\ Agrees(y)
                    /\ orders' = IF doc'["quote"].status = "CONVERTED" THEN 1 ELSE 0
  BY <1>1, <1>2, <1>3 DEF SerialInv
<1> QED
  BY <1>1, <1>2, <1>3, <1>4, <1>5, <1>6, CommitKeeps

\* updateInvoice commits: it writes neither the base of a line nor its discount, so
\* the header is their sum only because the base was what was asked for.
LEMMA CommitUpdateInvoiceKeeps ==
  ASSUME QuotesInv, NEW c \in Requests, CommitUpdateInvoice(c)
  PROVE  QuotesInv' /\ Stands
<1>1. PICK x, ls, v, w :
        x = doc["invoice"] /\ ls = x.lines /\ v = call[c].will /\ w = v.lines
  OBVIOUS
<1>2. PICK m : m = [i \in DOMAIN ls |->
                      IF i \in DOMAIN w THEN [ls[i] EXCEPT !.tax = w[i].tax, !.total = w[i].total]
                      ELSE ls[i]]
  OBVIOUS
<1>3. PICK y : y = IF w = NoLines THEN [x EXCEPT !.setting = v.setting]
                   ELSE Priced(x.status, v.setting, [v EXCEPT !.lines = m])
  OBVIOUS
<1>4. /\ phase[c] = "read" /\ call[c].op = "header" /\ call[c].doc = "invoice"
      /\ doc' = [doc EXCEPT !["invoice"] = y]
      /\ UNCHANGED <<past, orders>> /\ End(c)
  BY <1>1, <1>2, <1>3 DEF CommitUpdateInvoice, Commits
<1>5. /\ "invoice" \in Names /\ x \in Docs /\ ls \in LineMaps /\ v \in Docs /\ w \in LineMaps
      /\ v.setting \in Settings /\ x.status \in QuoteStatuses
      /\ call[c].at = 0
      /\ overlapped \/ (SerialInv /\ PricesAsRead(call[c]))
  BY <1>1, <1>4, CallRead, DocsAreDocs, DocFields DEF Names
<1>6. ASSUME ~overlapped
      PROVE  /\ Agrees(x) /\ Charged(x) /\ Agrees(v) /\ Charged(v) /\ DOMAIN w = DOMAIN ls
             /\ \A i \in DOMAIN w : w[i].gross = ls[i].gross /\ w[i].off = ls[i].off
             /\ orders = IF doc["quote"].status = "CONVERTED" THEN 1 ELSE 0
  <2>1. SerialInv /\ PricesAsRead(call[c])
    BY <1>5, <1>6
  <2>2. /\ Agrees(x) /\ Charged(x)
        /\ orders = IF doc["quote"].status = "CONVERTED" THEN 1 ELSE 0
    BY <1>1, <1>5, <2>1 DEF SerialInv
  <2>3. /\ Agrees(v) /\ Charged(v) /\ DOMAIN w = DOMAIN ls
        /\ \A i \in DOMAIN w \ {0} : w[i].gross = ls[i].gross /\ w[i].off = ls[i].off
    BY <1>1, <1>4, <1>5, <2>1 DEF PricesAsRead, Pricings, Left
  <2>4. 0 \notin DOMAIN w
    BY <1>5, LineMapsAre, QuotesAssumption
  <2> QED
    BY <2>2, <2>3, <2>4
<1>7. y \in Docs /\ (overlapped \/ (Agrees(y) /\ Charged(y)))
  <2>1. CASE w = NoLines
    <3>1. y = [x EXCEPT !.setting = v.setting]
      BY <1>3, <2>1
    <3> QED
      BY <1>5, <1>6, <3>1, NewSetting
  <2>2. CASE w # NoLines
    <3>1. ASSUME NEW i \in DOMAIN ls
          PROVE  /\ m[i] \in Lines /\ m[i].base = ls[i].base
                 /\ m[i].gross = ls[i].gross /\ m[i].off = ls[i].off
                 /\ i \in DOMAIN w => m[i].tax = w[i].tax /\ m[i].total = w[i].total
      <4>1. ls[i] \in Lines
        BY <1>5, LineFields
      <4>2. CASE i \in DOMAIN w
        <5>1. /\ m[i] = [ls[i] EXCEPT !.tax = w[i].tax, !.total = w[i].total]
              /\ w[i].tax \in Int /\ w[i].total \in Int
          BY <1>2, <1>5, <4>2, LineFields
        <5> QED
          BY <4>1, <5>1 DEF Lines
      <4>3. CASE i \notin DOMAIN w
        BY <1>2, <4>1, <4>3
      <4> QED
        BY <4>2, <4>3
    <3>2. m \in LineMaps /\ DOMAIN m = DOMAIN ls
      <4>1. DOMAIN m = DOMAIN ls /\ m \in [DOMAIN m -> Lines]
        BY <1>2, <3>1
      <4> QED
        BY <1>5, <4>1, LineMapsAre
    <3>3. y = [status |-> x.status, setting |-> v.setting, subtotal |-> v.subtotal,
               discount |-> v.discount, tax |-> v.tax, total |-> v.total, lines |-> m]
      <4>1. PICK q : q = [v EXCEPT !.lines = m]
        OBVIOUS
      <4>2. /\ q.subtotal = v.subtotal /\ q.discount = v.discount
            /\ q.tax = v.tax /\ q.total = v.total /\ q.lines = m
        BY <1>5, <4>1 DEF Docs
      <4>3. y = Priced(x.status, v.setting, q)
        BY <1>3, <2>2, <4>1
      <4> QED
        BY <4>2, <4>3 DEF Priced
    <3>4. y \in Docs
      BY <1>5, <3>2, <3>3, MakeDoc
    <3>5. ASSUME ~overlapped PROVE Agrees(y) /\ Charged(y)
      <4>1. /\ y.subtotal = v.subtotal /\ y.discount = v.discount /\ y.tax = v.tax
            /\ y.total = v.total /\ y.lines = m
        BY <3>3
      <4>2. DOMAIN y.lines = DOMAIN v.lines
        BY <1>1, <1>6, <3>2, <3>5, <4>1
      <4>3. ASSUME NEW i \in DOMAIN w
            PROVE  m[i].base = w[i].base /\ m[i].base = m[i].gross - m[i].off
        <5>1. i \in DOMAIN ls /\ w[i].gross = ls[i].gross /\ w[i].off = ls[i].off
          BY <1>6, <3>5
        <5>2. w[i].base = w[i].gross - w[i].off /\ ls[i].base = ls[i].gross - ls[i].off
          BY <1>1, <1>6, <3>5, <5>1 DEF Charged
        <5> QED
          BY <3>1, <5>1, <5>2
      <4>4. \A i \in DOMAIN v.lines : /\ y.lines[i].base = v.lines[i].base
                                      /\ y.lines[i].tax = v.lines[i].tax
                                      /\ y.lines[i].total = v.lines[i].total
        BY <1>1, <1>6, <3>1, <3>5, <4>1, <4>3
      <4>5. Agrees(v)
        BY <1>6, <3>5
      <4>6. Agrees(y)
        BY <4>1, <4>2, <4>4, <4>5, SameSums
      <4>7. Charged(y)
        BY <1>6, <3>2, <3>5, <4>1, <4>3 DEF Charged
      <4> QED
        BY <4>6, <4>7
    <3> QED
      BY <3>4, <3>5
  <2> QED
    BY <2>1, <2>2
<1>8. past' \in BOOLEAN /\ orders' \in Nat /\ orders' = orders /\ doc'["quote"] = doc["quote"]
  BY <1>4 DEF QuotesInv, QuotesTyped, Names
<1>9. overlapped \/ /\ Agrees(y) /\ Charged(y)
                    /\ orders' = IF doc'["quote"].status = "CONVERTED" THEN 1 ELSE 0
  BY <1>6, <1>7, <1>8
<1> QED
  BY <1>4, <1>5, <1>7, <1>8, <1>9, CommitKeeps

\* A turn sets the status it promised, and a conversion makes an order.
LEMMA CommitTurnKeeps ==
  ASSUME QuotesInv, NEW c \in Requests, NEW op \in Turns \ {"delete"}, CommitTurn(c, op),
         orders' = IF op = "convert" THEN orders + 1 ELSE orders
  PROVE  QuotesInv' /\ Stands
<1>1. PICK x, s : x = doc["quote"] /\ s = call[c].will.status
  OBVIOUS
<1>2. PICK y : y = [x EXCEPT !.status = s]
  OBVIOUS
<1>3. /\ phase[c] = "read" /\ call[c].op = op
      /\ doc' = [doc EXCEPT !["quote"].status = s] /\ past' = past /\ End(c)
  BY <1>1 DEF CommitTurn, Commits
<1>4. /\ "quote" \in Names /\ x \in Docs /\ s \in QuoteStatuses
      /\ overlapped \/ (SerialInv /\ StatusAsRead(call[c]))
  BY <1>1, <1>3, CallRead, DocsAreDocs, DocFields DEF Names
<1>5. /\ y \in Docs /\ y.status = s /\ y.lines = x.lines /\ y.setting = x.setting
      /\ y.subtotal = x.subtotal /\ y.discount = x.discount /\ y.tax = x.tax /\ y.total = x.total
  BY <1>2, <1>4 DEF Docs
<1>6. doc' = [doc EXCEPT !["quote"] = y]
  BY <1>1, <1>2, <1>3
<1>7. past' \in BOOLEAN /\ orders' \in Nat /\ doc'["quote"].status = s
  <2>1. doc'["quote"].status = s
    BY <1>4, <1>5, <1>6 DEF QuotesInv, QuotesTyped
  <2>2. past \in BOOLEAN /\ orders \in Nat
    BY DEF QuotesInv, QuotesTyped
  <2> QED
    BY <1>3, <2>1, <2>2
<1>8. Prices(y) = Prices(x)
  BY <1>5 DEF Prices
<1>9. ASSUME ~overlapped
      PROVE  /\ Agrees(y) /\ x.status \notin Final
             /\ orders' = IF s = "CONVERTED" THEN 1 ELSE 0
  <2>1. SerialInv /\ StatusAsRead(call[c])
    BY <1>4, <1>9
  <2>2. x.status = Before[op] /\ s = After[op]
    BY <1>1, <1>3, <2>1 DEF StatusAsRead
  <2>3. orders = IF x.status = "CONVERTED" THEN 1 ELSE 0
    BY <1>1, <2>1 DEF SerialInv
  <2>4. x.status \notin Final /\ x.status # "CONVERTED"
    BY <2>2 DEF Before, Turns, Final
  <2>5. s = "CONVERTED" <=> op = "convert"
    BY <2>2 DEF After, Turns
  <2>6. orders' = IF s = "CONVERTED" THEN 1 ELSE 0
    BY <2>3, <2>4, <2>5
  <2>7. Agrees(x)
    BY <1>1, <1>4, <2>1 DEF SerialInv
  <2>8. Agrees(y)
    BY <1>5, <2>7, SameSums
  <2> QED
    BY <2>4, <2>6, <2>8
<1>10. overlapped \/ /\ Agrees(y)
                     /\ orders' = IF doc'["quote"].status = "CONVERTED" THEN 1 ELSE 0
                     /\ doc["quote"].status # "DRAFT" => Prices(y) = Prices(doc["quote"])
                     /\ doc["quote"].status \in Final => y.status = doc["quote"].status
  BY <1>1, <1>7, <1>8, <1>9
<1> QED
  BY <1>3, <1>4, <1>5, <1>6, <1>7, <1>10, CommitKeeps

\* The turns of the quote's life commit.
LEMMA CommitTurnsKeep ==
  ASSUME QuotesInv, NEW c \in Requests,
         \/ CommitSend(c) \/ CommitApprove(c) \/ CommitReject(c) \/ CommitRevise(c)
         \/ CommitExpire(c) \/ CommitConvert(c)
  PROVE  QuotesInv' /\ Stands
<1>1. CASE CommitConvert(c)
  <2>1. CommitTurn(c, "convert") /\ orders' = orders + 1 /\ "convert" \in Turns \ {"delete"}
    BY <1>1 DEF CommitConvert, Turns
  <2> QED
    BY <2>1, CommitTurnKeeps
<1>2. CASE ~CommitConvert(c)
  <2>1. PICK op \in Turns \ {"delete", "convert"} : CommitTurn(c, op) /\ orders' = orders
    BY <1>2 DEF CommitSend, CommitApprove, CommitReject, CommitRevise, CommitExpire, Turns
  <2> QED
    BY <2>1, CommitTurnKeeps
<1> QED
  BY <1>1, <1>2

\* deleteQuote commits: a draft goes, and no order was made of it.
LEMMA CommitDeleteKeeps ==
  ASSUME QuotesInv, NEW c \in Requests, CommitDelete(c)
  PROVE  QuotesInv' /\ Stands
<1>1. PICK x, y : x = doc["quote"] /\ y = Priced("DELETED", x.setting, Unpriced)
  OBVIOUS
<1>2. /\ phase[c] = "read" /\ call[c].op = "delete"
      /\ doc' = [doc EXCEPT !["quote"] = y] /\ UNCHANGED <<past, orders>> /\ End(c)
  BY <1>1 DEF CommitDelete, Commits
<1>3. /\ "quote" \in Names /\ x.setting \in Settings /\ "DELETED" \in QuoteStatuses
      /\ overlapped \/ (SerialInv /\ StatusAsRead(call[c]))
  BY <1>1, <1>2, CallRead, DocsAreDocs DEF Names, QuoteStatuses
<1>4. y \in Docs /\ Agrees(y) /\ y.status = "DELETED"
  BY <1>1, <1>3, EmptyDoc
<1>5. /\ past' \in BOOLEAN /\ orders' \in Nat /\ orders' = orders
      /\ doc'["quote"].status = "DELETED"
  <2>1. doc'["quote"].status = "DELETED"
    BY <1>2, <1>3, <1>4 DEF QuotesInv, QuotesTyped
  <2> QED
    BY <1>2, <2>1 DEF QuotesInv, QuotesTyped
<1>6. ASSUME ~overlapped
      PROVE  x.status = "DRAFT" /\ orders = 0
  <2>1. SerialInv /\ StatusAsRead(call[c])
    BY <1>3, <1>6
  <2>2. x.status = Before["delete"]
    BY <1>1, <1>2, <2>1 DEF StatusAsRead, Turns
  <2>3. x.status = "DRAFT"
    BY <2>2 DEF Before
  <2> QED
    BY <1>1, <2>1, <2>3 DEF SerialInv
<1>7. "DRAFT" \notin Final
  BY DEF Final
<1>8. overlapped \/ /\ Agrees(y)
                    /\ orders' = IF doc'["quote"].status = "CONVERTED" THEN 1 ELSE 0
                    /\ doc["quote"].status # "DRAFT" => Prices(y) = Prices(doc["quote"])
                    /\ doc["quote"].status \in Final => y.status = doc["quote"].status
  BY <1>1, <1>4, <1>5, <1>6, <1>7
<1> QED
  BY <1>2, <1>3, <1>4, <1>5, <1>8, CommitKeeps

\* createInvoiceFromQuote commits.
LEMMA CommitInvoiceKeeps ==
  ASSUME QuotesInv, NEW c \in Requests, CommitInvoice(c)
  PROVE  QuotesInv' /\ Stands
<1>1. PICK y : y = call[c].will
  OBVIOUS
<1>2. /\ phase[c] = "read" /\ call[c].op = "invoice"
      /\ doc' = [doc EXCEPT !["invoice"] = y] /\ UNCHANGED <<past, orders>> /\ End(c)
  BY <1>1 DEF CommitInvoice
<1>3. /\ "invoice" \in Names /\ y \in Docs
      /\ overlapped \/ (SerialInv /\ StatusAsRead(call[c]))
  BY <1>1, <1>2, CallRead DEF Names
<1>4. past' \in BOOLEAN /\ orders' \in Nat /\ orders' = orders /\ doc'["quote"] = doc["quote"]
  BY <1>2 DEF QuotesInv, QuotesTyped, Names
<1>5. overlapped \/ /\ Agrees(y) /\ Charged(y)
                    /\ orders' = IF doc'["quote"].status = "CONVERTED" THEN 1 ELSE 0
  BY <1>1, <1>2, <1>3, <1>4 DEF SerialInv, StatusAsRead
<1> QED
  BY <1>2, <1>3, <1>4, <1>5, CommitKeeps

\* Every call that begins keeps the invariant.
LEMMA CallKeeps ==
  ASSUME QuotesInv, NEW c \in Requests, Call(c)
  PROVE  QuotesInv' /\ Stands
<1>1. CASE AddQuoteLineItem(c) \/ AddInvoiceLineItem(c)
  <2>1. \E d \in Names, i \in LineIds, k \in Kinds : AddLine(c, d, i, k)
    BY <1>1 DEF AddQuoteLineItem, AddInvoiceLineItem, Names
  <2> QED
    BY <2>1, AddLineKeeps
<1>2. CASE UpdateQuoteLineItem(c) \/ UpdateInvoiceLineItem(c)
  <2>1. \E d \in Names : \E i \in DOMAIN doc[d].lines, k \in Kinds, keep \in BOOLEAN :
           UpdateLine(c, d, i, k, keep)
    BY <1>2 DEF UpdateQuoteLineItem, UpdateInvoiceLineItem, Names
  <2> QED
    BY <2>1, UpdateLineKeeps
<1>3. CASE RemoveQuoteLineItem(c) \/ RemoveInvoiceLineItem(c)
  <2>1. \E d \in Names : \E i \in DOMAIN doc[d].lines : RemoveLine(c, d, i)
    BY <1>3 DEF RemoveQuoteLineItem, RemoveInvoiceLineItem, Names
  <2> QED
    BY <2>1, RemoveLineKeeps
<1>4. CASE ReorderQuoteLineItems(c) \/ ReorderInvoiceLineItems(c)
  <2>1. \E d \in Names : Reorder(c, d)
    BY <1>4 DEF ReorderQuoteLineItems, ReorderInvoiceLineItems, Names
  <2> QED
    BY <2>1, ReorderKeeps
<1>5. CASE \E s \in Settings : UpdateQuote(c, s) \/ UpdateInvoice(c, s)
  BY <1>5, UpdateQuoteKeeps, UpdateInvoiceKeeps
<1>6. CASE RenewQuote(c)
  BY <1>6, RenewQuoteKeeps
<1>7. CASE \/ SendQuote(c) \/ ApproveQuote(c) \/ RejectQuote(c) \/ ReviseQuote(c)
           \/ EvaluateExpiration(c) \/ ConvertQuoteToWorkOrder(c) \/ DeleteQuote(c)
  BY <1>7, TurnsKeep
<1>8. CASE CreateInvoiceFromQuote(c)
  BY <1>8, CreateInvoiceKeeps
<1> QED
  BY <1>1, <1>2, <1>3, <1>4, <1>5, <1>6, <1>7, <1>8 DEF Call

\* Every commit keeps the invariant.
LEMMA CommitStepKeeps ==
  ASSUME QuotesInv, NEW c \in Requests, Commit(c)
  PROVE  QuotesInv' /\ Stands
<1>1. CASE \/ CommitAddQuoteLineItem(c) \/ CommitUpdateQuoteLineItem(c)
           \/ CommitRemoveQuoteLineItem(c) \/ CommitAddInvoiceLineItem(c)
           \/ CommitUpdateInvoiceLineItem(c) \/ CommitRemoveInvoiceLineItem(c)
  <2>1. \E d \in Names : CommitAdd(c, d) \/ CommitUpdate(c, d) \/ CommitRemove(c, d)
    BY <1>1 DEF CommitAddQuoteLineItem, CommitUpdateQuoteLineItem, CommitRemoveQuoteLineItem,
                CommitAddInvoiceLineItem, CommitUpdateInvoiceLineItem,
                CommitRemoveInvoiceLineItem, Names
  <2> QED
    BY <2>1, CommitPricingsKeep
<1>2. CASE CommitReorderQuoteLineItems(c) \/ CommitReorderInvoiceLineItems(c)
  <2>1. \E d \in Names : CommitReorder(c, d)
    BY <1>2 DEF CommitReorderQuoteLineItems, CommitReorderInvoiceLineItems, Names
  <2> QED
    BY <2>1, CommitReorderKeeps
<1>3. CASE CommitUpdateQuote(c)
  BY <1>3, CommitUpdateQuoteKeeps
<1>4. CASE CommitUpdateInvoice(c)
  BY <1>4, CommitUpdateInvoiceKeeps
<1>5. CASE CommitRenewQuote(c)
  BY <1>5, CommitRenewQuoteKeeps
<1>6. CASE \/ CommitSend(c) \/ CommitApprove(c) \/ CommitReject(c) \/ CommitRevise(c)
           \/ CommitExpire(c) \/ CommitConvert(c)
  BY <1>6, CommitTurnsKeep
<1>7. CASE CommitDelete(c)
  BY <1>7, CommitDeleteKeeps
<1>8. CASE CommitInvoice(c)
  BY <1>8, CommitInvoiceKeeps
<1> QED
  BY <1>1, <1>2, <1>3, <1>4, <1>5, <1>6, <1>7, <1>8 DEF Commit

\* Every step keeps the invariant and does what SentQuotesStand asks.
LEMMA NextKeepsQuotesInv ==
  ASSUME QuotesInv, [QuotesNext]_quotesVars
  PROVE  QuotesInv' /\ (Stands \/ UNCHANGED quotesVars)
<1>1. CASE UNCHANGED quotesVars
  <2>1. QuotesTyped'
    BY <1>1 DEF quotesVars, QuotesInv, QuotesTyped
  <2>2. SerialInv => SerialInv'
    BY <1>1 DEF quotesVars, SerialInv, Alone, PricesAsRead, StatusAsRead, Left
  <2>3. overlapped' = overlapped
    BY <1>1 DEF quotesVars
  <2> QED
    BY <1>1, <2>1, <2>2, <2>3 DEF QuotesInv
<1>2. CASE ValidityEnds
  BY <1>2, ValidityEndsKeeps
<1>3. CASE \E c \in Requests : Call(c) \/ Commit(c) \/ Fail(c)
  BY <1>3, CallKeeps, CommitStepKeeps, FailKeeps
<1> QED
  BY <1>1, <1>2, <1>3 DEF QuotesNext

\* Without overlapping calls the header of a quote, and of its invoice, is the
\* sum of its lines; the calls under way write what they read.
THEOREM QuotesInvariance == QuotesSpec => []QuotesInv
<1>1. QuotesInit => QuotesInv
  BY InitQuotesInv
<1>2. QuotesInv /\ [QuotesNext]_quotesVars => QuotesInv'
  BY NextKeepsQuotesInv
<1> QED
  BY <1>1, <1>2, PTL DEF QuotesSpec

\* The documents have the types of the schema for any number of lines, calls and
\* edits: the base of a line is never negative and the discount of a header never
\* more than its subtotal, whatever calls overlap.
THEOREM QuotesAreTyped == QuotesSpec => []QuotesTypeOK
<1>1. ASSUME QuotesInv PROVE QuotesTypeOK
  <2>1. QuotesTyped
    BY <1>1 DEF QuotesInv
  <2>2. ASSUME NEW d \in Names
        PROVE  /\ doc[d].status \in QuoteStatuses
               /\ doc[d].setting \in Settings
               /\ doc[d].subtotal \in Nat /\ doc[d].discount \in 0..doc[d].subtotal
               /\ doc[d].tax \in Int /\ doc[d].total \in Int
               /\ \E ids \in SUBSET LineIds : doc[d].lines \in [ids -> Lines]
    <3>1. doc[d] \in Docs
      BY <2>1 DEF QuotesTyped
    <3> QED
      BY <3>1, DocFields, LineMapsAre
  <2> QED
    BY <2>1, <2>2 DEF QuotesTyped, QuotesTypeOK, Names
<1> QED
  BY <1>1, QuotesInvariance, PTL

\* Without overlapping calls header and lines agree to the cent, for any prices,
\* rates and discounts.
THEOREM HeadersAreSums == QuotesSpec => []SerialTotalsAgree
<1>1. ASSUME QuotesInv PROVE SerialTotalsAgree
  BY <1>1 DEF QuotesInv, SerialInv, SerialTotalsAgree, Agrees, Charged, Names
<1> QED
  BY <1>1, QuotesInvariance, PTL

\* Without overlapping calls what was sent stands, what has ended stays as it is,
\* and a quote is converted to one order.
THEOREM WhatWasSentStands == QuotesSpec => SentQuotesStand
<1>1. QuotesInv /\ [QuotesNext]_quotesVars => [Stands]_quotesVars
  BY NextKeepsQuotesInv
<1> QED
  BY <1>1, QuotesInvariance, PTL DEF QuotesSpec, SentQuotesStand, Stands

==============================================================================
