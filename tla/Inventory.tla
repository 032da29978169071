------------------------------ MODULE Inventory ------------------------------
(***************************************************************************)
(* The stock movement services, lib/services/inventory/movement: receive,  *)
(* transfer, adjust, reserve, release, consume and return.  Each call      *)
(* reads the part, the location and the work order part and checks their   *)
(* status BEFORE its transaction; the transaction locks the balance row    *)
(* (two rows for a transfer, in the order of their ids), computes the new  *)
(* quantities in the process from the locked rows, writes them and appends *)
(* the movement.  A call that fails a check, times out or dies rolls back. *)
(*                                                                         *)
(* A row that does not exist yet is a row of zeros: lockInventoryBalance   *)
(* creates it, and a second transaction inserting the same key waits on    *)
(* the unique index as it would on the row lock.                           *)
(***************************************************************************)
EXTENDS StockBook

CONSTANTS
  Requests,      \* service calls in progress at the same time
  MaxMovements,  \* bound on the committed calls, for model checking
  Switched,      \* parts and locations whose status changes, for model checking
  Rank           \* localeCompare order of the location ids

ASSUME RequestAssumption == None \notin Requests /\ MaxMovements \in Nat
ASSUME RankAssumption ==
  /\ Rank \in [Locations -> Nat]
  /\ \A l, m \in Locations : Rank[l] = Rank[m] => l = m

VARIABLES
  partStatus,  \* Part.status
  locStatus,   \* InventoryLocation.status
  holder,      \* which transaction holds the lock of each balance row
  stage,       \* where each call is
  call,        \* its arguments
  seen,        \* the quantities it read from the rows it locked
  committed    \* how many calls have committed

vars == <<bookVars, partStatus, locStatus, holder, stage, call, seen, committed>>

Statuses == {"ACTIVE", "INACTIVE"}
Operations == {"receive", "adjust", "reserve", "release", "consume",
               "transfer", "return"}

\* idle, pre-transaction checks passed, all rows locked, return guard passed
Stages == {"idle", "checked", "locked", "guarded"}

\* "loc" is the (source) location, "to" a transfer's destination and equal to
\* "loc" in every other call; "use" matters to consume and return.
Calls == [op : Operations, part : Parts, loc : Locations, to : Locations,
          qty : (-MaxQty..MaxQty) \ {0}, use : Uses \cup {None}]
NoCall == [op |-> "none"]
Quantity == [onHand : Nat, reserved : Nat]
Unseen == [row \in Rows |-> [onHand |-> 0, reserved |-> 0]]

Row(r) == <<call[r].part, call[r].loc>>
ToRow(r) == <<call[r].part, call[r].to>>
Needed(r) == {Row(r), ToRow(r)}
Unlocked(r) == {row \in Needed(r) : holder[row] # r}

Init ==
  /\ BookInit
  /\ partStatus = [p \in Parts |-> "ACTIVE"]
  /\ locStatus = [l \in Locations |-> "ACTIVE"]
  /\ holder = [row \in Rows |-> None]
  /\ stage = [r \in Requests |-> "idle"]
  /\ call = [r \in Requests |-> NoCall]
  /\ seen = [r \in Requests |-> Unseen]
  /\ committed = 0

-----------------------------------------------------------------------------
(* Status transitions: one read, one unconditional update. *)

TransitionPartStatus(p, s) ==
  /\ partStatus[p] # s
  /\ partStatus' = [partStatus EXCEPT ![p] = s]
  /\ UNCHANGED <<bookVars, locStatus, holder, stage, call, seen, committed>>

TransitionLocationStatus(l, s) ==
  /\ locStatus[l] # s
  /\ locStatus' = [locStatus EXCEPT ![l] = s]
  /\ UNCHANGED <<bookVars, partStatus, holder, stage, call, seen, committed>>

-----------------------------------------------------------------------------
(* The part of each call before its transaction. *)

Begin(r, op, p, l, m, q, u) ==
  /\ stage[r] = "idle"
  /\ committed < MaxMovements
  /\ stage' = [stage EXCEPT ![r] = "checked"]
  /\ call' = [call EXCEPT ![r] = [op |-> op, part |-> p, loc |-> l, to |-> m,
                                  qty |-> q, use |-> u]]
  /\ UNCHANGED <<bookVars, partStatus, locStatus, holder, seen, committed>>

ReceiveStock(r, p, l, q) ==
  /\ partStatus[p] = "ACTIVE" /\ locStatus[l] = "ACTIVE"
  /\ Begin(r, "receive", p, l, l, q, None)

\* d is signed; an inactive location may still be counted
AdjustStock(r, p, l, d) ==
  /\ partStatus[p] = "ACTIVE"
  /\ Begin(r, "adjust", p, l, l, d, None)

ReserveStock(r, p, l, q) ==
  /\ partStatus[p] = "ACTIVE" /\ locStatus[l] = "ACTIVE"
  /\ Begin(r, "reserve", p, l, l, q, None)

ReleaseStock(r, p, l, q) ==
  /\ partStatus[p] = "ACTIVE"
  /\ Begin(r, "release", p, l, l, q, None)

\* the WorkOrder must exist; its status is not looked at
ConsumeStock(r, p, l, q) ==
  /\ partStatus[p] = "ACTIVE" /\ locStatus[l] = "ACTIVE"
  /\ Begin(r, "consume", p, l, l, q, None)

\* an inactive source may be emptied, an inactive destination not filled
TransferStock(r, p, l, m, q) ==
  /\ l # m
  /\ partStatus[p] = "ACTIVE" /\ locStatus[m] = "ACTIVE"
  /\ Begin(r, "transfer", p, l, m, q, None)

\* the part may be inactive; the WorkOrderPart must exist and match the part
ReturnStock(r, p, l, q, u) ==
  /\ locStatus[l] = "ACTIVE"
  /\ used[u] # 0 /\ usedPart[u] = p
  /\ Begin(r, "return", p, l, l, q, u)

-----------------------------------------------------------------------------
(* Inside the transaction. *)

\* Slip: a plain SELECT, which waits for nobody.
LockWithoutWaiting(r, row) ==
  /\ stage[r] = "checked"
  /\ row \in Unlocked(r)
  /\ \A other \in Unlocked(r) : Rank[row[2]] <= Rank[other[2]]
  /\ holder' = [holder EXCEPT ![row] = r]
  /\ seen' = [seen EXCEPT ![r][row] = [onHand |-> onHand[row],
                                       reserved |-> reserved[row]]]
  /\ stage' = [stage EXCEPT ![r] = IF Unlocked(r) = {row} THEN "locked" ELSE @]
  /\ UNCHANGED <<bookVars, partStatus, locStatus, call, committed>>

\* Slip: the source row is locked before the destination, unsorted.
LockSourceFirst(r, row) ==
  /\ stage[r] = "checked"
  /\ row \in Unlocked(r)
  /\ Row(r) \in Unlocked(r) => row = Row(r)
  /\ holder[row] = None
  /\ holder' = [holder EXCEPT ![row] = r]
  /\ seen' = [seen EXCEPT ![r][row] = [onHand |-> onHand[row],
                                       reserved |-> reserved[row]]]
  /\ stage' = [stage EXCEPT ![r] = IF Unlocked(r) = {row} THEN "locked" ELSE @]
  /\ UNCHANGED <<bookVars, partStatus, locStatus, call, committed>>

\* SELECT ... FOR UPDATE: waits while another transaction holds the row, then
\* reads it.  A transfer locks its two rows in the order of the location ids.
LockInventoryBalance(r, row) ==
  /\ stage[r] = "checked"
  /\ row \in Unlocked(r)
  /\ \A other \in Unlocked(r) : Rank[row[2]] <= Rank[other[2]]
  /\ holder[row] = None
  /\ holder' = [holder EXCEPT ![row] = r]
  /\ seen' = [seen EXCEPT ![r][row] = [onHand |-> onHand[row],
                                       reserved |-> reserved[row]]]
  /\ stage' = [stage EXCEPT ![r] = IF Unlocked(r) = {row} THEN "locked" ELSE @]
  /\ UNCHANGED <<bookVars, partStatus, locStatus, call, committed>>

\* The end of a call: its locks are released and what it held is forgotten.
End(r) ==
  /\ holder' = [row \in Rows |-> IF holder[row] = r THEN None ELSE holder[row]]
  /\ stage' = [stage EXCEPT ![r] = "idle"]
  /\ call' = [call EXCEPT ![r] = NoCall]
  /\ seen' = [seen EXCEPT ![r] = Unseen]
  /\ UNCHANGED <<partStatus, locStatus>>

Ready(r, op) == stage[r] = "locked" /\ call[r].op = op

\* tx.stockMovement.create
Record(row, type, q) == ledger' = Moved(ledger, row, type, q)

\* The commit: the writes become visible and the locks are released.
Done(r) ==
  /\ committed < MaxMovements
  /\ committed' = committed + 1
  /\ End(r)

CommitReceive(r) ==
  LET newOnHand == seen[r][Row(r)].onHand + call[r].qty IN
  /\ Ready(r, "receive")
  /\ newOnHand <= MaxStock
  /\ onHand' = [onHand EXCEPT ![Row(r)] = newOnHand]
  /\ Record(Row(r), "RECEIPT", call[r].qty)
  /\ UNCHANGED <<reserved, used, usedPart, returned, returnedTo>>
  /\ Done(r)

CommitAdjust(r) ==
  LET newOnHand == seen[r][Row(r)].onHand + call[r].qty IN
  /\ Ready(r, "adjust")
  /\ newOnHand \in 0..MaxStock
  /\ onHand' = [onHand EXCEPT ![Row(r)] = newOnHand]
  /\ Record(Row(r), "ADJUSTMENT", call[r].qty)
  /\ UNCHANGED <<reserved, used, usedPart, returned, returnedTo>>
  /\ Done(r)

\* Slip: the new total is not compared with what is on hand.
CommitReserveUnchecked(r) ==
  /\ Ready(r, "reserve")
  /\ reserved' = [reserved EXCEPT ![Row(r)] = seen[r][Row(r)].reserved + call[r].qty]
  /\ Record(Row(r), "RESERVATION", call[r].qty)
  /\ UNCHANGED <<onHand, used, usedPart, returned, returnedTo>>
  /\ Done(r)

CommitReserve(r) ==
  LET newReserved == seen[r][Row(r)].reserved + call[r].qty IN
  /\ Ready(r, "reserve")
  /\ newReserved <= seen[r][Row(r)].onHand
  /\ reserved' = [reserved EXCEPT ![Row(r)] = newReserved]
  /\ Record(Row(r), "RESERVATION", call[r].qty)
  /\ UNCHANGED <<onHand, used, usedPart, returned, returnedTo>>
  /\ Done(r)

CommitRelease(r) ==
  LET newReserved == seen[r][Row(r)].reserved - call[r].qty IN
  /\ Ready(r, "release")
  /\ newReserved >= 0
  /\ reserved' = [reserved EXCEPT ![Row(r)] = newReserved]
  /\ Record(Row(r), "RELEASE", call[r].qty)
  /\ UNCHANGED <<onHand, used, usedPart, returned, returnedTo>>
  /\ Done(r)

\* Strict reservation model: only what is reserved can be consumed.  The new
\* WorkOrderPart gets a fresh id (cuid).
CommitConsume(r, u) ==
  LET newOnHand == seen[r][Row(r)].onHand - call[r].qty
      newReserved == seen[r][Row(r)].reserved - call[r].qty  IN
  /\ Ready(r, "consume")
  /\ newOnHand >= 0
  /\ newReserved >= 0
  /\ used[u] = 0
  /\ onHand' = [onHand EXCEPT ![Row(r)] = newOnHand]
  /\ reserved' = [reserved EXCEPT ![Row(r)] = newReserved]
  /\ used' = [used EXCEPT ![u] = call[r].qty]
  /\ usedPart' = [usedPart EXCEPT ![u] = call[r].part]
  /\ Record(Row(r), "CONSUMPTION", call[r].qty)
  /\ UNCHANGED <<returned, returnedTo>>
  /\ Done(r)

CommitTransfer(r) ==
  LET source == seen[r][Row(r)]
      newSourceOnHand == source.onHand - call[r].qty
      newDestOnHand == seen[r][ToRow(r)].onHand + call[r].qty  IN
  /\ Ready(r, "transfer")
  /\ source.onHand - source.reserved >= call[r].qty
  /\ newDestOnHand <= MaxStock
  /\ onHand' = [onHand EXCEPT ![Row(r)] = newSourceOnHand,
                              ![ToRow(r)] = newDestOnHand]
  /\ ledger' = Moved(Moved(ledger, Row(r), "TRANSFER_OUT", call[r].qty),
                     ToRow(r), "TRANSFER_IN", call[r].qty)
  /\ UNCHANGED <<reserved, used, usedPart, returned, returnedTo>>
  /\ Done(r)

\* Slip: prior returns are not subtracted.
GuardReturnGross(r) ==
  /\ Ready(r, "return")
  /\ call[r].qty <= used[call[r].use]
  /\ stage' = [stage EXCEPT ![r] = "guarded"]
  /\ UNCHANGED <<bookVars, partStatus, locStatus, holder, call, seen, committed>>

\* The over-return guard: reads the committed RETURN movements of the work
\* order part, at any location, while holding the row of this location.
GuardReturn(r) ==
  /\ Ready(r, "return")
  /\ call[r].qty <= used[call[r].use] - returned[call[r].use]
  /\ stage' = [stage EXCEPT ![r] = "guarded"]
  /\ UNCHANGED <<bookVars, partStatus, locStatus, holder, call, seen, committed>>

CommitReturn(r) ==
  LET newOnHand == seen[r][Row(r)].onHand + call[r].qty IN
  /\ stage[r] = "guarded"
  /\ newOnHand <= MaxStock
  /\ onHand' = [onHand EXCEPT ![Row(r)] = newOnHand]
  /\ Record(Row(r), "RETURN", call[r].qty)
  /\ returned' = [returned EXCEPT ![call[r].use] = @ + call[r].qty]
  /\ returnedTo' = [returnedTo EXCEPT ![call[r].use][call[r].loc] = @ + call[r].qty]
  /\ UNCHANGED <<reserved, used, usedPart>>
  /\ Done(r)

Commit(r) == \/ CommitReceive(r) \/ CommitAdjust(r) \/ CommitReserve(r)
             \/ CommitRelease(r) \/ CommitTransfer(r) \/ CommitReturn(r)
             \/ \E u \in Uses : CommitConsume(r, u)

\* A failed check, the timeout of the interactive transaction, a dead process:
\* the transaction rolls back.
Rollback(r) ==
  /\ stage[r] # "idle"
  /\ UNCHANGED <<bookVars, committed>>
  /\ End(r)

-----------------------------------------------------------------------------

TransitionStatus ==
  \/ \E p \in Parts \cap Switched, s \in Statuses : TransitionPartStatus(p, s)
  \/ \E l \in Locations \cap Switched, s \in Statuses : TransitionLocationStatus(l, s)

Start(r) ==
  \E p \in Parts, l \in Locations, q \in Quantities :
    \/ ReceiveStock(r, p, l, q)
    \/ AdjustStock(r, p, l, q)
    \/ AdjustStock(r, p, l, -q)
    \/ ReserveStock(r, p, l, q)
    \/ ReleaseStock(r, p, l, q)
    \/ ConsumeStock(r, p, l, q)
    \/ \E m \in Locations : TransferStock(r, p, l, m, q)
    \/ \E u \in Uses : ReturnStock(r, p, l, q, u)

LockRow(r) == \E row \in Rows : LockInventoryBalance(r, row)

Proceed(r) == LockRow(r) \/ GuardReturn(r) \/ Commit(r)

Next ==
  \/ TransitionStatus
  \/ \E r \in Requests : Start(r) \/ Proceed(r) \/ Rollback(r)

Spec == Init /\ [][Next]_vars

-----------------------------------------------------------------------------
(* Properties. *)

\* Every variable has its type; balances may be any integer here.
TypeOK ==
  /\ partStatus \in [Parts -> Statuses]
  /\ locStatus \in [Locations -> Statuses]
  /\ onHand \in [Rows -> Int]
  /\ reserved \in [Rows -> Int]
  /\ ledger \in [Rows -> [MovementTypes -> Int]]
  /\ used \in [Uses -> Nat]
  /\ usedPart \in [Uses -> Parts \cup {None}]
  /\ returned \in [Uses -> Int]
  /\ returnedTo \in [Uses -> [Locations -> Int]]
  /\ holder \in [Rows -> Requests \cup {None}]
  /\ stage \in [Requests -> Stages]
  /\ call \in [Requests -> Calls \cup {NoCall}]
  /\ seen \in [Requests -> [Rows -> [onHand : Int, reserved : Int]]]
  /\ committed \in Nat

\* No interleaving of calls drives a balance below zero: the guards are taken
\* on quantities read under the row lock (InsufficientStockError).
NonNegative == \A row \in Rows : onHand[row] >= 0 /\ reserved[row] >= 0

\* What a transaction read from a row it holds is still what the row contains
\* when it writes, whatever the other calls did in between.
LockedRowIsFresh ==
  \A r \in Requests, row \in Rows :
    holder[row] = r => seen[r][row] = [onHand |-> onHand[row],
                                       reserved |-> reserved[row]]

\* Every call past its checks has the arguments its checks let through.
CallShape ==
  \A r \in Requests : stage[r] # "idle" =>
    /\ call[r] \in Calls
    /\ call[r].op # "adjust" => call[r].qty >= 1
    /\ call[r].op = "transfer" <=> call[r].to # call[r].loc
    /\ call[r].op = "return" =>
         /\ call[r].use \in Uses
         /\ used[call[r].use] # 0
         /\ usedPart[call[r].use] = call[r].part
    /\ stage[r] = "guarded" => call[r].op = "return"

\* Locks are held by running calls, on their own rows; a call that computes
\* holds them all.
LockShape ==
  /\ \A r \in Requests, row \in Rows :
       holder[row] = r => stage[r] # "idle" /\ row \in Needed(r)
  /\ \A r \in Requests : stage[r] \in {"locked", "guarded"} =>
       holder[Row(r)] = r /\ holder[ToRow(r)] = r

\* Returns into one location are part of all returns of the work order part;
\* a guarded return still fits: the row lock keeps its location's total still.
ReturnShape ==
  /\ \A u \in Uses, l \in Locations :
       returnedTo[u][l] >= 0 /\ returnedTo[u][l] <= returned[u]
  /\ \A r \in Requests : stage[r] = "guarded" =>
       call[r].qty + returnedTo[call[r].use][call[r].loc] <= used[call[r].use]

\* Transfers in opposite directions never wait for each other: the row a call
\* waits for is ranked above every row it holds (deterministic lock ordering).
WaitsAbove ==
  \A r \in Requests, row, other \in Rows :
    /\ stage[r] = "checked" /\ row \in Needed(r) /\ holder[row] = r
    /\ other \in Unlocked(r)
    => Rank[row[2]] < Rank[other[2]]

\* Returns of one work order part into one location never add up to more than
\* was consumed, however many calls race: the row lock serialises them.
ReturnsPerLocationWithinUse ==
  \A u \in Uses, l \in Locations : returnedTo[u][l] <= used[u]

\* The inductive invariant of the proofs.
IInv == /\ TypeOK /\ CallShape /\ LockShape /\ LockedRowIsFresh
        /\ NonNegative /\ ReturnShape /\ ReturnsPerLocationWithinUse

\* Every step of the services is one step of the book of stock, or none.
ImplementsBook == BookSpec
==============================================================================
