--------------------------- MODULE InventoryProofs ---------------------------
(***************************************************************************)
(* Proofs about the stock movement services, for every set of parts,       *)
(* locations, calls and work order parts and every quantity.               *)
(***************************************************************************)
EXTENDS Inventory, TLAPS

\* A call at work names parts, locations and rows that exist.
LEMMA RowTypes ==
  ASSUME CallShape, NEW r \in Requests, stage[r] # "idle"
  PROVE  /\ call[r].part \in Parts /\ call[r].loc \in Locations
         /\ call[r].to \in Locations /\ call[r].qty \in Int
         /\ call[r].op \in Operations
         /\ Row(r) \in Rows /\ ToRow(r) \in Rows
         /\ Row(r) = <<call[r].part, call[r].loc>>
         /\ ToRow(r) = <<call[r].part, call[r].to>>
  BY StockAssumption DEF CallShape, Calls, Row, ToRow, Rows

\* What the checks before the transaction let through, whatever the call.
Accepted(r, c) ==
  /\ c \in Calls
  /\ c.op # "adjust" => c.qty >= 1
  /\ c.op = "transfer" <=> c.to # c.loc
  /\ c.op = "return" =>
       c.use \in Uses /\ used[c.use] # 0 /\ usedPart[c.use] = c.part
  /\ stage[r] = "idle"
  /\ stage' = [stage EXCEPT ![r] = "checked"]
  /\ call' = [call EXCEPT ![r] = c]
  /\ UNCHANGED <<bookVars, partStatus, locStatus, holder, seen, committed>>

\* Whatever starts a call accepts one of the calls there are.
LEMMA StartAccepts ==
  ASSUME TypeOK, NEW r \in Requests, Start(r)
  PROVE  \E c \in Calls : Accepted(r, c)
  <1> USE StockAssumption DEF Calls, Operations, Begin, Accepted
  <1>1. PICK p \in Parts, l \in Locations, q \in Quantities :
          \/ ReceiveStock(r, p, l, q)
          \/ AdjustStock(r, p, l, q)
          \/ AdjustStock(r, p, l, -q)
          \/ ReserveStock(r, p, l, q)
          \/ ReleaseStock(r, p, l, q)
          \/ ConsumeStock(r, p, l, q)
          \/ \E m \in Locations : TransferStock(r, p, l, m, q)
          \/ \E u \in Uses : ReturnStock(r, p, l, q, u)
    BY DEF Start
  <1>2. /\ q \in Int /\ q >= 1
        /\ q \in (-MaxQty..MaxQty) \ {0} /\ -q \in (-MaxQty..MaxQty) \ {0}
    BY DEF Quantities
  <1>a. CASE ReceiveStock(r, p, l, q)
    <2> DEFINE c == [op |-> "receive", part |-> p, loc |-> l, to |-> l, qty |-> q, use |-> None]
    <2>1. Accepted(r, c)
      BY <1>a, <1>2 DEF ReceiveStock
    <2> QED  BY <2>1
  <1>b. CASE AdjustStock(r, p, l, q)
    <2> DEFINE c == [op |-> "adjust", part |-> p, loc |-> l, to |-> l, qty |-> q, use |-> None]
    <2>1. Accepted(r, c)
      BY <1>b, <1>2 DEF AdjustStock
    <2> QED  BY <2>1
  <1>c. CASE AdjustStock(r, p, l, -q)
    <2> DEFINE c == [op |-> "adjust", part |-> p, loc |-> l, to |-> l, qty |-> -q, use |-> None]
    <2>1. Accepted(r, c)
      BY <1>c, <1>2 DEF AdjustStock
    <2> QED  BY <2>1
  <1>d. CASE ReserveStock(r, p, l, q)
    <2> DEFINE c == [op |-> "reserve", part |-> p, loc |-> l, to |-> l, qty |-> q, use |-> None]
    <2>1. Accepted(r, c)
      BY <1>d, <1>2 DEF ReserveStock
    <2> QED  BY <2>1
  <1>e. CASE ReleaseStock(r, p, l, q)
    <2> DEFINE c == [op |-> "release", part |-> p, loc |-> l, to |-> l, qty |-> q, use |-> None]
    <2>1. Accepted(r, c)
      BY <1>e, <1>2 DEF ReleaseStock
    <2> QED  BY <2>1
  <1>f. CASE ConsumeStock(r, p, l, q)
    <2> DEFINE c == [op |-> "consume", part |-> p, loc |-> l, to |-> l, qty |-> q, use |-> None]
    <2>1. Accepted(r, c)
      BY <1>f, <1>2 DEF ConsumeStock
    <2> QED  BY <2>1
  <1>g. ASSUME NEW m \in Locations, TransferStock(r, p, l, m, q)
        PROVE  \E c \in Calls : Accepted(r, c)
    <2> DEFINE c == [op |-> "transfer", part |-> p, loc |-> l, to |-> m, qty |-> q, use |-> None]
    <2>1. Accepted(r, c)
      BY <1>g, <1>2 DEF TransferStock
    <2> QED  BY <2>1
  <1>h. ASSUME NEW u \in Uses, ReturnStock(r, p, l, q, u)
        PROVE  \E c \in Calls : Accepted(r, c)
    <2> DEFINE c == [op |-> "return", part |-> p, loc |-> l, to |-> l, qty |-> q, use |-> u]
    <2>1. Accepted(r, c)
      BY <1>h, <1>2 DEF ReturnStock
    <2> QED  BY <2>1
  <1> QED
    BY <1>1, <1>a, <1>b, <1>c, <1>d, <1>e, <1>f, <1>g, <1>h

-----------------------------------------------------------------------------

\* What every commit does, whatever the operation: it rewrites rows the call
\* holds, keeps quantities natural and lets go of the locks.
Effect(r) ==
  /\ stage[r] \in {"locked", "guarded"}
  /\ End(r)
  /\ onHand' \in [Rows -> Nat]
  /\ reserved' \in [Rows -> Nat]
  /\ \A row \in Rows \ Needed(r) :
       onHand'[row] = onHand[row] /\ reserved'[row] = reserved[row]
  /\ ledger' \in [Rows -> [MovementTypes -> Int]]
  /\ used' \in [Uses -> Nat]
  /\ usedPart' \in [Uses -> Parts \cup {None}]
  /\ \A u \in Uses : used[u] # 0 => used'[u] = used[u] /\ usedPart'[u] = usedPart[u]
  /\ \/ returned' = returned /\ returnedTo' = returnedTo
     \/ CommitReturn(r)
  /\ committed' \in Nat

\* Recording a movement keeps the ledger's type.
LEMMA MovedType ==
  ASSUME NEW l \in [Rows -> [MovementTypes -> Int]], NEW row \in Rows,
         NEW type \in MovementTypes, NEW q \in Int
  PROVE  Moved(l, row, type, q) \in [Rows -> [MovementTypes -> Int]]
  BY DEF Moved

\* Every commit, of whichever service, has the one effect Effect describes.
LEMMA CommitHasEffect ==
  ASSUME IInv, NEW r \in Requests, Commit(r)
  PROVE  Effect(r)
  <1> USE DEF Effect, Done, Record, Ready, Needed
  <1>1. stage[r] \in {"locked", "guarded"}
    BY DEF Commit, CommitReceive, CommitAdjust, CommitReserve, CommitRelease,
           CommitConsume, CommitTransfer, CommitReturn
  <1>2. /\ Row(r) \in Rows /\ ToRow(r) \in Rows
        /\ call[r].qty \in Int /\ call[r].part \in Parts
        /\ call[r].op # "adjust" => call[r].qty >= 1
        /\ holder[Row(r)] = r /\ holder[ToRow(r)] = r
    BY <1>1, RowTypes DEF IInv, CallShape, LockShape
  <1>3. /\ seen[r][Row(r)].onHand = onHand[Row(r)]
        /\ seen[r][Row(r)].reserved = reserved[Row(r)]
        /\ seen[r][ToRow(r)].onHand = onHand[ToRow(r)]
    <2>1. \A row \in {Row(r), ToRow(r)} :
            seen[r][row] = [onHand |-> onHand[row], reserved |-> reserved[row]]
      BY <1>2 DEF IInv, LockedRowIsFresh
    <2> QED  BY <2>1
  <1>4. /\ onHand \in [Rows -> Nat] /\ reserved \in [Rows -> Nat]
        /\ ledger \in [Rows -> [MovementTypes -> Int]]
        /\ used \in [Uses -> Nat] /\ usedPart \in [Uses -> Parts \cup {None}]
        /\ committed \in Nat
    BY DEF IInv, TypeOK, NonNegative
  <1>5. \A type \in MovementTypes, row \in Rows :
          Moved(ledger, row, type, call[r].qty) \in [Rows -> [MovementTypes -> Int]]
    BY <1>2, <1>4, MovedType
  <1>6. {"RECEIPT", "TRANSFER_IN", "TRANSFER_OUT", "ADJUSTMENT", "RESERVATION",
         "RELEASE", "CONSUMPTION", "RETURN"} = MovementTypes
    BY DEF MovementTypes
  <1>a. CASE CommitReceive(r)
    <2>1. /\ onHand' = [onHand EXCEPT ![Row(r)] = onHand[Row(r)] + call[r].qty]
          /\ reserved' = reserved
          /\ onHand[Row(r)] + call[r].qty \in Nat
      BY <1>a, <1>2, <1>3, <1>4, StockAssumption DEF CommitReceive
    <2>2. ledger' \in [Rows -> [MovementTypes -> Int]]
      BY <1>a, <1>5, <1>6, <1>2 DEF CommitReceive
    <2> QED
      BY <2>1, <2>2, <1>a, <1>1, <1>2, <1>4 DEF CommitReceive
  <1>b. CASE CommitAdjust(r)
    <2>1. /\ onHand' = [onHand EXCEPT ![Row(r)] = onHand[Row(r)] + call[r].qty]
          /\ reserved' = reserved
          /\ onHand[Row(r)] + call[r].qty \in Nat
      BY <1>b, <1>2, <1>3, <1>4, StockAssumption DEF CommitAdjust
    <2>2. ledger' \in [Rows -> [MovementTypes -> Int]]
      BY <1>b, <1>5, <1>6, <1>2 DEF CommitAdjust
    <2> QED
      BY <2>1, <2>2, <1>b, <1>1, <1>2, <1>4 DEF CommitAdjust
  <1>c. CASE CommitReserve(r)
    <2>1. /\ onHand' = onHand
          /\ reserved' = [reserved EXCEPT ![Row(r)] = reserved[Row(r)] + call[r].qty]
          /\ reserved[Row(r)] + call[r].qty \in Nat
      BY <1>c, <1>2, <1>3, <1>4, StockAssumption DEF CommitReserve
    <2>2. ledger' \in [Rows -> [MovementTypes -> Int]]
      BY <1>c, <1>5, <1>6, <1>2 DEF CommitReserve
    <2> QED
      BY <2>1, <2>2, <1>c, <1>1, <1>2, <1>4 DEF CommitReserve
  <1>d. CASE CommitRelease(r)
    <2>1. /\ onHand' = onHand
          /\ reserved' = [reserved EXCEPT ![Row(r)] = reserved[Row(r)] - call[r].qty]
          /\ reserved[Row(r)] - call[r].qty \in Nat
      BY <1>d, <1>2, <1>3, <1>4, StockAssumption DEF CommitRelease
    <2>2. ledger' \in [Rows -> [MovementTypes -> Int]]
      BY <1>d, <1>5, <1>6, <1>2 DEF CommitRelease
    <2> QED
      BY <2>1, <2>2, <1>d, <1>1, <1>2, <1>4 DEF CommitRelease
  <1>e. ASSUME NEW u \in Uses, CommitConsume(r, u)
        PROVE  Effect(r)
    <2>1. /\ onHand' = [onHand EXCEPT ![Row(r)] = onHand[Row(r)] - call[r].qty]
          /\ reserved' = [reserved EXCEPT ![Row(r)] = reserved[Row(r)] - call[r].qty]
          /\ onHand[Row(r)] - call[r].qty \in Nat
          /\ reserved[Row(r)] - call[r].qty \in Nat
      BY <1>e, <1>2, <1>3, <1>4, StockAssumption DEF CommitConsume
    <2>2. ledger' \in [Rows -> [MovementTypes -> Int]]
      BY <1>e, <1>5, <1>6, <1>2 DEF CommitConsume
    <2> QED
      BY <2>1, <2>2, <1>e, <1>1, <1>2, <1>4 DEF CommitConsume
  <1>f. CASE CommitTransfer(r)
    <2>1. /\ onHand' = [onHand EXCEPT ![Row(r)] = onHand[Row(r)] - call[r].qty,
                                      ![ToRow(r)] = onHand[ToRow(r)] + call[r].qty]
          /\ reserved' = reserved
          /\ onHand[Row(r)] - call[r].qty \in Nat
          /\ onHand[ToRow(r)] + call[r].qty \in Nat
      BY <1>f, <1>2, <1>3, <1>4 DEF CommitTransfer
    <2>2. ledger' \in [Rows -> [MovementTypes -> Int]]
      BY <1>f, <1>2, <1>5, <1>6, MovedType DEF CommitTransfer
    <2> QED
      BY <2>1, <2>2, <1>f, <1>1, <1>2, <1>4 DEF CommitTransfer
  <1>g. CASE CommitReturn(r)
    <2>1. call[r].op = "return"
      BY <1>g, <1>1 DEF CommitReturn, IInv, CallShape
    <2>2. /\ onHand' = [onHand EXCEPT ![Row(r)] = onHand[Row(r)] + call[r].qty]
          /\ reserved' = reserved
          /\ onHand[Row(r)] + call[r].qty \in Nat
      BY <2>1, <1>g, <1>2, <1>3, <1>4 DEF CommitReturn
    <2>3. ledger' \in [Rows -> [MovementTypes -> Int]]
      BY <1>g, <1>5, <1>6, <1>2 DEF CommitReturn
    <2>4. UNCHANGED <<used, usedPart>> /\ Done(r)
      BY <1>g DEF CommitReturn
    <2> QED
      BY <2>2, <2>3, <2>4, <1>g, <1>1, <1>2, <1>4
  <1> QED
    BY <1>a, <1>b, <1>c, <1>d, <1>e, <1>f, <1>g DEF Commit

-----------------------------------------------------------------------------

\* With no stock and no call there is nothing to show.
LEMMA InitIInv == Init => IInv
  <1> SUFFICES ASSUME Init PROVE IInv
    OBVIOUS
  <1> USE DEF Init, BookInit
  <1>1. TypeOK
    BY RequestAssumption DEF TypeOK, Statuses, Stages, NoCall, Calls, Unseen
  <1>2. CallShape
    BY DEF CallShape
  <1>3. LockShape /\ LockedRowIsFresh
    BY RequestAssumption DEF LockShape, LockedRowIsFresh
  <1>4. NonNegative
    BY DEF NonNegative
  <1>5. ReturnShape /\ ReturnsPerLocationWithinUse
    BY DEF ReturnShape, ReturnsPerLocationWithinUse
  <1> QED  BY <1>1, <1>2, <1>3, <1>4, <1>5 DEF IInv

\* Switching a part or a location off or on moves no stock.
LEMMA StatusKeepsIInv ==
  ASSUME IInv, TransitionStatus
  PROVE  IInv'
  <1>1. /\ partStatus' \in [Parts -> Statuses]
        /\ locStatus' \in [Locations -> Statuses]
    <2> USE DEF IInv, TypeOK
    <2>1. ASSUME NEW p \in Parts, NEW s \in Statuses, TransitionPartStatus(p, s)
          PROVE  /\ partStatus' \in [Parts -> Statuses]
                 /\ locStatus' \in [Locations -> Statuses]
      BY <2>1 DEF TransitionPartStatus
    <2>2. ASSUME NEW l \in Locations, NEW s \in Statuses, TransitionLocationStatus(l, s)
          PROVE  /\ partStatus' \in [Parts -> Statuses]
                 /\ locStatus' \in [Locations -> Statuses]
      BY <2>2 DEF TransitionLocationStatus
    <2> QED  BY <2>1, <2>2 DEF TransitionStatus
  <1>2. UNCHANGED <<bookVars, holder, stage, call, seen, committed>>
    BY DEF TransitionStatus, TransitionPartStatus, TransitionLocationStatus
  <1>3. TypeOK'
    BY <1>1, <1>2 DEF IInv, TypeOK, bookVars
  <1>4. (CallShape /\ LockShape /\ LockedRowIsFresh /\ NonNegative)'
    BY <1>2 DEF IInv, bookVars, CallShape, LockShape, LockedRowIsFresh, NonNegative,
                Needed, Row, ToRow
  <1>5. (ReturnShape /\ ReturnsPerLocationWithinUse)'
    BY <1>2 DEF IInv, bookVars, ReturnShape, ReturnsPerLocationWithinUse
  <1> QED  BY <1>3, <1>4, <1>5 DEF IInv

\* A call that has only been checked holds nothing.
LEMMA StartKeepsIInv ==
  ASSUME IInv, NEW r \in Requests, NEW c \in Calls, Accepted(r, c)
  PROVE  IInv'
  <1> USE DEF Accepted, bookVars
  <1>1. TypeOK'
    BY DEF IInv, TypeOK, Stages
  <1>2. CallShape'
    BY DEF IInv, CallShape, TypeOK
  <1>3. \A row \in Rows : holder[row] # r
    BY DEF IInv, LockShape
  <1>4. LockShape'
    BY <1>3 DEF IInv, LockShape, TypeOK, Needed, Row, ToRow
  <1>5. (LockedRowIsFresh /\ NonNegative)'
    BY DEF IInv, LockedRowIsFresh, NonNegative
  <1>6. (ReturnShape /\ ReturnsPerLocationWithinUse)'
    BY DEF IInv, ReturnShape, ReturnsPerLocationWithinUse, TypeOK
  <1> QED  BY <1>1, <1>2, <1>4, <1>5, <1>6 DEF IInv

\* A lock is taken on a free row, and read at that moment.
LEMMA LockKeepsIInv ==
  ASSUME IInv, NEW r \in Requests, NEW row \in Rows, LockInventoryBalance(r, row)
  PROVE  IInv'
  <1> USE DEF LockInventoryBalance, bookVars
  <1>1. TypeOK'
    <2>1. seen' \in [Requests -> [Rows -> [onHand : Int, reserved : Int]]]
      BY DEF IInv, TypeOK
    <2>2. holder' \in [Rows -> Requests \cup {None}] /\ stage' \in [Requests -> Stages]
      BY DEF IInv, TypeOK, Stages
    <2> QED  BY <2>1, <2>2 DEF IInv, TypeOK
  <1>2. /\ stage'[r] \in {"checked", "locked"}
        /\ \A s \in Requests \ {r} : stage'[s] = stage[s]
    BY DEF IInv, TypeOK
  <1>3. CallShape'
    BY <1>2 DEF IInv, CallShape, TypeOK
  <1>4. LockShape'
    <2>1. /\ row \in Needed(r)
          /\ \A other \in Rows : holder'[other] = IF other = row THEN r ELSE holder[other]
      BY DEF Unlocked, IInv, TypeOK
    <2>2. \A s \in Requests, other \in Rows :
            holder'[other] = s => stage'[s] # "idle" /\ other \in Needed(s)'
      BY <1>2, <2>1 DEF IInv, LockShape, Needed, Row, ToRow
    <2>3. ASSUME stage'[r] \in {"locked", "guarded"}
          PROVE  holder'[Row(r)] = r /\ holder'[ToRow(r)] = r
      <3>1. Unlocked(r) = {row}
        BY <2>3 DEF IInv, TypeOK
      <3>2. Row(r) \in Rows /\ ToRow(r) \in Rows
        BY RowTypes DEF IInv
      <3> QED  BY <3>1, <3>2, <2>1 DEF Unlocked, Needed
    <2>4. \A s \in Requests \ {r} : stage'[s] \in {"locked", "guarded"} =>
            holder'[Row(s)] = s /\ holder'[ToRow(s)] = s
      <3> SUFFICES ASSUME NEW s \in Requests \ {r}, stage[s] \in {"locked", "guarded"}
                   PROVE  holder'[Row(s)] = s /\ holder'[ToRow(s)] = s
        BY <1>2
      <3>1. /\ Row(s) \in Rows /\ ToRow(s) \in Rows
            /\ holder[Row(s)] = s /\ holder[ToRow(s)] = s
        BY RowTypes DEF IInv, LockShape
      <3> QED  BY <3>1, <2>1, RequestAssumption
    <2>5. \A s \in Requests : Row(s)' = Row(s) /\ ToRow(s)' = ToRow(s)
      BY DEF Row, ToRow
    <2> QED  BY <2>2, <2>3, <2>4, <2>5 DEF LockShape
  <1>5. LockedRowIsFresh'
    BY RequestAssumption DEF IInv, LockedRowIsFresh, TypeOK
  <1>6. NonNegative'
    BY DEF IInv, NonNegative
  <1>7. (ReturnShape /\ ReturnsPerLocationWithinUse)'
    BY <1>2 DEF IInv, ReturnShape, ReturnsPerLocationWithinUse
  <1> QED  BY <1>1, <1>3, <1>4, <1>5, <1>6, <1>7 DEF IInv

\* The over-return guard reads the ledger under the lock of its row.
LEMMA GuardKeepsIInv ==
  ASSUME IInv, NEW r \in Requests, GuardReturn(r)
  PROVE  IInv'
  <1> USE DEF GuardReturn, Ready, bookVars
  <1>1. TypeOK'
    BY DEF IInv, TypeOK, Stages
  <1>2. /\ stage'[r] = "guarded"
        /\ \A s \in Requests \ {r} : stage'[s] = stage[s]
    BY DEF IInv, TypeOK
  <1>3. CallShape'
    BY <1>2 DEF IInv, CallShape
  <1>4. LockShape'
    BY <1>2 DEF IInv, LockShape, Needed, Row, ToRow
  <1>5. (LockedRowIsFresh /\ NonNegative)'
    BY DEF IInv, LockedRowIsFresh, NonNegative
  <1>6. call[r].qty + returnedTo[call[r].use][call[r].loc] <= used[call[r].use]
    <2>1. /\ call[r].use \in Uses /\ call[r].loc \in Locations /\ call[r].qty \in Int
      BY RowTypes DEF IInv, CallShape
    <2>2. /\ returnedTo[call[r].use][call[r].loc] <= returned[call[r].use]
          /\ returnedTo[call[r].use][call[r].loc] \in Int
          /\ returned[call[r].use] \in Int /\ used[call[r].use] \in Int
      BY <2>1 DEF IInv, TypeOK, ReturnShape
    <2> QED  BY <2>1, <2>2
  <1>7. ReturnShape'
    BY <1>2, <1>6 DEF IInv, ReturnShape
  <1>8. ReturnsPerLocationWithinUse'
    BY DEF IInv, ReturnsPerLocationWithinUse
  <1> QED  BY <1>1, <1>3, <1>4, <1>5, <1>7, <1>8 DEF IInv

\* How the locks and the calls look after a call has ended.
LEMMA EndFacts ==
  ASSUME IInv, NEW r \in Requests, End(r)
  PROVE  /\ holder' \in [Rows -> Requests \cup {None}]
         /\ stage' \in [Requests -> Stages]
         /\ call' \in [Requests -> Calls \cup {NoCall}]
         /\ seen' \in [Requests -> [Rows -> [onHand : Int, reserved : Int]]]
         /\ stage'[r] = "idle"
         /\ \A s \in Requests \ {r} : /\ stage'[s] = stage[s]
                                      /\ call'[s] = call[s]
                                      /\ seen'[s] = seen[s]
         /\ \A row \in Rows, s \in Requests :
              holder'[row] = s <=> holder[row] = s /\ s # r
  <1> USE DEF End, IInv, TypeOK
  <1>1. holder' \in [Rows -> Requests \cup {None}] /\ stage' \in [Requests -> Stages]
    BY DEF Stages
  <1>2. call' \in [Requests -> Calls \cup {NoCall}]
    OBVIOUS
  <1>3. seen' \in [Requests -> [Rows -> [onHand : Int, reserved : Int]]]
    BY DEF Unseen
  <1>4. \A row \in Rows, s \in Requests :
          holder'[row] = s <=> holder[row] = s /\ s # r
    BY RequestAssumption
  <1>5. /\ stage'[r] = "idle"
        /\ \A s \in Requests \ {r} : /\ stage'[s] = stage[s]
                                     /\ call'[s] = call[s]
                                     /\ seen'[s] = seen[s]
    OBVIOUS
  <1> QED  BY <1>1, <1>2, <1>3, <1>4, <1>5

\* The end of a call frees its own rows and no other's.
LEMMA EndKeepsLockShape ==
  ASSUME IInv, NEW r \in Requests, End(r)
  PROVE  LockShape'
  <1>1. \A s \in Requests \ {r} : Row(s)' = Row(s) /\ ToRow(s)' = ToRow(s)
    BY EndFacts DEF Row, ToRow
  <1>2. ASSUME NEW s \in Requests, NEW row \in Rows, holder'[row] = s
        PROVE  stage'[s] # "idle" /\ row \in Needed(s)'
    <2>1. holder[row] = s /\ s # r
      BY <1>2, EndFacts
    <2>2. stage'[s] = stage[s]
      BY <2>1, EndFacts
    <2> QED  BY <1>1, <2>1, <2>2 DEF IInv, LockShape, Needed
  <1>3. ASSUME NEW s \in Requests, stage'[s] \in {"locked", "guarded"}
        PROVE  holder'[Row(s)'] = s /\ holder'[ToRow(s)'] = s
    <2>1. s # r /\ stage[s] \in {"locked", "guarded"}
      BY <1>3, EndFacts
    <2>2. /\ Row(s) \in Rows /\ ToRow(s) \in Rows
          /\ holder[Row(s)] = s /\ holder[ToRow(s)] = s
      BY <2>1, RowTypes DEF IInv, LockShape
    <2> QED  BY <1>1, <2>1, <2>2, EndFacts
  <1> QED  BY <1>2, <1>3 DEF LockShape

\* A call rolled back, refused or crashed leaves only its locks free.
LEMMA RollbackKeepsIInv ==
  ASSUME IInv, NEW r \in Requests, Rollback(r)
  PROVE  IInv'
  <1> USE DEF Rollback, bookVars
  <1>1. End(r)
    OBVIOUS
  <1>2. TypeOK'
    BY <1>1, EndFacts DEF IInv, TypeOK, End
  <1>3. CallShape'
    <2>1. /\ stage'[r] = "idle" /\ UNCHANGED <<used, usedPart>>
          /\ \A s \in Requests \ {r} : stage'[s] = stage[s] /\ call'[s] = call[s]
      BY <1>1, EndFacts
    <2>2. CallShape
      BY DEF IInv
    <2> HIDE DEF Rollback, bookVars
    <2> QED  BY <2>1, <2>2 DEF CallShape
  <1>4. LockShape'
    BY <1>1, EndKeepsLockShape
  <1>5. LockedRowIsFresh'
    <2>1. \A s \in Requests, row \in Rows :
            holder'[row] = s => holder[row] = s /\ seen'[s] = seen[s]
      BY <1>1, EndFacts
    <2> QED  BY <2>1 DEF IInv, LockedRowIsFresh
  <1>6. NonNegative' /\ ReturnsPerLocationWithinUse'
    BY DEF IInv, NonNegative, ReturnsPerLocationWithinUse
  <1>7. ReturnShape'
    BY <1>1, EndFacts DEF IInv, ReturnShape
  <1> QED  BY <1>2, <1>3, <1>4, <1>5, <1>6, <1>7 DEF IInv

\* A row is held by one call: what a commit writes, no other call has locked.
LEMMA EffectSparesOthers ==
  ASSUME IInv, NEW r \in Requests, Effect(r), NEW s \in Requests \ {r},
         NEW row \in Rows, holder[row] = s
  PROVE  onHand'[row] = onHand[row] /\ reserved'[row] = reserved[row]
  <1>1. holder[Row(r)] = r /\ holder[ToRow(r)] = r
    BY DEF Effect, IInv, LockShape
  <1>2. row \notin Needed(r)
    BY <1>1 DEF Needed
  <1> QED  BY <1>2 DEF Effect

\* What a committed return adds, and to what.
LEMMA ReturnFacts ==
  ASSUME IInv, NEW r \in Requests, CommitReturn(r)
  PROVE  /\ call[r].use \in Uses /\ call[r].loc \in Locations
         /\ call[r].qty \in Nat
         /\ holder[<<usedPart[call[r].use], call[r].loc>>] = r
         /\ returned' \in [Uses -> Int]
         /\ returnedTo' \in [Uses -> [Locations -> Int]]
         /\ returned'[call[r].use] = returned[call[r].use] + call[r].qty
         /\ returnedTo'[call[r].use][call[r].loc]
              = returnedTo[call[r].use][call[r].loc] + call[r].qty
         /\ \A u \in Uses : u # call[r].use => returned'[u] = returned[u]
         /\ \A u \in Uses : \A l \in Locations :
              ~(u = call[r].use /\ l = call[r].loc) => returnedTo'[u][l] = returnedTo[u][l]
         /\ call[r].qty + returnedTo[call[r].use][call[r].loc] <= used[call[r].use]
  <1>1. stage[r] = "guarded"
    BY DEF CommitReturn
  <1>2. call[r].op = "return"
    BY <1>1 DEF IInv, CallShape
  <1>3. /\ call[r].use \in Uses /\ call[r].loc \in Locations
        /\ call[r].qty \in Nat
        /\ usedPart[call[r].use] = call[r].part
    BY <1>1, <1>2, RowTypes DEF IInv, CallShape
  <1>4. holder[<<usedPart[call[r].use], call[r].loc>>] = r
    BY <1>1, <1>3, RowTypes DEF IInv, LockShape
  <1>5. /\ returned' = [returned EXCEPT ![call[r].use] = @ + call[r].qty]
        /\ returnedTo' = [returnedTo EXCEPT ![call[r].use][call[r].loc] = @ + call[r].qty]
    BY DEF CommitReturn
  <1>6. returned \in [Uses -> Int] /\ returnedTo \in [Uses -> [Locations -> Int]]
    BY DEF IInv, TypeOK
  <1>7. call[r].qty + returnedTo[call[r].use][call[r].loc] <= used[call[r].use]
    BY <1>1 DEF IInv, ReturnShape
  <1> QED  BY <1>3, <1>4, <1>5, <1>6, <1>7

\* A commit writes the rows it holds from what it read of them.
LEMMA EffectKeepsIInv ==
  ASSUME IInv, NEW r \in Requests, Effect(r)
  PROVE  IInv'
  <1>1. End(r) /\ UNCHANGED <<partStatus, locStatus>>
    BY DEF Effect, End
  <1>2. /\ returned' \in [Uses -> Int]
        /\ returnedTo' \in [Uses -> [Locations -> Int]]
    BY ReturnFacts DEF Effect, IInv, TypeOK
  <1>3. onHand' \in [Rows -> Int] /\ reserved' \in [Rows -> Int]
    BY DEF Effect
  <1>4. TypeOK'
    <2>1. /\ partStatus' \in [Parts -> Statuses] /\ locStatus' \in [Locations -> Statuses]
      BY <1>1 DEF IInv, TypeOK
    <2>2. /\ holder' \in [Rows -> Requests \cup {None}]
          /\ stage' \in [Requests -> Stages]
          /\ call' \in [Requests -> Calls \cup {NoCall}]
          /\ seen' \in [Requests -> [Rows -> [onHand : Int, reserved : Int]]]
      BY <1>1, EndFacts
    <2>3. /\ ledger' \in [Rows -> [MovementTypes -> Int]]
          /\ used' \in [Uses -> Nat]
          /\ usedPart' \in [Uses -> Parts \cup {None}]
          /\ committed' \in Nat
      BY DEF Effect
    <2> QED  BY <1>2, <1>3, <2>1, <2>2, <2>3 DEF TypeOK
  <1>5. CallShape'
    <2> SUFFICES ASSUME NEW s \in Requests, stage'[s] # "idle"
                 PROVE  /\ call'[s] \in Calls
                        /\ call'[s].op # "adjust" => call'[s].qty >= 1
                        /\ call'[s].op = "transfer" <=> call'[s].to # call'[s].loc
                        /\ call'[s].op = "return" =>
                             /\ call'[s].use \in Uses
                             /\ used'[call'[s].use] # 0
                             /\ usedPart'[call'[s].use] = call'[s].part
                        /\ stage'[s] = "guarded" => call'[s].op = "return"
      BY DEF CallShape
    <2>1. stage'[s] = stage[s] /\ call'[s] = call[s]
      BY <1>1, EndFacts
    <2>2. \A u \in Uses : used[u] # 0 => used'[u] = used[u] /\ usedPart'[u] = usedPart[u]
      BY DEF Effect
    <2> QED  BY <2>1, <2>2 DEF IInv, CallShape
  <1>6. LockShape'
    BY <1>1, EndKeepsLockShape
  <1>7. LockedRowIsFresh'
    <2> SUFFICES ASSUME NEW s \in Requests, NEW row \in Rows, holder'[row] = s
                 PROVE  seen'[s][row] = [onHand |-> onHand'[row], reserved |-> reserved'[row]]
      BY DEF LockedRowIsFresh
    <2>1. holder[row] = s /\ s # r /\ seen'[s] = seen[s]
      BY <1>1, EndFacts
    <2>2. onHand'[row] = onHand[row] /\ reserved'[row] = reserved[row]
      BY <2>1, EffectSparesOthers
    <2> QED  BY <2>1, <2>2 DEF IInv, LockedRowIsFresh
  <1>8. NonNegative'
    BY DEF Effect, NonNegative
  <1>9. \A u \in Uses, l \in Locations :
          /\ returnedTo'[u][l] >= 0 /\ returnedTo'[u][l] <= returned'[u]
          /\ returnedTo'[u][l] <= used'[u]
    <2> SUFFICES ASSUME NEW u \in Uses, NEW l \in Locations
                 PROVE  /\ returnedTo'[u][l] >= 0 /\ returnedTo'[u][l] <= returned'[u]
                        /\ returnedTo'[u][l] <= used'[u]
      OBVIOUS
    <2>1. /\ returnedTo[u][l] \in Int /\ returned[u] \in Int
          /\ used[u] \in Nat /\ used'[u] \in Nat
          /\ returnedTo[u][l] >= 0 /\ returnedTo[u][l] <= returned[u]
          /\ returnedTo[u][l] <= used[u]
          /\ used[u] # 0 => used'[u] = used[u]
      BY DEF Effect, IInv, TypeOK, ReturnShape, ReturnsPerLocationWithinUse
    <2>2. CASE returned' = returned /\ returnedTo' = returnedTo
      BY <2>1, <2>2
    <2>3. CASE CommitReturn(r)
      <3>1. CASE u = call[r].use /\ l = call[r].loc
        <4>1. /\ returnedTo'[u][l] = returnedTo[u][l] + call[r].qty
              /\ returned'[u] = returned[u] + call[r].qty
              /\ call[r].qty \in Nat /\ call[r].qty + returnedTo[u][l] <= used[u]
          BY <2>3, <3>1, ReturnFacts
        <4> QED  BY <4>1, <2>1
      <3>2. CASE ~(u = call[r].use /\ l = call[r].loc)
        <4>0. /\ \A v \in Uses : \A m \in Locations :
                    ~(v = call[r].use /\ m = call[r].loc) => returnedTo'[v][m] = returnedTo[v][m]
              /\ returned'[call[r].use] = returned[call[r].use] + call[r].qty
              /\ call[r].qty \in Nat
              /\ \A v \in Uses : v # call[r].use => returned'[v] = returned[v]
          BY <2>3, ReturnFacts
        <4>1. returnedTo'[u][l] = returnedTo[u][l]
          BY <4>0, <3>2
        <4>2. returned'[u] \in Int /\ returned'[u] >= returned[u]
          BY <4>0, <2>1
        <4> QED  BY <4>1, <4>2, <2>1
      <3> QED  BY <3>1, <3>2
    <2> QED  BY <2>2, <2>3 DEF Effect
  <1>10. ASSUME NEW s \in Requests, stage'[s] = "guarded"
         PROVE  call'[s].qty + returnedTo'[call'[s].use][call'[s].loc] <= used'[call'[s].use]
    <2>1. s # r /\ stage[s] = "guarded" /\ call'[s] = call[s]
      BY <1>1, <1>10, EndFacts
    <2>2. /\ call[s].use \in Uses /\ call[s].loc \in Locations
          /\ usedPart[call[s].use] = call[s].part
          /\ used'[call[s].use] = used[call[s].use]
          /\ call[s].qty + returnedTo[call[s].use][call[s].loc] <= used[call[s].use]
      BY <2>1, RowTypes DEF Effect, IInv, CallShape, ReturnShape
    <2>3. holder[<<usedPart[call[s].use], call[s].loc>>] = s
      BY <2>1, <2>2, RowTypes DEF IInv, LockShape
    <2>4. returnedTo'[call[s].use][call[s].loc] = returnedTo[call[s].use][call[s].loc]
      <3>1. CASE returnedTo' = returnedTo
        BY <3>1
      <3>2. CASE CommitReturn(r)
        <4>1. ~(call[s].use = call[r].use /\ call[s].loc = call[r].loc)
          BY <3>2, <2>1, <2>3, ReturnFacts
        <4>2. \A u \in Uses : \A l \in Locations :
                ~(u = call[r].use /\ l = call[r].loc) => returnedTo'[u][l] = returnedTo[u][l]
          BY <3>2, ReturnFacts
        <4> QED  BY <4>1, <4>2, <2>2
      <3> QED  BY <3>1, <3>2 DEF Effect
    <2> QED  BY <2>1, <2>2, <2>4
  <1> QED
    BY <1>4, <1>5, <1>6, <1>7, <1>8, <1>9, <1>10
    DEF IInv, ReturnShape, ReturnsPerLocationWithinUse

\* Every step of the specification keeps the invariant.
LEMMA NextKeepsIInv ==
  ASSUME IInv, [Next]_vars
  PROVE  IInv'
  <1>1. CASE TransitionStatus
    BY <1>1, StatusKeepsIInv
  <1>2. ASSUME NEW r \in Requests, Start(r)
        PROVE  IInv'
    BY <1>2, StartAccepts, StartKeepsIInv DEF IInv
  <1>3. ASSUME NEW r \in Requests, LockRow(r)
        PROVE  IInv'
    BY <1>3, LockKeepsIInv DEF LockRow
  <1>4. ASSUME NEW r \in Requests, GuardReturn(r)
        PROVE  IInv'
    BY <1>4, GuardKeepsIInv
  <1>5. ASSUME NEW r \in Requests, Commit(r)
        PROVE  IInv'
    BY <1>5, CommitHasEffect, EffectKeepsIInv
  <1>6. ASSUME NEW r \in Requests, Rollback(r)
        PROVE  IInv'
    BY <1>6, RollbackKeepsIInv
  <1>7. CASE UNCHANGED vars
    <2> USE <1>7 DEF vars, bookVars
    <2>1. TypeOK' /\ NonNegative'
      BY DEF IInv, TypeOK, NonNegative
    <2>2. CallShape' /\ LockShape' /\ LockedRowIsFresh'
      BY DEF IInv, CallShape, LockShape, LockedRowIsFresh, Needed, Row, ToRow
    <2>3. ReturnShape' /\ ReturnsPerLocationWithinUse'
      BY DEF IInv, ReturnShape, ReturnsPerLocationWithinUse
    <2> QED  BY <2>1, <2>2, <2>3 DEF IInv
  <1> QED
    BY <1>1, <1>2, <1>3, <1>4, <1>5, <1>6, <1>7 DEF Next, Proceed

\* The inductive invariant holds in every reachable state.
THEOREM InventoryInvariant == Spec => []IInv
  <1>1. Init => IInv
    BY InitIInv
  <1>2. IInv /\ [Next]_vars => IInv'
    BY NextKeepsIInv
  <1> QED  BY <1>1, <1>2, PTL DEF Spec

\* Type correctness of the services' state.
THEOREM TypeCorrect == Spec => []TypeOK
  BY InventoryInvariant, PTL DEF IInv

\* No interleaving of calls makes a balance negative.
THEOREM StockNonNegative == Spec => []NonNegative
  BY InventoryInvariant, PTL DEF IInv

\* What a transaction read under its locks is current until it ends.
THEOREM LockedReadsAreFresh == Spec => []LockedRowIsFresh
  BY InventoryInvariant, PTL DEF IInv

\* Racing returns into one location never exceed what was consumed.
THEOREM ReturnsBounded == Spec => []ReturnsPerLocationWithinUse
  BY InventoryInvariant, PTL DEF IInv

-----------------------------------------------------------------------------
(* Lock ordering. *)

\* The next row a transfer locks ranks above the one it holds.
LEMMA LockKeepsWaitsAbove ==
  ASSUME IInv, WaitsAbove, NEW r \in Requests, NEW row \in Rows,
         LockInventoryBalance(r, row)
  PROVE  WaitsAbove'
  <1> SUFFICES ASSUME NEW s \in Requests, NEW held \in Rows, NEW other \in Rows,
                      stage'[s] = "checked", held \in Needed(s)', holder'[held] = s,
                      other \in Unlocked(s)'
               PROVE  Rank[held[2]] < Rank[other[2]]
    BY DEF WaitsAbove
  <1>1. /\ Needed(s)' = Needed(s)
        /\ \A x \in Rows : holder'[x] = IF x = row THEN r ELSE holder[x]
        /\ holder[row] = None
        /\ stage[r] = "checked" /\ \A t \in Requests \ {r} : stage'[t] = stage[t]
    BY DEF LockInventoryBalance, IInv, TypeOK, Needed, Row, ToRow
  <1>2. CASE s # r
    BY <1>1, <1>2, RequestAssumption DEF WaitsAbove, Unlocked, LockInventoryBalance
  <1>3. CASE s = r
    <2>1. /\ other \in Unlocked(r) /\ other # row
      BY <1>1, <1>3, RequestAssumption DEF Unlocked
    <2>2. CASE held = row
      <3>1. Rank[row[2]] <= Rank[other[2]]
        BY <2>1 DEF LockInventoryBalance
      <3>2. /\ row \in {Row(r), ToRow(r)} /\ other \in {Row(r), ToRow(r)}
            /\ Row(r) = <<call[r].part, call[r].loc>>
            /\ ToRow(r) = <<call[r].part, call[r].to>>
            /\ call[r].loc \in Locations /\ call[r].to \in Locations
        BY <1>1, <2>1, RowTypes DEF Unlocked, Needed, LockInventoryBalance, IInv
      <3>3. row[2] # other[2] /\ row[2] \in Locations /\ other[2] \in Locations
        BY <2>1, <3>2
      <3> QED  BY <2>2, <3>1, <3>3, RankAssumption
    <2>3. CASE held # row
      BY <1>1, <1>3, <2>1, <2>3 DEF WaitsAbove
    <2> QED  BY <2>2, <2>3
  <1> QED  BY <1>2, <1>3

\* Calls wait for rows in one order, so never in a circle: opposite transfers
\* do not deadlock.
THEOREM LockOrder == Spec => []WaitsAbove
  <1>1. Init => WaitsAbove
    BY DEF Init, WaitsAbove
  <1>2. ASSUME IInv, WaitsAbove, [Next]_vars
        PROVE  WaitsAbove'
    <2>1. CASE TransitionStatus
      BY <1>2, <2>1 DEF TransitionStatus, TransitionPartStatus, TransitionLocationStatus,
                        WaitsAbove, Needed, Unlocked, Row, ToRow
    <2>2. ASSUME NEW r \in Requests, Start(r)
          PROVE  WaitsAbove'
      <3>1. PICK c \in Calls : Accepted(r, c)
        BY <1>2, <2>2, StartAccepts DEF IInv
      <3>2. \A row \in Rows : holder[row] # r
        BY <1>2, <3>1 DEF IInv, LockShape, Accepted
      <3>3. \A s \in Requests \ {r} : stage'[s] = stage[s] /\ call'[s] = call[s]
        BY <1>2, <3>1 DEF IInv, TypeOK, Accepted
      <3> QED  BY <1>2, <3>1, <3>2, <3>3 DEF Accepted, WaitsAbove, Needed, Unlocked, Row, ToRow
    <2>3. ASSUME NEW r \in Requests, LockRow(r)
          PROVE  WaitsAbove'
      BY <1>2, <2>3, LockKeepsWaitsAbove DEF LockRow
    <2>4. ASSUME NEW r \in Requests, GuardReturn(r)
          PROVE  WaitsAbove'
      BY <1>2, <2>4 DEF IInv, TypeOK, GuardReturn, WaitsAbove, Needed, Unlocked, Row, ToRow
    <2>5. ASSUME NEW r \in Requests, End(r)
          PROVE  WaitsAbove'
      <3> SUFFICES ASSUME NEW s \in Requests, NEW row \in Rows, NEW other \in Rows,
                          stage'[s] = "checked", row \in Needed(s)', holder'[row] = s,
                          other \in Unlocked(s)'
                   PROVE  Rank[row[2]] < Rank[other[2]]
        BY DEF WaitsAbove
      <3>1. s # r /\ stage[s] = "checked" /\ holder[row] = s /\ call'[s] = call[s]
        BY <1>2, <2>5, EndFacts
      <3>2. Needed(s)' = Needed(s)
        BY <3>1 DEF Needed, Row, ToRow
      <3>3. other \in Unlocked(s)
        BY <1>2, <2>5, <3>1, <3>2, EndFacts DEF Unlocked
      <3> QED  BY <1>2, <3>1, <3>2, <3>3 DEF WaitsAbove
    <2>6. ASSUME NEW r \in Requests, Commit(r)
          PROVE  WaitsAbove'
      BY <1>2, <2>5, <2>6, CommitHasEffect DEF Effect
    <2>7. ASSUME NEW r \in Requests, Rollback(r)
          PROVE  WaitsAbove'
      BY <2>5, <2>7 DEF Rollback
    <2>8. CASE UNCHANGED vars
      BY <1>2, <2>8 DEF vars, WaitsAbove, Needed, Unlocked, Row, ToRow
    <2> QED
      BY <1>2, <2>1, <2>2, <2>3, <2>4, <2>6, <2>7, <2>8 DEF Next, Proceed
  <1> QED  BY <1>1, <1>2, InventoryInvariant, PTL DEF Spec

-----------------------------------------------------------------------------
(* The services implement the book of stock. *)

\* A commit, made of values read under the locks, is one step of the book.
LEMMA CommitIsBookStep ==
  ASSUME IInv, NEW r \in Requests, Commit(r)
  PROVE  BookNext
  <1> USE DEF Done, Record, Ready
  <1>1. stage[r] \in {"locked", "guarded"}
    BY DEF Commit, CommitReceive, CommitAdjust, CommitReserve, CommitRelease,
           CommitConsume, CommitTransfer, CommitReturn
  <1>2. /\ Row(r) \in Rows /\ ToRow(r) \in Rows
        /\ Row(r) = <<call[r].part, call[r].loc>>
        /\ ToRow(r) = <<call[r].part, call[r].to>>
        /\ call[r].part \in Parts /\ call[r].loc \in Locations /\ call[r].to \in Locations
        /\ call[r].qty \in Int /\ call[r].qty \in (-MaxQty..MaxQty) \ {0}
        /\ call[r].op # "adjust" => call[r].qty \in Quantities
        /\ call[r].qty \in Quantities \/ -call[r].qty \in Quantities
        /\ holder[Row(r)] = r /\ holder[ToRow(r)] = r
    BY <1>1, RowTypes, StockAssumption DEF IInv, CallShape, LockShape, Calls, Quantities
  <1>3. /\ seen[r][Row(r)].onHand = onHand[Row(r)]
        /\ seen[r][Row(r)].reserved = reserved[Row(r)]
        /\ seen[r][ToRow(r)].onHand = onHand[ToRow(r)]
    <2>1. \A row \in {Row(r), ToRow(r)} :
            seen[r][row] = [onHand |-> onHand[row], reserved |-> reserved[row]]
      BY <1>2 DEF IInv, LockedRowIsFresh
    <2> QED  BY <2>1
  <1>4. \A row \in Rows : onHand[row] \in Nat /\ reserved[row] \in Nat
    BY DEF IInv, TypeOK, NonNegative
  <1>a. CASE CommitReceive(r)
    <2>1. Receive(Row(r), call[r].qty) /\ call[r].qty \in Quantities
      BY <1>a, <1>2, <1>3, <1>4 DEF CommitReceive, Receive
    <2> QED  BY <2>1, <1>2, <1>4 DEF BookNext
  <1>b. CASE CommitAdjust(r)
    <2>1. Adjust(Row(r), call[r].qty)
      BY <1>b, <1>2, <1>3, <1>4 DEF CommitAdjust, Adjust
    <2>2. CASE call[r].qty \in Quantities
      BY <2>1, <2>2, <1>2 DEF BookNext
    <2>3. CASE -call[r].qty \in Quantities
      <3>1. call[r].qty = -(-call[r].qty)
        BY <1>2
      <3>2. PICK q \in Quantities : call[r].qty = -q
        BY <2>3, <3>1
      <3> QED  BY <2>1, <3>2, <1>2 DEF BookNext
    <2> QED  BY <2>2, <2>3, <1>2
  <1>c. CASE CommitReserve(r)
    <2>1. Reserve(Row(r), call[r].qty) /\ call[r].qty \in Quantities
      BY <1>c, <1>2, <1>3, <1>4 DEF CommitReserve, Reserve
    <2> QED  BY <2>1, <1>2, <1>4 DEF BookNext
  <1>d. CASE CommitRelease(r)
    <2>1. Release(Row(r), call[r].qty) /\ call[r].qty \in Quantities
      BY <1>d, <1>2, <1>3, <1>4 DEF CommitRelease, Release, Quantities
    <2> QED  BY <2>1, <1>2, <1>4 DEF BookNext
  <1>e. ASSUME NEW u \in Uses, CommitConsume(r, u)
        PROVE  BookNext
    <2>1. Consume(Row(r), call[r].qty, u) /\ call[r].qty \in Quantities
      BY <1>e, <1>2, <1>3, <1>4 DEF CommitConsume, Consume, Quantities
    <2> QED  BY <2>1, <1>2, <1>4 DEF BookNext
  <1>f. CASE CommitTransfer(r)
    <2>1. call[r].to # call[r].loc /\ call[r].qty \in Quantities /\ call[r].qty \in Int
      BY <1>f, <1>1, <1>2 DEF IInv, CallShape, CommitTransfer
    <2>2. /\ call[r].qty <= onHand[Row(r)] - reserved[Row(r)]
          /\ onHand[ToRow(r)] + call[r].qty <= MaxStock
      BY <1>f, <1>2, <1>3, <1>4 DEF CommitTransfer
    <2>3. /\ onHand' = [onHand EXCEPT ![Row(r)] = onHand[Row(r)] - call[r].qty,
                                      ![ToRow(r)] = onHand[ToRow(r)] + call[r].qty]
          /\ ledger' = Moved(Moved(ledger, Row(r), "TRANSFER_OUT", call[r].qty),
                             ToRow(r), "TRANSFER_IN", call[r].qty)
          /\ UNCHANGED <<reserved, used, usedPart, returned, returnedTo>>
      BY <1>f, <1>3 DEF CommitTransfer
    <2>4. Row(r) # ToRow(r)
      BY <2>1, <1>2
    <2>5. Transfer(call[r].part, call[r].loc, call[r].to, call[r].qty)
      <3>1. onHand \in [Rows -> Int]
        BY DEF IInv, TypeOK
      <3>2. onHand' = [onHand EXCEPT ![Row(r)] = @ - call[r].qty,
                                     ![ToRow(r)] = @ + call[r].qty]
        BY <2>3, <2>4, <3>1, <1>2
      <3> QED  BY <2>1, <2>2, <2>3, <3>2, <1>2 DEF Transfer
    <2> QED  BY <2>1, <2>5, <1>2 DEF BookNext
  <1>g. CASE CommitReturn(r)
    <2>1. call[r].qty \in Quantities /\ call[r].use \in Uses
          /\ usedPart[call[r].use] = call[r].part
      BY <1>g, <1>1, <1>2 DEF CommitReturn, IInv, CallShape
    <2>2. call[r].qty + returnedTo[call[r].use][call[r].loc] <= used[call[r].use]
      BY <1>g, ReturnFacts
    <2>3. returnedTo[call[r].use][call[r].loc] \in Int
      BY <2>1, <1>2 DEF IInv, TypeOK
    <2>4. returnedTo[call[r].use][call[r].loc] + call[r].qty <= used[call[r].use]
      BY <2>2, <2>3, <1>2
    <2>5. Return(call[r].part, call[r].loc, call[r].qty, call[r].use)
      BY <1>g, <2>1, <2>4, <1>2, <1>3 DEF CommitReturn, Return
    <2> QED  BY <2>1, <2>5, <1>2 DEF BookNext
  <1> QED
    BY <1>a, <1>b, <1>c, <1>d, <1>e, <1>f, <1>g DEF Commit

\* The services implement the book: every step is one of its steps or none.
THEOREM Implementation == Spec => ImplementsBook
  <1>1. Init => BookInit
    BY DEF Init
  <1>2. ASSUME IInv, [Next]_vars
        PROVE  [BookNext]_bookVars
    <2>1. CASE TransitionStatus
      BY <2>1 DEF TransitionStatus, TransitionPartStatus, TransitionLocationStatus
    <2>2. ASSUME NEW r \in Requests, Start(r)
          PROVE  UNCHANGED bookVars
      BY <1>2, <2>2, StartAccepts DEF IInv, Accepted
    <2>3. ASSUME NEW r \in Requests, LockRow(r) \/ GuardReturn(r) \/ Rollback(r)
          PROVE  UNCHANGED bookVars
      BY <2>3 DEF LockRow, LockInventoryBalance, GuardReturn, Rollback
    <2>4. ASSUME NEW r \in Requests, Commit(r)
          PROVE  BookNext
      BY <1>2, <2>4, CommitIsBookStep
    <2>5. CASE UNCHANGED vars
      BY <2>5 DEF vars
    <2> QED
      BY <1>2, <2>1, <2>2, <2>3, <2>4, <2>5 DEF Next, Proceed
  <1> QED
    BY <1>1, <1>2, InventoryInvariant, PTL DEF Spec, ImplementsBook, BookSpec

-----------------------------------------------------------------------------
(* What the book guarantees, hence what the services guarantee. *)

BookTypes == /\ onHand \in [Rows -> Int]
             /\ reserved \in [Rows -> Int]
             /\ ledger \in [Rows -> [MovementTypes -> Int]]

\* What one movement adds to the two quantities of its row.
OnHandEffect(type, q) ==
  IF type \in {"RECEIPT", "TRANSFER_IN", "RETURN", "ADJUSTMENT"} THEN q
  ELSE IF type \in {"TRANSFER_OUT", "CONSUMPTION"} THEN -q ELSE 0
ReservedEffect(type, q) ==
  IF type = "RESERVATION" THEN q
  ELSE IF type \in {"RELEASE", "CONSUMPTION"} THEN -q ELSE 0

\* The movement types the book uses.
LEMMA TypeNames ==
  /\ "RECEIPT" \in MovementTypes /\ "TRANSFER_IN" \in MovementTypes
  /\ "TRANSFER_OUT" \in MovementTypes /\ "ADJUSTMENT" \in MovementTypes
  /\ "RESERVATION" \in MovementTypes /\ "RELEASE" \in MovementTypes
  /\ "CONSUMPTION" \in MovementTypes /\ "RETURN" \in MovementTypes
  BY DEF MovementTypes

\* A step of the book that makes one movement leaves every row explained.
LEMMA OneMovement ==
  ASSUME BookTypes, LedgerExplainsBalance,
         NEW row \in Rows, NEW type \in MovementTypes, NEW q \in Int,
         ledger' = Moved(ledger, row, type, q),
         onHand' \in [Rows -> Int], reserved' \in [Rows -> Int],
         \A x \in Rows : x # row => onHand'[x] = onHand[x] /\ reserved'[x] = reserved[x],
         onHand'[row] = onHand[row] + OnHandEffect(type, q),
         reserved'[row] = reserved[row] + ReservedEffect(type, q)
  PROVE  BookTypes' /\ LedgerExplainsBalance'
  <1>1. ledger \in [Rows -> [MovementTypes -> Int]]
    BY DEF BookTypes
  <1>2. /\ ledger' \in [Rows -> [MovementTypes -> Int]]
        /\ \A x \in Rows : x # row => ledger'[x] = ledger[x]
        /\ \A t \in MovementTypes :
             ledger'[row][t] = IF t = type THEN ledger[row][t] + q ELSE ledger[row][t]
    <2>1. /\ Moved(ledger, row, type, q) \in [Rows -> [MovementTypes -> Int]]
          /\ \A x \in Rows : x # row => Moved(ledger, row, type, q)[x] = ledger[x]
          /\ \A t \in MovementTypes :
               Moved(ledger, row, type, q)[row][t]
                 = IF t = type THEN ledger[row][t] + q ELSE ledger[row][t]
      BY <1>1 DEF Moved
    <2> QED  BY <2>1
  <1>3. BookTypes'
    BY <1>2 DEF BookTypes
  <1>4. onHand[row] \in Int /\ reserved[row] \in Int /\ ledger[row] \in [MovementTypes -> Int]
    BY DEF BookTypes
  <1>5. Explained(row)
    BY DEF LedgerExplainsBalance
  <1>6. Explained(row)'
    <2> DEFINE h == onHand[row]
               r == reserved[row]
               m == ledger[row]
    <2>1. /\ h \in Int /\ r \in Int /\ m \in [MovementTypes -> Int]
          /\ h = m["RECEIPT"] + m["TRANSFER_IN"] + m["RETURN"]
                 + m["ADJUSTMENT"] - m["TRANSFER_OUT"] - m["CONSUMPTION"]
          /\ r = m["RESERVATION"] - m["RELEASE"] - m["CONSUMPTION"]
      BY <1>4, <1>5 DEF Explained
    <2>2. /\ onHand'[row] = h + OnHandEffect(type, q)
          /\ reserved'[row] = r + ReservedEffect(type, q)
          /\ \A t \in MovementTypes :
               ledger'[row][t] = IF t = type THEN m[t] + q ELSE m[t]
      BY <1>2
    <2> HIDE DEF h, r, m
    <2>3. LET m2 == ledger'[row]
          IN  /\ onHand'[row] = m2["RECEIPT"] + m2["TRANSFER_IN"] + m2["RETURN"]
                   + m2["ADJUSTMENT"] - m2["TRANSFER_OUT"] - m2["CONSUMPTION"]
              /\ reserved'[row] = m2["RESERVATION"] - m2["RELEASE"] - m2["CONSUMPTION"]
      BY <2>1, <2>2, TypeNames DEF OnHandEffect, ReservedEffect, MovementTypes
    <2> QED  BY <2>3 DEF Explained
  <1>7. ASSUME NEW x \in Rows, x # row
        PROVE  Explained(x)'
    <2>1. Explained(x)
      BY DEF LedgerExplainsBalance
    <2>2. onHand'[x] = onHand[x] /\ reserved'[x] = reserved[x] /\ ledger'[x] = ledger[x]
      BY <1>2, <1>7
    <2> QED  BY <2>1, <2>2 DEF Explained
  <1> QED
    BY <1>3, <1>6, <1>7 DEF LedgerExplainsBalance

\* A step of the book leaves every row explained by its movements.
LEMMA LedgerStep ==
  ASSUME BookTypes, LedgerExplainsBalance, BookNext
  PROVE  BookTypes' /\ LedgerExplainsBalance'
  <1>1. /\ onHand \in [Rows -> Int] /\ reserved \in [Rows -> Int]
        /\ ledger \in [Rows -> [MovementTypes -> Int]]
    BY DEF BookTypes
  <1>2. \A q \in Quantities : q \in Int /\ -q \in Int /\ q >= 1
    BY StockAssumption DEF Quantities
  <1>3. \A x \in Rows : /\ onHand[x] \in Int /\ reserved[x] \in Int
                        /\ Explained(x) /\ ledger[x] \in [MovementTypes -> Int]
    BY <1>1 DEF LedgerExplainsBalance
  <1>a. ASSUME NEW row \in Rows, NEW q \in Int, Receive(row, q)
       PROVE  BookTypes' /\ LedgerExplainsBalance'
    <2>1. ledger' = Moved(ledger, row, "RECEIPT", q)
      BY <1>a DEF Receive
    <2>2. /\ onHand' \in [Rows -> Int] /\ reserved' \in [Rows -> Int]
          /\ \A x \in Rows : x # row => onHand'[x] = onHand[x] /\ reserved'[x] = reserved[x]
          /\ onHand'[row] = onHand[row] + OnHandEffect("RECEIPT", q)
          /\ reserved'[row] = reserved[row] + ReservedEffect("RECEIPT", q)
      BY <1>1, <1>3, <1>a DEF Receive, OnHandEffect, ReservedEffect
    <2> QED  BY <2>1, <2>2, TypeNames, OneMovement
  <1>b. ASSUME NEW row \in Rows, NEW q \in Int, Adjust(row, q)
       PROVE  BookTypes' /\ LedgerExplainsBalance'
    <2>1. ledger' = Moved(ledger, row, "ADJUSTMENT", q)
      BY <1>b DEF Adjust
    <2>2. /\ onHand' \in [Rows -> Int] /\ reserved' \in [Rows -> Int]
          /\ \A x \in Rows : x # row => onHand'[x] = onHand[x] /\ reserved'[x] = reserved[x]
          /\ onHand'[row] = onHand[row] + OnHandEffect("ADJUSTMENT", q)
          /\ reserved'[row] = reserved[row] + ReservedEffect("ADJUSTMENT", q)
      BY <1>1, <1>3, <1>b DEF Adjust, OnHandEffect, ReservedEffect
    <2> QED  BY <2>1, <2>2, TypeNames, OneMovement
  <1>c. ASSUME NEW row \in Rows, NEW q \in Int, Reserve(row, q)
       PROVE  BookTypes' /\ LedgerExplainsBalance'
    <2>1. ledger' = Moved(ledger, row, "RESERVATION", q)
      BY <1>c DEF Reserve
    <2>2. /\ onHand' \in [Rows -> Int] /\ reserved' \in [Rows -> Int]
          /\ \A x \in Rows : x # row => onHand'[x] = onHand[x] /\ reserved'[x] = reserved[x]
          /\ onHand'[row] = onHand[row] + OnHandEffect("RESERVATION", q)
          /\ reserved'[row] = reserved[row] + ReservedEffect("RESERVATION", q)
      BY <1>1, <1>3, <1>c DEF Reserve, OnHandEffect, ReservedEffect
    <2> QED  BY <2>1, <2>2, TypeNames, OneMovement
  <1>d. ASSUME NEW row \in Rows, NEW q \in Int, Release(row, q)
       PROVE  BookTypes' /\ LedgerExplainsBalance'
    <2>1. ledger' = Moved(ledger, row, "RELEASE", q)
      BY <1>d DEF Release
    <2>2. /\ onHand' \in [Rows -> Int] /\ reserved' \in [Rows -> Int]
          /\ \A x \in Rows : x # row => onHand'[x] = onHand[x] /\ reserved'[x] = reserved[x]
          /\ onHand'[row] = onHand[row] + OnHandEffect("RELEASE", q)
          /\ reserved'[row] = reserved[row] + ReservedEffect("RELEASE", q)
      BY <1>1, <1>3, <1>d DEF Release, OnHandEffect, ReservedEffect
    <2> QED  BY <2>1, <2>2, TypeNames, OneMovement
  <1>e. ASSUME NEW row \in Rows, NEW q \in Int, NEW u \in Uses, Consume(row, q, u)
       PROVE  BookTypes' /\ LedgerExplainsBalance'
    <2>1. ledger' = Moved(ledger, row, "CONSUMPTION", q)
      BY <1>e DEF Consume
    <2>2. /\ onHand' \in [Rows -> Int] /\ reserved' \in [Rows -> Int]
          /\ \A x \in Rows : x # row => onHand'[x] = onHand[x] /\ reserved'[x] = reserved[x]
          /\ onHand'[row] = onHand[row] + OnHandEffect("CONSUMPTION", q)
          /\ reserved'[row] = reserved[row] + ReservedEffect("CONSUMPTION", q)
      BY <1>1, <1>3, <1>e DEF Consume, OnHandEffect, ReservedEffect
    <2> QED  BY <2>1, <2>2, TypeNames, OneMovement
  <1>f. ASSUME NEW p \in Parts, NEW l \in Locations, NEW m \in Locations, NEW q \in Int,
             Transfer(p, l, m, q)
       PROVE  BookTypes' /\ LedgerExplainsBalance'
    <2> DEFINE from == <<p, l>>
               to == <<p, m>>
               first == Moved(ledger, from, "TRANSFER_OUT", q)
    <2>0. from \in Rows /\ to \in Rows /\ from # to
      BY <1>f DEF Rows, Transfer
    <2>1. /\ onHand' = [onHand EXCEPT ![from] = @ - q, ![to] = @ + q]
          /\ ledger' = Moved(first, to, "TRANSFER_IN", q)
          /\ reserved' = reserved
      BY <1>f DEF Transfer
    <2> HIDE DEF from, to
    <2>2. /\ onHand' \in [Rows -> Int]
          /\ \A x \in Rows : x # from /\ x # to => onHand'[x] = onHand[x]
          /\ onHand'[from] = onHand[from] - q /\ onHand'[to] = onHand[to] + q
      BY <1>1, <1>3, <2>0, <2>1
    <2>3. /\ first \in [Rows -> [MovementTypes -> Int]]
          /\ \A x \in Rows : x # from => first[x] = ledger[x]
          /\ \A t \in MovementTypes :
               first[from][t] = IF t = "TRANSFER_OUT" THEN ledger[from][t] + q ELSE ledger[from][t]
      BY <1>1, <2>0, TypeNames, SMT DEF Moved
    <2> HIDE DEF first
    <2>4. /\ ledger' \in [Rows -> [MovementTypes -> Int]]
          /\ \A x \in Rows : x # to => ledger'[x] = first[x]
          /\ \A t \in MovementTypes :
               ledger'[to][t] = IF t = "TRANSFER_IN" THEN first[to][t] + q ELSE first[to][t]
      BY <2>0, <2>1, <2>3, TypeNames, SMT DEF Moved
    <2>5. BookTypes'
      BY <1>1, <2>1, <2>2, <2>4 DEF BookTypes
    <2>6. ASSUME NEW x \in Rows, x # from, x # to
          PROVE  Explained(x)'
      BY <1>3, <2>1, <2>2, <2>3, <2>4, <2>6 DEF Explained
    <2>7. Explained(from)'
      <3>1. \A t \in MovementTypes :
              ledger'[from][t] = IF t = "TRANSFER_OUT" THEN ledger[from][t] + q ELSE ledger[from][t]
        BY <2>0, <2>3, <2>4
      <3>2. onHand'[from] = onHand[from] - q /\ reserved'[from] = reserved[from]
        BY <2>0, <2>1, <2>2
      <3>3. \A t \in MovementTypes : ledger[from][t] \in Int
        BY <1>3, <2>0
      <3> QED  BY <1>3, <2>0, <3>1, <3>2, <3>3, TypeNames DEF Explained
    <2>8. Explained(to)'
      <3>1. \A t \in MovementTypes :
              ledger'[to][t] = IF t = "TRANSFER_IN" THEN ledger[to][t] + q ELSE ledger[to][t]
        BY <2>0, <2>3, <2>4
      <3>2. onHand'[to] = onHand[to] + q /\ reserved'[to] = reserved[to]
        BY <2>0, <2>1, <2>2
      <3>3. \A t \in MovementTypes : ledger[to][t] \in Int
        BY <1>3, <2>0
      <3> QED  BY <1>3, <2>0, <3>1, <3>2, <3>3, TypeNames DEF Explained
    <2> QED  BY <2>5, <2>6, <2>7, <2>8 DEF LedgerExplainsBalance
  <1>g. ASSUME NEW p \in Parts, NEW l \in Locations, NEW q \in Int, NEW u \in Uses,
             Return(p, l, q, u)
       PROVE  BookTypes' /\ LedgerExplainsBalance'
    <2> DEFINE row == <<p, l>>
    <2>0. row \in Rows
      BY DEF Rows
    <2>1. /\ ledger' = Moved(ledger, row, "RETURN", q)
          /\ onHand' = [onHand EXCEPT ![row] = @ + q] /\ reserved' = reserved
      BY <1>g DEF Return
    <2> HIDE DEF row
    <2>2. /\ onHand' \in [Rows -> Int] /\ reserved' \in [Rows -> Int]
          /\ \A x \in Rows : x # row => onHand'[x] = onHand[x] /\ reserved'[x] = reserved[x]
          /\ onHand'[row] = onHand[row] + OnHandEffect("RETURN", q)
          /\ reserved'[row] = reserved[row] + ReservedEffect("RETURN", q)
      BY <1>1, <1>3, <2>0, <2>1 DEF OnHandEffect, ReservedEffect
    <2> QED  BY <2>0, <2>1, <2>2, TypeNames, OneMovement
  <1> QED
    BY <1>2, <1>a, <1>b, <1>c, <1>d, <1>e, <1>f, <1>g DEF BookNext

\* The balance of every row is what its movements add up to.
THEOREM LedgerAgrees == Spec => []LedgerExplainsBalance
  <1>1. BookInit => BookTypes /\ LedgerExplainsBalance
    BY DEF BookInit, BookTypes, LedgerExplainsBalance, Explained, MovementTypes
  <1>2. ASSUME BookTypes, LedgerExplainsBalance, [BookNext]_bookVars
        PROVE  BookTypes' /\ LedgerExplainsBalance'
    <2>1. CASE UNCHANGED bookVars
      BY <1>2, <2>1 DEF bookVars, BookTypes, LedgerExplainsBalance, Explained
    <2> QED  BY <1>2, <2>1, LedgerStep
  <1>3. BookSpec => []LedgerExplainsBalance
    BY <1>1, <1>2, PTL DEF BookSpec
  <1> QED  BY <1>3, Implementation, PTL DEF ImplementsBook

\* Only a negative count correction leaves more reserved than is on hand.
THEOREM UncoveredByCorrection == Spec => OnlyAdjustmentUncovers
  <1>1. ASSUME IInv, BookNext, NEW x \in Rows, Covered(x), ~Covered(x)'
        PROVE  ledger'[x]["ADJUSTMENT"] < ledger[x]["ADJUSTMENT"]
    <2> USE DEF Covered
    <2>1. /\ onHand \in [Rows -> Int] /\ reserved \in [Rows -> Int]
          /\ ledger \in [Rows -> [MovementTypes -> Int]]
          /\ "ADJUSTMENT" \in MovementTypes
      BY <1>1 DEF IInv, TypeOK, MovementTypes
    <2>2. \A q \in Quantities : q \in Int /\ -q \in Int /\ q >= 1
      BY StockAssumption DEF Quantities
    <2>a. ASSUME NEW row \in Rows, NEW q \in Quantities, Receive(row, q)
          PROVE  FALSE
      BY <1>1, <2>1, <2>2, <2>a DEF Receive
    <2>b. ASSUME NEW row \in Rows, NEW q \in Int, Adjust(row, q)
          PROVE  ledger'[x]["ADJUSTMENT"] < ledger[x]["ADJUSTMENT"]
      <3>1. row = x /\ q < 0
        BY <1>1, <2>1, <2>b DEF Adjust
      <3> QED  BY <2>1, <2>b, <3>1 DEF Adjust, Moved
    <2>c. ASSUME NEW row \in Rows, NEW q \in Quantities, Reserve(row, q)
          PROVE  FALSE
      BY <1>1, <2>1, <2>2, <2>c DEF Reserve
    <2>d. ASSUME NEW row \in Rows, NEW q \in Quantities, Release(row, q)
          PROVE  FALSE
      BY <1>1, <2>1, <2>2, <2>d DEF Release
    <2>e. ASSUME NEW row \in Rows, NEW q \in Quantities, NEW u \in Uses, Consume(row, q, u)
          PROVE  FALSE
      BY <1>1, <2>1, <2>2, <2>e DEF Consume
    <2>f. ASSUME NEW p \in Parts, NEW l \in Locations, NEW m \in Locations,
                 NEW q \in Quantities, Transfer(p, l, m, q)
          PROVE  FALSE
      <3> DEFINE from == <<p, l>>
                 to == <<p, m>>
      <3>1. from \in Rows /\ to \in Rows /\ from # to
        BY <2>f DEF Rows, Transfer
      <3>2. /\ q <= onHand[from] - reserved[from]
            /\ onHand' = [onHand EXCEPT ![from] = @ - q, ![to] = @ + q]
            /\ reserved' = reserved
        BY <2>f DEF Transfer
      <3> HIDE DEF from, to
      <3>3. onHand'[x] >= reserved[x] /\ reserved'[x] = reserved[x]
        BY <1>1, <2>1, <2>2, <3>1, <3>2
      <3> QED  BY <1>1, <3>3
    <2>g. ASSUME NEW p \in Parts, NEW l \in Locations, NEW q \in Quantities,
                 NEW u \in Uses, Return(p, l, q, u)
          PROVE  FALSE
      <3> DEFINE row == <<p, l>>
      <3>1. row \in Rows /\ onHand' = [onHand EXCEPT ![row] = @ + q] /\ reserved' = reserved
        BY <2>g DEF Rows, Return
      <3> HIDE DEF row
      <3>2. onHand'[x] >= onHand[x] /\ reserved'[x] = reserved[x] /\ onHand'[x] \in Int
        BY <2>1, <2>2, <3>1
      <3> QED  BY <1>1, <2>1, <3>2
    <2> QED
      BY <1>1, <2>2, <2>a, <2>b, <2>c, <2>d, <2>e, <2>f, <2>g DEF BookNext
  <1>2. ASSUME IInv, [BookNext]_bookVars
        PROVE  [\A row \in Rows : Covered(row) /\ ~Covered(row)'
                  => ledger'[row]["ADJUSTMENT"] < ledger[row]["ADJUSTMENT"]]_bookVars
    BY <1>1, <1>2
  <1> QED
    BY <1>2, InventoryInvariant, Implementation, PTL
    DEF ImplementsBook, BookSpec, OnlyAdjustmentUncovers
==============================================================================
