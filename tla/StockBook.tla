------------------------------ MODULE StockBook ------------------------------
(***************************************************************************)
(* What the inventory services promise, without saying how: a book of      *)
(* balances per (part, location) and of the movements that explain them,   *)
(* in which every movement happens at one instant, guarded by the balance  *)
(* of that instant.  Inventory.tla is the detailed specification (reads    *)
(* before the transaction, row locks, values computed in the process and   *)
(* written back) and implements this one.                                  *)
(***************************************************************************)
EXTENDS Integers

CONSTANTS
  Parts,        \* part ids
  Locations,    \* inventory location ids
  Uses,         \* WorkOrderPart ids: one is taken by each consumption
  None,         \* no part, no request, no work order part
  MaxQty,       \* largest quantity of one request
  MaxStock      \* capacity of the balance columns, Decimal(12, 4)

ASSUME StockAssumption ==
  /\ MaxQty \in Nat \ {0}
  /\ MaxStock \in Nat
  /\ None \notin Parts
  /\ None \notin Uses

Quantities == 1..MaxQty
Rows == Parts \X Locations

\* enum StockMovementType
MovementTypes == {"RECEIPT", "TRANSFER_IN", "TRANSFER_OUT", "ADJUSTMENT",
                  "RESERVATION", "RELEASE", "CONSUMPTION", "RETURN"}

VARIABLES
  onHand,    \* InventoryBalance.quantityOnHand of each row
  reserved,  \* InventoryBalance.quantityReserved of each row
  ledger,    \* per row and movement type, the total of the StockMovements
  used,      \* WorkOrderPart.quantity of each id, 0 while there is no record
  usedPart,  \* WorkOrderPart.partId
  returned,  \* per WorkOrderPart, the total of its RETURN movements
  returnedTo \* the part of that total that went to each location

bookVars == <<onHand, reserved, ledger, used, usedPart, returned, returnedTo>>

\* The ledger after one more movement of a type at a row.
Moved(l, row, type, q) == [l EXCEPT ![row][type] = @ + q]

BookInit ==
  /\ onHand = [row \in Rows |-> 0]
  /\ reserved = [row \in Rows |-> 0]
  /\ ledger = [row \in Rows |-> [type \in MovementTypes |-> 0]]
  /\ used = [u \in Uses |-> 0]
  /\ usedPart = [u \in Uses |-> None]
  /\ returned = [u \in Uses |-> 0]
  /\ returnedTo = [u \in Uses |-> [l \in Locations |-> 0]]

Receive(row, q) ==
  /\ onHand[row] + q <= MaxStock
  /\ onHand' = [onHand EXCEPT ![row] = @ + q]
  /\ ledger' = Moved(ledger, row, "RECEIPT", q)
  /\ UNCHANGED <<reserved, used, usedPart, returned, returnedTo>>

\* A count correction: the only movement that ignores what is reserved.
Adjust(row, d) ==
  /\ onHand[row] + d \in 0..MaxStock
  /\ onHand' = [onHand EXCEPT ![row] = @ + d]
  /\ ledger' = Moved(ledger, row, "ADJUSTMENT", d)
  /\ UNCHANGED <<reserved, used, usedPart, returned, returnedTo>>

Reserve(row, q) ==
  /\ reserved[row] + q <= onHand[row]
  /\ reserved' = [reserved EXCEPT ![row] = @ + q]
  /\ ledger' = Moved(ledger, row, "RESERVATION", q)
  /\ UNCHANGED <<onHand, used, usedPart, returned, returnedTo>>

Release(row, q) ==
  /\ q <= reserved[row]
  /\ reserved' = [reserved EXCEPT ![row] = @ - q]
  /\ ledger' = Moved(ledger, row, "RELEASE", q)
  /\ UNCHANGED <<onHand, used, usedPart, returned, returnedTo>>

Consume(row, q, u) ==
  /\ q <= onHand[row] /\ q <= reserved[row]
  /\ used[u] = 0
  /\ onHand' = [onHand EXCEPT ![row] = @ - q]
  /\ reserved' = [reserved EXCEPT ![row] = @ - q]
  /\ ledger' = Moved(ledger, row, "CONSUMPTION", q)
  /\ used' = [used EXCEPT ![u] = q]
  /\ usedPart' = [usedPart EXCEPT ![u] = row[1]]
  /\ UNCHANGED <<returned, returnedTo>>

Transfer(p, from, to, q) ==
  /\ from # to
  /\ q <= onHand[<<p, from>>] - reserved[<<p, from>>]
  /\ onHand[<<p, to>>] + q <= MaxStock
  /\ onHand' = [onHand EXCEPT ![<<p, from>>] = @ - q, ![<<p, to>>] = @ + q]
  /\ ledger' = Moved(Moved(ledger, <<p, from>>, "TRANSFER_OUT", q),
                     <<p, to>>, "TRANSFER_IN", q)
  /\ UNCHANGED <<reserved, used, usedPart, returned, returnedTo>>

\* A return is bounded by what was consumed, counting only the returns into
\* the same location: the row lock serialises no others.
Return(p, l, q, u) ==
  /\ usedPart[u] = p
  /\ returnedTo[u][l] + q <= used[u]
  /\ onHand[<<p, l>>] + q <= MaxStock
  /\ onHand' = [onHand EXCEPT ![<<p, l>>] = @ + q]
  /\ ledger' = Moved(ledger, <<p, l>>, "RETURN", q)
  /\ returned' = [returned EXCEPT ![u] = @ + q]
  /\ returnedTo' = [returnedTo EXCEPT ![u][l] = @ + q]
  /\ UNCHANGED <<reserved, used, usedPart>>

BookNext ==
  \/ \E row \in Rows, q \in Quantities :
       Receive(row, q) \/ Adjust(row, q) \/ Adjust(row, -q)
         \/ Reserve(row, q) \/ Release(row, q)
  \/ \E row \in Rows, q \in Quantities, u \in Uses : Consume(row, q, u)
  \/ \E p \in Parts, l, m \in Locations, q \in Quantities : Transfer(p, l, m, q)
  \/ \E p \in Parts, l \in Locations, q \in Quantities, u \in Uses :
       Return(p, l, q, u)

BookSpec == BookInit /\ [][BookNext]_bookVars

-----------------------------------------------------------------------------
(* What the book guarantees, and so every implementation of it. *)

\* The balance is the materialised result of the movements of its row.
\* Concurrent calls lose no movement and count none twice.
Explained(row) ==
  LET m == ledger[row] IN
  /\ onHand[row] = m["RECEIPT"] + m["TRANSFER_IN"] + m["RETURN"]
                   + m["ADJUSTMENT"] - m["TRANSFER_OUT"] - m["CONSUMPTION"]
  /\ reserved[row] = m["RESERVATION"] - m["RELEASE"] - m["CONSUMPTION"]
LedgerExplainsBalance == \A row \in Rows : Explained(row)

\* The row holds what is reserved on it.
Covered(row) == reserved[row] <= onHand[row]

\* The only step after which a row holds less than is reserved on it, when it
\* held enough before, is a negative count correction.
OnlyAdjustmentUncovers ==
  [][\A row \in Rows : Covered(row) /\ ~Covered(row)'
       => ledger'[row]["ADJUSTMENT"] < ledger[row]["ADJUSTMENT"]]_bookVars

==============================================================================
