------------------------- MODULE InvoicePaymentsProofs -------------------------
(***************************************************************************)
(* The row of an invoice agrees with its ledger as long as its calls come  *)
(* one after another, for any number of callers, totals, attempts and      *)
(* payments, and such calls are steps of the InvoiceAccount.  What carries *)
(* the argument is Found: what the running call read still holds, and what *)
(* it will write was computed from it.  Summed says that what is carried   *)
(* along as booked is the sum of the recorded payments.                    *)
(***************************************************************************)
EXTENDS InvoicePayments, SequenceTheorems, TLAPS

\* The row agrees with the ledger, and a draft has none.
Balanced ==
  /\ invoice.paid = booked /\ booked <= invoice.total
  /\ invoice.due = IF invoice.status = "VOID" THEN 0 ELSE invoice.total - booked
  /\ invoice.status = "PAID" => booked = invoice.total
  /\ booked = invoice.total /\ booked > 0 => invoice.status = "PAID"
  /\ invoice.status \in {"DRAFT", "DELETED"} => payments = <<>> /\ booked = 0

\* What call k, with nobody else about, found and computed.
Found(k) ==
  /\ k.op \in {"update", "issue", "delete"} =>
       invoice.status = "DRAFT" /\ k.paid = 0
  /\ k.op # "update" => k.total = invoice.total
  /\ k.op = "issue" => k.status = "ISSUED"
  /\ k.op = "pay" =>
       /\ invoice.status \in Payable
       /\ k.amount > 0 /\ k.amount <= invoice.total - booked
       /\ k.paid = booked + k.amount
       /\ k.status = IF k.paid = invoice.total THEN "PAID" ELSE "PARTIALLY_PAID"
  /\ k.op = "voidPayment" =>
       /\ invoice.status \notin {"VOID", "DRAFT", "DELETED"}
       /\ payments[k.at].status = "RECORDED"
       /\ k.paid = booked - payments[k.at].amount
       /\ k.status \in {"OVERDUE", IF k.paid = 0 THEN "ISSUED" ELSE "PARTIALLY_PAID"}
  /\ k.op = "void" => invoice.status \in Payable /\ booked = 0
  /\ k.op = "overdue" =>
       invoice.status \in {"ISSUED", "PARTIALLY_PAID"} /\ invoice.due > 0

SerialInv ==
  ~overlapped =>
    /\ Balanced
    /\ \A c, d \in Callers : stage[c] # "idle" /\ stage[d] # "idle" => c = d
    /\ \A c \in Callers : stage[c] # "idle" => Found(call[c])

\* What every set of payments comes to: nothing for none, and each payment adds its
\* amount.  There is one such f, found without recursion.
Sums(f) ==
  /\ f \in [SUBSET DOMAIN payments -> Nat]
  /\ f[{}] = 0
  /\ \A s \in SUBSET DOMAIN payments : \A i \in s : f[s] = f[s \ {i}] + payments[i].amount

Recorded == {i \in DOMAIN payments : payments[i].status = "RECORDED"}

\* booked is the sum of the recorded payments, whatever overlaps.
Summed == \E f : Sums(f) /\ booked = f[Recorded]

-----------------------------------------------------------------------------
(* Facts about the types. *)

LEMMA Cents == \A t \in Totals : t \in Nat /\ t \in Int
<1>1. \A t \in Totals : t \in Nat
  BY PaymentsAssumption
<1> QED
  BY <1>1

LEMMA Ledger ==
  ASSUME TypeOK
  PROVE  /\ Len(payments) \in Nat
         /\ DOMAIN payments = 1..Len(payments)
         /\ \A i \in DOMAIN payments : payments[i] \in Payments
BY LenProperties, ElementOfSeq DEF TypeOK

-----------------------------------------------------------------------------
(* The ledger and its sum, whatever calls overlap. *)

\* What a payment that is still recorded, or a ledger of voided ones, says of booked.
LEMMA SumTells ==
  ASSUME TypeOK, Summed
  PROVE  /\ booked >= 0
         /\ \A i \in Recorded : payments[i].amount <= booked
         /\ Recorded = {} => booked = 0
<1>1. PICK f : Sums(f) /\ booked = f[Recorded]
  BY DEF Summed
<1>2. Recorded \in SUBSET DOMAIN payments
  BY DEF Recorded
<1>3. booked \in Nat
  BY <1>1, <1>2 DEF Sums
<1>4. ASSUME NEW i \in Recorded  PROVE payments[i].amount <= booked
  <2>1. booked = f[Recorded \ {i}] + payments[i].amount
    BY <1>1, <1>2 DEF Sums
  <2>2. f[Recorded \ {i}] \in Nat
    BY <1>1, <1>2 DEF Sums
  <2>3. payments[i].amount \in Nat
    BY <1>2, Ledger DEF Payments
  <2> QED
    BY <1>3, <2>1, <2>2, <2>3
<1>5. Recorded = {} => booked = 0
  BY <1>1 DEF Sums
<1> HIDE DEF Recorded
<1> QED
  BY <1>3, <1>4, <1>5

\* Another payment: a set with it comes to its amount more than without it.
LEMMA SumAppended ==
  ASSUME TypeOK, Summed, NEW a \in Nat,
         payments' = Append(payments, [amount |-> a, status |-> "RECORDED"]),
         booked' = booked + a
  PROVE  Summed'
<1> DEFINE n == Len(payments) + 1
<1>1. PICK f : Sums(f) /\ booked = f[Recorded]
  BY DEF Summed
<1>2. /\ n \in Nat /\ n \notin DOMAIN payments
      /\ DOMAIN payments' = DOMAIN payments \cup {n}
      /\ payments'[n].amount = a /\ payments'[n].status = "RECORDED"
      /\ \A i \in DOMAIN payments : payments'[i] = payments[i]
  BY Ledger DEF TypeOK
<1> HIDE DEF n
<1>3. Recorded' = Recorded \cup {n}
  BY <1>2 DEF Recorded
<1>0. PICK g : g = [s \in SUBSET (DOMAIN payments \cup {n}) |->
                      IF n \in s THEN f[s \ {n}] + a ELSE f[s]]
  OBVIOUS
<1>4. g \in [SUBSET DOMAIN payments' -> Nat]
  <2>1. ASSUME NEW s \in SUBSET (DOMAIN payments \cup {n})  PROVE g[s] \in Nat
    <3>1. s \ {n} \in SUBSET DOMAIN payments /\ (n \notin s => s \in SUBSET DOMAIN payments)
      OBVIOUS
    <3>2. f[s \ {n}] \in Nat /\ (n \notin s => f[s] \in Nat)
      BY <1>1, <3>1 DEF Sums
    <3> QED
      BY <1>0, <3>2
  <2> QED
    BY <1>0, <1>2, <2>1
<1>5. g[{}] = 0
  BY <1>0, <1>1 DEF Sums
<1>6. ASSUME NEW s \in SUBSET DOMAIN payments', NEW i \in s
      PROVE  g[s] = g[s \ {i}] + payments'[i].amount
  <2> DEFINE t == s \ {n}
  <2>1. t \in SUBSET DOMAIN payments /\ s \in SUBSET (DOMAIN payments \cup {n})
        /\ s \ {i} \in SUBSET (DOMAIN payments \cup {n})
    BY <1>2
  <2>2. CASE i = n
    <3>1. g[s] = f[t] + a /\ g[s \ {i}] = f[t]
      BY <1>0, <2>1, <2>2
    <3> QED
      BY <1>2, <2>2, <3>1
  <2>3. CASE i # n
    <3>1. i \in t /\ payments'[i] = payments[i]
      BY <1>2, <2>1, <2>3
    <3>2. f[t] = f[t \ {i}] + payments[i].amount
      BY <1>1, <2>1, <3>1 DEF Sums
    <3>3. f[t \ {i}] \in Nat /\ payments[i].amount \in Nat
      BY <1>1, <2>1, <3>1, Ledger DEF Sums, Payments
    <3>4. CASE n \in s
      <4>1. n \in s \ {i} /\ (s \ {i}) \ {n} = t \ {i}
        BY <2>3, <3>4
      <4>2. g[s] = f[t] + a /\ g[s \ {i}] = f[t \ {i}] + a
        BY <1>0, <2>1, <3>4, <4>1
      <4> QED
        BY <3>1, <3>2, <3>3, <4>2
    <3>5. CASE n \notin s
      <4>1. t = s /\ n \notin s \ {i}
        BY <3>5
      <4>2. g[s] = f[t] /\ g[s \ {i}] = f[t \ {i}]
        BY <1>0, <2>1, <3>5, <4>1
      <4> QED
        BY <3>1, <3>2, <4>2
    <3> QED
      BY <3>4, <3>5
  <2> QED
    BY <2>2, <2>3
<1>7. booked' = g[Recorded']
  <2>1. Recorded' \in SUBSET (DOMAIN payments \cup {n}) /\ Recorded' \ {n} = Recorded
    BY <1>2, <1>3 DEF Recorded
  <2> QED
    BY <1>0, <1>1, <1>3, <2>1
<1>8. Sums(g)'
  BY <1>4, <1>5, <1>6 DEF Sums
<1> QED
  BY <1>7, <1>8 DEF Summed

\* A payment taken back: the sets come to what they came to, and it is no longer
\* in the recorded one.
LEMMA SumVoided ==
  ASSUME TypeOK, Summed, NEW i \in DOMAIN payments,
         payments' = [payments EXCEPT ![i].status = "VOIDED"],
         booked' = IF payments[i].status = "RECORDED" THEN booked - payments[i].amount ELSE booked
  PROVE  Summed'
<1>1. PICK f : Sums(f) /\ booked = f[Recorded]
  BY DEF Summed
<1>2. /\ DOMAIN payments' = DOMAIN payments
      /\ \A j \in DOMAIN payments : payments'[j].amount = payments[j].amount
      /\ payments'[i].status = "VOIDED"
      /\ \A j \in DOMAIN payments : j # i => payments'[j].status = payments[j].status
  BY Ledger DEF Payments
<1>3. Recorded' = Recorded \ {i} /\ Recorded \in SUBSET DOMAIN payments
  BY <1>2 DEF Recorded
<1>4. Sums(f)'
  BY <1>1, <1>2 DEF Sums
<1>5. booked' = f[Recorded']
  <2>1. CASE i \in Recorded
    <3>1. f[Recorded] = f[Recorded \ {i}] + payments[i].amount
      BY <1>1, <1>3, <2>1 DEF Sums
    <3>2. f[Recorded \ {i}] \in Nat /\ payments[i].amount \in Nat
      BY <1>1, <1>3, Ledger DEF Sums, Payments
    <3>3. booked' = booked - payments[i].amount
      BY <2>1 DEF Recorded
    <3> QED
      BY <1>1, <1>3, <3>1, <3>2, <3>3
  <2>2. CASE i \notin Recorded
    <3>1. Recorded' = Recorded /\ booked' = booked
      BY <1>3, <2>2 DEF Recorded
    <3> QED
      BY <1>1, <3>1
  <2> QED
    BY <2>1, <2>2
<1> QED
  BY <1>4, <1>5 DEF Summed

LEMMA SumStays ==
  ASSUME Summed, payments' = payments, booked' = booked
  PROVE  Summed'
<1>1. PICK f : Sums(f) /\ booked = f[Recorded]
  BY DEF Summed
<1>2. Sums(f)' /\ Recorded' = Recorded
  BY <1>1 DEF Sums, Recorded
<1> QED
  BY <1>1, <1>2 DEF Summed

-----------------------------------------------------------------------------
(* How calls begin, move and end. *)

\* A call that starts: its arguments are those of its operation, and alone it
\* has read what is there.
Starts(c, op, i, a, s, t, p) ==
  /\ op \in Operations /\ a \in Nat /\ s \in Statuses /\ t \in Totals /\ p \in Int
  /\ IF op = "voidPayment" THEN i \in DOMAIN payments ELSE i = 0
  /\ op = "pay" => a > 0
  /\ Enter(c, op, i, a, s, t, p)
  /\ ~overlapped /\ Balanced =>
       Found([op |-> op, at |-> i, amount |-> a, status |-> s, total |-> t, paid |-> p])

LEMMA StartsKeeps ==
  ASSUME TypeOK, SerialInv, NEW c \in Callers, NEW op, NEW i, NEW a, NEW s, NEW t, NEW p,
         Starts(c, op, i, a, s, t, p)
  PROVE  TypeOK' /\ SerialInv'
<1> DEFINE k == [op |-> op, at |-> i, amount |-> a, status |-> s, total |-> t, paid |-> p]
<1>1. i \in Nat
  BY Ledger DEF Starts
<1>2. k \in Calls
  BY <1>1 DEF Starts, Calls
<1>3. /\ stage[c] = "idle" /\ stage' = [stage EXCEPT ![c] = "read"]
      /\ call' = [call EXCEPT ![c] = k]
      /\ overlapped' = (overlapped \/ ~Alone(c))
      /\ UNCHANGED <<invoice, pastDue, payments, booked, latest, tries>>
  BY DEF Starts, Enter, rowVars
<1>4. k.op = op /\ k.at = i
  OBVIOUS
<1>5. /\ IF op = "voidPayment" THEN i \in DOMAIN payments ELSE i = 0
      /\ k.op = "pay" => k.amount > 0
  BY DEF Starts
<1>6. ~overlapped /\ Balanced => Found(k)
  BY DEF Starts
<1> HIDE DEF k
<1>7. /\ stage'[c] = "read" /\ call'[c] = k
      /\ \A d \in Callers : d # c => stage'[d] = stage[d] /\ call'[d] = call[d]
  BY <1>3 DEF TypeOK
<1>8. TypeOK'
  <2>1. stage' \in [Callers -> Stages] /\ DOMAIN call' = Callers
    BY <1>3 DEF TypeOK, Stages
  <2>2. overlapped' \in BOOLEAN
    BY <1>3 DEF TypeOK
  <2>3. \A d \in Callers : stage'[d] # "idle" =>
          /\ call'[d] \in Calls
          /\ IF call'[d].op = "voidPayment" THEN call'[d].at \in DOMAIN payments'
             ELSE call'[d].at = 0
          /\ call'[d].op = "pay" => call'[d].amount > 0
          /\ stage'[d] = "numbered" => call'[d].op = "pay"
    BY <1>2, <1>3, <1>4, <1>5, <1>7 DEF TypeOK
  <2> QED
    BY <1>3, <2>1, <2>2, <2>3 DEF TypeOK
<1>9. SerialInv'
  <2> SUFFICES ASSUME ~overlapped'
               PROVE  /\ Balanced'
                      /\ \A d, e \in Callers : stage'[d] # "idle" /\ stage'[e] # "idle" => d = e
                      /\ \A d \in Callers : stage'[d] # "idle" => Found(call[d])'
    BY DEF SerialInv
  <2>1. ~overlapped /\ Alone(c)
    BY <1>3
  <2>2. Balanced
    BY <2>1 DEF SerialInv
  <2>3. Balanced'
    BY <1>3, <2>2 DEF Balanced
  <2>4. Found(k)
    BY <1>6, <2>1, <2>2
  <2>5. Found(call[c])'
    BY <1>3, <1>7, <2>4 DEF Found
  <2>6. \A d \in Callers : stage'[d] # "idle" => d = c
    BY <1>7, <2>1 DEF Alone
  <2> QED
    BY <2>3, <2>5, <2>6
<1> QED
  BY <1>8, <1>9

\* A call that ends, having left the rows in order.
LEMMA EndKeeps ==
  ASSUME TypeOK, SerialInv, NEW c \in Callers, stage[c] # "idle", End(c),
         invoice' \in Invoices, payments' \in Seq(Payments), booked' \in Int,
         DOMAIN payments \subseteq DOMAIN payments',
         ~overlapped => Balanced'
  PROVE  TypeOK' /\ SerialInv'
<1>1. /\ stage' = [stage EXCEPT ![c] = "idle"] /\ call' = [call EXCEPT ![c] = NoCall]
      /\ latest' = [latest EXCEPT ![c] = 0] /\ tries' = [tries EXCEPT ![c] = 0]
      /\ UNCHANGED <<pastDue, overlapped>>
  BY DEF End
<1>2. stage'[c] = "idle" /\ \A d \in Callers : d # c => stage'[d] = stage[d] /\ call'[d] = call[d]
  BY <1>1 DEF TypeOK
<1>3. TypeOK'
  <2>1. stage' \in [Callers -> Stages] /\ DOMAIN call' = Callers
    BY <1>1 DEF TypeOK, Stages
  <2>2. latest' \in [Callers -> Nat] /\ tries' \in [Callers -> 0..MaxTries - 1]
    BY <1>1, PaymentsAssumption DEF TypeOK
  <2>3. \A d \in Callers : stage'[d] # "idle" =>
          /\ call'[d] \in Calls
          /\ IF call'[d].op = "voidPayment" THEN call'[d].at \in DOMAIN payments'
             ELSE call'[d].at = 0
          /\ call'[d].op = "pay" => call'[d].amount > 0
          /\ stage'[d] = "numbered" => call'[d].op = "pay"
    <3> SUFFICES ASSUME NEW d \in Callers, stage'[d] # "idle"
                 PROVE  /\ call'[d] \in Calls
                        /\ IF call'[d].op = "voidPayment" THEN call'[d].at \in DOMAIN payments'
                           ELSE call'[d].at = 0
                        /\ call'[d].op = "pay" => call'[d].amount > 0
                        /\ stage'[d] = "numbered" => call'[d].op = "pay"
      OBVIOUS
    <3>1. stage'[d] = stage[d] /\ call'[d] = call[d]
      BY <1>2
    <3>2. /\ call[d] \in Calls
          /\ IF call[d].op = "voidPayment" THEN call[d].at \in DOMAIN payments
             ELSE call[d].at = 0
          /\ call[d].op = "pay" => call[d].amount > 0
          /\ stage[d] = "numbered" => call[d].op = "pay"
      BY <3>1 DEF TypeOK
    <3> QED
      BY <3>1, <3>2
  <2> QED
    BY <1>1, <2>1, <2>2, <2>3 DEF TypeOK
<1>4. SerialInv'
  <2> SUFFICES ASSUME ~overlapped'
               PROVE  /\ Balanced'
                      /\ \A d, e \in Callers : stage'[d] # "idle" /\ stage'[e] # "idle" => d = e
                      /\ \A d \in Callers : stage'[d] # "idle" => Found(call[d])'
    BY DEF SerialInv
  <2>1. ~overlapped
    BY <1>1
  <2>2. \A d \in Callers : stage[d] # "idle" => d = c
    BY <2>1 DEF SerialInv
  <2>3. \A d \in Callers : stage'[d] = "idle"
    BY <1>2, <2>2
  <2> QED
    BY <2>1, <2>3
<1> QED
  BY <1>3, <1>4

\* The call of a step of c that is under way, as TypeOK and SerialInv know it.
LEMMA Running ==
  ASSUME TypeOK, SerialInv, NEW c \in Callers, stage[c] # "idle"
  PROVE  /\ call[c] \in Calls
         /\ call[c].op \in Operations /\ call[c].amount \in Nat
         /\ call[c].status \in Statuses
         /\ call[c].total \in Totals /\ call[c].total \in Int /\ call[c].paid \in Int
         /\ Due(c) \in Int
         /\ call[c].op = "voidPayment" => call[c].at \in DOMAIN payments
         /\ ~overlapped => Balanced /\ Found(call[c])
<1>1. call[c] \in Calls
  BY DEF TypeOK
<1>2. call[c].total \in Totals /\ call[c].paid \in Int
  BY <1>1 DEF Calls
<1>3. call[c].total \in Int
  BY <1>2, Cents
<1>4. Due(c) \in Int
  BY <1>2, <1>3 DEF Due
<1> QED
  BY <1>1, <1>2, <1>3, <1>4 DEF Calls, TypeOK, SerialInv

LEMMA Row ==
  ASSUME TypeOK
  PROVE  /\ invoice \in Invoices /\ invoice.status \in Statuses
         /\ invoice.total \in Totals /\ invoice.total \in Int
         /\ invoice.paid \in Int /\ invoice.due \in Int /\ booked \in Int
BY Cents DEF TypeOK, Invoices

-----------------------------------------------------------------------------
(* The steps. *)

LEMMA CallKeeps ==
  ASSUME TypeOK, SerialInv, Summed, NEW c \in Callers, Call(c)
  PROVE  TypeOK' /\ SerialInv'
<1> USE Row, Ledger, Cents
<1>1. ASSUME NEW t \in Totals, UpdateInvoice(c, t)
      PROVE  Starts(c, "update", 0, 0, "DRAFT", t, 0)
  BY <1>1 DEF UpdateInvoice, Starts, Found, Operations, Statuses
<1>2. ASSUME IssueInvoice(c)
      PROVE  Starts(c, "issue", 0, 0, "ISSUED", invoice.total, 0)
  BY <1>2 DEF IssueInvoice, Starts, Found, Operations, Statuses
<1>3. ASSUME DeleteInvoice(c)
      PROVE  Starts(c, "delete", 0, 0, "DELETED", invoice.total, 0)
  BY <1>3 DEF DeleteInvoice, Starts, Found, Operations, Statuses
<1>4. ASSUME NEW a \in 1..invoice.total, RecordPayment(c, a)
      PROVE  Starts(c, "pay", 0, a,
                    IF booked + a = invoice.total THEN "PAID" ELSE "PARTIALLY_PAID",
                    invoice.total, booked + a)
  BY <1>4 DEF RecordPayment, Starts, Found, Operations, Statuses
<1>5. ASSUME NEW i \in DOMAIN payments, VoidPayment(c, i)
      PROVE  \E s : Starts(c, "voidPayment", i, 0, s, invoice.total, booked - payments[i].amount)
  <2> DEFINE rest == booked - payments[i].amount
             s == IF pastDue THEN "OVERDUE"
                  ELSE IF rest = 0 THEN "ISSUED" ELSE "PARTIALLY_PAID"
  <2>1. payments[i].amount \in Int
    BY DEF Payments
  <2>2. Enter(c, "voidPayment", i, 0, s, invoice.total, rest)
    BY <1>5 DEF VoidPayment
  <2>3. payments # <<>> /\ payments[i].status = "RECORDED" /\ invoice.status # "VOID"
    BY <1>5 DEF VoidPayment
  <2>4. /\ s \in {"OVERDUE", IF rest = 0 THEN "ISSUED" ELSE "PARTIALLY_PAID"}
        /\ s \in Statuses
    BY DEF Statuses
  <2>5. ~overlapped /\ Balanced =>
          Found([op |-> "voidPayment", at |-> i, amount |-> 0, status |-> s,
                 total |-> invoice.total, paid |-> rest])
    BY <2>3, <2>4 DEF Found, Balanced
  <2> QED
    BY <2>1, <2>2, <2>4, <2>5 DEF Starts, Operations
<1>6. ASSUME VoidInvoice(c)
      PROVE  Starts(c, "void", 0, 0, "VOID", invoice.total, booked)
  <2>1. Recorded = {} /\ booked = 0
    BY <1>6, SumTells DEF VoidInvoice, Recorded
  <2> QED
    BY <1>6, <2>1 DEF VoidInvoice, Starts, Found, Operations, Statuses
<1>7. ASSUME MarkOverdue(c)
      PROVE  Starts(c, "overdue", 0, 0, "OVERDUE", invoice.total, booked)
  BY <1>7 DEF MarkOverdue, Starts, Found, Operations, Statuses, Payable
<1> QED
  BY <1>1, <1>2, <1>3, <1>4, <1>5, <1>6, <1>7, StartsKeeps DEF Call

\* Writes of the row alone.
LEMMA RowCommitsKeep ==
  ASSUME TypeOK, SerialInv, NEW c \in Callers,
         CommitUpdate(c) \/ CommitIssue(c) \/ CommitDelete(c) \/ CommitVoid(c) \/ CommitOverdue(c)
  PROVE  TypeOK' /\ SerialInv'
<1>1. /\ stage[c] # "idle" /\ End(c)
      /\ payments' = payments /\ booked' = booked
  BY DEF CommitUpdate, CommitIssue, CommitDelete, CommitVoid, CommitOverdue, Commits
<1>2. payments' \in Seq(Payments) /\ booked' \in Int /\ DOMAIN payments \subseteq DOMAIN payments'
  BY <1>1 DEF TypeOK
<1> USE Row, <1>1
<1>0. /\ call[c].op \in Operations /\ call[c].amount \in Nat
      /\ call[c].status \in Statuses
      /\ call[c].total \in Totals /\ call[c].total \in Int /\ call[c].paid \in Int
      /\ Due(c) \in Int
      /\ ~overlapped => Balanced /\ Found(call[c])
  BY Running
<1> USE <1>0
<1>3. ASSUME invoice' \in Invoices, ~overlapped => Balanced'
      PROVE  TypeOK' /\ SerialInv'
  BY <1>2, <1>3, EndKeeps
<1>4. CASE CommitUpdate(c)
  <2>1. invoice' \in Invoices
    BY <1>4 DEF CommitUpdate, Invoices
  <2>2. ~overlapped => Balanced'
    <3>1. /\ invoice'.status = invoice.status /\ invoice'.total = call[c].total
          /\ invoice'.paid = call[c].paid /\ invoice'.due = call[c].total - call[c].paid
      BY <1>4 DEF CommitUpdate, Invoices, Due
    <3>2. call[c].op = "update"
      BY <1>4 DEF CommitUpdate, Commits
    <3>3. call[c].total >= 0
      BY Cents
    <3> QED
      BY <3>1, <3>2, <3>3 DEF Balanced, Found
  <2> QED
    BY <1>3, <2>1, <2>2
<1>5. CASE CommitIssue(c)
  <2>0. invoice' = [status |-> "ISSUED", total |-> invoice.total, paid |-> 0, due |-> Due(c)]
    BY <1>5 DEF CommitIssue, Invoices
  <2>1. invoice' \in Invoices
    BY <2>0 DEF Invoices, Statuses
  <2>2. ~overlapped => Balanced'
    BY <1>5 DEF CommitIssue, Commits, Balanced, Found, Invoices, Due
  <2> QED
    BY <1>3, <2>1, <2>2
<1>6. CASE CommitDelete(c)
  <2>1. invoice' \in Invoices
    BY <1>6 DEF CommitDelete, Invoices, Statuses
  <2>2. ~overlapped => Balanced'
    BY <1>6 DEF CommitDelete, Commits, Balanced, Found, Invoices
  <2> QED
    BY <1>3, <2>1, <2>2
<1>7. CASE CommitVoid(c)
  <2>0. invoice' = [status |-> "VOID", total |-> invoice.total, paid |-> invoice.paid,
                    due |-> 0]
    BY <1>7 DEF CommitVoid, Invoices
  <2>1. invoice' \in Invoices
    BY <2>0 DEF Invoices, Statuses
  <2>2. ~overlapped => Balanced'
    BY <1>7 DEF CommitVoid, Commits, Balanced, Found, Invoices, Payable
  <2> QED
    BY <1>3, <2>1, <2>2
<1>8. CASE CommitOverdue(c)
  <2>1. invoice' \in Invoices
    BY <1>8 DEF CommitOverdue, Invoices, Statuses
  <2>2. ~overlapped => Balanced'
    BY <1>8 DEF CommitOverdue, Commits, Balanced, Found, Invoices, Payable
  <2> QED
    BY <1>3, <2>1, <2>2
<1> QED
  BY <1>4, <1>5, <1>6, <1>7, <1>8

LEMMA CommitPaymentKeeps ==
  ASSUME TypeOK, SerialInv, NEW c \in Callers, CommitPayment(c)
  PROVE  TypeOK' /\ SerialInv'
<1> DEFINE p == [amount |-> call[c].amount, status |-> "RECORDED"]
<1>1. stage[c] # "idle" /\ call[c].op = "pay" /\ call[c].amount > 0 /\ End(c)
  BY DEF CommitPayment, TypeOK
<1>2. p \in Payments
  BY <1>1, Running DEF Payments
<1>3. payments' = Append(payments, p) /\ booked' = booked + call[c].amount
  BY DEF CommitPayment
<1> HIDE DEF p
<1>4. /\ payments' \in Seq(Payments) /\ Len(payments') = Len(payments) + 1
      /\ DOMAIN payments' = 1..Len(payments')
  BY <1>2, <1>3, LenProperties DEF TypeOK
<1>5. DOMAIN payments \subseteq DOMAIN payments'
  BY <1>4, Ledger
<1>6. booked' \in Int
  BY <1>1, <1>3, Row, Running
<1>7. invoice' \in Invoices
  BY <1>1, Row, Running DEF CommitPayment, Invoices
<1>8. ~overlapped => Balanced'
  <2> SUFFICES ASSUME ~overlapped  PROVE Balanced'
    OBVIOUS
  <2>1. /\ call[c].total = invoice.total /\ call[c].amount <= invoice.total - booked
        /\ call[c].paid = booked + call[c].amount
        /\ call[c].status = IF call[c].paid = invoice.total THEN "PAID" ELSE "PARTIALLY_PAID"
        /\ invoice.status \in Payable
    BY <1>1, Running DEF Found
  <2>2. /\ invoice'.status = call[c].status /\ invoice'.paid = call[c].paid
        /\ invoice'.due = call[c].total - call[c].paid /\ invoice'.total = invoice.total
    BY Row DEF CommitPayment, Invoices, Due
  <2>3. call[c].amount \in Nat /\ call[c].amount > 0 /\ booked \in Int /\ invoice.total \in Int
    BY <1>1, Row, Running
  <2>4. booked' = booked + call[c].amount
    BY <1>3
  <2> QED
    BY <2>1, <2>2, <2>3, <2>4 DEF Balanced, Payable
<1> QED
  BY <1>1, <1>4, <1>5, <1>6, <1>7, <1>8, EndKeeps

\* One payment of the ledger replaced.
LEMMA Replaced ==
  ASSUME TypeOK, NEW i \in DOMAIN payments,
         payments' = [payments EXCEPT ![i].status = "VOIDED"]
  PROVE  /\ payments' \in Seq(Payments)
         /\ DOMAIN payments' = DOMAIN payments
<1> DEFINE v == [payments[i] EXCEPT !.status = "VOIDED"]
<1>1. v \in Payments
  BY Ledger DEF Payments
<1>2. payments' = [payments EXCEPT ![i] = v]
  OBVIOUS
<1> HIDE DEF v
<1>3. payments \in Seq(Payments) /\ i \in 1..Len(payments)
  BY Ledger DEF TypeOK
<1>4. payments' \in Seq(Payments)
  BY <1>1, <1>2, <1>3, ExceptSeq
<1> QED
  BY <1>2, <1>4

LEMMA CommitVoidPaymentKeeps ==
  ASSUME TypeOK, SerialInv, NEW c \in Callers, CommitVoidPayment(c)
  PROVE  TypeOK' /\ SerialInv'
<1> DEFINE i == call[c].at
<1>1. stage[c] # "idle" /\ call[c].op = "voidPayment" /\ End(c)
  BY DEF CommitVoidPayment, Commits
<1>2. i \in DOMAIN payments /\ call[c].status \in Statuses /\ call[c].paid \in Int
      /\ call[c].total \in Int /\ Due(c) \in Int
  BY <1>1, Running
<1>3. payments' = [payments EXCEPT ![i].status = "VOIDED"]
  BY DEF CommitVoidPayment
<1>4. payments[i].amount \in Nat /\ payments[i].amount > 0
  BY <1>2, Ledger DEF Payments
<1>5. booked' = IF payments[i].status = "RECORDED" THEN booked - payments[i].amount ELSE booked
  BY DEF CommitVoidPayment
<1>6. booked' \in Int
  BY <1>4, <1>5, Row
<1>7. invoice' = [status |-> call[c].status, total |-> invoice.total,
                  paid |-> call[c].paid, due |-> Due(c)]
  BY Row DEF CommitVoidPayment, Invoices
<1>8. invoice' \in Invoices
  BY <1>2, <1>7, Row DEF Invoices
<1>9. ~overlapped => Balanced'
  <2> SUFFICES ASSUME ~overlapped  PROVE Balanced'
    OBVIOUS
  <2>1. Balanced /\ Found(call[c])
    BY <1>1, Running
  <2>2. /\ call[c].total = invoice.total /\ payments[i].status = "RECORDED"
        /\ call[c].paid = booked - payments[i].amount /\ call[c].status \in Payable
    BY <1>1, <2>1 DEF Found, Payable
  <2>3. booked <= invoice.total
    BY <2>1 DEF Balanced
  <2>4. booked' = call[c].paid /\ booked' < invoice.total
    BY <1>4, <1>5, <2>2, <2>3, Row
  <2>5. /\ invoice'.status = call[c].status /\ invoice'.total = invoice.total
        /\ invoice'.paid = call[c].paid /\ invoice'.due = Due(c)
    BY <1>7
  <2>6. invoice'.due = invoice'.total - booked'
    BY <2>2, <2>4, <2>5 DEF Due
  <2>7. invoice'.status \in {"ISSUED", "PARTIALLY_PAID", "OVERDUE"}
    BY <2>2, <2>5 DEF Payable
  <2> QED
    BY <1>6, <2>4, <2>5, <2>6, <2>7, Row DEF Balanced
<1>10. payments' \in Seq(Payments) /\ DOMAIN payments' = DOMAIN payments
  BY <1>2, <1>3, Replaced
<1> QED
  BY <1>1, <1>6, <1>8, <1>9, <1>10, EndKeeps

\* The attempts at a number change neither the row nor what will be written.
LEMMA NumberingKeeps ==
  ASSUME TypeOK, SerialInv, NEW c \in Callers, ReadLatest(c) \/ Collide(c)
  PROVE  TypeOK' /\ SerialInv'
<1>1. /\ stage[c] # "idle" /\ call[c].op = "pay"
      /\ UNCHANGED <<invoice, pastDue, payments, booked, call, overlapped>>
  BY DEF ReadLatest, Collide, TypeOK, rowVars
<1>2. /\ latest' \in [Callers -> Nat] /\ tries' \in [Callers -> 0..MaxTries - 1]
      /\ stage' \in [Callers -> Stages]
  <2>1. CASE ReadLatest(c)
    BY <2>1, Ledger DEF ReadLatest, TypeOK, Stages
  <2>2. CASE Collide(c)
    <3>1. tries[c] + 1 \in 0..MaxTries - 1
      BY <2>2, PaymentsAssumption DEF Collide, TypeOK
    <3> QED
      BY <2>2, <3>1 DEF Collide, TypeOK, Stages
  <2> QED
    BY <2>1, <2>2
<1>3. \A d \in Callers : stage'[d] # "idle" =>
        stage[d] # "idle" /\ (stage'[d] = "numbered" => call[d].op = "pay")
  BY <1>1 DEF ReadLatest, Collide, TypeOK
<1>4. TypeOK'
  BY <1>1, <1>2, <1>3 DEF TypeOK
<1>5. SerialInv'
  <2>1. \A d \in Callers : Found(call[d]) => Found(call[d])'
    BY <1>1 DEF Found
  <2>2. Balanced => Balanced'
    BY <1>1 DEF Balanced
  <2> QED
    BY <1>1, <1>3, <2>1, <2>2 DEF SerialInv
<1> QED
  BY <1>4, <1>5

LEMMA FailKeeps ==
  ASSUME TypeOK, SerialInv, NEW c \in Callers, Fail(c)
  PROVE  TypeOK' /\ SerialInv'
<1>1. stage[c] # "idle" /\ End(c) /\ UNCHANGED <<invoice, payments, booked>>
  BY DEF Fail
<1>2. ~overlapped => Balanced'
  BY <1>1 DEF SerialInv, Balanced
<1>3. invoice' \in Invoices /\ payments' \in Seq(Payments) /\ booked' \in Int
      /\ DOMAIN payments \subseteq DOMAIN payments'
  BY <1>1 DEF TypeOK
<1> QED
  BY <1>1, <1>2, <1>3, EndKeeps

LEMMA SumKeeps ==
  ASSUME TypeOK, Summed, [Next]_vars
  PROVE  Summed'
<1>1. CASE payments' = payments /\ booked' = booked
  BY <1>1, SumStays
<1>2. ASSUME NEW c \in Callers, CommitPayment(c)  PROVE Summed'
  <2>1. call[c].amount \in Nat
    BY <1>2 DEF CommitPayment, TypeOK, Calls
  <2> QED
    BY <1>2, <2>1, SumAppended DEF CommitPayment
<1>3. ASSUME NEW c \in Callers, CommitVoidPayment(c)  PROVE Summed'
  <2>1. call[c].at \in DOMAIN payments
    BY <1>3 DEF CommitVoidPayment, Commits, TypeOK
  <2> QED
    BY <1>3, <2>1, SumVoided DEF CommitVoidPayment
<1>4. \/ payments' = payments /\ booked' = booked
      \/ \E c \in Callers : CommitPayment(c) \/ CommitVoidPayment(c)
  <2>1. ASSUME NEW c \in Callers, Call(c)  PROVE payments' = payments /\ booked' = booked
    BY <2>1 DEF Call, UpdateInvoice, IssueInvoice, DeleteInvoice, RecordPayment, VoidPayment,
                VoidInvoice, MarkOverdue, Enter, rowVars
  <2>2. ASSUME NEW c \in Callers, Proceed(c), ~CommitPayment(c), ~CommitVoidPayment(c)
        PROVE  payments' = payments /\ booked' = booked
    BY <2>2 DEF Proceed, CommitUpdate, CommitIssue, CommitDelete, ReadLatest, Collide,
                CommitVoid, CommitOverdue, rowVars
  <2> QED
    BY <2>1, <2>2 DEF Next, DueDatePasses, Fail, vars
<1> QED
  BY <1>1, <1>2, <1>3, <1>4

LEMMA NextKeeps ==
  ASSUME TypeOK, SerialInv, Summed, [Next]_vars
  PROVE  TypeOK' /\ SerialInv'
<1>0. ASSUME UNCHANGED <<invoice, payments, booked, stage, call, overlapped>>
      PROVE  SerialInv'
  <2>1. \A d \in Callers : Found(call[d]) => Found(call[d])'
    BY <1>0 DEF Found
  <2>2. Balanced => Balanced'
    BY <1>0 DEF Balanced
  <2> QED
    BY <1>0, <2>1, <2>2 DEF SerialInv
<1>1. ASSUME UNCHANGED <<invoice, payments, booked, stage, call, latest, tries, overlapped>>,
             pastDue' \in BOOLEAN
      PROVE  TypeOK' /\ SerialInv'
  <2>1. TypeOK'
    BY <1>1 DEF TypeOK
  <2> QED
    BY <1>0, <1>1, <2>1
<1>2. CASE DueDatePasses \/ UNCHANGED vars
  <2>1. UNCHANGED <<invoice, payments, booked, stage, call, latest, tries, overlapped>>
    BY <1>2 DEF DueDatePasses, vars
  <2>2. pastDue' \in BOOLEAN
    BY <1>2 DEF DueDatePasses, vars, TypeOK
  <2> QED
    BY <1>1, <2>1, <2>2
<1>3. ASSUME NEW c \in Callers, Call(c)  PROVE TypeOK' /\ SerialInv'
  BY <1>3, CallKeeps
<1>4. ASSUME NEW c \in Callers, Proceed(c)  PROVE TypeOK' /\ SerialInv'
  BY <1>4, RowCommitsKeep, NumberingKeeps, CommitPaymentKeeps, CommitVoidPaymentKeeps
  DEF Proceed
<1>5. ASSUME NEW c \in Callers, Fail(c)  PROVE TypeOK' /\ SerialInv'
  BY <1>5, FailKeeps
<1> QED
  BY <1>1, <1>2, <1>3, <1>4, <1>5 DEF Next

LEMMA InitKeeps ==
  ASSUME Init
  PROVE  TypeOK /\ SerialInv
<1>1. payments = <<>> /\ payments \in Seq(Payments)
  BY EmptySeq DEF Init
<1>2. tries \in [Callers -> 0..MaxTries - 1] /\ latest \in [Callers -> Nat]
  BY PaymentsAssumption DEF Init
<1>3. /\ invoice \in Invoices /\ invoice.status = "DRAFT"
      /\ invoice.paid = 0 /\ invoice.due = invoice.total /\ invoice.total \in Nat
  BY Cents DEF Init, Invoices, Statuses
<1>4. \A c \in Callers : stage[c] = "idle"
  BY DEF Init
<1>5. /\ stage \in [Callers -> Stages] /\ DOMAIN call = Callers
      /\ booked = 0 /\ pastDue \in BOOLEAN /\ overlapped \in BOOLEAN
  BY DEF Init, Stages
<1>6. TypeOK
  BY <1>1, <1>2, <1>3, <1>4, <1>5 DEF TypeOK
<1>7. Balanced
  BY <1>1, <1>3, <1>5 DEF Balanced
<1> QED
  BY <1>4, <1>6, <1>7 DEF SerialInv

LEMMA SumStarts ==
  ASSUME Init
  PROVE  Summed
<1>1. payments = <<>> /\ booked = 0 /\ DOMAIN payments = {}
  BY DEF Init
<1>2. PICK f : f = [s \in {{}} |-> 0]
  OBVIOUS
<1>3. SUBSET DOMAIN payments = {{}} /\ Recorded = {}
  BY <1>1 DEF Recorded
<1>4. Sums(f)
  BY <1>1, <1>2, <1>3 DEF Sums
<1> QED
  BY <1>1, <1>2, <1>3, <1>4 DEF Summed

LEMMA Inductive == Spec => [](TypeOK /\ SerialInv /\ Summed)
<1>1. Init => TypeOK /\ SerialInv /\ Summed
  BY InitKeeps, SumStarts
<1>2. TypeOK /\ SerialInv /\ Summed /\ [Next]_vars => (TypeOK /\ SerialInv /\ Summed)'
  BY NextKeeps, SumKeeps
<1> QED
  BY <1>1, <1>2, PTL DEF Spec

\* The row, the ledger and the calls keep their types, and no call makes more
\* than MAX_NUMBER_RETRIES attempts at a payment number.
THEOREM TypeCorrect == Spec => []TypeOK
BY Inductive, PTL

\* recordPayment, voidPayment, voidInvoice and the sweep: calls that come one
\* after another keep amountPaid, amountDue and PAID what the payments make them.
THEOREM SerialBalance == Spec => []SerialBalances
<1>1. SerialInv => SerialBalances
  BY DEF SerialInv, Balanced, SerialBalances
<1> QED
  BY <1>1, Inductive, PTL

\* deleteInvoice: without overlapping calls no payment outlives its invoice, and
\* none is taken for a draft.
DraftsAreUnpaid ==
  ~overlapped => (invoice.status \in {"DRAFT", "DELETED"} => payments = <<>>)

\* deleteInvoice and recordPayment: a draft, or what was one, has no payment.
THEOREM NoPaymentOnDraft == Spec => []DraftsAreUnpaid
<1>1. SerialInv => DraftsAreUnpaid
  BY DEF SerialInv, Balanced, DraftsAreUnpaid
<1> QED
  BY <1>1, Inductive, PTL

-----------------------------------------------------------------------------
(* The refinement of InvoiceAccount. *)

\* What the account is, and that it is not Disturbed by accident.
LEMMA AccountIs ==
  ASSUME TypeOK, ~overlapped
  PROVE  /\ account = [status |-> invoice.status, total |-> invoice.total, paid |-> booked]
         /\ account # Disturbed
         /\ Account!Owed = invoice.total - booked
<1>1. account = [status |-> invoice.status, total |-> invoice.total, paid |-> booked]
  BY DEF account
<1>2. account \in Account!Accounts
  BY <1>1, Row DEF Account!Accounts, Account!Statuses, Statuses
<1> QED
  BY <1>1, <1>2, DisturbedAssumption DEF Account!Owed

\* The account after a step that nothing overlaps.
LEMMA AccountBecomes ==
  ASSUME ~overlapped'
  PROVE  account' = [status |-> invoice'.status, total |-> invoice'.total, paid |-> booked']
BY DEF account

\* A commit of the one call there is is a step of the account.
LEMMA CommitIsAccountStep ==
  ASSUME TypeOK, SerialInv, Summed, NEW c \in Callers, Proceed(c), ~overlapped
  PROVE  [Account!AccountNext]_account
<1>0. stage[c] # "idle" /\ overlapped' = overlapped
  BY DEF Proceed, CommitUpdate, CommitIssue, CommitDelete, ReadLatest, CommitPayment, Collide,
         CommitVoidPayment, CommitVoid, CommitOverdue, Commits, End, TypeOK
<1>1. /\ Found(call[c]) /\ Balanced
      /\ call[c].total \in Totals /\ call[c].paid \in Int /\ call[c].amount \in Nat
      /\ call[c].op = "voidPayment" => call[c].at \in DOMAIN payments
  BY <1>0, Running
<1>2. PICK s, t : s = invoice.status /\ t = invoice.total
  OBVIOUS
<1>3. /\ account = [status |-> s, total |-> t, paid |-> booked]
      /\ account # Disturbed
      /\ Account!Owed = t - booked
  BY <1>2, AccountIs
<1>4. account' = [status |-> invoice'.status, total |-> invoice'.total, paid |-> booked']
  BY <1>0, AccountBecomes
<1>5. /\ invoice = [status |-> s, total |-> t, paid |-> invoice.paid, due |-> invoice.due]
      /\ t \in Int /\ booked \in Int
  BY <1>2, Row DEF Invoices
<1>a. CASE CommitUpdate(c)
  <2>1. call[c].op = "update"
    BY <1>a DEF CommitUpdate, Commits
  <2>2. s = "DRAFT"
    BY <1>1, <1>2, <2>1 DEF Found
  <2>3. invoice'.status = s /\ invoice'.total = call[c].total /\ booked' = booked
    BY <1>5, <1>a DEF CommitUpdate
  <2>4. Account!Price(call[c].total)
    BY <1>3, <1>4, <2>2, <2>3 DEF Account!Price
  <2> QED
    BY <1>1, <1>3, <2>4 DEF Account!AccountNext
<1>b. CASE CommitIssue(c)
  <2>1. call[c].op = "issue"
    BY <1>b DEF CommitIssue, Commits
  <2>2. s = "DRAFT"
    BY <1>1, <1>2, <2>1 DEF Found
  <2>3. invoice'.status = "ISSUED" /\ invoice'.total = t /\ booked' = booked
    BY <1>5, <1>b DEF CommitIssue
  <2>4. Account!Issue
    BY <1>3, <1>4, <2>2, <2>3 DEF Account!Issue
  <2> QED
    BY <1>3, <2>4 DEF Account!AccountNext
<1>c. CASE CommitDelete(c)
  <2>1. call[c].op = "delete"
    BY <1>c DEF CommitDelete, Commits
  <2>2. s = "DRAFT"
    BY <1>1, <1>2, <2>1 DEF Found
  <2>3. invoice'.status = "DELETED" /\ invoice'.total = t /\ booked' = booked
    BY <1>5, <1>c DEF CommitDelete
  <2>4. Account!Delete
    BY <1>3, <1>4, <2>2, <2>3 DEF Account!Delete
  <2> QED
    BY <1>3, <2>4 DEF Account!AccountNext
<1>d. CASE ReadLatest(c) \/ Collide(c)
  <2>1. UNCHANGED <<invoice, booked, overlapped>>
    BY <1>d DEF ReadLatest, Collide, rowVars
  <2> QED
    BY <1>2, <1>3, <1>4, <2>1
<1>e. CASE CommitPayment(c)
  <2> DEFINE a == call[c].amount
  <2>1. call[c].op = "pay"
    BY <1>e DEF CommitPayment, TypeOK
  <2>2. /\ s \in Payable /\ a \in 1..(t - booked)
        /\ call[c].status = IF booked + a = t THEN "PAID" ELSE "PARTIALLY_PAID"
    BY <1>1, <1>2, <1>5, <2>1 DEF Found
  <2>3. invoice'.status = call[c].status /\ invoice'.total = t /\ booked' = booked + a
    BY <1>5, <1>e DEF CommitPayment
  <2>4. call[c].status = IF a = t - booked THEN "PAID" ELSE "PARTIALLY_PAID"
    BY <1>1, <1>5, <2>2
  <2> HIDE DEF a
  <2>5. account' = [account EXCEPT !.paid = booked + a, !.status = call[c].status]
    <3>1. [account EXCEPT !.paid = booked + a] = [status |-> s, total |-> t, paid |-> booked + a]
      BY <1>3
    <3>2. [[status |-> s, total |-> t, paid |-> booked + a] EXCEPT !.status = call[c].status]
            = [status |-> call[c].status, total |-> t, paid |-> booked + a]
      OBVIOUS
    <3> QED
      BY <1>4, <2>3, <3>1, <3>2
  <2>6. account.status = s /\ account.paid = booked
    BY <1>3
  <2>7. Account!Pay(a)
    BY <1>3, <2>2, <2>4, <2>5, <2>6 DEF Account!Pay, Account!Payable, Payable
  <2> QED
    BY <1>3, <2>2, <2>7 DEF Account!AccountNext
<1>f. CASE CommitVoidPayment(c)
  <2> DEFINE a == payments[call[c].at].amount
  <2>1. call[c].op = "voidPayment"
    BY <1>f DEF CommitVoidPayment, Commits
  <2>2. /\ s \notin {"VOID", "DRAFT", "DELETED"} /\ call[c].at \in Recorded
        /\ call[c].paid = booked - a
        /\ call[c].status \in {"OVERDUE", IF call[c].paid = 0 THEN "ISSUED" ELSE "PARTIALLY_PAID"}
    BY <1>1, <1>2, <2>1 DEF Found, Recorded
  <2>3. a \in Nat /\ a > 0 /\ a <= booked
    BY <2>2, Ledger, SumTells DEF Payments, Recorded
  <2>4. /\ invoice'.status = call[c].status /\ invoice'.total = t /\ booked' = booked - a
    BY <1>5, <1>f, <2>2 DEF CommitVoidPayment, Recorded
  <2> HIDE DEF a
  <2>5. call[c].paid = 0 <=> a = booked
    BY <1>5, <2>2, <2>3
  <2>6. invoice'.status \in {"OVERDUE", IF a = booked THEN "ISSUED" ELSE "PARTIALLY_PAID"}
    BY <2>2, <2>4, <2>5
  <2>7. s \in Payable \cup {"PAID"}
    BY <1>2, <2>2, Row DEF Payable, Statuses
  <2>8. account' = [account EXCEPT !.paid = booked - a, !.status = invoice'.status]
    <3>1. [account EXCEPT !.paid = booked - a] = [status |-> s, total |-> t, paid |-> booked - a]
      BY <1>3
    <3>2. [[status |-> s, total |-> t, paid |-> booked - a] EXCEPT !.status = invoice'.status]
            = [status |-> invoice'.status, total |-> t, paid |-> booked - a]
      OBVIOUS
    <3> QED
      BY <1>4, <2>4, <3>1, <3>2
  <2>9. Account!TakeBack(a)
    BY <1>3, <2>6, <2>7, <2>8 DEF Account!TakeBack, Account!Payable, Payable
  <2>10. a \in 1..account.paid
    BY <1>3, <1>5, <2>3
  <2> QED
    BY <1>3, <2>9, <2>10 DEF Account!AccountNext
<1>g. CASE CommitVoid(c)
  <2>1. call[c].op = "void"
    BY <1>g DEF CommitVoid, Commits
  <2>2. s \in Payable /\ booked = 0
    BY <1>1, <1>2, <2>1 DEF Found
  <2>3. invoice'.status = "VOID" /\ invoice'.total = t /\ booked' = booked
    BY <1>5, <1>g DEF CommitVoid
  <2>4. Account!Void
    BY <1>3, <1>4, <2>2, <2>3 DEF Account!Void, Account!Payable, Payable
  <2> QED
    BY <1>3, <2>4 DEF Account!AccountNext
<1>h. CASE CommitOverdue(c)
  <2>1. call[c].op = "overdue"
    BY <1>h DEF CommitOverdue, Commits
  <2>2. s \in {"ISSUED", "PARTIALLY_PAID"} /\ t - booked > 0
    BY <1>1, <1>2, <2>1 DEF Found, Balanced
  <2>3. invoice'.status = "OVERDUE" /\ invoice'.total = t /\ booked' = booked
    BY <1>5, <1>h DEF CommitOverdue
  <2>4. Account!FallDue
    BY <1>3, <1>4, <2>2, <2>3 DEF Account!FallDue
  <2> QED
    BY <1>3, <2>4 DEF Account!AccountNext
<1> QED
  BY <1>a, <1>b, <1>c, <1>d, <1>e, <1>f, <1>g, <1>h DEF Proceed

LEMMA StepIsAccountStep ==
  ASSUME TypeOK, SerialInv, Summed, [Next]_vars
  PROVE  [Account!AccountNext]_account
<1>1. CASE overlapped
  <2>1. overlapped'
    <3>1. ASSUME NEW c \in Callers, Call(c)  PROVE overlapped'
      BY <1>1, <3>1 DEF Call, UpdateInvoice, IssueInvoice, DeleteInvoice, RecordPayment,
                       VoidPayment, VoidInvoice, MarkOverdue, Enter
    <3>2. ASSUME NEW c \in Callers, Proceed(c) \/ Fail(c)  PROVE overlapped'
      BY <1>1, <3>2 DEF Proceed, CommitUpdate, CommitIssue, CommitDelete, ReadLatest,
                       CommitPayment, Collide, CommitVoidPayment, CommitVoid, CommitOverdue,
                       Fail, End
    <3> QED
      BY <1>1, <3>1, <3>2 DEF Next, DueDatePasses, vars
  <2> QED
    BY <1>1, <2>1 DEF account
<1>2. CASE ~overlapped /\ overlapped'
  BY <1>2 DEF account, Account!AccountNext, Account!Disturb
<1>3. CASE ~overlapped /\ ~overlapped'
  <2>1. CASE invoice' = invoice /\ booked' = booked
    BY <1>3, <2>1 DEF account
  <2>2. ASSUME NEW c \in Callers, Call(c)  PROVE invoice' = invoice /\ booked' = booked
    BY <2>2 DEF Call, UpdateInvoice, IssueInvoice, DeleteInvoice, RecordPayment, VoidPayment,
                VoidInvoice, MarkOverdue, Enter, rowVars
  <2>3. ASSUME NEW c \in Callers, Proceed(c)  PROVE [Account!AccountNext]_account
    BY <1>3, <2>3, CommitIsAccountStep
  <2> QED
    BY <2>1, <2>2, <2>3 DEF Next, DueDatePasses, Fail, vars
<1> QED
  BY <1>1, <1>2, <1>3

\* recordPayment, voidPayment, voidInvoice, the sweep and the edits of a draft:
\* every call that overlaps no other is one step of the account of InvoiceAccount,
\* whatever attempts at a number it needed: an invoice is settled by exactly what
\* was owed, opened again by exactly what was taken back, and voided only when
\* nothing is paid on it.
THEOREM AccountImplemented == Spec => ImplementsAccount
<1>1. Init => Account!AccountInit
  <2> SUFFICES ASSUME Init  PROVE Account!AccountInit
    OBVIOUS
  <2>1. /\ invoice.status = "DRAFT" /\ invoice.total \in Totals
        /\ booked = 0 /\ ~overlapped
    BY DEF Init
  <2> QED
    BY <2>1 DEF account, Account!AccountInit
<1>2. TypeOK /\ SerialInv /\ Summed /\ [Next]_vars => [Account!AccountNext]_account
  BY StepIsAccountStep
<1> QED
  BY <1>1, <1>2, Inductive, PTL DEF Spec, ImplementsAccount, Account!AccountSpec
=============================================================================
