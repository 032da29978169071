---------------------------- MODULE InvoicePayments ----------------------------
(***************************************************************************)
(* The life of one invoice and of its payments, lib/services/invoice.  A   *)
(* call reads the invoice with its payments, checks them and computes what *)
(* it will write; its transaction then updates the invoice by id, without  *)
(* a condition on what was read.  recordPayment takes the next payment     *)
(* number in its transaction and tries again, with the balances it has     *)
(* computed, when the number is gone.                                      *)
(*                                                                         *)
(* The payments stand in the order of their numbers (PAY-year-number,      *)
(* unique in the workspace).  Amounts are in cents.                        *)
(***************************************************************************)
EXTENDS Integers, Sequences

CONSTANTS
  Callers,      \* service calls in progress at the same time
  Totals,       \* the totals the lines of an invoice may add up to
  MaxTries,     \* MAX_NUMBER_RETRIES
  MaxPayments,  \* bound on the payments begun, for model checking
  Disturbed     \* the account of an invoice whose calls have overlapped

ASSUME PaymentsAssumption ==
  /\ Totals \subseteq Nat
  /\ MaxTries \in Nat \ {0} /\ MaxPayments \in Nat

VARIABLES
  invoice,     \* status, total, amountPaid and amountDue of the row
  pastDue,     \* the due date has passed
  payments,    \* Payment, in the order of the numbers
  booked,      \* the sum of the payments that are RECORDED
  stage,       \* where each call is
  call,        \* what it is about, and what it will write
  latest,      \* how many payments there were when it took a number
  tries,       \* its attempts at a number
  overlapped   \* some call was not alone from its read to its end

vars == <<invoice, pastDue, payments, booked, stage, call, latest, tries, overlapped>>
rowVars == <<invoice, pastDue, payments, booked>>

\* enum InvoiceStatus, and DELETED for a draft that is gone
Statuses == {"DRAFT", "ISSUED", "PARTIALLY_PAID", "PAID", "OVERDUE", "VOID",
             "DELETED"}
Payable == {"ISSUED", "PARTIALLY_PAID", "OVERDUE"}
Invoices == [status : Statuses, total : Totals, paid : Int, due : Int]
Payments == [amount : Nat \ {0}, status : {"RECORDED", "VOIDED"}]

Operations == {"update", "issue", "pay", "voidPayment", "void", "overdue", "delete"}
Stages == {"idle", "read", "numbered"}
\* "at" is the payment it is about, 0 for none.
Calls == [op : Operations, at : Nat, amount : Nat, status : Statuses,
          total : Totals, paid : Int]
NoCall == [op |-> "none"]

\* createInvoice, with its lines: a draft on which nothing is paid.
Init ==
  /\ invoice \in [status : {"DRAFT"}, total : Totals, paid : {0}, due : Totals]
  /\ invoice.due = invoice.total
  /\ pastDue = FALSE
  /\ payments = <<>>
  /\ booked = 0
  /\ stage = [c \in Callers |-> "idle"]
  /\ call = [c \in Callers |-> NoCall]
  /\ latest = [c \in Callers |-> 0]
  /\ tries = [c \in Callers |-> 0]
  /\ overlapped = FALSE

Alone(c) == \A d \in Callers \ {c} : stage[d] = "idle"

\* A call that passed the checks on what it read: it is about payment i or
\* amount a, and will write status s, total t and amountPaid p.
Enter(c, op, i, a, s, t, p) ==
  /\ stage[c] = "idle"
  /\ stage' = [stage EXCEPT ![c] = "read"]
  /\ call' = [call EXCEPT ![c] = [op |-> op, at |-> i, amount |-> a,
                                  status |-> s, total |-> t, paid |-> p]]
  /\ overlapped' = (overlapped \/ ~Alone(c))
  /\ UNCHANGED <<rowVars, latest, tries>>

End(c) ==
  /\ stage' = [stage EXCEPT ![c] = "idle"]
  /\ call' = [call EXCEPT ![c] = NoCall]
  /\ latest' = [latest EXCEPT ![c] = 0]
  /\ tries' = [tries EXCEPT ![c] = 0]
  /\ UNCHANGED <<pastDue, overlapped>>

\* The transaction of call c is about to commit: an update by id fails only
\* when the row is gone.
Commits(c, op) ==
  /\ stage[c] = "read" /\ call[c].op = op
  /\ invoice.status # "DELETED"

Due(c) == call[c].total - call[c].paid

-----------------------------------------------------------------------------
(* The draft: updateInvoice and the calls on its lines, issueInvoice,      *)
(* deleteInvoice.                                                          *)

UpdateInvoice(c, t) ==
  /\ invoice.status = "DRAFT"
  /\ Enter(c, "update", 0, 0, "DRAFT", t, 0)

CommitUpdate(c) ==
  /\ Commits(c, "update")
  /\ invoice' = [invoice EXCEPT !.total = call[c].total, !.paid = call[c].paid,
                                !.due = Due(c)]
  /\ UNCHANGED <<payments, booked>>
  /\ End(c)

IssueInvoice(c) ==
  /\ invoice.status = "DRAFT"
  /\ Enter(c, "issue", 0, 0, "ISSUED", invoice.total, 0)

CommitIssue(c) ==
  /\ Commits(c, "issue")
  /\ invoice' = [invoice EXCEPT !.status = "ISSUED", !.paid = 0, !.due = Due(c)]
  /\ UNCHANGED <<payments, booked>>
  /\ End(c)

DeleteInvoice(c) ==
  /\ invoice.status = "DRAFT"
  /\ payments = <<>>
  /\ Enter(c, "delete", 0, 0, "DELETED", invoice.total, 0)

\* A payment keeps its invoice (onDelete: Restrict).
CommitDelete(c) ==
  /\ Commits(c, "delete")
  /\ payments = <<>>
  /\ invoice' = [invoice EXCEPT !.status = "DELETED"]
  /\ UNCHANGED <<payments, booked>>
  /\ End(c)

-----------------------------------------------------------------------------
(* recordPayment. *)

RecordPayment(c, a) ==
  /\ invoice.status \in Payable
  /\ a <= invoice.total - booked
  /\ Len(payments) < MaxPayments
  /\ Enter(c, "pay", 0, a,
           IF booked + a = invoice.total THEN "PAID" ELSE "PARTIALLY_PAID",
           invoice.total, booked + a)

ReadLatest(c) ==
  /\ stage[c] = "read" /\ call[c].op = "pay"
  /\ latest' = [latest EXCEPT ![c] = Len(payments)]
  /\ stage' = [stage EXCEPT ![c] = "numbered"]
  /\ UNCHANGED <<rowVars, call, tries, overlapped>>

\* Slip: an OVERDUE invoice keeps its status until it is paid.
CommitPaymentStillOverdue(c) ==
  /\ stage[c] = "numbered" /\ invoice.status # "DELETED"
  /\ latest[c] = Len(payments)
  /\ payments' = Append(payments, [amount |-> call[c].amount, status |-> "RECORDED"])
  /\ booked' = booked + call[c].amount
  /\ invoice' = [invoice EXCEPT !.status =
                   IF invoice.status = "OVERDUE" THEN @ ELSE call[c].status,
                                !.paid = call[c].paid, !.due = Due(c)]
  /\ End(c)

CommitPayment(c) ==
  /\ stage[c] = "numbered" /\ invoice.status # "DELETED"
  /\ latest[c] = Len(payments)
  /\ payments' = Append(payments, [amount |-> call[c].amount, status |-> "RECORDED"])
  /\ booked' = booked + call[c].amount
  /\ invoice' = [invoice EXCEPT !.status = call[c].status,
                                !.paid = call[c].paid, !.due = Due(c)]
  /\ End(c)

\* The number is taken (P2002), by this invoice or by another of the workspace:
\* another attempt, if there is one.  What the call will write is not computed
\* again.
Collide(c) ==
  /\ stage[c] = "numbered"
  /\ tries[c] + 1 < MaxTries
  /\ tries' = [tries EXCEPT ![c] = @ + 1]
  /\ latest' = [latest EXCEPT ![c] = 0]
  /\ stage' = [stage EXCEPT ![c] = "read"]
  /\ UNCHANGED <<rowVars, call, overlapped>>

-----------------------------------------------------------------------------
(* voidPayment, voidInvoice and evaluateInvoiceOverdue. *)

\* Slip: the payment that is voided is still counted.
VoidPaymentCounted(c, i) ==
  /\ payments[i].status = "RECORDED"
  /\ invoice.status # "VOID"
  /\ Enter(c, "voidPayment", i, 0,
           IF pastDue THEN "OVERDUE" ELSE "PARTIALLY_PAID", invoice.total, booked)

VoidPayment(c, i) ==
  /\ payments[i].status = "RECORDED"
  /\ invoice.status # "VOID"
  /\ LET rest == booked - payments[i].amount IN
     Enter(c, "voidPayment", i, 0,
           IF pastDue THEN "OVERDUE"
           ELSE IF rest = 0 THEN "ISSUED" ELSE "PARTIALLY_PAID",
           invoice.total, rest)

CommitVoidPayment(c) ==
  /\ Commits(c, "voidPayment")
  /\ LET i == call[c].at IN
     /\ payments' = [payments EXCEPT ![i].status = "VOIDED"]
     /\ booked' = IF payments[i].status = "RECORDED"
                  THEN booked - payments[i].amount ELSE booked
  /\ invoice' = [invoice EXCEPT !.status = call[c].status,
                                !.paid = call[c].paid, !.due = Due(c)]
  /\ End(c)

VoidInvoice(c) ==
  /\ invoice.status \in Payable
  /\ \A i \in DOMAIN payments : payments[i].status = "VOIDED"
  /\ Enter(c, "void", 0, 0, "VOID", invoice.total, booked)

CommitVoid(c) ==
  /\ Commits(c, "void")
  /\ invoice' = [invoice EXCEPT !.status = "VOID", !.due = 0]
  /\ UNCHANGED <<payments, booked>>
  /\ End(c)

\* The sweep reads the invoice again in its transaction.
MarkOverdue(c) ==
  /\ pastDue
  /\ invoice.status \in {"ISSUED", "PARTIALLY_PAID"}
  /\ invoice.due > 0
  /\ Enter(c, "overdue", 0, 0, "OVERDUE", invoice.total, booked)

CommitOverdue(c) ==
  /\ Commits(c, "overdue")
  /\ invoice' = [invoice EXCEPT !.status = "OVERDUE"]
  /\ UNCHANGED <<payments, booked>>
  /\ End(c)

-----------------------------------------------------------------------------
DueDatePasses ==
  /\ ~pastDue
  /\ pastDue' = TRUE
  /\ UNCHANGED <<invoice, payments, booked, stage, call, latest, tries, overlapped>>

\* A call that does not commit: its row is gone, its number is taken and was
\* its last, its database fails, its process dies.
Fail(c) ==
  /\ stage[c] # "idle"
  /\ UNCHANGED <<invoice, payments, booked>>
  /\ End(c)

Call(c) ==
  \/ \E t \in Totals : UpdateInvoice(c, t)
  \/ IssueInvoice(c)
  \/ DeleteInvoice(c)
  \/ \E a \in 1..invoice.total : RecordPayment(c, a)
  \/ \E i \in DOMAIN payments : VoidPayment(c, i)
  \/ VoidInvoice(c)
  \/ MarkOverdue(c)

Proceed(c) ==
  \/ CommitUpdate(c) \/ CommitIssue(c) \/ CommitDelete(c)
  \/ ReadLatest(c) \/ CommitPayment(c) \/ Collide(c)
  \/ CommitVoidPayment(c) \/ CommitVoid(c) \/ CommitOverdue(c)

Next == DueDatePasses \/ \E c \in Callers : Call(c) \/ Proceed(c) \/ Fail(c)

Spec == Init /\ [][Next]_vars

-----------------------------------------------------------------------------
TypeOK ==
  /\ invoice \in Invoices
  /\ pastDue \in BOOLEAN
  /\ payments \in Seq(Payments)
  /\ booked \in Int
  /\ stage \in [Callers -> Stages]
  /\ DOMAIN call = Callers
  /\ \A c \in Callers : stage[c] # "idle" =>
       /\ call[c] \in Calls
       /\ IF call[c].op = "voidPayment" THEN call[c].at \in DOMAIN payments
          ELSE call[c].at = 0
       /\ call[c].op = "pay" => call[c].amount > 0
       /\ stage[c] = "numbered" => call[c].op = "pay"
  /\ latest \in [Callers -> Nat]
  /\ tries \in [Callers -> 0..MaxTries - 1]
  /\ overlapped \in BOOLEAN

\* Calls one after another keep the row and the ledger together, however many
\* attempts, voided payments and late sweeps there were: amountPaid is what the
\* recorded payments add up to and no more than the total, amountDue the rest
\* (nothing on a void invoice), and an invoice is PAID when, and only
\* when, payments have left nothing of what was owed.
SerialBalances ==
  ~overlapped =>
    /\ invoice.paid = booked /\ booked <= invoice.total
    /\ invoice.due = IF invoice.status = "VOID" THEN 0 ELSE invoice.total - booked
    /\ invoice.status = "PAID" => booked = invoice.total
    /\ booked = invoice.total /\ booked > 0 => invoice.status = "PAID"

\* The row and its ledger, as the account of InvoiceAccount.
account ==
  IF overlapped THEN Disturbed
  ELSE [status |-> invoice.status, total |-> invoice.total, paid |-> booked]

Account == INSTANCE InvoiceAccount WITH account <- account

ASSUME DisturbedAssumption == Disturbed \notin Account!Accounts

\* Every call that overlaps no other is one step of the account.
ImplementsAccount == Account!AccountSpec
=============================================================================
