--------------------------- MODULE InvoiceAccount ---------------------------
(***************************************************************************)
(* What the invoice services promise to calls that come one after another: *)
(* an account of one invoice in which every call happens at one instant,   *)
(* guarded by what has been paid at that instant.  Nothing is promised     *)
(* once two calls have overlapped: the account is then Disturbed.          *)
(* InvoicePayments.tla is the detailed specification.                      *)
(***************************************************************************)
EXTENDS Integers

CONSTANTS
  Totals,     \* the totals an invoice may have, in cents
  Disturbed   \* the account of an invoice whose calls have overlapped, no record

VARIABLE account

\* enum InvoiceStatus, and DELETED for a draft that is gone
Statuses == {"DRAFT", "ISSUED", "PARTIALLY_PAID", "PAID", "OVERDUE", "VOID",
             "DELETED"}
Payable == {"ISSUED", "PARTIALLY_PAID", "OVERDUE"}
\* Accounts that nothing has disturbed.
Accounts == [status : Statuses, total : Totals, paid : Int]

Owed == account.total - account.paid

AccountInit ==
  \E t \in Totals : account = [status |-> "DRAFT", total |-> t, paid |-> 0]

Price(t) ==
  /\ account.status = "DRAFT"
  /\ account' = [account EXCEPT !.total = t]

Issue ==
  /\ account.status = "DRAFT"
  /\ account' = [account EXCEPT !.status = "ISSUED"]

\* A payment (of what is owed at most) settles the invoice when nothing is left.
Pay(a) ==
  /\ account.status \in Payable
  /\ account' = [account EXCEPT !.paid = @ + a,
                   !.status = IF a = Owed THEN "PAID" ELSE "PARTIALLY_PAID"]

\* A payment that was made is taken back; the invoice is open again, or late.
TakeBack(a) ==
  /\ account.status \in Payable \cup {"PAID"}
  /\ \E s \in {"OVERDUE", IF a = account.paid THEN "ISSUED" ELSE "PARTIALLY_PAID"} :
       account' = [account EXCEPT !.paid = @ - a, !.status = s]

FallDue ==
  /\ account.status \in {"ISSUED", "PARTIALLY_PAID"}
  /\ Owed > 0
  /\ account' = [account EXCEPT !.status = "OVERDUE"]

\* Only an invoice on which nothing is paid can be voided.
Void ==
  /\ account.status \in Payable
  /\ account.paid = 0
  /\ account' = [account EXCEPT !.status = "VOID"]

Delete ==
  /\ account.status = "DRAFT"
  /\ account' = [account EXCEPT !.status = "DELETED"]

Disturb == account' = Disturbed

AccountNext ==
  \/ /\ account # Disturbed
     /\ \/ \E t \in Totals : Price(t)
        \/ \E a \in 1..Owed : Pay(a)
        \/ \E a \in 1..account.paid : TakeBack(a)
        \/ Issue \/ FallDue \/ Void \/ Delete
  \/ Disturb

AccountSpec == AccountInit /\ [][AccountNext]_account
=============================================================================
