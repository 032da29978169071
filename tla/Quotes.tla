-------------------------------- MODULE Quotes --------------------------------
(***************************************************************************)
(* One quote and the invoice made of it, lib/services/quote and            *)
(* lib/services/invoice.  A call reads the document with its lines, checks *)
(* them and prices them; its transaction then writes what it computed, row *)
(* by row and by id, without a condition on what was read.                 *)
(*                                                                         *)
(* Bounds: one invoice per quote, whose lines keep the ids of the quote's; *)
(* no call begins once two have overlapped.  Payments and the rest of the  *)
(* invoice's life are InvoicePayments.                                     *)
(***************************************************************************)
EXTENDS Pricing, FiniteSetsExt

CONSTANTS
  Requests,    \* service calls in progress at the same time
  LineIds,     \* ids of line items
  Kinds,       \* what a caller asks of a line: gross, off and rate
  Settings,    \* discounts of a header: type and value
  MaxEdits     \* bound on the edits begun, for model checking

ASSUME QuotesAssumption ==
  /\ LineIds \subseteq Nat \ {0}
  /\ Kinds \subseteq [gross : Nat, off : Nat, rate : Nat]
  /\ Settings \subseteq [type : {"PERCENTAGE", "FIXED"}, value : Nat]
  /\ MaxEdits \in Nat

VARIABLES
  doc,         \* the quote and its invoice, each with its lines
  past,        \* validUntil has passed
  orders,      \* work orders the quote was converted to
  phase,       \* whether a call is under way
  call,        \* the document it will write, the line it is about
  overlapped,  \* two calls have been under way at the same time
  edits        \* edits begun

quotesVars == <<doc, past, orders, phase, call, overlapped, edits>>

\* enum QuoteStatus, DELETED for a row that is gone and NONE before it is there
QuoteStatuses == {"NONE", "DRAFT", "PENDING_APPROVAL", "APPROVED", "REJECTED", "EXPIRED",
                  "CONVERTED", "DELETED"}
Final == {"REJECTED", "EXPIRED", "CONVERTED", "DELETED"}
Lines == [gross : Nat, off : Nat, rate : Nat, order : Nat, base : Nat, tax : Int, total : Int]
NoLines == [i \in {} |-> 0]
Unpriced == [subtotal |-> 0, discount |-> 0, tax |-> 0, total |-> 0,
             lines |-> NoLines]
NoCall == [op |-> "none"]

Priced(status, setting, p) ==
  [status |-> status, setting |-> setting, subtotal |-> p.subtotal,
   discount |-> p.discount, tax |-> p.tax, total |-> p.total, lines |-> p.lines]

\* createQuote: a draft without lines, to be valid until some later day.
QuotesInit ==
  /\ \E s \in Settings :
       doc = [quote |-> Priced("DRAFT", s, Unpriced), invoice |-> Priced("NONE", s, Unpriced)]
  /\ past = FALSE
  /\ orders = 0
  /\ phase = [c \in Requests |-> "idle"]
  /\ call = [c \in Requests |-> NoCall]
  /\ overlapped = FALSE
  /\ edits = 0

\* A call about line i of document d passed the checks on what it read, and
\* will write the document w.
Enter(c, op, d, i, w) ==
  /\ phase[c] = "idle" /\ ~overlapped
  /\ phase' = [phase EXCEPT ![c] = "read"]
  /\ call' = [call EXCEPT ![c] = [op |-> op, doc |-> d, at |-> i, will |-> w]]
  /\ overlapped' = \E e \in Requests \ {c} : phase[e] # "idle"
  /\ UNCHANGED <<doc, past, orders>>

\* An edit of a draft, of which the model begins MaxEdits.
Edit(c, op, d, i, w) ==
  /\ doc[d].status = "DRAFT"
  /\ edits < MaxEdits /\ edits' = edits + 1
  /\ Enter(c, op, d, i, w)

End(c) ==
  /\ phase' = [phase EXCEPT ![c] = "idle"]
  /\ call' = [call EXCEPT ![c] = NoCall]
  /\ UNCHANGED <<overlapped, edits>>

\* The transaction of call c is about to commit, and its row is there.
Commits(c, op, d) ==
  /\ phase[c] = "read" /\ call[c].op = op /\ call[c].doc = d
  /\ doc[d].status \notin {"NONE", "DELETED"}

-----------------------------------------------------------------------------
(* The lines of a draft. *)

Calculate(d, setting, ls) ==
  IF d = "quote" THEN CalculateQuoteTotals(setting, ls)
  ELSE CalculateInvoiceTotals(setting, ls)

\* An edit that gives document d the lines ls: all of them are priced again.
EditLines(c, op, d, i, ls) ==
  /\ Priceable(ls)
  /\ Edit(c, op, d, i, Priced("DRAFT", doc[d].setting, Calculate(d, doc[d].setting, ls)))

\* What a caller asks for, as a line after the others.
NewLine(ls, k) ==
  [gross |-> k.gross, off |-> k.off, rate |-> k.rate,
   order |-> 1 + Max({ls[j].order : j \in DOMAIN ls} \cup {-1}),
   base |-> 0, tax |-> 0, total |-> 0]

\* The new line has an id of its own.
AddLine(c, d, i, k) ==
  LET ls == doc[d].lines
  IN  /\ i \notin DOMAIN ls
      /\ \A e \in Requests : phase[e] # "idle" => call[e].at # i
      /\ EditLines(c, "add", d, i,
                   [j \in DOMAIN ls \cup {i} |-> IF j = i THEN NewLine(ls, k) ELSE ls[j]])

\* A caller who leaves the discount of the line out keeps the one stored.
Asked(l, k, keep) ==
  [l EXCEPT !.gross = k.gross, !.rate = k.rate, !.off = IF keep THEN l.off ELSE k.off]

\* Slip: only the amount asked for is checked, not what it leaves of the line.
UpdateLineUnchecked(c, d, i, k, keep) ==
  LET ls == [doc[d].lines EXCEPT ![i] = Asked(@, k, keep)]
  IN  /\ k.off <= k.gross
      /\ Edit(c, "update", d, i,
              Priced("DRAFT", doc[d].setting, Calculate(d, doc[d].setting, ls)))

UpdateLine(c, d, i, k, keep) ==
  EditLines(c, "update", d, i, [doc[d].lines EXCEPT ![i] = Asked(@, k, keep)])

RemoveLine(c, d, i) ==
  EditLines(c, "remove", d, i, Restrict(doc[d].lines, DOMAIN doc[d].lines \ {i}))

\* The lines after call c: its own line is written whole, of the others the
\* discount, the rate and the amounts.
Written(c, ids) ==
  LET w == call[c].will.lines
      ls == doc[call[c].doc].lines
  IN  [i \in ids |->
         IF i \notin DOMAIN w THEN ls[i]
         ELSE IF i = call[c].at THEN w[i]
         ELSE [ls[i] EXCEPT !.off = w[i].off, !.rate = w[i].rate, !.base = w[i].base,
                            !.tax = w[i].tax, !.total = w[i].total]]

\* An update by id of a line that is gone fails the transaction.
Save(c, ids) ==
  /\ DOMAIN call[c].will.lines \subseteq ids
  /\ doc' = [doc EXCEPT ![call[c].doc] =
               [@ EXCEPT !.subtotal = call[c].will.subtotal,
                         !.discount = call[c].will.discount,
                         !.tax = call[c].will.tax, !.total = call[c].will.total,
                         !.lines = Written(c, ids)]]
  /\ UNCHANGED <<past, orders>>
  /\ End(c)

CommitAdd(c, d) ==
  /\ Commits(c, "add", d)
  /\ Save(c, DOMAIN doc[d].lines \cup {call[c].at})

CommitUpdate(c, d) == Commits(c, "update", d) /\ Save(c, DOMAIN doc[d].lines)

CommitRemove(c, d) ==
  /\ Commits(c, "remove", d)
  /\ call[c].at \in DOMAIN doc[d].lines
  /\ Save(c, DOMAIN doc[d].lines \ {call[c].at})

\* The ids in a new order, each exactly once.
Reorder(c, d) ==
  LET ls == doc[d].lines IN
  \E rank \in Bijection(DOMAIN ls, 0..Cardinality(DOMAIN ls) - 1) :
     Edit(c, "reorder", d, 0,
          [doc[d] EXCEPT !.lines = [i \in DOMAIN ls |-> [ls[i] EXCEPT !.order = rank[i]]]])

CommitReorder(c, d) ==
  LET ls == doc[d].lines
      w == call[c].will.lines
  IN  /\ Commits(c, "reorder", d)
      /\ DOMAIN w \subseteq DOMAIN ls
      /\ doc' = [doc EXCEPT ![d].lines =
                   [i \in DOMAIN ls |-> IF i \in DOMAIN w
                                        THEN [ls[i] EXCEPT !.order = w[i].order]
                                        ELSE ls[i]]]
      /\ UNCHANGED <<past, orders>>
      /\ End(c)

AddQuoteLineItem(c) == \E i \in LineIds, k \in Kinds : AddLine(c, "quote", i, k)
AddInvoiceLineItem(c) == \E i \in LineIds, k \in Kinds : AddLine(c, "invoice", i, k)
UpdateQuoteLineItem(c) ==
  \E i \in DOMAIN doc["quote"].lines, k \in Kinds, keep \in BOOLEAN :
    UpdateLine(c, "quote", i, k, keep)
UpdateInvoiceLineItem(c) ==
  \E i \in DOMAIN doc["invoice"].lines, k \in Kinds, keep \in BOOLEAN :
    UpdateLine(c, "invoice", i, k, keep)
RemoveQuoteLineItem(c) == \E i \in DOMAIN doc["quote"].lines : RemoveLine(c, "quote", i)
RemoveInvoiceLineItem(c) == \E i \in DOMAIN doc["invoice"].lines : RemoveLine(c, "invoice", i)
ReorderQuoteLineItems(c) == Reorder(c, "quote")
ReorderInvoiceLineItems(c) == Reorder(c, "invoice")

CommitAddQuoteLineItem(c) == CommitAdd(c, "quote")
CommitAddInvoiceLineItem(c) == CommitAdd(c, "invoice")
CommitUpdateQuoteLineItem(c) == CommitUpdate(c, "quote")
CommitUpdateInvoiceLineItem(c) == CommitUpdate(c, "invoice")
CommitRemoveQuoteLineItem(c) == CommitRemove(c, "quote")
CommitRemoveInvoiceLineItem(c) == CommitRemove(c, "invoice")
CommitReorderQuoteLineItems(c) == CommitReorder(c, "quote")
CommitReorderInvoiceLineItems(c) == CommitReorder(c, "invoice")

-----------------------------------------------------------------------------
(* The header of a draft. *)

\* updateQuote with a new discount.  The discount of the header becomes part of
\* the lines' own.
UpdateQuote(c, s) ==
  LET quote == doc["quote"]
      p == CalculateQuoteTotals(s, quote.lines)
  IN  /\ Priceable(quote.lines)
      /\ Edit(c, "header", "quote", 0,
              IF quote.lines = NoLines THEN [quote EXCEPT !.setting = s]
              ELSE Priced("DRAFT", s,
                      [p EXCEPT !.lines =
                         [i \in DOMAIN p.lines |->
                            [p.lines[i] EXCEPT !.off = @ + p.share[i]]]]))

CommitUpdateQuote(c) ==
  /\ Commits(c, "header", "quote")
  /\ DOMAIN call[c].will.lines \subseteq DOMAIN doc["quote"].lines
  /\ doc' = [doc EXCEPT !.quote =
               Priced(@.status, call[c].will.setting,
                      [call[c].will EXCEPT !.lines = Written(c, DOMAIN doc["quote"].lines)])]
  /\ UNCHANGED <<past, orders>>
  /\ End(c)

\* updateQuote with a new validUntil.
RenewQuote(c) == Edit(c, "renew", "quote", 0, doc["quote"])

CommitRenewQuote(c) ==
  /\ Commits(c, "renew", "quote")
  /\ past' = FALSE
  /\ UNCHANGED <<doc, orders>>
  /\ End(c)

UpdateInvoice(c, s) ==
  LET invoice == doc["invoice"] IN
  /\ Priceable(invoice.lines)
  /\ Edit(c, "header", "invoice", 0,
          IF invoice.lines = NoLines THEN [invoice EXCEPT !.setting = s]
          ELSE Priced("DRAFT", s, CalculateInvoiceTotals(s, invoice.lines)))

\* Of a line only tax and total are written; of an invoice read without lines
\* only the discount.
CommitUpdateInvoice(c) ==
  LET w == call[c].will
      ls == doc["invoice"].lines
  IN  /\ Commits(c, "header", "invoice")
      /\ DOMAIN w.lines \subseteq DOMAIN ls
      /\ doc' = [doc EXCEPT !.invoice =
                   IF w.lines = NoLines THEN [@ EXCEPT !.setting = w.setting]
                   ELSE Priced(@.status, w.setting,
                          [w EXCEPT !.lines =
                             [i \in DOMAIN ls |->
                                IF i \in DOMAIN w.lines
                                THEN [ls[i] EXCEPT !.tax = w.lines[i].tax,
                                                   !.total = w.lines[i].total]
                                ELSE ls[i]]])]
      /\ UNCHANGED <<past, orders>>
      /\ End(c)

-----------------------------------------------------------------------------
(* The life of the quote.  Each call sets the status by id. *)

Turn(c, op, from, to) ==
  /\ doc["quote"].status = from
  /\ edits' = edits
  /\ Enter(c, op, "quote", 0, [doc["quote"] EXCEPT !.status = to])

CommitTurn(c, op) ==
  /\ Commits(c, op, "quote")
  /\ doc' = [doc EXCEPT !.quote.status = call[c].will.status]
  /\ UNCHANGED past
  /\ End(c)

SendQuote(c) ==
  /\ doc["quote"].lines # NoLines
  /\ ~past
  /\ Turn(c, "send", "DRAFT", "PENDING_APPROVAL")

ApproveQuote(c) == ~past /\ Turn(c, "approve", "PENDING_APPROVAL", "APPROVED")
RejectQuote(c) == Turn(c, "reject", "PENDING_APPROVAL", "REJECTED")
ReviseQuote(c) == Turn(c, "revise", "PENDING_APPROVAL", "DRAFT")

\* The sweep lists the quotes that are past, and then updates each of them.
EvaluateExpiration(c) == past /\ Turn(c, "expire", "PENDING_APPROVAL", "EXPIRED")

\* Slip: a quote may be converted again.
ConvertQuoteAgain(c) ==
  /\ doc["quote"].status \in {"APPROVED", "CONVERTED"}
  /\ edits' = edits
  /\ Enter(c, "convert", "quote", 0, [doc["quote"] EXCEPT !.status = "CONVERTED"])

ConvertQuoteToWorkOrder(c) == Turn(c, "convert", "APPROVED", "CONVERTED")

CommitSend(c) == CommitTurn(c, "send") /\ UNCHANGED orders
CommitApprove(c) == CommitTurn(c, "approve") /\ UNCHANGED orders
CommitReject(c) == CommitTurn(c, "reject") /\ UNCHANGED orders
CommitRevise(c) == CommitTurn(c, "revise") /\ UNCHANGED orders
CommitExpire(c) == CommitTurn(c, "expire") /\ UNCHANGED orders
CommitConvert(c) == CommitTurn(c, "convert") /\ orders' = orders + 1

DeleteQuote(c) == Turn(c, "delete", "DRAFT", "DELETED")

\* The lines go with the quote.
CommitDelete(c) ==
  /\ Commits(c, "delete", "quote")
  /\ doc' = [doc EXCEPT !.quote = Priced("DELETED", @.setting, Unpriced)]
  /\ UNCHANGED <<past, orders>>
  /\ End(c)

\* The lines are copied with their own discounts and priced with the discount
\* of the quote.
CreateInvoiceFromQuote(c) ==
  LET quote == doc["quote"] IN
  /\ quote.status \in {"APPROVED", "CONVERTED"}
  /\ doc["invoice"].status = "NONE"
  /\ Priceable(quote.lines)
  /\ edits' = edits
  /\ Enter(c, "invoice", "invoice", 0,
           Priced("DRAFT", quote.setting, CalculateInvoiceTotals(quote.setting, quote.lines)))

CommitInvoice(c) ==
  /\ phase[c] = "read" /\ call[c].op = "invoice"
  /\ doc["invoice"].status = "NONE"
  /\ doc' = [doc EXCEPT !.invoice = call[c].will]
  /\ UNCHANGED <<past, orders>>
  /\ End(c)

-----------------------------------------------------------------------------
ValidityEnds ==
  /\ ~past
  /\ past' = TRUE
  /\ UNCHANGED <<doc, orders, phase, call, overlapped, edits>>

\* A call that does not commit: a row is gone, the database fails, the process
\* dies.
Fail(c) ==
  /\ phase[c] # "idle"
  /\ UNCHANGED <<doc, past, orders>>
  /\ End(c)

Call(c) ==
  \/ AddQuoteLineItem(c) \/ UpdateQuoteLineItem(c) \/ RemoveQuoteLineItem(c)
  \/ ReorderQuoteLineItems(c)
  \/ AddInvoiceLineItem(c) \/ UpdateInvoiceLineItem(c) \/ RemoveInvoiceLineItem(c)
  \/ ReorderInvoiceLineItems(c)
  \/ \E s \in Settings : UpdateQuote(c, s) \/ UpdateInvoice(c, s)
  \/ RenewQuote(c) \/ SendQuote(c) \/ ApproveQuote(c) \/ RejectQuote(c) \/ ReviseQuote(c)
  \/ EvaluateExpiration(c) \/ ConvertQuoteToWorkOrder(c) \/ DeleteQuote(c)
  \/ CreateInvoiceFromQuote(c)

Commit(c) ==
  \/ CommitAddQuoteLineItem(c) \/ CommitUpdateQuoteLineItem(c) \/ CommitRemoveQuoteLineItem(c)
  \/ CommitReorderQuoteLineItems(c)
  \/ CommitAddInvoiceLineItem(c) \/ CommitUpdateInvoiceLineItem(c)
  \/ CommitRemoveInvoiceLineItem(c) \/ CommitReorderInvoiceLineItems(c)
  \/ CommitUpdateQuote(c) \/ CommitUpdateInvoice(c)
  \/ CommitRenewQuote(c) \/ CommitSend(c) \/ CommitApprove(c) \/ CommitReject(c)
  \/ CommitRevise(c) \/ CommitExpire(c) \/ CommitConvert(c) \/ CommitDelete(c)
  \/ CommitInvoice(c)

QuotesNext == ValidityEnds \/ \E c \in Requests : Call(c) \/ Commit(c) \/ Fail(c)

QuotesSpec == QuotesInit /\ [][QuotesNext]_quotesVars

-----------------------------------------------------------------------------
\* The documents, their lines and the calls are what the schema and the
\* services say; in particular the base of a line is never negative, whatever
\* calls edit the lines at the same time (InvalidQuoteCalculationError).
QuotesTypeOK ==
  /\ \A d \in {"quote", "invoice"} :
       /\ doc[d].status \in QuoteStatuses
       /\ doc[d].setting \in Settings
       /\ doc[d].subtotal \in Nat /\ doc[d].discount \in 0..doc[d].subtotal
       /\ doc[d].tax \in Int /\ doc[d].total \in Int
       /\ \E ids \in SUBSET LineIds : doc[d].lines \in [ids -> Lines]
  /\ past \in BOOLEAN
  /\ orders \in Nat
  /\ phase \in [Requests -> {"idle", "read"}]
  /\ DOMAIN call = Requests
  /\ overlapped \in BOOLEAN
  /\ edits \in 0..MaxEdits

\* Without overlapping calls the header of a document says what its lines add
\* up to, to the cent, however they were edited: the shares of the header's
\* discount add up to it, although each is rounded.  The lines of an invoice
\* say what was charged for each.
SerialTotalsAgree ==
  ~overlapped =>
    /\ \A d \in {"quote", "invoice"} :
         LET ls == doc[d].lines IN
         /\ doc[d].subtotal = SumFunction([i \in DOMAIN ls |-> ls[i].base])
         /\ doc[d].tax = SumFunction([i \in DOMAIN ls |-> ls[i].tax])
         /\ doc[d].total = SumFunction([i \in DOMAIN ls |-> ls[i].total])
         /\ doc[d].total = doc[d].subtotal - doc[d].discount + doc[d].tax
    /\ \A i \in DOMAIN doc["invoice"].lines :
         LET l == doc["invoice"].lines[i] IN l.base = l.gross - l.off

Prices(d) == <<d.setting, d.subtotal, d.discount, d.tax, d.total, d.lines>>

\* Without overlapping calls the prices that were sent stand until the quote is
\* a draft again, a quote that has ended stays as it is, and one work order,
\* and one only, comes of a quote that is converted.
SentQuotesStand ==
  [][~overlapped' =>
       /\ doc["quote"].status # "DRAFT" => Prices(doc["quote"])' = Prices(doc["quote"])
       /\ doc["quote"].status \in Final => doc'["quote"].status = doc["quote"].status
       /\ orders' = IF doc'["quote"].status = "CONVERTED" THEN 1 ELSE 0]_quotesVars
=============================================================================
