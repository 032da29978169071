-------------------------------- MODULE Pricing --------------------------------
(***************************************************************************)
(* The calculation engines of quotes and invoices, lib/services/quote/     *)
(* quoteCalculationEngine.ts and lib/services/invoice/                     *)
(* invoiceCalculationEngine.ts: the same steps in two files.               *)
(*                                                                         *)
(* Amounts are in cents, rates and percentages in per cent.  A line is a   *)
(* record with gross (quantity times unit price), off (its own discount),  *)
(* rate (of its tax) and order.  Lines are a function from ids, and ids    *)
(* compare as the code compares the strings.                               *)
(***************************************************************************)
EXTENDS Integers, Functions

\* round2 of n/d, ROUND_HALF_UP: a half goes away from zero.
HalfUp(n, d) ==
  IF n < 0 THEN -((2 * (-n) + d) \div (2 * d)) ELSE (2 * n + d) \div (2 * d)

\* Step 1: lineBaseSubtotal, which the engine refuses to take when negative.
Base(l) == l.gross - l.off
Priceable(lines) == \A i \in DOMAIN lines : Base(lines[i]) >= 0

\* Step 3: the discount of the header, capped at the subtotal.
HeaderDiscount(discount, subtotal) ==
  LET raw == IF discount.type = "PERCENTAGE"
             THEN HalfUp(subtotal * discount.value, 100) ELSE discount.value
  IN  IF raw > subtotal THEN subtotal ELSE raw

\* findRemainderCandidateIndex: the largest base, then the lowest order, then
\* the lowest id.
Precedes(lines, i, j) ==
  \/ Base(lines[i]) > Base(lines[j])
  \/ /\ Base(lines[i]) = Base(lines[j])
     /\ \/ lines[i].order < lines[j].order
        \/ lines[i].order = lines[j].order /\ i < j

RemainderCandidate(lines) ==
  CHOOSE i \in DOMAIN lines : \A j \in DOMAIN lines \ {i} : Precedes(lines, i, j)

\* Slip: the cents that rounding leaves over are given to no line.
AllocationFloored(lines, subtotal, discount) ==
  [i \in DOMAIN lines |->
     IF subtotal = 0 THEN 0 ELSE (discount * Base(lines[i])) \div subtotal]

\* Step 4: each line's share of the header discount, rounded down, and what
\* that leaves over to one line.
Allocation(lines, subtotal, discount) ==
  LET floored == [i \in DOMAIN lines |->
                    IF subtotal = 0 THEN 0
                    ELSE (discount * Base(lines[i])) \div subtotal]
      remainder == discount - SumFunction(floored)
  IN  [i \in DOMAIN lines |->
         floored[i] + IF i = RemainderCandidate(lines) THEN remainder ELSE 0]

\* Steps 1 to 6: every line priced, and what the header says of them all.
Price(discount, lines) ==
  LET base     == [i \in DOMAIN lines |-> Base(lines[i])]
      subtotal == SumFunction(base)
      amount   == HeaderDiscount(discount, subtotal)
      share    == Allocation(lines, subtotal, amount)
      net      == [i \in DOMAIN lines |-> base[i] - share[i]]
      tax      == [i \in DOMAIN lines |-> HalfUp(net[i] * lines[i].rate, 100)]
      total    == [i \in DOMAIN lines |-> net[i] + tax[i]]
  IN  [subtotal |-> subtotal, discount |-> amount,
       tax |-> SumFunction(tax), total |-> SumFunction(total),
       share |-> share,
       lines |-> [i \in DOMAIN lines |->
                    [lines[i] EXCEPT !.base = base[i], !.tax = tax[i],
                                     !.total = total[i]]]]

CalculateQuoteTotals(discount, lines) == Price(discount, lines)
CalculateInvoiceTotals(discount, lines) == Price(discount, lines)
=============================================================================
