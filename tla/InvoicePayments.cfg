\* Two callers, totals of nothing and of two cents, three payments and two
\* attempts at a number: one payment is part of another, two race for a number,
\* and a payment is voided and made again.
SPECIFICATION Spec
CONSTANTS
  Disturbed = Disturbed
  Callers = {c1, c2}
  Totals = {0, 2}
  MaxTries = 2
  MaxPayments = 3
INVARIANTS
  SerialBalances
PROPERTIES
  ImplementsAccount
CHECK_DEADLOCK FALSE
