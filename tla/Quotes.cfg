\* Two callers and three edits, of two lines whose prices do not divide: a quote
\* is edited, sent, revised, invoiced and converted, and any two calls may race.
SPECIFICATION QuotesSpec
CONSTANTS
  Requests = {c1, c2}
  LineIds = {1, 2}
  Kinds <- OddKinds
  Settings <- Discounts
  MaxEdits = 3
SYMMETRY Symmetric
INVARIANTS
  QuotesTypeOK
  SerialTotalsAgree
PROPERTIES
  SentQuotesStand
CHECK_DEADLOCK FALSE
