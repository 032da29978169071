\* Two concurrent calls, five movements: enough to consume and return twice;
\* the part and a location are switched off and on meanwhile.
SPECIFICATION Spec
CONSTANTS
  r1 = r1
  r2 = r2
  l1 = l1
  l2 = l2
  None = None
  Parts = {p1}
  Locations = {l1, l2}
  Requests = {r1, r2}
  Uses = {u1}
  MaxQty = 1
  MaxStock = 2
  MaxMovements = 5
  Switched = {p1, l1}
  Rank <- LocationRank
SYMMETRY Symmetric
INVARIANTS
  LedgerExplainsBalance
  ReturnsPerLocationWithinUse
  WaitsAbove
PROPERTIES
  ImplementsBook
CHECK_DEADLOCK FALSE
