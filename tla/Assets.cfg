\* Two customers with two locations, one asset and one work order, two calls at
\* a time.
SPECIFICATION Spec
CONSTANTS
  None = None
  New = New
  Gone = Gone
  Customers = {c1, c2}
  Locations = {l1, l2}
  Assets = {a1}
  Orders = {w1}
  Callers = {p1, p2}
  InUse = {"IN_STORAGE", "OPERATIONAL", "RETIRED"}
CONSTRAINT Focus
SYMMETRY Symmetric
INVARIANTS
  OwnershipParity
  HistoryTells
  ReferencesStand
CHECK_DEADLOCK FALSE
