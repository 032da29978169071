\* Two processes dispatch, retry and sweep two deliveries of two attempts, one
\* process crashing once.
SPECIFICATION Spec
CONSTANTS
  None = None
  Deliveries = {d1, d2}
  Processes = {p1, p2}
  MaxAttempts = 2
  MaxCrashes = 1
CONSTRAINT Apart
SYMMETRY Symmetry
INVARIANTS
  SendsAreCounted
  QuietParentAgrees
PROPERTIES
  FinalIsImmutable
CHECK_DEADLOCK FALSE
