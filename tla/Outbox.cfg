\* Two operations emit two events, two workers and the sweep race, one worker
\* crashes.  No symmetry: liveness is checked.
SPECIFICATION FairSpec
CONSTANTS
  None = None
  Events = {e1, e2}
  Unresolvable = {e2}
  Callers = {c1, c2}
  Workers = {w1, w2}
  BatchSize = 2
  MaxOutboxAttempts = 1
  MaxChanges = 2
  MaxRecoveries = 1
  MaxCrashes = 1
INVARIANTS
  RowIffCommitted
  OneNotificationPerClaim
PROPERTIES
  Settles
CHECK_DEADLOCK FALSE
