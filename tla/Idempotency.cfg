\* Two clients trying one key again and again, alike or not, over three records:
\* the expired one, the one that takes its place, the one a late step would let in.
SPECIFICATION FairSpec
CONSTANTS
  None = None
  Requests = {r1, r2}
  Payloads = {a, b}
  MaxRecords = 3
  MaxFaults = 1
INVARIANTS
  AtMostOnce
  ReplayIsFaithful
PROPERTIES
  KeyIsFreed
CHECK_DEADLOCK FALSE
