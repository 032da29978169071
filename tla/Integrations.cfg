SPECIFICATION IntegrationSpec
CONSTANTS
  Requests = {r1, r2, r3}
  Connections = {c1, c2}
  Events = {e1}
  Servers = {s1, s2}
  MaxAttempts = 2
  MaxOperations = 1
  Nothing = Nothing
CONSTRAINT Focus
SYMMETRY Symmetry
INVARIANTS IntegrationTypeOK ConnectedHasCredential RepeatsOnlyUnknown OneDispatch ProcessedWasDispatched
CHECK_DEADLOCK FALSE
