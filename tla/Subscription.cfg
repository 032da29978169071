SPECIFICATION SubscriptionSpec
CONSTANTS
  Procs = {p1, p2}
  Beginnings <- TheBeginnings
  MaxEvents = 2
  MaxDeliveries = 3
  MaxCalls = 1
  MaxCrashes = 1
  MaxTime = 2
CONSTRAINT Undisturbed
SYMMETRY Symmetry
INVARIANTS SubscriptionTypeOK AgreesWhenQuiet
PROPERTY ChangesInEventOrder
CHECK_DEADLOCK FALSE
