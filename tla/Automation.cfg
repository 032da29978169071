SPECIFICATION AutomationSpec
CONSTANTS
  Workers = {w1, w2}
  Rules = {r1}
  Owner = r1
  Actions = 2
  Threshold = 2
  MaxTime = 2
  MaxTicks = 2
  MaxRuns = 2
  MaxChanges = 1
SYMMETRY Symmetry
INVARIANTS AutomationTypeOK OneTickPerDueTime BreakerIsExact OneActionAtATime
CHECK_DEADLOCK FALSE
