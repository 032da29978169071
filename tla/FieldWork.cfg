SPECIFICATION Spec
CONSTANTS
  Callers = {c1, c2}
  Technicians = {t1, t2}
  Orders = {w1}
  Appointments = {a1}
  MaxEntries = 3
  MaxCalls = 4
  None = None
  c1 = c1
  c2 = c2
  t1 = t1
  t2 = t2
  w1 = w1
  a1 = a1
INVARIANTS
  EntriesAreBacked
  SingleEntryUnlessResumed
  WholeUnlessTorn
PROPERTY
  SerialEndsAreFinal
CHECK_DEADLOCK FALSE
