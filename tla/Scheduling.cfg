\* Two callers, four calls: two bookings collide in their slot or their number
\* while the order changes hands, and any other calls follow or race them.
SPECIFICATION Spec
CONSTANTS
  None = None
  Callers = {c1, c2}
  Technicians = {t1, t2}
  Orders = {w1}
  OrderStatuses = {"OPEN", "ON_HOLD", "COMPLETED"}
  Slots <- HalfHours
  MaxTries = 2
  MaxAppointments = 2
  MaxCalls = 4
SYMMETRY Symmetric
INVARIANTS
  BookingsExclusive
  SerialCalendarIsExact
PROPERTIES
  SerialEndsAreFinal
CHECK_DEADLOCK FALSE
