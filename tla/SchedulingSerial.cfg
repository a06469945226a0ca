CONSTANTS
  r1 = r1
  r2 = r2
  l1 = l1
  l2 = l2
  b1 = b1
  b2 = b2
  b3 = b3
  None = None
  Leads = {l1, l2}
  Bookings = {b1, b2}
  Requests = {r1}
  Slots <- MCSlots
  RepTimes = {4}
  MeetingLen = 3
  Durations = {1, 3}
SPECIFICATION Spec
SYMMETRY Symmetry
INVARIANTS OpenBookingIsDecidable OneEventPerBooking NoDoubleBooking
PROPERTIES DecisionsAreFinal LifecycleSpec
CHECK_DEADLOCK FALSE
