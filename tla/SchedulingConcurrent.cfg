CONSTANTS
  r1 = r1
  r2 = r2
  l1 = l1
  l2 = l2
  b1 = b1
  b2 = b2
  b3 = b3
  None = None
  Leads = {l1}
  Bookings = {b1, b2, b3}
  Requests = {r1, r2}
  Slots <- MCTwoSlots
  RepTimes = {4}
  MeetingLen = 3
  Durations = {1, 3}
SPECIFICATION Spec
SYMMETRY Symmetry
INVARIANTS ApprovalGuarantee ConfirmationsAreReal AwaitingLeadHasOpenBooking
CHECK_DEADLOCK FALSE
