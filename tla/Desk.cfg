CONSTANTS
  a = a
  b = b
  desk = desk
  other = other
  None = None
  Addresses = {a, b}
  Mailbox <- OneMailbox
  Ids = {1, 2}
  Rows = {1, 2, 3, 4}
  Steps = {1, 2}
  Threads = {desk}
  MaxFreed = 1
SYMMETRY Symmetry
SPECIFICATION Spec
INVARIANTS SequenceIsWhole StepMailedOnce
 
CHECK_DEADLOCK FALSE
