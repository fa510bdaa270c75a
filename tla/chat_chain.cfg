SPECIFICATION Spec
CONSTANTS
  Capacity = 2
  Threshold = 1
  Securities = {TRUE, FALSE}
  MaxMessages = 5
  MaxChats = 3
  MaxSessions = 2
  None = None
INVARIANTS TypeOK ChatAccepted LagBounded
CHECK_DEADLOCK FALSE
