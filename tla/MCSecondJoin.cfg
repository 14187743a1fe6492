SPECIFICATION Spec
CONSTANTS
  Conn = {c1, c2}
  NoConn = NoConn
  InboxCap = 2
  Newcomers = {c1}
  Returning = {c2}
  MaxSeats = 2
  JoinsAgain = TRUE
CHECK_DEADLOCK FALSE
PROPERTIES
  AttachIsAFreshAdd
