SPECIFICATION FairSpec
CONSTANTS
  Conn = {c1, c2}
  NoConn = NoConn
  InboxCap = 1
  Newcomers = {c1}
  Returning = {c2}
  MaxSeats = 1
  JoinsAgain = FALSE
CHECK_DEADLOCK FALSE
PROPERTIES
  ClosedRoomsBreakPumps
