SPECIFICATION FairSpec
CONSTANTS
  Room = {r1, r2}
  Code = {k1, k2}
  MaxRooms = 2
  InboxCap = 1
  MaxRequests = 1
  MaxMessages = 2
CHECK_DEADLOCK FALSE
INVARIANTS
  TypeOK
  LiveRoomsAreRegistered
  CleanShutdown
PROPERTIES
  UnwantedRoomsGo
