SPECIFICATION RoomSpec
CONSTANTS
  Page = {1, 2}
  Conn = {1, 2, 3}
  NoConn = 0
  MaxPlayers = 2
  QueueCap = 3
  MaxRecoveries = 1
  MaxIds = 2
  MaxCommands = 1
CHECK_DEADLOCK FALSE
INVARIANTS
  TypeOK
  SlotsMatchSubscribers
  JournalRebuildsRoom
  NightIsTimed
PROPERTIES
  TabsStayInSync
  NoSendAfterClose
