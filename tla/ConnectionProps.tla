----------------------------- MODULE ConnectionProps ---------------------------
(* What the connections of a room promise: the properties of Connection.   *)
EXTENDS Connection

(* The type of every variable, and the inbox's bound (room.go:18).         *)
TypeOK ==
  /\ at \in [Conn -> {"new", "rejoining", "pumping", "leaving", "done"}]
  /\ {reading, writing, live, fresh, present, closed, subs, unread} \subseteq SUBSET Conn
  /\ playerID \in [Conn -> 0 .. MaxSeats]
  /\ Len(inbox) <= InboxCap
  /\ \A p \in DOMAIN slot : slot[p] \in Conn \cup {NoConn}
  /\ connected \in Int
  /\ {cancelled, running} \subseteq BOOLEAN

Over(c) == at[c] = "done"

LeaveQueued(c) ==
  \E i \in DOMAIN inbox :
    /\ inbox[i] = [msg |-> Leave, from |-> c]
    /\ \A j \in i + 1 .. Len(inbox) : inbox[j].from # c

(* A connection whose handler has returned has told the room so, and after *)
(* everything else it said: it never holds a seat, nor will it take one    *)
(* with a join still queued, unless its leave is on the way and last       *)
(* (handler.go:248, room.go:534).                                          *)
LeaveComesLast ==
  \A c \in Conn :
    Over(c) /\ ~cancelled =>
      \/ LeaveQueued(c)
      \/ c \notin subs /\ \A i \in DOMAIN inbox : inbox[i].from # c

(* The players.connected gauge is the number of attached subscribers: also *)
(* through refused joins, which were never counted, evictions, slow        *)
(* disconnects and recoveries (broadcast.go:227, :247).                    *)
GaugeCountsSubscribers == connected = Cardinality(subs)

S == INSTANCE Seating WITH
       seat   <- [p \in DOMAIN slot |-> IF slot[p] \in subs THEN slot[p] ELSE NoConn],
       status <- [c \in Conn |-> IF c \in subs THEN "seated"
                                 ELSE IF c \in closed THEN "over" ELSE "new"]

(* Seats are kept as Seating says: a reconnecting tab takes its seat from  *)
(* the connection that holds it still, and the late leave of that one does *)
(* not empty it again (room.go:495, :534).                                 *)
ImplementsSeating == S!Spec

(* A connection that either side gives up ends, whatever its two pumps and *)
(* its queued messages are at, and the room stops counting on it: when the *)
(* client vanishes, and when the room has evicted it, refused it, found it *)
(* too slow, cut it off in a recovery or closed around it (pumps.go:86,    *)
(* :190, broadcast.go:189, :206, :267).                                    *)
AbandonedConnectionsEnd ==
  \A c \in Conn : (c \notin present \/ c \in closed) ~> (Over(c) /\ c \notin subs)

(* A connection that does not join does not stay (pumps.go:95-120).        *)
NobodyLoiters ==
  \A c \in Newcomers :
    (c \in fresh /\ playerID[c] = 0) ~> (playerID[c] # 0 \/ Over(c))

(* handler.go:65-67: the end of the manager's context "will shut down all  *)
(* rooms and break any active WebSocket pumps".                            *)
ClosedRoomsBreakPumps ==
  \A c \in Conn : (~running /\ c \in writing) ~> (c \notin writing)

(* broadcast.go:226: "attaching is always a fresh add", so the gauge may   *)
(* rise unconditionally.                                                   *)
AttachIsAFreshAdd ==
  [][connected' > connected => subs' \ subs # {}]_vars
===============================================================================
