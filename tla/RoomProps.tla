------------------------------- MODULE RoomProps -------------------------------
(* What a room promises: the properties checked of Room.                   *)
EXTENDS Room

Player == 1 .. MaxIds

(* The type of every variable, and the one bound the buffers rely on: a    *)
(* queue never holds more than its channel does (subscriber.go).           *)
TypeOK ==
  /\ game.roster \subseteq Player
  /\ host \in Player \cup {NoOne}
  /\ DOMAIN slot \subseteq Player
  /\ \A p \in DOMAIN slot : slot[p] \in Conn \cup {NoConn}
  /\ nextSeq \in 0 .. MaxIds
  /\ timer \in Nat
  /\ subs \subseteq Conn /\ closed \subseteq Conn
  /\ playerID \in [Conn -> Player \cup {NoOne}]
  /\ \A c \in Conn : Len(out[c]) <= QueueCap
  /\ recoveries \in Nat
  /\ {emptySince, cancelled, running} \subseteq BOOLEAN
  /\ stage \in [Conn -> {"unused", "up", "left", "gone"}]
  /\ \A c \in Conn : request[c].kind \in {"none", "join", "rejoin"}
  /\ me \in [Page -> Player \cup {NoOne}]
  /\ socket \in [Page -> Conn \cup {NoConn}]
  /\ cursor \in [Page -> Nat]

(* A player has one live connection at most, and the room knows it: the    *)
(* attached subscribers are exactly those the slots point at, under the id *)
(* they act as.  Leaves, evictions, slow disconnects and recoveries touch  *)
(* the two maps in different places (room.go:495, broadcast.go:213).  The  *)
(* empty-room clock runs exactly while nobody is attached, or an occupied  *)
(* room is reaped and an abandoned one never is (broadcast.go:227).        *)
SlotsMatchSubscribers ==
  /\ emptySince <=> subs = {}
  /\ running =>
       /\ subs \cap closed = {}
       /\ \A c \in subs : playerID[c] \in DOMAIN slot /\ slot[playerID[c]] = c
       /\ \A p \in DOMAIN slot : slot[p] # NoConn => slot[p] \in subs

(* Between two messages the journal rebuilds the live engine and log, also *)
(* after resets and after panics that were rolled back (recovery.go:157).  *)
JournalRebuildsRoom ==
  running => Replay(journal) = [game |-> game, log |-> log]

(* A night always has a timer, armed for the sub-phase the engine is in,   *)
(* and nothing else has one: an action that ends an act window, a phase    *)
(* change, a reset and a recovery all move or stop it.  Otherwise the      *)
(* night stalls or a sub-phase is skipped (timers.go:29).                  *)
NightIsTimed ==
  running => timer = (IF game.phase = "night" THEN game.step ELSE NoTimer)

(* What a tab will have applied once its connection has been read empty.   *)
ReadEmpty(model, queue) ==
  LET after[n \in 0 .. Len(queue)] ==
        IF n = 0 THEN model ELSE Applied(after[n - 1], queue[n])
  IN  after[Len(queue)]

Caught(g) == ReadEmpty(Model(g), out[socket[g]])

(* It agrees with the log: the view is the log as the player may see it,   *)
(* and the cursor has passed every event of it the player can see.         *)
Agrees(model, p) ==
  /\ model.cursor <= Len(log)
  /\ model.view = Project(p, SubSeq(log, 1, model.cursor))

Connected(g) == socket[g] \in subs

InSync(g) ==
  LET p == playerID[socket[g]] IN
  /\ Agrees(Caught(g), p)
  /\ Project(p, TailAfter(Caught(g).cursor)) = <<>>

(* No event is lost, repeated or reordered on the way to a tab, and the    *)
(* cursor it resumes with is right, whatever the buffers, evictions, slow  *)
(* disconnects and resets in between: a tab that attaches with nothing, or *)
(* with a model that agrees with the log, is in sync and stays in sync as  *)
(* long as it is attached (broadcast.go:137, room.go:509).                 *)
TabsStayInSync ==
  [][\A g \in Page :
       Connected(g)' =>
         LET before == IF Connected(g) THEN InSync(g)
                       ELSE cursor[g] = 0 \/ Agrees(Model(g), me[g])
         IN  (socket'[g] = socket[g] /\ before) => InSync(g)']_vars

(* The room never sends on a channel it has closed: that would panic its   *)
(* goroutine, and late messages of a torn-down connection try it           *)
(* (room.go:599, subscriber.go:36).                                        *)
NoSendAfterClose ==
  [][\A c \in closed : Len(out'[c]) <= Len(out[c])]_vars

(* room.go:502-505: a cursor from before a reset falls back to the full    *)
(* log.  So an attached tab always ends up with the log.                   *)
AttachedTabsHaveTheLog ==
  \A g \in Page : Connected(g) => InSync(g)

(* room.go:440-442: HostChanged lands in every projection, so the log says *)
(* who the host is.                                                        *)
HostIsAnnounced ==
  running /\ host # NoOne => \E i \in DOMAIN log : log[i] = Event("host_changed", host)
===============================================================================
