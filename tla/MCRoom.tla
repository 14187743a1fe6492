--------------------------------- MODULE MCRoom --------------------------------
(* Instances of Room for TLC.  A game takes many commands to get anywhere, *)
(* so a run may begin in the middle of one: the room has handled a list of *)
(* commands and every player of it is attached and has read its buffer.    *)
EXTENDS RoomProps

(* The journal of a list of commands; the first player is the host.        *)
Played(cmds) ==
  FoldLeft(LAMBDA entries, cmd :
             Append(entries,
               JournalEntry(cmd,
                 Emits(Replay(entries).game, cmd)
                   \o (IF cmd = Command("add_player", 1)
                       THEN <<Event("host_changed", 1)>> ELSE <<>>),
                 cmd.kind = "reset_game")),
           <<>>, cmds)

Lobby == <<Command("create_game", 0), Command("add_player", 1)>>
Dealt == Lobby \o <<Command("add_player", 2), Command("start_game", 1)>>
Night == Append(Dealt, Command("begin_night", 1))
Ended == Append(Night, Command("dawn_ends_game", 0))

(* Tab p belongs to player p and listens to connection p.  The players in  *)
(* "away" lost theirs when the log had leftAt events and have not been     *)
(* back; the others have the whole log.  The room may take "commands" more *)
(* commands, panics or a close.                                            *)
MidGame(cmds, away, leftAt, commands) ==
  LET entries  == Played(cmds)
      room     == Replay(entries)
      joined   == room.game.roster
      attached == joined \ away
      seen     == [p \in Page |-> CASE p \in attached -> Len(room.log)
                                   [] p \in away     -> leftAt
                                   [] OTHER          -> 0]
  IN  /\ game = room.game
      /\ log = room.log
      /\ journal = entries
      /\ timer = RearmTimer(room.log)
      /\ host = 1
      /\ slot = [p \in joined |-> IF p \in attached THEN p ELSE NoConn]
      /\ nextSeq = Cardinality(joined)
      /\ subs = attached
      /\ playerID = [c \in Conn |-> IF c \in joined THEN c ELSE NoOne]
      /\ out = [c \in Conn |-> <<>>]
      /\ closed = away
      /\ emptySince = (attached = {})
      /\ recoveries = 0
      /\ cancelled = FALSE
      /\ running = TRUE
      /\ stage = [c \in Conn |-> CASE c \in attached -> "up"
                                  [] c \in away     -> "gone"
                                  [] OTHER          -> "unused"]
      /\ request = [c \in Conn |-> NoRequest]
      /\ me = [p \in Page |-> IF p \in joined THEN p ELSE NoOne]
      /\ socket = [p \in Page |-> IF p \in attached THEN p ELSE NoConn]
      /\ view = [p \in Page |-> Project(p, SubSeq(log, 1, seen[p]))]
      /\ cursor = seen
      /\ budget = commands

After(cmds, commands) == MidGame(cmds, {}, 0, commands)

RoomSpec ==
  /\ \/ Init
     \/ After(Lobby, 2) \/ After(Dealt, 2) \/ After(Night, 1) \/ After(Ended, 2)
  /\ [][Next]_vars

(* The second player has been away since the lobby; the game has ended. *)
AwaySpec ==
  /\ MidGame(Ended, {2}, 4, 3)
  /\ [][Next]_vars
===============================================================================
