------------------------------ MODULE RoomEngine -------------------------------
(***************************************************************************)
(* The game engine as the room sees it: commands in, an error or a batch   *)
(* of events out.  MafiaGame has the rules; here a command keeps only what *)
(* the room acts on, the phase it is legal in and the events it commits.   *)
(*                                                                         *)
(* The engine is deterministic in its commands, and the room's recovery    *)
(* depends on that.  What this abstraction cannot compute (whether a night *)
(* goes on, ends, or ends the game) is therefore part of the command: a    *)
(* replay of the same commands takes the same branches.                    *)
(***************************************************************************)
EXTENDS Integers, FiniteSets, Sequences, SequencesExt

CONSTANTS
  MaxPlayers    \* the roster's limit

ASSUME MaxPlayersAssumption == MaxPlayers \in Nat \ {0}

(* Players are numbered in the order their ids are minted ("p1", "p2");    *)
(* 0 is the empty id.                                                      *)
NoOne == 0

Game0 == [roster |-> {}, phase |-> "none", step |-> 0]

-------------------------------------------------------------------------------
(* Events.  "of" is the player, or the number of a night sub-phase.        *)

Event(kind, of) == [kind |-> kind, of |-> of]

PhaseKinds == {"to_night", "to_day", "to_ended"}

PhaseChanged(e) == e.kind \in PhaseKinds
NightSubPhaseStarted(e) == e.kind = "sub_phase"

(* A night's private results are seen by one player, all else by everyone. *)
Visible(viewer, e) == e.kind = "private_result" => e.of = viewer

Project(viewer, events) ==
  LET seen[n \in 0 .. Len(events)] ==
        IF n = 0 THEN <<>>
        ELSE IF Visible(viewer, events[n]) THEN Append(seen[n - 1], events[n])
        ELSE seen[n - 1]
  IN  seen[Len(events)]

-------------------------------------------------------------------------------
(* Commands. *)

Command(kind, by) == [kind |-> kind, by |-> by]

HostOnly == {"start_game", "begin_night", "finalize_votes"}
PlayerCommands == HostOnly \cup {"night_action"}
(* AdvancePhase: the next sub-phase, dawn, or a dawn that ends the game.   *)
AdvancePhase == {"next_turn", "dawn", "dawn_ends_game"}

Accepts(g, cmd) ==
  CASE cmd.kind = "create_game"    -> g.phase = "none"
    [] cmd.kind = "add_player"     -> /\ g.phase = "lobby"
                                      /\ cmd.by \notin g.roster
                                      /\ Cardinality(g.roster) < MaxPlayers
    [] cmd.kind = "start_game"     -> g.phase = "lobby"
    [] cmd.kind = "begin_night"    -> g.phase \in {"dealt", "day"}
    [] cmd.kind = "night_action"   -> g.phase = "night" /\ cmd.by \in g.roster
    [] cmd.kind \in AdvancePhase   -> g.phase = "night"
    [] cmd.kind = "finalize_votes" -> g.phase = "day"
    [] cmd.kind = "reset_game"     -> g.phase = "ended"

NextPhase(kind) ==
  CASE kind \in {"create_game", "add_player", "reset_game"}     -> "lobby"
    [] kind = "start_game"                                      -> "dealt"
    [] kind \in {"begin_night", "night_action", "next_turn"}    -> "night"
    [] kind = "dawn"                                            -> "day"
    [] kind \in {"dawn_ends_game", "finalize_votes"}            -> "ended"

EntersSubPhase(kind) == kind \in {"begin_night", "night_action", "next_turn"}

(* Apply: the game an accepted command leads to ... *)
Apply(g, cmd) ==
  [roster |-> IF cmd.kind = "add_player" THEN g.roster \cup {cmd.by} ELSE g.roster,
   phase  |-> NextPhase(cmd.kind),
   step   |-> IF EntersSubPhase(cmd.kind) THEN g.step + 1 ELSE g.step]

(* ... and the events it emits. *)
Emits(g, cmd) ==
  LET subPhase == Event("sub_phase", g.step + 1) IN
  CASE cmd.kind = "create_game"    -> <<Event("game_created", NoOne)>>
    [] cmd.kind = "add_player"     -> <<Event("player_joined", cmd.by)>>
    [] cmd.kind = "start_game"     -> <<Event("game_started", NoOne)>>
    [] cmd.kind = "begin_night"    -> <<Event("to_night", NoOne), subPhase>>
    [] cmd.kind = "night_action"   -> <<Event("private_result", cmd.by), subPhase>>
    [] cmd.kind = "next_turn"      -> <<subPhase>>
    [] cmd.kind = "dawn"           -> <<Event("to_day", NoOne)>>
    [] cmd.kind \in {"dawn_ends_game", "finalize_votes"} -> <<Event("to_ended", NoOne)>>
    [] cmd.kind = "reset_game"     -> <<Event("game_reset", NoOne)>>
===============================================================================
