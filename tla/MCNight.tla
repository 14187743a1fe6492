------------------------------- MODULE MCNight --------------------------------
(***************************************************************************)
(* Nights of a game of seven seats, the fewest that hold the mafioso, the  *)
(* yakuza and the consort together, or of five.  A run starts from a board *)
(* that StartGame can deal and plays on to the end of the game.            *)
(*                                                                         *)
(* Bounds: the roles in Silent let their act windows time out; by day the  *)
(* living vote one after the other, all for the same player; and a night   *)
(* begins only while at most MaxDead players are dead.                     *)
(***************************************************************************)
EXTENDS MafiaGameProps

CONSTANTS
  Boards,     \* the boards to start from: a role for each seat
  Silent,     \* roles that never submit an action
  MaxDead     \* no night begins beyond this many deaths

Seven  == <<Mafia, Yakuza, Consort, Detective, Vigilante, Doctor, Villager>>
Packed == <<Mafia, Yakuza, Consort, Detective, Vigilante, Doctor, Tracker>>
Five   == <<Mafia, Consort, Detective, Vigilante, Doctor>>

SevenBoard  == {Seven}
PackedBoard == {Packed}

DealtInit ==
  \E board \in Boards :
    /\ created = TRUE
    /\ players = 1 .. Len(board)
    /\ mafiaCount = Cardinality({i \in 1 .. Len(board) : board[i] = Mafia})
    /\ enabled = {board[i] : i \in 1 .. Len(board)} \cap OptionalRole
    /\ rolesDealt = TRUE
    /\ phase = Lobby
    /\ role = [p \in Player |-> IF p <= Len(board) THEN board[p] ELSE NoRole]
    /\ alive = 1 .. Len(board)
    /\ vigilanteShotUsed = FALSE
    /\ currentNightRole = NoRole
    /\ currentNightSubPhase = NoSub
    /\ nightTurnQueue = <<>>
    /\ pendingNight = NoTargets
    /\ recruitYakuza = NoPlayer
    /\ recruitTarget = NoPlayer
    /\ votes = NoTargets
    /\ abstentions = {}
    /\ votesRevealed = FALSE
    /\ dayLynchResolved = FALSE
    /\ notices = {}

(* The lowest-numbered living player without a decision votes for t. *)
VoteInTurn(v, t) ==
  /\ \A w \in alive \ {t} : w < v => votes[w] = t
  /\ \A w \in Player : votes[w] \in {NoPlayer, t}
  /\ DayVote(v, t)

NightsNext ==
  \/ Cardinality(players \ alive) <= MaxDead /\ BeginNight
  \/ \E a, t \in Player : role[a] \notin Silent /\ NightAction(a, t)
  \/ \E a \in Player : NightPass(a)
  \/ \E y, t \in Player : Recruit(y, t)
  \/ AdvancePhase
  \/ OpenVoting
  \/ \E v, t \in Player : VoteInTurn(v, t)
  \/ FinalizeVotes

NightsSpec == DealtInit /\ [][NightsNext]_vars

===============================================================================
