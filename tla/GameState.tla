------------------------------- MODULE GameState -------------------------------
(***************************************************************************)
(* The state of one game (type GameState of internal/game/state.go) and    *)
(* the read-only helpers its rules share.                                  *)
(*                                                                         *)
(* Players are a set: the join order the code keeps decides nothing but    *)
(* the order of events inside a batch, because every role whose "first     *)
(* holder" the code looks up is held by one player.  Display names, the    *)
(* shuffle seed and the day number are left out: no rule branches on them  *)
(* once a player is enrolled.                                              *)
(***************************************************************************)
EXTENDS Integers, FiniteSets, Sequences, MafiaRoles

CONSTANTS
  Player,       \* every PlayerID the room may enrol
  NoPlayer,     \* the empty PlayerID
  MinPlayers,   \* GameState.minPlayers, fixed by CreateGame
  MaxPlayers    \* GameState.maxPlayers, fixed by CreateGame

(* Detective and Doctor are in every roster (rules.go, reservedTownRoles). *)
ReservedTownRoles == 2

ASSUME PlayerAssumption == IsFiniteSet(Player) /\ NoPlayer \notin Player

(* What applyCreateGame demands of the bounds before it stores them. *)
ASSUME BoundsAssumption ==
  /\ MinPlayers \in Nat
  /\ MaxPlayers \in Nat
  /\ MinPlayers >= ReservedTownRoles + 2
  /\ MaxPlayers >= MinPlayers

Target == Player \cup {NoPlayer}

Lobby         == "lobby"
Night         == "night"
DayDiscussion == "day_discussion"
DayVoting     == "day_vote"
Ended         == "ended"
Phase == {Lobby, Night, DayDiscussion, DayVoting, Ended}

NoSub == ""           \* not in any night sub-phase
SubPhase == {NoSub, "opening", "narrate", "act", "ponder", "sleep", "settle"}

VARIABLES
  created,        \* has CreateGame run (GameState.id # "")
  players,        \* the enrolled players
  mafiaCount,     \* how many mafiosi StartGame will deal
  enabled,        \* the optional roles toggled on
  rolesDealt,     \* has StartGame dealt: closes the lobby
  phase,
  role,           \* Player.role
  alive,          \* the players whose alive flag is set
  vigilanteShotUsed,     \* has the one bullet been spent
  currentNightRole,      \* whose turn it is, or NoRole
  currentNightSubPhase,  \* what part of that turn
  nightTurnQueue,        \* the roles still to wake tonight
  pendingNight,          \* actor -> tonight's target
  recruitYakuza,         \* the Yakuza that recruited tonight, or NoPlayer;
                         \* recruitPending is "this is a player"
  recruitTarget,         \* whom it recruited
  votes,                 \* voter -> target
  abstentions,           \* voters who explicitly abstain
  votesRevealed,         \* is the tally public and locked
  dayLynchResolved,      \* has today's vote been finalized
  notices                \* private notices sent since dusk (a history: the
                         \* code appends them to the event log)

lobbyVars == <<created, players, mafiaCount, enabled, rolesDealt>>
boardVars == <<role, alive, vigilanteShotUsed>>
turnVars  == <<currentNightRole, currentNightSubPhase, nightTurnQueue>>
deedVars  == <<pendingNight, recruitYakuza, recruitTarget>>
dayVars   == <<votes, abstentions, votesRevealed, dayLynchResolved>>

vars == <<lobbyVars, phase, boardVars, turnVars, deedVars, dayVars, notices>>

NoTargets == [p \in Player |-> NoPlayer]   \* an empty (or nil) target map

(* A private event, as far as the properties tell such events apart: what  *)
(* kind, to whom, during which role's turn (NoRole: at dawn), about whom,  *)
(* and for a tracker whom the tracked player visited.                      *)
NoticeKind == {"recruited", "blocked", "is_mafia", "not_mafia", "visit",
               "role_assigned", "promoted"}
Notice == [kind : NoticeKind, to : Player, at : Role \cup {NoRole},
           about : Target, visit : Target]
NoticeTo(k, p, r) ==
  [kind |-> k, to |-> p, at |-> r, about |-> NoPlayer, visit |-> NoPlayer]

-------------------------------------------------------------------------------
(* Guards (guards.go). *)

ActiveGame == created /\ phase # Ended

InPhase(ph) == ActiveGame /\ phase = ph

LobbyOpen == InPhase(Lobby) /\ ~rolesDealt

LivingPlayer(p) == p \in players /\ p \in alive

-------------------------------------------------------------------------------
(* Counters (state.go).  Those the win check needs take the board as       *)
(* arguments, because it runs on the board a death has just produced.      *)

FactionLiving(f, al, ro) == {p \in al : Faction(ro[p]) = f}

AlignedLiving(al, ro) == {p \in al : MafiaAligned(ro[p])}

LivingHolders(r) == {p \in alive : role[p] = r}

(* votesCastCount: the living who hold a vote or an abstention. *)
VotesCastCount ==
  Cardinality({p \in alive : votes[p] # NoPlayer})
    + Cardinality({p \in alive : p \in abstentions})

-------------------------------------------------------------------------------
(* Blocks, recruits and turns (state.go). *)

RecruitPending == recruitYakuza # NoPlayer

(* isNightBlocked: a consort has recorded p as tonight's target. *)
NightBlocked(p, pend) == \E a \in players : pend[a] = p /\ role[a] = Consort

IsRecruit(p) == RecruitPending /\ recruitTarget = p

NightNeutralized(p, pend) == NightBlocked(p, pend) \/ IsRecruit(p)

(* roleTurnIsPhantom: nobody can take an effective action in r's turn, so  *)
(* it skips the act window.                                                *)
RoleTurnIsPhantom(r) ==
  IF r = Mafia
    THEN FactionLiving(FactionMafia, alive, role) = {}
    ELSE \/ LivingHolders(r) = {}
         \/ r = Vigilante /\ vigilanteShotUsed
         \/ \E p \in LivingHolders(r) : NightNeutralized(p, pendingNight)

(* isActorsTurn: the mafia turn belongs to the whole faction. *)
ActorsTurn(a) ==
  \/ role[a] = currentNightRole
  \/ currentNightRole = Mafia /\ Faction(role[a]) = FactionMafia

(* The role's Validate hook. *)
MayTarget(a, t) ==
  /\ RejectsSelfTarget(role[a]) => t # a
  /\ RejectsMafioso(role[a]) => role[t] # Mafia
  /\ role[a] = Vigilante => ~vigilanteShotUsed

(* Mutant: a recruit is not a visit. *)
FactionKillOnly ==
  {pendingNight[a] : a \in {p \in players :
     pendingNight[p] # NoPlayer /\ Faction(role[p]) = FactionMafia}}

(* factionNightTarget: whom the mafia as a faction went to tonight. *)
FactionNightTarget ==
  IF RecruitPending
    THEN {recruitTarget}
    ELSE {pendingNight[a] : a \in {p \in players :
            pendingNight[p] # NoPlayer /\ Faction(role[p]) = FactionMafia}}

(* trackedVisit: a mafioso is seen visiting the faction's target, anyone   *)
(* else their own; a self-target and no target both read "stayed home".    *)
Visits(t) ==
  LET seen == IF Faction(role[t]) = FactionMafia
                THEN FactionNightTarget
                ELSE {pendingNight[t]}
  IN  seen \ {t}

TrackedVisit(t) == IF Visits(t) = {} THEN NoPlayer ELSE CHOOSE v \in Visits(t) : TRUE

===============================================================================
