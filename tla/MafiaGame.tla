------------------------------- MODULE MafiaGame -------------------------------
(***************************************************************************)
(* The game engine: Game.Apply of internal/game, one action per command.   *)
(*                                                                         *)
(* A command the code rejects returns an error and changes nothing, so a   *)
(* rejection is a stuttering step and each action's guard is the negation  *)
(* of the handler's early returns.  The engine is timeless: AdvancePhase   *)
(* is issued by the room's timer at the end of each night sub-phase, every *)
(* other command by a player, in any order at any time.                    *)
(***************************************************************************)
EXTENDS GameState

-------------------------------------------------------------------------------
(* The lobby (rules.go). *)

(* Mutant: the default is tied to the upper bound and reserves one seat. *)
DefaultFromMax == MaxPlayers - 1

(* defaultMafiaCount: a third of the minimum, at least one, and room for   *)
(* a villager.                                                             *)
DefaultMafiaCount ==
  LET third == IF MinPlayers \div 3 >= 1 THEN MinPlayers \div 3 ELSE 1
      most  == MinPlayers - (ReservedTownRoles + 1)
  IN  IF third > most THEN most ELSE third

MafiaCounts == 1 .. (MaxPlayers - ReservedTownRoles)

Init ==
  /\ created = FALSE
  /\ players = {}
  /\ mafiaCount = 0
  /\ enabled = {}
  /\ rolesDealt = FALSE
  /\ phase = Lobby
  /\ role = [p \in Player |-> NoRole]
  /\ alive = {}
  /\ vigilanteShotUsed = FALSE
  /\ currentNightRole = NoRole
  /\ currentNightSubPhase = NoSub
  /\ nightTurnQueue = <<>>
  /\ pendingNight = NoTargets
  /\ recruitYakuza = NoPlayer
  /\ recruitTarget = NoPlayer
  /\ votes = NoTargets
  /\ abstentions = {}
  /\ votesRevealed = FALSE
  /\ dayLynchResolved = FALSE
  /\ notices = {}

(* applyCreateGame; "requested" 0 asks for the default count.  MaxPlayers  *)
(* and MinPlayers are constants: their checks are BoundsAssumption.        *)
CreateGame(requested) ==
  LET count == IF requested = 0 THEN DefaultMafiaCount ELSE requested IN
  /\ ~created
  /\ count \in MafiaCounts
  /\ created' = TRUE
  /\ mafiaCount' = count
  /\ UNCHANGED <<players, enabled, rolesDealt, phase, boardVars, turnVars,
                 deedVars, dayVars, notices>>

(* applyAddPlayer.  Names are left out, and with them ErrDuplicateName.    *)
AddPlayer(p) ==
  /\ LobbyOpen
  /\ p \notin players
  /\ Cardinality(players) < MaxPlayers
  /\ players' = players \cup {p}
  /\ alive' = alive \cup {p}
  /\ UNCHANGED <<created, mafiaCount, enabled, rolesDealt, phase, role,
                 vigilanteShotUsed, turnVars, deedVars, dayVars, notices>>

(* applySetMafiaCount *)
SetMafiaCount(count) ==
  /\ LobbyOpen
  /\ count \in MafiaCounts
  /\ count # mafiaCount
  /\ mafiaCount' = count
  /\ UNCHANGED <<created, players, enabled, rolesDealt, phase, boardVars,
                 turnVars, deedVars, dayVars, notices>>

(* applySetConsort, applySetVigilante, applySetYakuza, applySetTracker:    *)
(* one shared body, applyLobbyToggle, which refuses a flag already so set. *)
SetOptional(r, on) ==
  /\ LobbyOpen
  /\ (r \in enabled) # on
  /\ enabled' = IF on THEN enabled \cup {r} ELSE enabled \ {r}
  /\ UNCHANGED <<created, players, mafiaCount, rolesDealt, phase, boardVars,
                 turnVars, deedVars, dayVars, notices>>

(* composeRoster: how many seats each role gets among n players. *)
Seats(r, n) ==
  CASE r = Mafia                  -> mafiaCount
    [] r \in {Detective, Doctor}  -> 1
    [] r \in OptionalRole         -> IF r \in enabled THEN 1 ELSE 0
    [] r = Villager               -> n - mafiaCount - ReservedTownRoles
                                       - Cardinality(enabled)

(* Every assignment the seeded shuffle can produce. *)
Deals ==
  LET n     == Cardinality(players)
      dealt == {Mafia, Detective, Doctor, Villager} \cup enabled
  IN  {d \in [players -> dealt] :
         \A r \in dealt :
           Cardinality({p \in players : d[p] = r}) = Seats(r, n)}

(* The town must open with a strict majority of the seats: the consort and *)
(* the yakuza count against it like a mafioso.                             *)
TownHasMajority(n) ==
  2 * (mafiaCount + Cardinality({r \in enabled : MafiaAligned(r)})) < n

(* applyStartGame: the phase stays Lobby until BeginNight. *)
StartGame ==
  LET n == Cardinality(players) IN
  /\ LobbyOpen
  /\ n \in MinPlayers .. MaxPlayers
  /\ mafiaCount >= 1
  /\ TownHasMajority(n)
  /\ Seats(Villager, n) >= 0
  /\ \E d \in Deals :
       role' = [p \in Player |-> IF p \in players THEN d[p] ELSE NoRole]
  /\ rolesDealt' = TRUE
  /\ UNCHANGED <<created, players, mafiaCount, enabled, phase, alive,
                 vigilanteShotUsed, turnVars, deedVars, dayVars, notices>>

(* Mutant: the bullet of the last game stays spent. *)
ResetBoardKeepsBullet ==
  /\ role' = [p \in Player |-> NoRole]
  /\ alive' = players
  /\ UNCHANGED vigilanteShotUsed

ResetBoard ==
  /\ role' = [p \in Player |-> NoRole]
  /\ alive' = players
  /\ vigilanteShotUsed' = FALSE

ResetTurn ==
  /\ currentNightRole' = NoRole
  /\ currentNightSubPhase' = NoSub
  /\ nightTurnQueue' = <<>>

(* Mutant: clearRecruit is forgotten. *)
ClearKillsOnly ==
  /\ pendingNight' = NoTargets
  /\ UNCHANGED <<recruitYakuza, recruitTarget>>

(* Forget tonight's targets; clearRecruit. *)
ClearDeeds ==
  /\ pendingNight' = NoTargets
  /\ recruitYakuza' = NoPlayer
  /\ recruitTarget' = NoPlayer

(* applyResetGame: the roster stays, everything else goes back to a fresh  *)
(* lobby.  The abstentions are not among the fields the code clears.       *)
ResetGame ==
  /\ created
  /\ phase = Ended
  /\ phase' = Lobby
  /\ mafiaCount' = DefaultMafiaCount
  /\ enabled' = {}
  /\ rolesDealt' = FALSE
  /\ ResetBoard
  /\ ClearDeeds
  /\ ResetTurn
  /\ votes' = NoTargets
  /\ votesRevealed' = FALSE
  /\ dayLynchResolved' = FALSE
  /\ notices' = {}
  /\ UNCHANGED <<created, players, abstentions>>

-------------------------------------------------------------------------------
(* Deaths (guards.go, rules_phase.go): the pipeline a lynch and a night    *)
(* share.  al and ro are the board the deaths have produced.               *)

(* Mutant: nobody takes over. *)
NobodyPromoted(al, ro) == {}

(* promoteConsortIfNeeded: with no living mafia faction, a living consort  *)
(* inherits the kill.                                                      *)
Promoted(al, ro) ==
  IF FactionLiving(FactionMafia, al, ro) # {} THEN {}
  ELSE {p \in al : ro[p] = Consort}

AfterPromotion(al, ro) ==
  [p \in Player |-> IF p \in Promoted(al, ro) THEN Mafia ELSE ro[p]]

(* checkWin *)
TownWins(al, ro) == AlignedLiving(al, ro) = {}

MafiaWins(al, ro) ==
  LET mafia == Cardinality(FactionLiving(FactionMafia, al, ro))
      town  == Cardinality(FactionLiving(FactionTown, al, ro))
  IN  mafia > town \/ (mafia = town /\ mafia = 1)

Decided(al, ro) == TownWins(al, ro) \/ MafiaWins(al, ro)

(* Mutant: the win check looks at the board before the promotion. *)
ResolveDeathsWinFirst(al, ro, next) ==
  /\ alive' = al
  /\ role' = AfterPromotion(al, ro)
  /\ phase' = IF Decided(al, ro) THEN Ended ELSE next

(* resolveDeathsAndMaybeEnd: promotion first, then the win check on the    *)
(* promoted board; "next" is the phase of a game that goes on.             *)
ResolveDeaths(al, ro, next) ==
  /\ alive' = al
  /\ role' = AfterPromotion(al, ro)
  /\ phase' = IF Decided(al, AfterPromotion(al, ro)) THEN Ended ELSE next

-------------------------------------------------------------------------------
(* The night's turns (rules_phase.go). *)

IfEnabled(r) == IF r \in enabled THEN <<r>> ELSE <<>>

(* Mutant: the consort wakes after the vigilante. *)
ConsortWakesLate ==
  <<Detective>> \o IfEnabled(Vigilante) \o IfEnabled(Consort)
    \o <<Doctor>> \o IfEnabled(Tracker)

LaterTurns ==
  IfEnabled(Consort) \o <<Detective>> \o IfEnabled(Vigilante)
    \o <<Doctor>> \o IfEnabled(Tracker)

(* beginNightTurns: keyed on the toggles, never on who is alive.           *)
NightOrder == <<Mafia>> \o LaterTurns

(* applyBeginNight with beginNightTurns *)
BeginNight ==
  /\ ActiveGame
  /\ \/ phase = Lobby /\ rolesDealt
     \/ phase = DayDiscussion /\ dayLynchResolved
  /\ phase' = Night
  /\ votes' = NoTargets
  /\ abstentions' = {}
  /\ dayLynchResolved' = FALSE
  /\ nightTurnQueue' = NightOrder
  /\ currentNightRole' = NoRole
  /\ currentNightSubPhase' = "opening"
  /\ notices' = {}
  /\ UNCHANGED <<lobbyVars, boardVars, deedVars, votesRevealed>>

(* Mutant: a block is announced to a recruit as well. *)
NoticesWithoutPrecedence(r, pend) ==
  IF r = Mafia THEN {}
  ELSE {NoticeTo("recruited", p, r) : p \in {q \in LivingHolders(r) : IsRecruit(q)}}
         \cup {NoticeTo("blocked", p, r) :
                 p \in {q \in LivingHolders(r) : NightBlocked(q, pend)}}

(* What the holder of r is told when the ponder of its turn begins: that   *)
(* it was recruited, or else that it was blocked.  The mafia are immune.   *)
PonderNotices(r, pend) ==
  IF r = Mafia THEN {}
  ELSE {NoticeTo("recruited", p, r) : p \in {q \in LivingHolders(r) : IsRecruit(q)}}
         \cup {NoticeTo("blocked", p, r) :
                 p \in {q \in LivingHolders(r) :
                          ~IsRecruit(q) /\ NightBlocked(q, pend)}}

(* enterNightSubPhase for the current role. *)
EnterSubPhase(sub) ==
  /\ currentNightSubPhase' = sub
  /\ UNCHANGED <<currentNightRole, nightTurnQueue>>

(* Mutant: a submission leaves the window as it is. *)
WindowStaysOpen(said) ==
  /\ EnterSubPhase(currentNightSubPhase)
  /\ notices' = notices \cup said

EnterPonder(said) ==
  /\ EnterSubPhase("ponder")
  /\ notices' = notices \cup said
                  \cup PonderNotices(currentNightRole, pendingNight')

(* Mutant: a role nobody alive holds is passed over. *)
SkipDeadRole ==
  LET q == IF Len(nightTurnQueue) > 1 /\ LivingHolders(Head(nightTurnQueue)) = {}
             THEN Tail(nightTurnQueue)
             ELSE nightTurnQueue
  IN  /\ nightTurnQueue # <<>>
      /\ currentNightRole' = Head(q)
      /\ currentNightSubPhase' = "narrate"
      /\ nightTurnQueue' = Tail(q)

(* Mutant: the queue is read but not popped. *)
NextTurnWithoutPop ==
  /\ nightTurnQueue # <<>>
  /\ currentNightRole' = Head(nightTurnQueue)
  /\ currentNightSubPhase' = "narrate"
  /\ UNCHANGED nightTurnQueue

(* beginNextNightTurn *)
NextTurn ==
  /\ nightTurnQueue # <<>>
  /\ currentNightRole' = Head(nightTurnQueue)
  /\ currentNightSubPhase' = "narrate"
  /\ nightTurnQueue' = Tail(nightTurnQueue)

-------------------------------------------------------------------------------
(* Night commands (rules_night.go). *)

(* Mutant: the recruit under way is not considered. *)
ReadsFaction(t) == Faction(role[t]) = FactionMafia

(* What an action tells its actor at once.  The detective reads tonight's  *)
(* recruit ahead of its resolution: the recruit as mafia, the yakuza that  *)
(* recruited as not.  The tracker reads the targets recorded so far.       *)
ReadsMafia(t) ==
  IF RecruitPending /\ t = recruitYakuza THEN FALSE
  ELSE IF IsRecruit(t) THEN TRUE
  ELSE Faction(role[t]) = FactionMafia

ActionNotices(a, t) ==
  CASE role[a] = Detective ->
         {[kind |-> IF ReadsMafia(t) THEN "is_mafia" ELSE "not_mafia",
           to |-> a, at |-> Detective, about |-> t, visit |-> NoPlayer]}
    [] role[a] = Tracker ->
         {[kind |-> "visit",
           to |-> a, at |-> Tracker, about |-> t, visit |-> TrackedVisit(t)]}
    [] OTHER -> {}

(* applyNightAction: actor a targets t; the first valid submission closes  *)
(* the act window.                                                         *)
NightAction(a, t) ==
  /\ InPhase(Night)
  /\ LivingPlayer(a)
  /\ HasNightAction(role[a])
  /\ ActorsTurn(a)
  /\ currentNightSubPhase = "act"
  /\ Faction(role[a]) = FactionMafia \/ ~NightNeutralized(a, pendingNight)
  /\ LivingPlayer(t)
  /\ MayTarget(a, t)
  /\ pendingNight[a] = NoPlayer
  /\ pendingNight' = [pendingNight EXCEPT ![a] = t]
  /\ EnterPonder(ActionNotices(a, t))
  /\ UNCHANGED <<lobbyVars, phase, boardVars, recruitYakuza, recruitTarget,
                 dayVars>>

(* applyNightPass: the vigilante holds fire. *)
NightPass(a) ==
  /\ InPhase(Night)
  /\ LivingPlayer(a)
  /\ HasNightAction(role[a])
  /\ AllowPass(role[a])
  /\ role[a] = currentNightRole
  /\ currentNightSubPhase = "act"
  /\ UNCHANGED deedVars
  /\ EnterPonder({})
  /\ UNCHANGED <<lobbyVars, phase, boardVars, dayVars>>

(* applyRecruit: the yakuza converts t instead of the faction killing. *)
Recruit(y, t) ==
  /\ InPhase(Night)
  /\ LivingPlayer(y)
  /\ role[y] = Yakuza
  /\ currentNightRole = Mafia
  /\ currentNightSubPhase = "act"
  /\ LivingPlayer(t)
  /\ t # y
  /\ role[t] # Mafia
  /\ recruitYakuza' = y
  /\ recruitTarget' = t
  /\ UNCHANGED pendingNight
  /\ EnterPonder({})
  /\ UNCHANGED <<lobbyVars, phase, boardVars, dayVars>>

-------------------------------------------------------------------------------
(* Resolution of a night (resolveNight, resolvePhase, resolveRecruit). *)

(* runNightPhase: the actors of role r whose recorded action counts. *)
Acting(r) ==
  {a \in players :
     /\ pendingNight[a] # NoPlayer
     /\ role[a] = r
     /\ Faction(r) = FactionMafia \/ ~NightNeutralized(a, pendingNight)}

TargetsOf(r) == {pendingNight[a] : a \in Acting(r)}

(* The faction kill: one entry at most (OneFactionAction), so "last write  *)
(* wins" never has to choose.                                              *)
KillTargets == TargetsOf(Mafia) \cup TargetsOf(Yakuza)

SaveTargets == TargetsOf(Doctor)

(* resolvePhase, step 1: the mafia kill, unless the doctor saves. *)
MafiaVictims == (KillTargets \ SaveTargets) \cap alive

(* Mutant: the doctor is no help against the vigilante. *)
ShotIgnoresSave ==
  {pendingNight[a] : a \in {b \in Acting(Vigilante) : b \in alive \ MafiaVictims}}
    \cap (alive \ {recruitYakuza})

(* resolvePhase, step 2: the shot, if the shooter outlived step 1.  A shot *)
(* at the yakuza that recruited tonight is fired but hits nobody.          *)
ShotVictims ==
  LET shooters == {a \in Acting(Vigilante) : a \in alive \ MafiaVictims}
      hits     == {pendingNight[a] : a \in shooters}
  IN  ((hits \ {recruitYakuza}) \ SaveTargets) \cap alive

(* Mutant: a shot that kills nobody costs nothing. *)
VigilanteHit == ShotVictims # {}

VigilanteFired == Acting(Vigilante) # {}

AfterKills == alive \ (MafiaVictims \cup ShotVictims)

(* Mutant: the recruit turns even if it was shot. *)
ConvertsTheDead == {t \in alive : IsRecruit(t) /\ role[t] # Mafia}

(* resolveRecruit: the recruit turns if it survived the kills ... *)
Converts == {t \in AfterKills : IsRecruit(t) /\ role[t] # Mafia}

RolesAtDawn ==
  [p \in Player |-> IF p \in Converts THEN Mafia ELSE role[p]]

(* ... and the yakuza dies whatever happened to the recruit. *)
AliveAtDawn == IF RecruitPending THEN AfterKills \ {recruitYakuza} ELSE AfterKills

(* A convert learns its new role; one without a night turn (a villager)    *)
(* has not been told of the recruit yet.  A promoted consort is told last. *)
DawnNotices ==
  {NoticeTo("role_assigned", p, NoRole) : p \in Converts}
    \cup {NoticeTo("recruited", p, NoRole) :
            p \in {q \in Converts : ~HasNightAction(role[q])}}
    \cup {NoticeTo("promoted", p, NoRole) : p \in Promoted(AliveAtDawn, RolesAtDawn)}

(* resolveAndExitNight *)
ResolveAndExitNight ==
  /\ ResolveDeaths(AliveAtDawn, RolesAtDawn, DayDiscussion)
  /\ vigilanteShotUsed' = (vigilanteShotUsed \/ VigilanteFired)
  /\ ClearDeeds
  /\ notices' = notices \cup DawnNotices
  /\ dayLynchResolved' =
       IF phase' = Ended THEN dayLynchResolved ELSE FALSE
  /\ UNCHANGED <<votes, abstentions, votesRevealed>>

-------------------------------------------------------------------------------
(* applyAdvancePhase: the room's timer has run out. *)

EndOpening ==
  /\ currentNightSubPhase = "opening"
  /\ NextTurn
  /\ UNCHANGED <<phase, boardVars, deedVars, dayVars, notices>>

EndNarrate ==
  /\ currentNightSubPhase = "narrate"
  /\ UNCHANGED deedVars
  /\ IF RoleTurnIsPhantom(currentNightRole)
       THEN EnterPonder({})
       ELSE EnterSubPhase("act") /\ UNCHANGED notices
  /\ UNCHANGED <<phase, boardVars, dayVars>>

(* The act window timed out: nothing was submitted. *)
EndAct ==
  /\ currentNightSubPhase = "act"
  /\ UNCHANGED deedVars
  /\ EnterPonder({})
  /\ UNCHANGED <<phase, boardVars, dayVars>>

EndPonder ==
  /\ currentNightSubPhase = "ponder"
  /\ EnterSubPhase("sleep")
  /\ UNCHANGED <<phase, boardVars, deedVars, dayVars, notices>>

EndSleep ==
  /\ currentNightSubPhase = "sleep"
  /\ EnterSubPhase("settle")
  /\ UNCHANGED <<phase, boardVars, deedVars, dayVars, notices>>

EndSettle ==
  /\ currentNightSubPhase = "settle"
  /\ \/ /\ NextTurn
        /\ UNCHANGED <<phase, boardVars, deedVars, dayVars, notices>>
     \/ /\ nightTurnQueue = <<>>
        /\ currentNightRole' = NoRole
        /\ currentNightSubPhase' = NoSub
        /\ UNCHANGED nightTurnQueue
        /\ ResolveAndExitNight

AdvancePhase ==
  /\ InPhase(Night)
  /\ EndOpening \/ EndNarrate \/ EndAct \/ EndPonder \/ EndSleep \/ EndSettle
  /\ UNCHANGED lobbyVars

-------------------------------------------------------------------------------
(* The day (rules_phase.go, rules_day.go). *)

(* applyOpenVoting.  The notices of the night are history by now. *)
OpenVoting ==
  /\ InPhase(DayDiscussion)
  /\ ~dayLynchResolved
  /\ phase' = DayVoting
  /\ votes' = NoTargets
  /\ abstentions' = {}
  /\ votesRevealed' = FALSE
  /\ notices' = {}
  /\ UNCHANGED <<lobbyVars, boardVars, turnVars, deedVars, dayLynchResolved>>

(* The guard DayVote and DayAbstain share: a reveal locks the ballots. *)
MayVote(v) == InPhase(DayVoting) /\ ~votesRevealed /\ LivingPlayer(v)

BallotFrame ==
  UNCHANGED <<lobbyVars, phase, boardVars, turnVars, deedVars, votesRevealed,
              dayLynchResolved, notices>>

(* applyDayVote with a target: cast or change a vote. *)
DayVote(v, t) ==
  /\ MayVote(v)
  /\ v # t
  /\ LivingPlayer(t)
  /\ votes[v] # t
  /\ votes' = [votes EXCEPT ![v] = t]
  /\ abstentions' = abstentions \ {v}
  /\ BallotFrame

(* applyDayVote with the empty target: back to undecided. *)
RetractVote(v) ==
  /\ MayVote(v)
  /\ votes[v] # NoPlayer \/ v \in abstentions
  /\ votes' = [votes EXCEPT ![v] = NoPlayer]
  /\ abstentions' = abstentions \ {v}
  /\ BallotFrame

(* Mutant: the standing vote is kept. *)
AbstainKeepsVote(v) ==
  /\ MayVote(v)
  /\ v \notin abstentions
  /\ UNCHANGED votes
  /\ abstentions' = abstentions \cup {v}
  /\ BallotFrame

(* applyDayAbstain *)
DayAbstain(v) ==
  /\ MayVote(v)
  /\ v \notin abstentions
  /\ votes' = [votes EXCEPT ![v] = NoPlayer]
  /\ abstentions' = abstentions \cup {v}
  /\ BallotFrame

(* Mutant: a partial tally may be revealed. *)
RevealPartialTally ==
  /\ InPhase(DayVoting)
  /\ ~votesRevealed
  /\ votesRevealed' = TRUE
  /\ UNCHANGED <<lobbyVars, phase, boardVars, turnVars, deedVars, votes,
                 abstentions, dayLynchResolved, notices>>

(* applyRevealVotes: only a complete tally, and only once. *)
RevealVotes ==
  /\ InPhase(DayVoting)
  /\ ~votesRevealed
  /\ VotesCastCount >= Cardinality(alive)
  /\ votesRevealed' = TRUE
  /\ UNCHANGED <<lobbyVars, phase, boardVars, turnVars, deedVars, votes,
                 abstentions, dayLynchResolved, notices>>

(* applyClearVotes *)
ClearVotes ==
  /\ InPhase(DayVoting)
  /\ votes # NoTargets \/ abstentions # {} \/ votesRevealed
  /\ votes' = NoTargets
  /\ abstentions' = {}
  /\ votesRevealed' = FALSE
  /\ UNCHANGED <<lobbyVars, phase, boardVars, turnVars, deedVars,
                 dayLynchResolved, notices>>

(* Mutant: half of the living is enough. *)
HalfIsEnough ==
  {t \in players :
     2 * Cardinality({v \in Player : votes[v] = t}) >= Cardinality(alive)}

(* Mutant: the dead count towards the threshold. *)
MajorityOfAll ==
  {t \in players :
     2 * Cardinality({v \in Player : votes[v] = t}) > Cardinality(players)}

(* resolveDayVote: whom a strict majority of the living voted for. *)
MajorityTargets ==
  {t \in players :
     2 * Cardinality({v \in Player : votes[v] = t}) > Cardinality(alive)}

(* endDayToDiscussion: clear the tally, mark the day's vote as held. *)
EndDayToDiscussion ==
  /\ votes' = NoTargets
  /\ abstentions' = {}
  /\ dayLynchResolved' = TRUE

(* applyFinalizeVotes: the day ends, with a lynch or without.  A lynch     *)
(* that ends the game leaves the tally as it stands.                       *)
FinalizeVotes ==
  /\ InPhase(DayVoting)
  /\ votesRevealed' = FALSE
  /\ \/ /\ MajorityTargets = {}
        /\ phase' = DayDiscussion
        /\ EndDayToDiscussion
        /\ UNCHANGED <<role, alive, notices>>
     \/ \E t \in MajorityTargets :
        /\ ResolveDeaths(alive \ {t}, role, DayDiscussion)
        /\ IF phase' = Ended
             THEN UNCHANGED <<votes, abstentions, dayLynchResolved>>
             ELSE EndDayToDiscussion
        /\ notices' = {NoticeTo("promoted", p, NoRole) :
                         p \in Promoted(alive \ {t}, role)}
  /\ UNCHANGED <<lobbyVars, vigilanteShotUsed, turnVars, deedVars>>

-------------------------------------------------------------------------------
LobbyNext ==
  \/ \E c \in {0} \cup MafiaCounts : CreateGame(c)
  \/ \E p \in Player : AddPlayer(p)
  \/ \E c \in MafiaCounts : SetMafiaCount(c)
  \/ \E r \in OptionalRole, on \in BOOLEAN : SetOptional(r, on)
  \/ StartGame
  \/ ResetGame

NightNext ==
  \/ BeginNight
  \/ \E a, t \in Player : NightAction(a, t)
  \/ \E a \in Player : NightPass(a)
  \/ \E y, t \in Player : Recruit(y, t)
  \/ AdvancePhase

DayNext ==
  \/ OpenVoting
  \/ \E v, t \in Player : DayVote(v, t)
  \/ \E v \in Player : RetractVote(v) \/ DayAbstain(v)
  \/ RevealVotes
  \/ ClearVotes
  \/ FinalizeVotes

Next == LobbyNext \/ NightNext \/ DayNext

Spec == Init /\ [][Next]_vars

(* The room arms a timer for every night sub-phase, so AdvancePhase always *)
(* comes; nothing makes a player or the host act.                          *)
FairSpec == Spec /\ WF_vars(AdvancePhase)

===============================================================================
