---------------------------- MODULE MafiaGameProps ----------------------------
(***************************************************************************)
(* What the game engine promises: invariants, action properties and one    *)
(* liveness property of MafiaGame.                                         *)
(***************************************************************************)
EXTENDS MafiaGame

(* Every variable holds a value of its type. *)
TypeOK ==
  /\ created \in BOOLEAN
  /\ players \in SUBSET Player
  /\ mafiaCount \in 0 .. (MaxPlayers - ReservedTownRoles)
  /\ enabled \in SUBSET OptionalRole
  /\ rolesDealt \in BOOLEAN
  /\ phase \in Phase
  /\ role \in [Player -> Role \cup {NoRole}]
  /\ alive \in SUBSET players
  /\ vigilanteShotUsed \in BOOLEAN
  /\ currentNightRole \in Role \cup {NoRole}
  /\ currentNightSubPhase \in SubPhase
  /\ nightTurnQueue \in Seq(Role)
  /\ pendingNight \in [Player -> Target]
  /\ recruitYakuza \in Target
  /\ recruitTarget \in Target
  /\ votes \in [Player -> Target]
  /\ abstentions \in SUBSET Player
  /\ votesRevealed \in BOOLEAN
  /\ dayLynchResolved \in BOOLEAN
  /\ notices \in SUBSET Notice

-------------------------------------------------------------------------------
(* The day's vote. *)

(* A voter is never both in the votes and in the abstentions; while a vote *)
(* is open only the living hold a decision, never on themselves or on the  *)
(* dead.  (state.go: "a voter is in AT MOST ONE of {votes, abstentions}".) *)
BallotsSound ==
  /\ \A v \in Player : votes[v] # NoPlayer => v \notin abstentions
  /\ phase = DayVoting =>
       /\ abstentions \subseteq alive
       /\ \A v \in Player : votes[v] # NoPlayer =>
            v \in alive /\ votes[v] \in alive \ {v}

(* A public tally is a complete one: as long as it stands revealed, every  *)
(* living player holds a decision, and no vote is open anywhere but in the *)
(* voting phase.                                                           *)
RevealedTallyComplete ==
  votesRevealed =>
    /\ phase = DayVoting
    /\ \A p \in alive : votes[p] # NoPlayer \/ p \in abstentions

(* What the table was shown is what gets counted: from reveal to clear or  *)
(* finalize no ballot changes.                                             *)
RevealedTallyFrozen ==
  [][votesRevealed /\ votesRevealed' => UNCHANGED <<votes, abstentions, alive>>]_vars

(* By day at most one player dies, and only one whom more than half of the *)
(* living voted for.                                                       *)
LynchedByLivingMajority ==
  [][phase = DayVoting /\ alive' # alive =>
       \E t \in alive :
         /\ alive' = alive \ {t}
         /\ 2 * Cardinality({v \in alive : votes[v] = t}) > Cardinality(alive)]_vars

(* The converse: a majority of the living on one player is never lost when *)
(* the host closes the day.                                                *)
MajorityIsLynched ==
  [][phase = DayVoting /\ phase' # DayVoting =>
       \A t \in alive :
         2 * Cardinality({v \in alive : votes[v] = t}) > Cardinality(alive)
           => t \notin alive']_vars

-------------------------------------------------------------------------------
(* Who acts at night. *)

Acted(a) == pendingNight[a] # NoPlayer

MafiaEntries == {a \in Player : Acted(a) /\ Faction(role[a]) = FactionMafia}

(* The faction gets one deed a night: one kill by one member, or one       *)
(* recruit, never both, whichever members race for the act window.         *)
FactionActsOnce ==
  Cardinality(MafiaEntries) + (IF RecruitPending THEN 1 ELSE 0) <= 1

(* No recorded action belongs to someone the consort blocked or the yakuza *)
(* recruited tonight, in whatever order the submissions came: the backstop *)
(* of runNightPhase that would nullify it never has anything to nullify.   *)
NeutralizedNeverActs ==
  \A a \in Player :
    Acted(a) /\ Faction(role[a]) # FactionMafia => ~NightNeutralized(a, pendingNight)

(* Tonight's deeds are tonight's: no target or recruit survives the night, *)
(* and a pending recruit names a living yakuza and a living player outside *)
(* the faction.                                                            *)
NoStaleDeeds ==
  /\ phase # Night => pendingNight = NoTargets /\ ~RecruitPending
  /\ \A a \in Player : Acted(a) => a \in alive /\ pendingNight[a] \in alive
  /\ RecruitPending =>
       /\ recruitYakuza \in alive /\ role[recruitYakuza] = Yakuza
       /\ recruitTarget \in alive /\ Faction(role[recruitTarget]) # FactionMafia

TurnIndex(r) ==
  IF r = NoRole THEN 0
  ELSE CHOOSE i \in 1 .. Len(NightOrder) : NightOrder[i] = r

(* Every night of a game calls the same roles in the same order, whoever   *)
(* has died, been promoted or converted: nobody can count the moderator's  *)
(* cues and learn of a death.                                              *)
SameCadenceEveryNight ==
  [][phase = Night =>
       IF phase' = Night
         THEN TurnIndex(currentNightRole') \in
                {TurnIndex(currentNightRole), TurnIndex(currentNightRole) + 1}
         ELSE TurnIndex(currentNightRole) = Len(NightOrder)]_vars

-------------------------------------------------------------------------------
(* What a night does. *)

Dawn == phase = Night /\ phase' # Night

AttackedBy(R, p) == \E a \in players : pendingNight[a] = p /\ role[a] \in R

DeathsHaveCauses ==
  /\ \A p \in alive \ alive' :
       \/ p = recruitYakuza
       \/ AttackedBy({Mafia, Yakuza, Vigilante}, p) /\ ~AttackedBy({Doctor}, p)
  /\ RecruitPending => recruitYakuza \notin alive'
  /\ alive' \subseteq alive
  /\ \A p \in alive :
       AttackedBy({Mafia, Yakuza}, p) /\ ~AttackedBy({Doctor}, p) => p \notin alive'
  /\ \A v \in alive \ alive' :
       role[v] = Vigilante /\ Acted(v) => pendingNight[v] \in alive'

(* Whoever dies at night was attacked and not saved, or is the yakuza that *)
(* gave itself for a recruit; no doctor can prevent the latter.  The mafia *)
(* shoot first: their unsaved target dies whatever else happens, and a     *)
(* vigilante killed tonight hits nobody.                                   *)
DeathsExplained == [][Dawn => DeathsHaveCauses]_vars

SpentByNow ==
  \/ vigilanteShotUsed
  \/ Dawn /\ \E a \in players : role[a] = Vigilante /\ Acted(a)

(* The vigilante has one bullet per game, spent by firing: not by a block, *)
(* a recruit or a pass, but also by a shot that a save, the yakuza's       *)
(* sacrifice or his own death made void.                                   *)
OneBullet ==
  [][/\ rolesDealt /\ rolesDealt' => (vigilanteShotUsed' <=> SpentByNow)
     /\ \A a \in players :
          role[a] = Vigilante /\ Acted(a)' => ~vigilanteShotUsed]_vars

RolesHaveCauses ==
  LET turned == {p \in Player : role'[p] # role[p]} IN
  /\ Cardinality(turned) <= 1
  /\ \A p \in turned :
       /\ role'[p] = Mafia /\ p \in alive'
       /\ \/ IsRecruit(p) /\ recruitYakuza \in alive \ alive'
          \/ /\ role[p] = Consort
             /\ FactionLiving(FactionMafia, alive', role) = {}

(* Roles change at two points of a running game only: a surviving recruit  *)
(* turns as its yakuza dies, or the consort takes over a faction that has  *)
(* no living member left.  Either way one living player turns mafioso.     *)
RoleChangesExplained == [][rolesDealt /\ rolesDealt' => RolesHaveCauses]_vars

Told(k, p) == {n \in notices' : n.kind = k /\ n.to = p}

(* A convert hears that it was recruited exactly once, at its own turn or  *)
(* at dawn, and a recruit is never told it was merely blocked.             *)
(* Comments disagree on one who is blocked too: this is the code and the   *)
(* comments of rules_phase.go:166-181 and rules_night.go:386-391; those of *)
(* events.js:435-437 and 571-573 have it told both.                        *)
ConvertToldOnce ==
  [][Dawn =>
       \A p \in Player :
         IsRecruit(p) =>
           /\ Told("blocked", p) = {}
           /\ role'[p] # role[p] => Cardinality(Told("recruited", p)) = 1]_vars

(* What the detective was told in the night still holds at dawn: a target  *)
(* read as mafia is mafia by then (or died), one read as not mafia is not  *)
(* (or died, or is the consort who took over at that very dawn).           *)
DetectiveHoldsAtDawn ==
  [][Dawn =>
       \A n \in notices : n.about \in alive' =>
         /\ n.kind = "is_mafia" => Faction(role'[n.about]) = FactionMafia
         /\ n.kind = "not_mafia" =>
              \/ Faction(role'[n.about]) # FactionMafia
              \/ role[n.about] = Consort]_vars

(* A tracker who follows a mafioso learns the faction's victim, whichever  *)
(* member pressed the button: that player is dead, saved or converted at   *)
(* dawn; and if the mafioso stayed home nobody (else) was attacked.        *)
TrackerFindsTheVictim ==
  [][Dawn =>
       \A n \in notices :
         n.kind = "visit" /\ Faction(role[n.about]) = FactionMafia =>
           IF n.visit # NoPlayer
             THEN \/ n.visit \notin alive'
                  \/ AttackedBy({Doctor}, n.visit)
                  \/ Faction(role'[n.visit]) = FactionMafia
             ELSE \A p \in players \ {n.about} :
                    ~AttackedBy({Mafia, Yakuza}, p) /\ ~IsRecruit(p)]_vars

-------------------------------------------------------------------------------
(* Winning. *)

(* Once roles are dealt the game is over exactly when its board is         *)
(* decided: no decided board is played on, no open one is stopped.         *)
EndsExactlyWhenDecided ==
  rolesDealt => ((phase = Ended) <=> Decided(alive, role))

(* A game that goes on has somebody to kill at night: the consort has      *)
(* taken over before anybody asked who won.                                *)
NeverHeadless ==
  rolesDealt /\ phase # Ended => FactionLiving(FactionMafia, alive, role) # {}

(* A lobby whose roles are not dealt carries nothing of a previous game    *)
(* that could reach the next one.                                          *)
LobbyIsFresh ==
  ~rolesDealt =>
    /\ phase = Lobby
    /\ alive = players
    /\ \A p \in Player : role[p] = NoRole
    /\ ~vigilanteShotUsed /\ ~votesRevealed /\ ~dayLynchResolved
    /\ votes = NoTargets
    /\ currentNightSubPhase = NoSub /\ nightTurnQueue = <<>>

(* Under the room's timer every night comes to an end. *)
NightEnds == phase = Night ~> phase # Night

-------------------------------------------------------------------------------
(* The engine implements the abstract game. *)

SideOf(r) ==
  IF r = NoRole THEN "unknown"
  ELSE IF Faction(r) = FactionMafia THEN "mafia"
  ELSE IF Faction(r) = FactionConsort THEN "sleeper"
  ELSE "town"

StageOf(dealt, ph) ==
  IF ~dealt THEN "gathering"
  ELSE IF ph = Lobby THEN "dealt"
  ELSE IF ph = Ended THEN "over"
  ELSE "running"

Abstract == INSTANCE HiddenRoleGame WITH
  stage  <- StageOf(rolesDealt, phase),
  seated <- players,
  side   <- [p \in Player |-> SideOf(role[p])],
  living <- alive

(* Every command of the engine is a step of the abstract game or invisible *)
(* to it.                                                                  *)
ImplementsHiddenRoleGame == Abstract!Spec

===============================================================================
