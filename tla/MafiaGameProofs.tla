--------------------------- MODULE MafiaGameProofs ----------------------------
(***************************************************************************)
(* Theorems of MafiaGame, for every set of players and every bounds: its   *)
(* types, its votes, its nights, its moderator's cues and what it tells    *)
(* the players.                                                            *)
(***************************************************************************)
EXTENDS MafiaGameProps, FiniteSetTheorems, TLAPS

-------------------------------------------------------------------------------
(* Type correctness. *)

(* The default mafia count lies within the bounds the lobby accepts. *)
LEMMA DefaultCountType == DefaultMafiaCount \in MafiaCounts
  BY BoundsAssumption DEF DefaultMafiaCount, MafiaCounts, ReservedTownRoles

(* The queue of a night is a sequence of roles, whatever the toggles. *)
LEMMA NightOrderType == NightOrder \in Seq(Role)
<1>1. \A r \in Role : IfEnabled(r) \in Seq(Role) /\ <<r>> \in Seq(Role)
  BY DEF IfEnabled
<1>2. {Mafia, Consort, Detective, Vigilante, Doctor, Tracker} \subseteq Role
  BY DEF Role
<1>3. \A s, t \in Seq(Role) : s \o t \in Seq(Role)
  OBVIOUS
<1> QED
  BY <1>1, <1>2, <1>3 DEF NightOrder, LaterTurns

(* Popping a turn off a well-typed queue leaves it well typed. *)
LEMMA NextTurnType ==
  ASSUME nightTurnQueue \in Seq(Role), NextTurn
  PROVE  /\ currentNightRole' \in Role
         /\ currentNightSubPhase' \in SubPhase
         /\ nightTurnQueue' \in Seq(Role)
  BY DEF NextTurn, SubPhase

(* The empty vote map is a vote map. *)
LEMMA NoTargetsType == NoTargets \in [Player -> Target]
  BY DEF NoTargets, Target

(* A promotion deals in roles only. *)
LEMMA PromotionType ==
  ASSUME NEW al, NEW ro \in [Player -> Role \cup {NoRole}]
  PROVE  AfterPromotion(al, ro) \in [Player -> Role \cup {NoRole}]
  BY DEF AfterPromotion, Role

(* A notice made by NoticeTo is a Notice. *)
LEMMA NoticeToType ==
  ASSUME NEW k \in NoticeKind, NEW p \in Player, NEW r \in Role \cup {NoRole}
  PROVE  NoticeTo(k, p, r) \in Notice
  BY DEF NoticeTo, Notice, Target

(* What a role hears when its ponder begins are notices. *)
LEMMA PonderNoticesType ==
  ASSUME TypeOK, NEW r \in Role \cup {NoRole}, NEW pend
  PROVE  PonderNotices(r, pend) \subseteq Notice
<1>1. LivingHolders(r) \subseteq Player
  BY DEF TypeOK, LivingHolders
<1>2. /\ \A p \in Player : NoticeTo("recruited", p, r) \in Notice
      /\ \A p \in Player : NoticeTo("blocked", p, r) \in Notice
  BY NoticeToType DEF NoticeKind
<1> QED
  BY <1>1, <1>2 DEF PonderNotices

(* Entering the ponder keeps the turn and the notices well typed. *)
LEMMA EnterPonderType ==
  ASSUME TypeOK, NEW said \in SUBSET Notice, EnterPonder(said)
  PROVE  /\ currentNightRole' \in Role \cup {NoRole}
         /\ currentNightSubPhase' \in SubPhase
         /\ nightTurnQueue' \in Seq(Role)
         /\ notices' \in SUBSET Notice
<1>1. PonderNotices(currentNightRole, pendingNight') \subseteq Notice
  BY PonderNoticesType DEF TypeOK
<1> QED
  BY <1>1 DEF EnterPonder, EnterSubPhase, TypeOK, SubPhase

(* The tracker is told a player, or nobody. *)
LEMMA TrackedVisitType ==
  ASSUME TypeOK, NEW t \in Player
  PROVE  TrackedVisit(t) \in Target
<1>1. FactionNightTarget \subseteq Target
  BY DEF FactionNightTarget, TypeOK
<1>2. Visits(t) \subseteq Target
  BY <1>1 DEF Visits, TypeOK
<1> QED
  BY <1>2 DEF TrackedVisit, Target

(* What an action tells its actor are notices. *)
LEMMA ActionNoticesType ==
  ASSUME TypeOK, NEW a \in Player, NEW t \in Player
  PROVE  ActionNotices(a, t) \subseteq Notice
<1>1. TrackedVisit(t) \in Target
  BY TrackedVisitType
<1>2. CASE role[a] = Detective
  BY <1>2 DEF ActionNotices, Notice, NoticeKind, Role, Target, Detective, Tracker
<1>3. CASE role[a] = Tracker
  BY <1>1, <1>3
     DEF ActionNotices, Notice, NoticeKind, Role, Target, Detective, Tracker
<1>4. CASE role[a] # Detective /\ role[a] # Tracker
  BY <1>4 DEF ActionNotices
<1> QED
  BY <1>2, <1>3, <1>4

(* What dawn tells are notices. *)
LEMMA DawnNoticesType ==
  ASSUME TypeOK
  PROVE  DawnNotices \subseteq Notice
<1>1. Converts \subseteq Player /\ Promoted(AliveAtDawn, RolesAtDawn) \subseteq Player
  BY DEF TypeOK, Converts, Promoted, AliveAtDawn, AfterKills
<1>2. \A k \in {"role_assigned", "recruited", "promoted"}, p \in Player :
        NoticeTo(k, p, NoRole) \in Notice
  BY NoticeToType DEF NoticeKind
<1> QED
  BY <1>1, <1>2 DEF DawnNotices

(* The conjuncts of TypeOK about Boolean variables, and the others. *)
FlagsTyped ==
  /\ created \in BOOLEAN
  /\ rolesDealt \in BOOLEAN
  /\ vigilanteShotUsed \in BOOLEAN
  /\ votesRevealed \in BOOLEAN
  /\ dayLynchResolved \in BOOLEAN

(* The others: sets, sequences and functions. *)
DataTyped ==
  /\ players \in SUBSET Player
  /\ mafiaCount \in 0 .. (MaxPlayers - ReservedTownRoles)
  /\ enabled \in SUBSET OptionalRole
  /\ phase \in Phase
  /\ role \in [Player -> Role \cup {NoRole}]
  /\ alive \in SUBSET players
  /\ currentNightRole \in Role \cup {NoRole}
  /\ currentNightSubPhase \in SubPhase
  /\ nightTurnQueue \in Seq(Role)
  /\ pendingNight \in [Player -> Target]
  /\ recruitYakuza \in Target
  /\ recruitTarget \in Target
  /\ votes \in [Player -> Target]
  /\ abstentions \in SUBSET Player
  /\ notices \in SUBSET Notice

(* The two halves of the invariant, kept apart because no one prover does   *)
(* both well.                                                               *)
LEMMA TypeSplit == TypeOK <=> FlagsTyped /\ DataTyped
  BY Zenon DEF TypeOK, FlagsTyped, DataTyped

(* The empty engine is well typed. *)
LEMMA TypeInit == Init => TypeOK
<1> SUFFICES ASSUME Init PROVE TypeOK
  OBVIOUS
<1>1. FlagsTyped
  BY Zenon DEF Init, FlagsTyped
<1>2. DataTyped
  BY BoundsAssumption, NoTargetsType
     DEF Init, DataTyped, Phase, SubPhase, ReservedTownRoles, Target
<1> QED
  BY <1>1, <1>2, TypeSplit

(* Lobby commands, the deal and the reset keep the types. *)
LEMMA TypeLobby ==
  ASSUME TypeOK, LobbyNext
  PROVE  TypeOK'
<1> USE DefaultCountType DEF MafiaCounts
<1> SUFFICES FlagsTyped' /\ DataTyped'
  BY TypeSplit DEF TypeOK, FlagsTyped, DataTyped
<1>0. FlagsTyped /\ DataTyped
  BY TypeSplit
<1>1. ASSUME NEW c \in {0} \cup MafiaCounts, CreateGame(c)
      PROVE  FlagsTyped' /\ DataTyped'
  <2>1. FlagsTyped'
    BY <1>0, <1>1, Zenon
       DEF CreateGame, FlagsTyped, boardVars, dayVars
  <2>2. DataTyped'
    BY <1>0, <1>1
       DEF CreateGame, DataTyped, boardVars, turnVars, deedVars, dayVars
  <2> QED BY <2>1, <2>2
<1>2. ASSUME NEW p \in Player, AddPlayer(p)
      PROVE  FlagsTyped' /\ DataTyped'
  <2>1. FlagsTyped'
    BY <1>0, <1>2, Zenon DEF AddPlayer, FlagsTyped, dayVars
  <2>2. DataTyped'
    BY <1>0, <1>2 DEF AddPlayer, DataTyped, turnVars, deedVars, dayVars
  <2> QED BY <2>1, <2>2
<1>3. ASSUME NEW c \in MafiaCounts, SetMafiaCount(c)
      PROVE  FlagsTyped' /\ DataTyped'
  <2>1. FlagsTyped'
    BY <1>0, <1>3, Zenon DEF SetMafiaCount, FlagsTyped, boardVars, dayVars
  <2>2. DataTyped'
    BY <1>0, <1>3
       DEF SetMafiaCount, DataTyped, boardVars, turnVars, deedVars, dayVars
  <2> QED BY <2>1, <2>2
<1>4. ASSUME NEW r \in OptionalRole, NEW on \in BOOLEAN, SetOptional(r, on)
      PROVE  FlagsTyped' /\ DataTyped'
  <2>1. FlagsTyped'
    BY <1>0, <1>4, Zenon DEF SetOptional, FlagsTyped, boardVars, dayVars
  <2>2. enabled' \in SUBSET OptionalRole
    BY <1>0, <1>4 DEF SetOptional, DataTyped
  <2>3. DataTyped'
    BY <1>0, <1>4, <2>2
       DEF SetOptional, DataTyped, boardVars, turnVars, deedVars, dayVars
  <2> QED BY <2>1, <2>3
<1>5. ASSUME StartGame
      PROVE  FlagsTyped' /\ DataTyped'
  <2>1. FlagsTyped'
    BY <1>0, <1>5, Zenon DEF StartGame, FlagsTyped, dayVars
  <2>2. role' \in [Player -> Role \cup {NoRole}]
    BY <1>0, <1>5
       DEF StartGame, Deals, DataTyped, Role, OptionalRole, Mafia, Detective,
           Doctor, Villager, Consort, Vigilante, Yakuza, Tracker
  <2>3. DataTyped'
    BY <1>0, <1>5, <2>2 DEF StartGame, DataTyped, turnVars, deedVars, dayVars
  <2> QED BY <2>1, <2>3
<1>6. ASSUME ResetGame
      PROVE  FlagsTyped' /\ DataTyped'
  <2>1. FlagsTyped'
    BY <1>0, <1>6, Zenon DEF ResetGame, ResetBoard, FlagsTyped
  <2>2. DataTyped'
    BY <1>0, <1>6, NoTargetsType
       DEF ResetGame, ResetBoard, ResetTurn, ClearDeeds, DataTyped, Phase,
           SubPhase, Target
  <2> QED BY <2>1, <2>2
<1> QED
  BY <1>1, <1>2, <1>3, <1>4, <1>5, <1>6 DEF LobbyNext

(* Deaths leave a well-typed board. *)
LEMMA DeathsType ==
  ASSUME NEW al \in SUBSET players, NEW ro \in [Player -> Role \cup {NoRole}],
         NEW next \in Phase, ResolveDeaths(al, ro, next)
  PROVE  /\ alive' \in SUBSET players
         /\ role' \in [Player -> Role \cup {NoRole}]
         /\ phase' \in Phase
  BY PromotionType DEF ResolveDeaths, Phase

(* BeginNight and the night's submissions keep the types. *)
LEMMA TypeNightCommands ==
  ASSUME TypeOK,
         \/ BeginNight
         \/ \E a, t \in Player : NightAction(a, t)
         \/ \E a \in Player : NightPass(a)
         \/ \E y, t \in Player : Recruit(y, t)
  PROVE  TypeOK'
<1> SUFFICES FlagsTyped' /\ DataTyped'
  BY TypeSplit DEF TypeOK, FlagsTyped, DataTyped
<1>0. FlagsTyped /\ DataTyped
  BY TypeSplit
<1>1. ASSUME BeginNight
      PROVE  FlagsTyped' /\ DataTyped'
  <2>1. FlagsTyped'
    BY <1>0, <1>1, Zenon DEF BeginNight, FlagsTyped, lobbyVars, boardVars
  <2>2. DataTyped'
    BY <1>0, <1>1, NoTargetsType, NightOrderType
       DEF BeginNight, DataTyped, lobbyVars, boardVars, deedVars, Phase, SubPhase
  <2> QED BY <2>1, <2>2
<1>2. ASSUME NEW a \in Player, NEW t \in Player, NightAction(a, t)
      PROVE  FlagsTyped' /\ DataTyped'
  <2>1. FlagsTyped'
    BY <1>0, <1>2, Zenon DEF NightAction, FlagsTyped, lobbyVars, boardVars, dayVars
  <2>2. /\ currentNightRole' \in Role \cup {NoRole}
        /\ currentNightSubPhase' \in SubPhase
        /\ nightTurnQueue' \in Seq(Role)
        /\ notices' \in SUBSET Notice
    BY <1>2, ActionNoticesType, EnterPonderType DEF NightAction
  <2>3. DataTyped'
    BY <1>0, <1>2, <2>2
       DEF NightAction, DataTyped, lobbyVars, boardVars, dayVars, Target
  <2> QED BY <2>1, <2>3
<1>3. ASSUME NEW a \in Player, NightPass(a)
      PROVE  FlagsTyped' /\ DataTyped'
  <2>1. FlagsTyped'
    BY <1>0, <1>3, Zenon DEF NightPass, FlagsTyped, lobbyVars, boardVars, dayVars
  <2>2. /\ currentNightRole' \in Role \cup {NoRole}
        /\ currentNightSubPhase' \in SubPhase
        /\ nightTurnQueue' \in Seq(Role)
        /\ notices' \in SUBSET Notice
    BY <1>3, EnterPonderType DEF NightPass
  <2>3. DataTyped'
    BY <1>0, <1>3, <2>2
       DEF NightPass, DataTyped, lobbyVars, boardVars, deedVars, dayVars
  <2> QED BY <2>1, <2>3
<1>4. ASSUME NEW y \in Player, NEW t \in Player, Recruit(y, t)
      PROVE  FlagsTyped' /\ DataTyped'
  <2>1. FlagsTyped'
    BY <1>0, <1>4, Zenon DEF Recruit, FlagsTyped, lobbyVars, boardVars, dayVars
  <2>2. /\ currentNightRole' \in Role \cup {NoRole}
        /\ currentNightSubPhase' \in SubPhase
        /\ nightTurnQueue' \in Seq(Role)
        /\ notices' \in SUBSET Notice
    BY <1>4, EnterPonderType DEF Recruit
  <2>3. DataTyped'
    BY <1>0, <1>4, <2>2
       DEF Recruit, DataTyped, lobbyVars, boardVars, dayVars, Target
  <2> QED BY <2>1, <2>3
<1> QED
  BY <1>1, <1>2, <1>3, <1>4

(* The resolution of a night keeps the types of all it assigns. *)
LEMMA TypeDawn ==
  ASSUME TypeOK, ResolveAndExitNight
  PROVE  /\ alive' \in SUBSET players
         /\ role' \in [Player -> Role \cup {NoRole}]
         /\ phase' \in Phase
         /\ vigilanteShotUsed' \in BOOLEAN /\ dayLynchResolved' \in BOOLEAN
         /\ pendingNight' \in [Player -> Target]
         /\ recruitYakuza' \in Target /\ recruitTarget' \in Target
         /\ notices' \in SUBSET Notice
<1>1. AliveAtDawn \in SUBSET players
  BY DEF AliveAtDawn, AfterKills, TypeOK
<1>2. RolesAtDawn \in [Player -> Role \cup {NoRole}]
  BY DEF RolesAtDawn, TypeOK, Role
<1>3. ResolveDeaths(AliveAtDawn, RolesAtDawn, DayDiscussion)
  BY DEF ResolveAndExitNight
<1>4. DayDiscussion \in Phase
  BY DEF Phase
<1>5. /\ alive' \in SUBSET players
      /\ role' \in [Player -> Role \cup {NoRole}]
      /\ phase' \in Phase
  BY <1>1, <1>2, <1>3, <1>4, DeathsType
<1>6. vigilanteShotUsed' \in BOOLEAN
  BY Zenon DEF ResolveAndExitNight
<1>7. dayLynchResolved' \in BOOLEAN
  BY Zenon DEF ResolveAndExitNight, TypeOK
<1>8. /\ pendingNight' \in [Player -> Target]
      /\ recruitYakuza' \in Target /\ recruitTarget' \in Target
      /\ notices' \in SUBSET Notice
  BY NoTargetsType, DawnNoticesType
     DEF ResolveAndExitNight, ClearDeeds, Target, TypeOK
<1> QED
  BY <1>5, <1>6, <1>7, <1>8

(* The timer's step keeps the types, dawn included. *)
LEMMA TypeAdvancePhase ==
  ASSUME TypeOK, AdvancePhase
  PROVE  TypeOK'
<1> SUFFICES FlagsTyped' /\ DataTyped'
  BY TypeSplit DEF TypeOK, FlagsTyped, DataTyped
<1>0. FlagsTyped /\ DataTyped /\ UNCHANGED lobbyVars
  BY TypeSplit DEF AdvancePhase
<1>1. ASSUME \/ EndOpening \/ EndPonder \/ EndSleep
             \/ EndSettle /\ NextTurn /\ UNCHANGED <<phase, boardVars, deedVars, dayVars, notices>>
      PROVE  FlagsTyped' /\ DataTyped'
  <2>1. UNCHANGED <<lobbyVars, phase, boardVars, deedVars, dayVars, notices>>
    BY <1>0, <1>1 DEF EndOpening, EndPonder, EndSleep
  <2>2. FlagsTyped'
    BY <1>0, <2>1, Zenon DEF FlagsTyped, lobbyVars, boardVars, dayVars
  <2>3. /\ currentNightRole' \in Role \cup {NoRole}
        /\ currentNightSubPhase' \in SubPhase
        /\ nightTurnQueue' \in Seq(Role)
    <3>1. CASE NextTurn
      BY <3>1, <1>0, NextTurnType DEF DataTyped
    <3>2. CASE EndPonder \/ EndSleep
      BY <3>2, <1>0
         DEF EndPonder, EndSleep, EnterSubPhase, DataTyped, SubPhase
    <3> QED BY <1>1, <3>1, <3>2 DEF EndOpening
  <2>4. DataTyped'
    BY <1>0, <2>1, <2>3 DEF DataTyped, lobbyVars, boardVars, deedVars, dayVars
  <2> QED BY <2>2, <2>4
<1>2. ASSUME EndNarrate \/ EndAct
      PROVE  FlagsTyped' /\ DataTyped'
  <2>1. UNCHANGED <<lobbyVars, phase, boardVars, deedVars, dayVars>>
    BY <1>0, <1>2 DEF EndNarrate, EndAct
  <2>2. FlagsTyped'
    BY <1>0, <2>1, Zenon DEF FlagsTyped, lobbyVars, boardVars, dayVars
  <2>3. /\ currentNightRole' \in Role \cup {NoRole}
        /\ currentNightSubPhase' \in SubPhase
        /\ nightTurnQueue' \in Seq(Role)
        /\ notices' \in SUBSET Notice
    <3>1. CASE EnterPonder({})
      BY <3>1, EnterPonderType
    <3>2. CASE EnterSubPhase("act") /\ UNCHANGED notices
      BY <3>2, <1>0 DEF EnterSubPhase, DataTyped, SubPhase
    <3> QED BY <1>2, <3>1, <3>2 DEF EndNarrate, EndAct
  <2>4. DataTyped'
    BY <1>0, <2>1, <2>3 DEF DataTyped, lobbyVars, boardVars, deedVars, dayVars
  <2> QED BY <2>2, <2>4
<1>3. ASSUME currentNightRole' = NoRole, currentNightSubPhase' = NoSub,
             UNCHANGED nightTurnQueue, ResolveAndExitNight
      PROVE  FlagsTyped' /\ DataTyped'
  <2>1. UNCHANGED <<votes, abstentions, votesRevealed>>
    BY <1>3 DEF ResolveAndExitNight
  <2>2. FlagsTyped'
    BY <1>0, <1>3, <2>1, TypeDawn, Zenon DEF FlagsTyped, lobbyVars
  <2>3. DataTyped'
    BY <1>0, <1>3, <2>1, TypeDawn DEF DataTyped, lobbyVars, SubPhase
  <2> QED BY <2>2, <2>3
<1> QED
  BY <1>1, <1>2, <1>3 DEF AdvancePhase, EndSettle

(* Votes and the host's day commands keep the types. *)
LEMMA TypeDay ==
  ASSUME TypeOK, DayNext
  PROVE  TypeOK'
<1> SUFFICES FlagsTyped' /\ DataTyped'
  BY TypeSplit DEF TypeOK, FlagsTyped, DataTyped
<1>0. FlagsTyped /\ DataTyped
  BY TypeSplit
<1>1. ASSUME OpenVoting
      PROVE  FlagsTyped' /\ DataTyped'
  <2>1. FlagsTyped'
    BY <1>0, <1>1, Zenon DEF OpenVoting, FlagsTyped, lobbyVars, boardVars
  <2>2. DataTyped'
    BY <1>0, <1>1, NoTargetsType
       DEF OpenVoting, DataTyped, lobbyVars, boardVars, turnVars, deedVars, Phase
  <2> QED BY <2>1, <2>2
<1>2. ASSUME NEW v \in Player,
             \/ \E t \in Player : DayVote(v, t)
             \/ RetractVote(v) \/ DayAbstain(v)
      PROVE  FlagsTyped' /\ DataTyped'
  <2>1. BallotFrame
    BY <1>2 DEF DayVote, RetractVote, DayAbstain
  <2>2. FlagsTyped'
    BY <1>0, <2>1, Zenon DEF BallotFrame, FlagsTyped, lobbyVars, boardVars
  <2>3. votes' \in [Player -> Target] /\ abstentions' \in SUBSET Player
    BY <1>0, <1>2 DEF DayVote, RetractVote, DayAbstain, DataTyped, Target
  <2>4. DataTyped'
    BY <1>0, <2>1, <2>3
       DEF BallotFrame, DataTyped, lobbyVars, boardVars, turnVars, deedVars
  <2> QED BY <2>2, <2>4
<1>3. ASSUME RevealVotes \/ ClearVotes
      PROVE  FlagsTyped' /\ DataTyped'
  <2>1. FlagsTyped'
    BY <1>0, <1>3, Zenon
       DEF RevealVotes, ClearVotes, FlagsTyped, lobbyVars, boardVars
  <2>2. DataTyped'
    BY <1>0, <1>3, NoTargetsType
       DEF RevealVotes, ClearVotes, DataTyped, lobbyVars, boardVars, turnVars,
           deedVars
  <2> QED BY <2>1, <2>2
<1>4. ASSUME FinalizeVotes
      PROVE  FlagsTyped' /\ DataTyped'
  <2>1. UNCHANGED <<lobbyVars, vigilanteShotUsed, turnVars, deedVars>>
    BY <1>4 DEF FinalizeVotes
  <2>2. FlagsTyped'
    BY <1>0, <1>4, <2>1, Zenon
       DEF FinalizeVotes, EndDayToDiscussion, FlagsTyped, lobbyVars
  <2>3. votes' \in [Player -> Target] /\ abstentions' \in SUBSET Player
    BY <1>0, <1>4, NoTargetsType DEF FinalizeVotes, EndDayToDiscussion, DataTyped
  <2>4. /\ alive' \in SUBSET players
        /\ role' \in [Player -> Role \cup {NoRole}]
        /\ phase' \in Phase
        /\ notices' \in SUBSET Notice
    <3>1. CASE MajorityTargets = {} /\ phase' = DayDiscussion
               /\ UNCHANGED <<role, alive, notices>>
      BY <3>1, <1>0 DEF DataTyped, Phase
    <3>2. ASSUME NEW t \in MajorityTargets,
                 ResolveDeaths(alive \ {t}, role, DayDiscussion),
                 notices' = {NoticeTo("promoted", p, NoRole) :
                               p \in Promoted(alive \ {t}, role)}
          PROVE  /\ alive' \in SUBSET players
                 /\ role' \in [Player -> Role \cup {NoRole}]
                 /\ phase' \in Phase
                 /\ notices' \in SUBSET Notice
      <4>1. Promoted(alive \ {t}, role) \subseteq Player
        BY <1>0 DEF Promoted, DataTyped
      <4>2. notices' \in SUBSET Notice
        BY <3>2, <4>1, NoticeToType DEF NoticeKind
      <4>3. /\ alive \ {t} \in SUBSET players /\ DayDiscussion \in Phase
            /\ role \in [Player -> Role \cup {NoRole}]
        BY <1>0 DEF DataTyped, Phase
      <4> QED BY <3>2, <4>2, <4>3, DeathsType
    <3> QED BY <1>4, <3>1, <3>2 DEF FinalizeVotes
  <2>5. DataTyped'
    BY <1>0, <2>1, <2>3, <2>4 DEF DataTyped, lobbyVars, turnVars, deedVars
  <2> QED BY <2>2, <2>5
<1> QED
  BY <1>1, <1>2, <1>3, <1>4 DEF DayNext

(* No step breaks the types. *)
LEMMA TypeStep ==
  ASSUME TypeOK, [Next]_vars
  PROVE  TypeOK'
<1>1. CASE LobbyNext
  BY <1>1, TypeLobby
<1>2. CASE NightNext
  BY <1>2, TypeNightCommands, TypeAdvancePhase DEF NightNext
<1>3. CASE DayNext
  BY <1>3, TypeDay
<1>4. CASE UNCHANGED vars
  <2>1. FlagsTyped'
    BY <1>4, TypeSplit, Zenon DEF FlagsTyped, vars, lobbyVars, boardVars, dayVars
  <2>2. DataTyped'
    BY <1>4, TypeSplit
       DEF DataTyped, vars, lobbyVars, boardVars, turnVars, deedVars, dayVars
  <2> QED BY <2>1, <2>2, Zenon DEF TypeOK, FlagsTyped, DataTyped
<1> QED
  BY <1>1, <1>2, <1>3, <1>4 DEF Next

(* Every state the engine reaches, whatever commands it is sent, holds     *)
(* values of the types of GameState.                                       *)
THEOREM TypeCorrect == Spec => []TypeOK
  BY TypeInit, TypeStep, PTL DEF Spec

-------------------------------------------------------------------------------
(* The deal. *)

(* A deal gives each dealt role the seats composeRoster counts for it. *)
LEMMA DealtSeats ==
  ASSUME TypeOK, NEW d \in Deals,
         NEW r \in {Mafia, Detective, Doctor, Villager} \cup enabled
  PROVE  Cardinality({p \in players : d[p] = r}) = Seats(r, Cardinality(players))
  BY DEF Deals

(* A deal has as many mafiosi as the lobby asked for. *)
LEMMA MafiaSeats ==
  ASSUME TypeOK, NEW d \in Deals
  PROVE  Cardinality({p \in players : d[p] = Mafia}) = mafiaCount
<1>1. Seats(Mafia, Cardinality(players)) = mafiaCount
  BY DEF Seats, OptionalRole, Mafia, Detective, Doctor, Villager, Consort,
         Yakuza, Vigilante, Tracker
<1> QED BY <1>1, DealtSeats

(* A deal has one holder of every enabled optional role and none of the     *)
(* others.                                                                  *)
LEMMA OptionalSeats ==
  ASSUME TypeOK, NEW d \in Deals, NEW r \in OptionalRole
  PROVE  Cardinality({p \in players : d[p] = r}) = IF r \in enabled THEN 1 ELSE 0
<1>1. CASE r \in enabled
  <2>1. Seats(r, Cardinality(players)) = 1
    BY <1>1 DEF Seats, OptionalRole, Mafia, Detective, Doctor, Villager, Consort,
                Yakuza, Vigilante, Tracker
  <2> QED BY <1>1, <2>1, DealtSeats
<1>2. CASE r \notin enabled
  <2>1. {p \in players : d[p] = r} = {}
    BY <1>2 DEF Deals, OptionalRole, Mafia, Detective, Doctor, Villager, Consort,
                Yakuza, Vigilante, Tracker
  <2> QED BY <1>2, <2>1, FS_EmptySet
<1> QED BY <1>1, <1>2

(* A game has one holder at most of each optional role, so the code's      *)
(* "first" yakuza is the only one.                                         *)
OneOf(r) ==
  \A p, q \in Player : role[p] = r /\ role[q] = r => p = q

(* There is one yakuza at most. *)
OneYakuza == OneOf(Yakuza)

(* Deaths promote a consort to mafia and deal no optional role anew. *)
LEMMA DeathsMakeNoOther ==
  ASSUME NEW al, NEW ro, NEW next, ResolveDeaths(al, ro, next),
         NEW r \in OptionalRole
  PROVE  \A p \in Player : role'[p] = r => ro[p] = r
  BY DEF ResolveDeaths, AfterPromotion, OptionalRole, Mafia, Yakuza, Consort,
         Vigilante, Tracker

(* There is never more than one of an optional role: the deal makes one at *)
(* most, and later steps only unmake it.                                   *)
LEMMA OneOfStep ==
  ASSUME TypeOK, NEW r \in OptionalRole, OneOf(r), [Next]_vars
  PROVE  OneOf(r)'
<1>0. r # NoRole /\ r # Mafia
  BY DEF OptionalRole, NoRole, Mafia, Yakuza, Consort, Vigilante, Tracker
<1>1. CASE StartGame
  <2>1. PICK d \in Deals :
          role' = [p \in Player |-> IF p \in players THEN d[p] ELSE NoRole]
    BY <1>1 DEF StartGame
  <2> DEFINE Y == {p \in players : d[p] = r}
  <2>2. IsFiniteSet(Y) /\ Cardinality(Y) \in {0, 1}
    <3>1. IsFiniteSet(players)
      BY PlayerAssumption, FS_Subset DEF TypeOK
    <3> QED BY <3>1, FS_Subset, OptionalSeats
  <2>3. Y = {} \/ \E x : Y = {x}
    BY <2>2, FS_EmptySet, FS_Singleton
  <2>4. \A p \in Player : role'[p] = r => p \in Y
    BY <1>0, <2>1
  <2> QED BY <2>3, <2>4 DEF OneOf
<1>2. CASE ~StartGame
  <2>1. \A p \in Player : role'[p] = r => role[p] = r
    <3>1. CASE LobbyNext
      BY <1>0, <1>2, <3>1
         DEF LobbyNext, CreateGame, AddPlayer, SetMafiaCount, SetOptional,
             ResetGame, ResetBoard, boardVars
    <3>2. CASE ResolveAndExitNight
      <4>1. \A p \in Player : role'[p] = r => RolesAtDawn[p] = r
        BY <3>2, DeathsMakeNoOther DEF ResolveAndExitNight
      <4> QED BY <1>0, <4>1 DEF RolesAtDawn
    <3>3. CASE NightNext /\ ~ResolveAndExitNight
      BY <3>3
         DEF NightNext, BeginNight, NightAction, NightPass, Recruit,
             AdvancePhase, EndOpening, EndNarrate, EndAct, EndPonder, EndSleep,
             EndSettle, boardVars
    <3>4. CASE FinalizeVotes
      BY <3>4, DeathsMakeNoOther DEF FinalizeVotes
    <3>5. CASE DayNext /\ ~FinalizeVotes
      BY <3>5
         DEF DayNext, OpenVoting, DayVote, RetractVote, DayAbstain, BallotFrame,
             RevealVotes, ClearVotes, boardVars
    <3>6. CASE UNCHANGED vars
      BY <3>6 DEF vars, boardVars
    <3> QED BY <3>1, <3>2, <3>3, <3>4, <3>5, <3>6 DEF Next
  <2> QED BY <2>1 DEF OneOf
<1> QED BY <1>1, <1>2

(* The yakuza is an optional role. *)
LEMMA OneYakuzaStep ==
  ASSUME TypeOK, OneYakuza, [Next]_vars
  PROVE  OneYakuza'
<1>1. Yakuza \in OptionalRole
  BY DEF OptionalRole
<1> QED BY <1>1, OneOfStep DEF OneYakuza

-------------------------------------------------------------------------------
(* The day's vote: the ballots, the reveal and the lynch. *)

(* The voting state, which no night or lobby command but BeginNight and    *)
(* ResetGame touches.                                                      *)
VoteInv == TypeOK /\ BallotsSound /\ RevealedTallyComplete

(* The invariant holds of the empty engine. *)
LEMMA VoteInit == Init => VoteInv
  BY TypeInit
     DEF Init, VoteInv, BallotsSound, RevealedTallyComplete, NoTargets, Lobby,
         DayVoting

(* When as many decisions as living players are cast, every living player  *)
(* holds one.                                                              *)
LEMMA EveryoneDecided ==
  ASSUME VoteInv, VotesCastCount >= Cardinality(alive)
  PROVE  \A p \in alive : votes[p] # NoPlayer \/ p \in abstentions
<1> DEFINE V == {p \in alive : votes[p] # NoPlayer}
           A == {p \in alive : p \in abstentions}
<1>1. IsFiniteSet(alive)
  <2>1. alive \subseteq Player
    BY DEF VoteInv, TypeOK
  <2> QED BY <2>1, PlayerAssumption, FS_Subset
<1>2. IsFiniteSet(V) /\ IsFiniteSet(A) /\ IsFiniteSet(V \cup A)
  BY <1>1, FS_Subset
<1>3. V \cap A = {}
  BY DEF VoteInv, BallotsSound, TypeOK
<1>4. Cardinality(V \cup A) = Cardinality(V) + Cardinality(A)
  <2>1. Cardinality(V \cap A) = 0
    BY <1>3, FS_EmptySet
  <2>2. /\ Cardinality(V \cup A) =
             Cardinality(V) + Cardinality(A) - Cardinality(V \cap A)
        /\ Cardinality(V) \in Nat /\ Cardinality(A) \in Nat
    BY <1>2, FS_Union, FS_CardinalityType
  <2> QED BY <2>1, <2>2
<1>5. Cardinality(V \cup A) >= Cardinality(alive)
  BY <1>4 DEF VotesCastCount
<1>6. V \cup A = alive
  <2>1. V \cup A \subseteq alive
    OBVIOUS
  <2>2. /\ Cardinality(V \cup A) \in Nat /\ Cardinality(alive) \in Nat
        /\ V \cup A # alive => Cardinality(V \cup A) < Cardinality(alive)
    BY <1>1, <1>2, <2>1, FS_Subset, FS_CardinalityType
  <2> QED BY <1>5, <2>2
<1> QED BY <1>6

(* Outside the vote nothing but BeginNight and ResetGame writes a ballot,  *)
(* and those two empty the votes.                                          *)
LEMMA VoteOffStage ==
  ASSUME VoteInv, TypeOK', phase # DayVoting, phase' # DayVoting,
         UNCHANGED votesRevealed \/ ~votesRevealed',
         \/ UNCHANGED <<votes, abstentions>>
         \/ votes' = NoTargets
  PROVE  VoteInv'
  BY DEF VoteInv, BallotsSound, RevealedTallyComplete, NoTargets

(* Lobby commands and the reset keep the invariant. *)
LEMMA VoteLobby ==
  ASSUME VoteInv, TypeOK', LobbyNext
  PROVE  VoteInv'
<1>1. CASE ResetGame
  <2>1. /\ phase # DayVoting /\ phase' # DayVoting
        /\ votes' = NoTargets /\ ~votesRevealed'
    BY <1>1 DEF ResetGame, Ended, Lobby, DayVoting
  <2> QED BY <2>1, VoteOffStage
<1>2. CASE ~ResetGame
  <2>1. UNCHANGED <<phase, votes, abstentions, votesRevealed>>
    BY <1>2
       DEF LobbyNext, CreateGame, AddPlayer, SetMafiaCount, SetOptional,
           StartGame, dayVars
  <2>2. phase # DayVoting \/ UNCHANGED alive
    BY <1>2
       DEF LobbyNext, CreateGame, AddPlayer, SetMafiaCount, SetOptional,
           StartGame, boardVars, LobbyOpen, InPhase, Lobby, DayVoting
  <2>3. CASE phase # DayVoting
    BY <2>1, <2>3, VoteOffStage
  <2>4. CASE UNCHANGED alive
    BY <2>1, <2>4 DEF VoteInv, BallotsSound, RevealedTallyComplete
  <2> QED BY <2>2, <2>3, <2>4
<1> QED BY <1>1, <1>2

(* A night keeps the invariant: no ballot is open. *)
LEMMA VoteNight ==
  ASSUME VoteInv, TypeOK', NightNext
  PROVE  VoteInv'
<1>1. CASE BeginNight
  <2>1. /\ phase # DayVoting /\ phase' # DayVoting
        /\ votes' = NoTargets /\ UNCHANGED votesRevealed
    BY <1>1
       DEF BeginNight, Lobby, Night, DayDiscussion, DayVoting
  <2> QED BY <2>1, VoteOffStage DEF VoteInv, TypeOK
<1>2. ASSUME \/ \E a, t \in Player : NightAction(a, t)
             \/ \E a \in Player : NightPass(a)
             \/ \E y, t \in Player : Recruit(y, t)
      PROVE  VoteInv'
  <2>1. /\ phase # DayVoting /\ phase' # DayVoting
        /\ UNCHANGED <<votes, abstentions, votesRevealed>>
    BY <1>2 DEF NightAction, NightPass, Recruit, InPhase, Night, DayVoting, dayVars
  <2> QED BY <2>1, VoteOffStage
<1>3. CASE AdvancePhase
  <2>1. phase # DayVoting /\ UNCHANGED <<votes, abstentions, votesRevealed>>
    BY <1>3
       DEF AdvancePhase, EndOpening, EndNarrate, EndAct, EndPonder, EndSleep,
           EndSettle, ResolveAndExitNight, InPhase, Night, DayVoting, dayVars
  <2>2. phase' # DayVoting
    BY <1>3
       DEF AdvancePhase, EndOpening, EndNarrate, EndAct, EndPonder, EndSleep,
           EndSettle, ResolveAndExitNight, ResolveDeaths, InPhase, Night,
           DayVoting, Ended, DayDiscussion
  <2> QED BY <2>1, <2>2, VoteOffStage
<1> QED BY <1>1, <1>2, <1>3 DEF NightNext

(* Votes, abstentions and the host's day commands keep the invariant. *)
LEMMA VoteDay ==
  ASSUME VoteInv, TypeOK', DayNext
  PROVE  VoteInv'
<1>1. CASE OpenVoting
  BY <1>1 DEF OpenVoting, VoteInv, BallotsSound, RevealedTallyComplete, NoTargets
<1>2. ASSUME NEW v \in Player,
             \/ \E t \in Player : DayVote(v, t)
             \/ RetractVote(v) \/ DayAbstain(v)
      PROVE  VoteInv'
  <2>1. /\ phase = DayVoting /\ v \in alive /\ ~votesRevealed
        /\ UNCHANGED <<phase, alive, votesRevealed>>
    BY <1>2
       DEF DayVote, RetractVote, DayAbstain, MayVote, BallotFrame, InPhase,
           LivingPlayer, boardVars
  <2>2. BallotsSound'
    BY <1>2, <2>1
       DEF DayVote, RetractVote, DayAbstain, LivingPlayer, VoteInv,
           BallotsSound, TypeOK, Target
  <2> QED BY <2>1, <2>2 DEF VoteInv, RevealedTallyComplete
<1>3. CASE RevealVotes
  <2>1. \A p \in alive : votes[p] # NoPlayer \/ p \in abstentions
    BY <1>3, EveryoneDecided DEF RevealVotes
  <2>2. /\ phase = DayVoting
        /\ UNCHANGED <<phase, alive, votes, abstentions>>
    BY <1>3 DEF RevealVotes, InPhase, boardVars
  <2> QED BY <2>1, <2>2 DEF VoteInv, BallotsSound, RevealedTallyComplete
<1>4. CASE ClearVotes
  BY <1>4
     DEF ClearVotes, VoteInv, BallotsSound, RevealedTallyComplete, NoTargets
<1>5. CASE FinalizeVotes
  <2>1. ~votesRevealed' /\ phase' # DayVoting
    BY <1>5
       DEF FinalizeVotes, ResolveDeaths, DayDiscussion, DayVoting, Ended
  <2>2. \/ UNCHANGED <<votes, abstentions>>
        \/ votes' = NoTargets
    BY <1>5 DEF FinalizeVotes, EndDayToDiscussion
  <2> QED
    BY <2>1, <2>2 DEF VoteInv, BallotsSound, RevealedTallyComplete, NoTargets
<1> QED BY <1>1, <1>2, <1>3, <1>4, <1>5 DEF DayNext

(* No step breaks the invariant. *)
LEMMA VoteStep ==
  ASSUME VoteInv, [Next]_vars
  PROVE  VoteInv'
<1>1. TypeOK'
  BY TypeStep DEF VoteInv
<1>2. CASE UNCHANGED vars
  BY <1>1, <1>2
     DEF VoteInv, BallotsSound, RevealedTallyComplete, vars, boardVars, dayVars
<1> QED BY <1>1, <1>2, VoteLobby, VoteNight, VoteDay DEF Next

(* The inductive invariant holds of every reachable state. *)
LEMMA VoteInvariant == Spec => []VoteInv
  BY VoteInit, VoteStep, PTL DEF Spec

(* No voter ever both votes and abstains, and only the living vote, for    *)
(* the living.                                                             *)
THEOREM BallotsAreSound == Spec => []BallotsSound
<1>1. VoteInv => BallotsSound
  BY DEF VoteInv
<1> QED BY <1>1, VoteInvariant, PTL

(* A revealed tally is complete and stays so.                              *)
THEOREM RevealedTallyIsComplete == Spec => []RevealedTallyComplete
<1>1. VoteInv => RevealedTallyComplete
  BY DEF VoteInv
<1> QED BY <1>1, VoteInvariant, PTL

-------------------------------------------------------------------------------
(* What a step may do to the vote. *)

(* The steps that kill by day, or that leave the voting phase, finalize.   *)
LEMMA OnlyFinalizeEndsVoting ==
  ASSUME TypeOK, [Next]_vars, phase = DayVoting,
         alive' # alive \/ phase' # DayVoting
  PROVE  FinalizeVotes
<1>1. ~LobbyNext
  BY DEF LobbyNext, CreateGame, AddPlayer, SetMafiaCount, SetOptional, StartGame,
         ResetGame, LobbyOpen, InPhase, boardVars, Lobby, DayVoting, Ended
<1>2. ~NightNext
  BY DEF NightNext, BeginNight, NightAction, NightPass, Recruit, AdvancePhase,
         InPhase, Lobby, Night, DayDiscussion, DayVoting
<1>3. ~UNCHANGED vars
  BY DEF vars, boardVars
<1>4. DayNext => FinalizeVotes
  BY DEF DayNext, OpenVoting, DayVote, RetractVote, DayAbstain, BallotFrame,
         RevealVotes, ClearVotes, InPhase, boardVars, DayDiscussion, DayVoting
<1> QED BY <1>1, <1>2, <1>3, <1>4 DEF Next

(* The votes FinalizeVotes counts are those of the living. *)
LEMMA OnlyLivingVotesCount ==
  ASSUME VoteInv, phase = DayVoting, NEW t \in Player
  PROVE  {v \in Player : votes[v] = t} = {v \in alive : votes[v] = t}
  BY PlayerAssumption DEF VoteInv, BallotsSound, TypeOK

(* Whoever a majority names is alive, and the majority is one of the living. *)
LEMMA MajorityIsAlive ==
  ASSUME VoteInv, phase = DayVoting, NEW t \in MajorityTargets
  PROVE  /\ t \in alive
         /\ 2 * Cardinality({v \in alive : votes[v] = t}) > Cardinality(alive)
<1>1. t \in Player
  BY DEF MajorityTargets, VoteInv, TypeOK
<1>2. 2 * Cardinality({v \in alive : votes[v] = t}) > Cardinality(alive)
  BY <1>1, OnlyLivingVotesCount DEF MajorityTargets
<1>3. {v \in alive : votes[v] = t} # {}
  <2>1. IsFiniteSet(alive)
    BY PlayerAssumption, FS_Subset DEF VoteInv, TypeOK
  <2>2. Cardinality(alive) \in Nat
    BY <2>1, FS_CardinalityType
  <2> QED BY <1>2, <2>2, FS_EmptySet
<1>4. PICK v \in alive : votes[v] = t
  BY <1>3
<1>5. v \in Player /\ votes[v] # NoPlayer
  BY <1>1, <1>4, PlayerAssumption DEF VoteInv, TypeOK
<1>6. t \in alive
  BY <1>4, <1>5 DEF VoteInv, BallotsSound
<1> QED BY <1>2, <1>6

(* A day takes at most one life, and only by the votes of more than half   *)
(* of the living.                                                          *)
THEOREM LynchIsByMajority == Spec => LynchedByLivingMajority
<1>1. ASSUME VoteInv, [Next]_vars, phase = DayVoting, alive' # alive
      PROVE  \E t \in alive :
               /\ alive' = alive \ {t}
               /\ 2 * Cardinality({v \in alive : votes[v] = t}) > Cardinality(alive)
  <2>1. FinalizeVotes
    BY <1>1, OnlyFinalizeEndsVoting DEF VoteInv
  <2>2. PICK t \in MajorityTargets : alive' = alive \ {t}
    BY <1>1, <2>1 DEF FinalizeVotes, ResolveDeaths
  <2> QED BY <1>1, <2>2, MajorityIsAlive
<1>2. VoteInv /\ [Next]_vars =>
        [phase = DayVoting /\ alive' # alive =>
           \E t \in alive :
             /\ alive' = alive \ {t}
             /\ 2 * Cardinality({v \in alive : votes[v] = t}) > Cardinality(alive)]_vars
  BY <1>1
<1> QED
  BY <1>2, VoteInvariant, PTL DEF Spec, LynchedByLivingMajority

(* Two majorities of the same living would share a voter. *)
LEMMA MajorityIsUnique ==
  ASSUME VoteInv, phase = DayVoting,
         NEW t \in MajorityTargets, NEW u \in MajorityTargets
  PROVE  t = u
<1> DEFINE For(x) == {v \in alive : votes[v] = x}
<1>1. IsFiniteSet(alive)
  BY PlayerAssumption, FS_Subset DEF VoteInv, TypeOK
<1>2. /\ IsFiniteSet(For(t)) /\ IsFiniteSet(For(u))
      /\ IsFiniteSet(For(t) \cup For(u))
  BY <1>1, FS_Subset
<1>3. /\ 2 * Cardinality(For(t)) > Cardinality(alive)
      /\ 2 * Cardinality(For(u)) > Cardinality(alive)
  BY MajorityIsAlive
<1>4. Cardinality(For(t) \cup For(u)) =
        Cardinality(For(t)) + Cardinality(For(u)) - Cardinality(For(t) \cap For(u))
  BY <1>2, FS_Union
<1>5. Cardinality(For(t) \cup For(u)) <= Cardinality(alive)
  <2>1. For(t) \cup For(u) \subseteq alive
    OBVIOUS
  <2> QED BY <1>1, <2>1, FS_Subset
<1>6. Cardinality(For(t) \cap For(u)) # 0
  <2>1. /\ Cardinality(alive) \in Nat
        /\ Cardinality(For(t)) \in Nat /\ Cardinality(For(u)) \in Nat
        /\ Cardinality(For(t) \cup For(u)) \in Nat
    BY <1>1, <1>2, FS_CardinalityType
  <2> QED BY <1>3, <1>4, <1>5, <2>1
<1>7. For(t) \cap For(u) # {}
  BY <1>6, FS_EmptySet
<1> QED BY <1>7

(* Whoever more than half of the living voted for does not survive the     *)
(* day, whichever majority the code's scan of the tally meets first.       *)
THEOREM MajorityIsNeverLost == Spec => MajorityIsLynched
<1>1. ASSUME VoteInv, [Next]_vars, phase = DayVoting, phase' # DayVoting,
             NEW t \in alive,
             2 * Cardinality({v \in alive : votes[v] = t}) > Cardinality(alive)
      PROVE  t \notin alive'
  <2>1. FinalizeVotes
    BY <1>1, OnlyFinalizeEndsVoting DEF VoteInv
  <2>2. t \in MajorityTargets
    BY <1>1, OnlyLivingVotesCount DEF MajorityTargets, VoteInv, TypeOK
  <2>3. PICK u \in MajorityTargets : alive' = alive \ {u}
    BY <2>1, <2>2 DEF FinalizeVotes, ResolveDeaths
  <2>4. u = t
    BY <1>1, <2>2, <2>3, MajorityIsUnique
  <2> QED BY <2>3, <2>4
<1>2. VoteInv /\ [Next]_vars =>
        [phase = DayVoting /\ phase' # DayVoting =>
           \A t \in alive :
             2 * Cardinality({v \in alive : votes[v] = t}) > Cardinality(alive)
               => t \notin alive']_vars
  BY <1>1
<1> QED
  BY <1>2, VoteInvariant, PTL DEF Spec, MajorityIsLynched

(* Between a reveal and what ends it no ballot and no life changes, so the *)
(* tally that is finalized is the tally that was shown.                    *)
THEOREM RevealedTallyIsFrozen == Spec => RevealedTallyFrozen
<1>1. ASSUME VoteInv, [Next]_vars, votesRevealed, votesRevealed'
      PROVE  UNCHANGED <<votes, abstentions, alive>>
  <2>1. phase = DayVoting
    BY <1>1 DEF VoteInv, RevealedTallyComplete
  <2>2. CASE UNCHANGED vars
    BY <2>2 DEF vars, boardVars, dayVars
  <2>3. LobbyNext => UNCHANGED <<votes, abstentions, alive>>
    BY <2>1
       DEF LobbyNext, CreateGame, AddPlayer, SetMafiaCount, SetOptional,
           StartGame, ResetGame, LobbyOpen, InPhase, boardVars, dayVars, Lobby,
           DayVoting, Ended
  <2>4. ~NightNext
    BY <2>1
       DEF NightNext, BeginNight, NightAction, NightPass, Recruit, AdvancePhase,
           InPhase, Lobby, Night, DayDiscussion, DayVoting
  <2>5. ~DayNext
    BY <1>1, <2>1
       DEF DayNext, OpenVoting, DayVote, RetractVote, DayAbstain, MayVote,
           RevealVotes, ClearVotes, FinalizeVotes, InPhase, DayDiscussion,
           DayVoting
  <2> QED BY <1>1, <2>2, <2>3, <2>4, <2>5 DEF Next
<1>2. VoteInv /\ [Next]_vars =>
        [votesRevealed /\ votesRevealed' => UNCHANGED <<votes, abstentions, alive>>]_vars
  BY <1>1
<1> QED
  BY <1>2, VoteInvariant, PTL DEF Spec, RevealedTallyFrozen

-------------------------------------------------------------------------------
(* The deeds of a night: whose they are, how many the mafia get, and that  *)
(* they do not outlive the night.                                          *)

(* Where the night stands: the mafia's turn is the first, so once it has   *)
(* passed no member of the faction can act any more, and until a deed      *)
(* closes its act window the faction has none.                             *)
MafiaTurnAhead ==
  \/ currentNightSubPhase = "opening"
  \/ currentNightRole = Mafia /\ currentNightSubPhase \in {"narrate", "act"}

(* A night's turns come in order: the mafia's first, and no other is theirs. *)
TurnsInOrder ==
  phase = Night =>
    /\ currentNightSubPhase # NoSub
    /\ IF currentNightSubPhase = "opening"
         THEN nightTurnQueue = NightOrder
         ELSE /\ nightTurnQueue \in Seq(Role \ {Mafia, Yakuza})
              /\ currentNightRole \notin {NoRole, Yakuza}
    /\ MafiaTurnAhead => MafiaEntries = {} /\ ~RecruitPending

(* The inductive invariant of the deeds. *)
DeedInv ==
  TypeOK /\ OneYakuza /\ NoStaleDeeds /\ FactionActsOnce /\ TurnsInOrder

-------------------------------------------------------------------------------
(* The roles of the mafia's side differ, and no role is the absent one. *)
LEMMA RoleNames ==
  /\ Mafia # Yakuza /\ Mafia # Consort /\ Yakuza # Consort
  /\ {Mafia, Yakuza, Consort} \subseteq Role
  /\ NoRole \notin Role
  BY DEF Mafia, Yakuza, Consort, Role, NoRole, Villager, Doctor, Detective,
         Vigilante, Tracker

(* The faction that kills is the mafiosi and the yakuza; the consort is not *)
(* of it.                                                                   *)
LEMMA MafiaFactionRoles ==
  ASSUME NEW r
  PROVE  Faction(r) = FactionMafia <=> r \in {Mafia, Yakuza}
  BY DEF Faction, FactionMafia, FactionConsort, FactionTown

(* The mafia wake first and only once; the yakuza has no turn of its own.  *)
LEMMA LaterTurnsType == LaterTurns \in Seq(Role \ {Mafia, Yakuza})
<1> DEFINE Other == Role \ {Mafia, Yakuza}
<1>1. {Consort, Detective, Vigilante, Doctor, Tracker} \subseteq Other
  BY DEF Role, Mafia, Yakuza, Consort, Detective, Vigilante, Doctor, Tracker
<1> HIDE DEF Other
<1>2. \A r \in Other : IfEnabled(r) \in Seq(Other) /\ <<r>> \in Seq(Other)
  BY DEF IfEnabled
<1>3. \A s, t \in Seq(Other) : s \o t \in Seq(Other)
  OBVIOUS
<1>4. LaterTurns \in Seq(Other)
  BY <1>1, <1>2, <1>3 DEF LaterTurns
<1> QED BY <1>4 DEF Other

(* A night's queue is never empty and opens with the mafia. *)
LEMMA NightOrderShape ==
  /\ NightOrder # <<>> /\ Head(NightOrder) = Mafia
  /\ Tail(NightOrder) \in Seq(Role \ {Mafia, Yakuza})
<1> DEFINE Other == Role \ {Mafia, Yakuza}
<1>1. LaterTurns \in Seq(Other)
  BY LaterTurnsType
<1> HIDE DEF Other
<1>2. /\ <<Mafia>> \o LaterTurns # <<>>
      /\ Head(<<Mafia>> \o LaterTurns) = Mafia
      /\ Tail(<<Mafia>> \o LaterTurns) = LaterTurns
  BY <1>1
<1> QED BY <1>1, <1>2 DEF NightOrder, Other

-------------------------------------------------------------------------------
(* Without a deed there is nothing to go stale. *)
LEMMA NoDeeds ==
  pendingNight = NoTargets /\ ~RecruitPending
    => NoStaleDeeds /\ FactionActsOnce /\ MafiaEntries = {}
<1> SUFFICES ASSUME pendingNight = NoTargets, ~RecruitPending
             PROVE  NoStaleDeeds /\ FactionActsOnce /\ MafiaEntries = {}
  OBVIOUS
<1>1. MafiaEntries = {}
  BY DEF MafiaEntries, Acted, NoTargets
<1>2. Cardinality(MafiaEntries) = 0
  BY <1>1, FS_EmptySet
<1> QED BY <1>1, <1>2 DEF NoStaleDeeds, FactionActsOnce, Acted, NoTargets

(* The steps by which no night goes on. *)
LEMMA DeedsOff ==
  ASSUME TypeOK', OneYakuza', phase' # Night, pendingNight' = NoTargets, ~RecruitPending'
  PROVE  DeedInv'
<1>1. (pendingNight = NoTargets /\ ~RecruitPending
         => NoStaleDeeds /\ FactionActsOnce)'
  BY NoDeeds, PTL
<1> QED BY <1>1 DEF DeedInv, TurnsInOrder, NoTargets

(* The invariant holds of the empty engine. *)
LEMMA DeedInit == Init => DeedInv
<1> SUFFICES ASSUME Init PROVE DeedInv
  OBVIOUS
<1>1. pendingNight = NoTargets /\ ~RecruitPending /\ phase # Night
  BY DEF Init, RecruitPending, Lobby, Night
<1>2. OneYakuza
  BY DEF Init, OneYakuza, OneOf, NoRole, Yakuza
<1> QED BY <1>1, <1>2, NoDeeds, TypeInit DEF DeedInv, TurnsInOrder

(* Lobby commands and the reset keep the invariant: nothing is recorded by  *)
(* day.                                                                     *)
LEMMA DeedLobby ==
  ASSUME DeedInv, TypeOK', OneYakuza', LobbyNext
  PROVE  DeedInv'
<1>1. ASSUME NEW c \in {0} \cup MafiaCounts, CreateGame(c)
      PROVE  DeedInv'
  BY <1>1
     DEF CreateGame, DeedInv, NoStaleDeeds, FactionActsOnce, TurnsInOrder,
         MafiaEntries, Acted, RecruitPending, MafiaTurnAhead, NightOrder,
         LaterTurns, IfEnabled, boardVars, turnVars, deedVars
<1>2. CASE ResetGame
  <2>1. phase' # Night /\ pendingNight' = NoTargets /\ ~RecruitPending'
    BY <1>2 DEF ResetGame, ClearDeeds, RecruitPending, Lobby, Night
  <2> QED BY <2>1, DeedsOff
<1>3. ASSUME \/ \E p \in Player : AddPlayer(p)
             \/ \E c \in MafiaCounts : SetMafiaCount(c)
             \/ \E r \in OptionalRole, on \in BOOLEAN : SetOptional(r, on)
             \/ StartGame
      PROVE  DeedInv'
  <2>1. phase # Night /\ phase' # Night /\ UNCHANGED deedVars
    BY <1>3
       DEF AddPlayer, SetMafiaCount, SetOptional, StartGame, LobbyOpen, InPhase,
           Lobby, Night
  <2>2. pendingNight' = NoTargets /\ ~RecruitPending'
    BY <2>1 DEF DeedInv, NoStaleDeeds, RecruitPending, deedVars, NoTargets
  <2> QED BY <2>1, <2>2, DeedsOff
<1> QED BY <1>1, <1>2, <1>3 DEF LobbyNext

(* Day commands keep the invariant. *)
LEMMA DeedDay ==
  ASSUME DeedInv, TypeOK', OneYakuza', DayNext
  PROVE  DeedInv'
<1>1. phase # Night /\ phase' # Night /\ UNCHANGED deedVars
  BY DEF DayNext, OpenVoting, DayVote, RetractVote, DayAbstain, MayVote,
         BallotFrame, RevealVotes, ClearVotes, FinalizeVotes, ResolveDeaths,
         InPhase, DayDiscussion, DayVoting, Night, Ended
<1>2. pendingNight' = NoTargets /\ ~RecruitPending'
  BY <1>1 DEF DeedInv, NoStaleDeeds, RecruitPending, deedVars, NoTargets
<1> QED BY <1>1, <1>2, DeedsOff

(* A night begins with nothing recorded and the mafia turn ahead. *)
LEMMA DeedBeginNight ==
  ASSUME DeedInv, TypeOK', OneYakuza', BeginNight
  PROVE  DeedInv'
<1>1. phase # Night /\ UNCHANGED deedVars
  BY DEF BeginNight, Lobby, Night, DayDiscussion
<1>2. pendingNight' = NoTargets /\ ~RecruitPending'
  BY <1>1 DEF DeedInv, NoStaleDeeds, RecruitPending, deedVars, NoTargets
<1>3. (pendingNight = NoTargets /\ ~RecruitPending
         => NoStaleDeeds /\ FactionActsOnce /\ MafiaEntries = {})'
  BY NoDeeds, PTL
<1>4. /\ currentNightSubPhase' = "opening" /\ nightTurnQueue' = NightOrder
      /\ UNCHANGED enabled
  BY DEF BeginNight, lobbyVars
<1> QED
  BY <1>2, <1>3, <1>4
     DEF DeedInv, TurnsInOrder, NightOrder, LaterTurns, IfEnabled, NoSub,
         NoTargets

(* In the mafia's turn the first submission is the only one. *)
LEMMA DeedNightAction ==
  ASSUME DeedInv, TypeOK', OneYakuza', NEW a \in Player, NEW t \in Player, NightAction(a, t)
  PROVE  DeedInv'
<1>1. /\ phase = Night /\ UNCHANGED <<phase, enabled, role, alive>>
      /\ UNCHANGED <<recruitYakuza, recruitTarget, currentNightRole, nightTurnQueue>>
      /\ currentNightSubPhase = "act" /\ currentNightSubPhase' = "ponder"
      /\ a \in alive /\ t \in alive /\ ActorsTurn(a)
      /\ pendingNight' = [pendingNight EXCEPT ![a] = t]
  BY DEF NightAction, EnterPonder, EnterSubPhase, InPhase, LivingPlayer,
         lobbyVars, boardVars
<1>2. NoStaleDeeds'
  BY <1>1, PlayerAssumption
     DEF DeedInv, NoStaleDeeds, Acted, RecruitPending, TypeOK
<1>3. TurnsInOrder'
  BY <1>1 DEF DeedInv, TurnsInOrder, MafiaTurnAhead, NoSub
<1>4. FactionActsOnce'
  <2>1. CASE currentNightRole = Mafia
    <3>1. MafiaEntries = {} /\ ~RecruitPending
      BY <1>1, <2>1 DEF DeedInv, TurnsInOrder, MafiaTurnAhead
    <3>2. MafiaEntries' \subseteq {a} /\ ~RecruitPending'
      BY <1>1, <3>1 DEF MafiaEntries, Acted, RecruitPending, DeedInv, TypeOK
    <3>3. Cardinality(MafiaEntries') \in {0, 1}
      <4>1. MafiaEntries' = {} \/ MafiaEntries' = {a}
        BY <3>2
      <4> QED BY <4>1, FS_EmptySet, FS_Singleton
    <3> QED BY <3>2, <3>3 DEF FactionActsOnce
  <2>2. CASE currentNightRole # Mafia
    <3>1. role[a] \notin {Mafia, Yakuza}
      BY <1>1, <2>2, RoleNames DEF ActorsTurn, DeedInv, TurnsInOrder
    <3>2. Faction(role[a]) # FactionMafia
      BY <3>1, MafiaFactionRoles
    <3>3. MafiaEntries' = MafiaEntries
      BY <1>1, <3>2 DEF MafiaEntries, Acted, DeedInv, TypeOK
    <3> QED BY <1>1, <3>3 DEF DeedInv, FactionActsOnce, RecruitPending
  <2> QED BY <2>1, <2>2
<1> QED BY <1>2, <1>3, <1>4 DEF DeedInv

(* A recruit is the faction's first deed of the night: its turn was still   *)
(* running.                                                                 *)
LEMMA DeedRecruit ==
  ASSUME DeedInv, TypeOK', OneYakuza', NEW y \in Player, NEW t \in Player, Recruit(y, t)
  PROVE  DeedInv'
<1>1. /\ phase = Night /\ UNCHANGED <<phase, enabled, role, alive>>
      /\ UNCHANGED <<pendingNight, currentNightRole, nightTurnQueue>>
      /\ currentNightRole = Mafia
      /\ currentNightSubPhase = "act" /\ currentNightSubPhase' = "ponder"
      /\ y \in alive /\ t \in alive /\ role[y] = Yakuza /\ role[t] # Mafia
      /\ recruitYakuza' = y /\ recruitTarget' = t
  BY DEF Recruit, EnterPonder, EnterSubPhase, InPhase, LivingPlayer, lobbyVars,
         boardVars
<1>2. MafiaEntries' = {}
  BY <1>1 DEF DeedInv, TurnsInOrder, MafiaTurnAhead, MafiaEntries, Acted
<1>3. FactionActsOnce'
  <2>1. Cardinality(MafiaEntries') = 0
    BY <1>2, FS_EmptySet
  <2> QED BY <2>1 DEF FactionActsOnce
<1>4. Faction(role[t]) # FactionMafia
  <2>1. t # y
    BY DEF Recruit
  <2>2. role[t] \notin {Mafia, Yakuza}
    BY <1>1, <2>1 DEF DeedInv, OneYakuza, OneOf
  <2> QED BY <2>2, MafiaFactionRoles
<1>5. NoStaleDeeds'
  BY <1>1, <1>4 DEF DeedInv, NoStaleDeeds, Acted, RecruitPending
<1>6. TurnsInOrder'
  BY <1>1 DEF DeedInv, TurnsInOrder, MafiaTurnAhead, NoSub
<1> QED BY <1>3, <1>5, <1>6 DEF DeedInv

(* The steps that leave the deeds, the board and the turn queue alone and  *)
(* do not reopen the mafia's turn.                                         *)
LEMMA DeedsKept ==
  ASSUME DeedInv, TypeOK', OneYakuza',
         UNCHANGED <<phase, enabled, alive, role, deedVars>>,
         UNCHANGED <<currentNightRole, nightTurnQueue>>,
         currentNightSubPhase' \notin {NoSub, "opening"},
         currentNightSubPhase # "opening",
         MafiaTurnAhead' => MafiaTurnAhead
  PROVE  DeedInv'
  BY DEF DeedInv, NoStaleDeeds, FactionActsOnce, TurnsInOrder, MafiaEntries, Acted,
         RecruitPending, deedVars

(* Passing to the next turn keeps the invariant. *)
LEMMA DeedNextTurn ==
  ASSUME DeedInv, TypeOK', OneYakuza', NextTurn, phase = Night,
         UNCHANGED <<phase, enabled, alive, role, deedVars>>
  PROVE  DeedInv'
<1>1. /\ currentNightRole' = Head(nightTurnQueue)
      /\ nightTurnQueue' = Tail(nightTurnQueue)
      /\ currentNightSubPhase' = "narrate" /\ nightTurnQueue # <<>>
  BY DEF NextTurn
<1>2. NoStaleDeeds' /\ FactionActsOnce' /\ MafiaEntries' = MafiaEntries
  BY DEF DeedInv, NoStaleDeeds, FactionActsOnce, MafiaEntries, Acted,
         RecruitPending, deedVars
<1>3. CASE currentNightSubPhase = "opening"
  <2>1. nightTurnQueue = NightOrder /\ MafiaEntries = {} /\ ~RecruitPending
    BY <1>3 DEF DeedInv, TurnsInOrder, MafiaTurnAhead
  <2>2. /\ currentNightRole' = Mafia
        /\ nightTurnQueue' \in Seq(Role \ {Mafia, Yakuza})
    BY <1>1, <2>1, NightOrderShape
  <2>3. TurnsInOrder'
    BY <1>1, <1>2, <2>1, <2>2, RoleNames
       DEF TurnsInOrder, RecruitPending, deedVars, NoSub
  <2> QED BY <1>2, <2>3 DEF DeedInv
<1>4. CASE currentNightSubPhase # "opening"
  <2> DEFINE Other == Role \ {Mafia, Yakuza}
  <2>1. nightTurnQueue \in Seq(Other)
    BY <1>4 DEF DeedInv, TurnsInOrder
  <2>2. Head(nightTurnQueue) \in Other /\ Tail(nightTurnQueue) \in Seq(Other)
    <3> HIDE DEF Other
    <3> QED BY <1>1, <2>1
  <2>3. TurnsInOrder'
    BY <1>1, <2>2, RoleNames DEF TurnsInOrder, MafiaTurnAhead, NoSub
  <2> QED BY <1>2, <2>3 DEF DeedInv
<1> QED BY <1>3, <1>4

(* Every step of a night keeps the invariant. *)
LEMMA DeedNight ==
  ASSUME DeedInv, TypeOK', OneYakuza', NightNext
  PROVE  DeedInv'
<1>1. ASSUME NEW a \in Player, NightPass(a)
      PROVE  DeedInv'
  <2>1. /\ UNCHANGED <<phase, enabled, alive, role, deedVars>>
        /\ UNCHANGED <<currentNightRole, nightTurnQueue>>
        /\ currentNightSubPhase = "act" /\ currentNightSubPhase' = "ponder"
    BY <1>1 DEF NightPass, EnterPonder, EnterSubPhase, lobbyVars, boardVars
  <2> QED BY <2>1, DeedsKept DEF MafiaTurnAhead, NoSub
<1>2. CASE AdvancePhase
  <2>1. phase = Night /\ UNCHANGED enabled
    BY <1>2 DEF AdvancePhase, InPhase, lobbyVars
  <2>2. CASE NextTurn /\ UNCHANGED <<phase, boardVars, deedVars>>
    BY <2>1, <2>2, DeedNextTurn DEF boardVars
  <2>3. CASE EndNarrate \/ EndAct \/ EndPonder \/ EndSleep
    <3>1. /\ UNCHANGED <<phase, alive, role, deedVars>>
          /\ UNCHANGED <<currentNightRole, nightTurnQueue>>
          /\ currentNightSubPhase \in {"narrate", "act", "ponder", "sleep"}
          /\ currentNightSubPhase' \in {"act", "ponder", "sleep", "settle"}
          /\ currentNightSubPhase' = "act" => currentNightSubPhase = "narrate"
      BY <2>3
         DEF EndNarrate, EndAct, EndPonder, EndSleep, EnterPonder,
             EnterSubPhase, boardVars
    <3> QED BY <2>1, <3>1, DeedsKept DEF MafiaTurnAhead, NoSub
  <2>4. CASE ResolveAndExitNight
    <3>1. phase' # Night /\ pendingNight' = NoTargets /\ ~RecruitPending'
      BY <2>4
         DEF ResolveAndExitNight, ResolveDeaths, ClearDeeds, RecruitPending,
             Night, DayDiscussion, Ended
    <3> QED BY <3>1, DeedsOff
  <2> QED
    BY <1>2, <2>2, <2>3, <2>4 DEF AdvancePhase, EndOpening, EndSettle
<1> QED
  BY <1>1, <1>2, DeedBeginNight, DeedNightAction, DeedRecruit DEF NightNext

(* No step breaks the invariant. *)
LEMMA DeedStep ==
  ASSUME DeedInv, [Next]_vars
  PROVE  DeedInv'
<1>1. TypeOK' /\ OneYakuza'
  BY TypeStep, OneYakuzaStep DEF DeedInv
<1>2. CASE UNCHANGED vars
  BY <1>1, <1>2
     DEF DeedInv, NoStaleDeeds, FactionActsOnce, TurnsInOrder, MafiaEntries, Acted,
         RecruitPending, MafiaTurnAhead, NightOrder, LaterTurns, IfEnabled, vars,
         lobbyVars, boardVars, turnVars, deedVars
<1> QED BY <1>1, <1>2, DeedLobby, DeedNight, DeedDay DEF Next

(* The inductive invariant holds of every reachable state. *)
LEMMA DeedInvariant == Spec => []DeedInv
  BY DeedInit, DeedStep, PTL DEF Spec

-------------------------------------------------------------------------------
(* The consort wakes right after the mafia, if at all: until its deed only *)
(* the mafia, who are immune, have acted, and it wakes once.               *)
BeforeConsort ==
  \/ currentNightSubPhase = "opening"
  \/ currentNightRole = Mafia
  \/ currentNightRole = Consort /\ currentNightSubPhase \in {"narrate", "act"}

(* Whoever has acted is of the mafia. *)
OnlyMafiaActed == \A a \in Player : Acted(a) => Faction(role[a]) = FactionMafia

(* The consort's turn is the first after the mafia's. *)
ConsortFirst ==
  phase = Night =>
    /\ BeforeConsort => OnlyMafiaActed
    /\ currentNightSubPhase # "opening" =>
         IF currentNightRole = Mafia THEN nightTurnQueue = LaterTurns
                                     ELSE nightTurnQueue \in Seq(Role \ {Consort})

(* The inductive invariant of who may act. *)
SpellInv == DeedInv /\ ConsortFirst /\ NeutralizedNeverActs

(* Only the first of the later turns can be the consort's. *)
LEMMA ConsortWakesOnce == LaterTurns # <<>> => Tail(LaterTurns) \in Seq(Role \ {Consort})
<1> DEFINE Other == Role \ {Consort}
           Rest == <<Detective>> \o IfEnabled(Vigilante) \o <<Doctor>> \o IfEnabled(Tracker)
<1>1. {Detective, Vigilante, Doctor, Tracker} \subseteq Other
  BY DEF Role, Consort, Detective, Vigilante, Doctor, Tracker
<1> HIDE DEF Other
<1>2. \A r \in Other : IfEnabled(r) \in Seq(Other) /\ <<r>> \in Seq(Other)
  BY DEF IfEnabled
<1>3. \A s, t \in Seq(Other) : s \o t \in Seq(Other)
  OBVIOUS
<1>4. Rest \in Seq(Other)
  BY <1>1, <1>2, <1>3
<1>5. IF Consort \in enabled THEN LaterTurns = <<Consort>> \o Rest ELSE LaterTurns = Rest
  BY DEF LaterTurns, IfEnabled
<1> HIDE DEF Rest
<1>6. Rest # <<>> => Tail(Rest) \in Seq(Other)
  BY <1>4
<1>7. Tail(<<Consort>> \o Rest) = Rest
  BY <1>4
<1> QED BY <1>4, <1>5, <1>6, <1>7 DEF Other

(* By day nobody has acted. *)
LEMMA SpellOff ==
  ASSUME DeedInv', phase' # Night
  PROVE  SpellInv'
  BY DEF SpellInv, DeedInv, NoStaleDeeds, ConsortFirst, NeutralizedNeverActs, Acted, NoTargets

(* The deeds and the roles stay, and the turns do not go back. *)
LEMMA SpellKept ==
  ASSUME SpellInv, DeedInv', phase = Night, UNCHANGED <<phase, role, enabled, players, deedVars>>,
         BeforeConsort' => BeforeConsort,
         currentNightSubPhase' # "opening" =>
           IF currentNightRole' = Mafia THEN nightTurnQueue' = LaterTurns'
                                        ELSE nightTurnQueue' \in Seq(Role \ {Consort})
  PROVE  SpellInv'
<1>1. OnlyMafiaActed' <=> OnlyMafiaActed
  BY DEF OnlyMafiaActed, Acted, deedVars
<1>2. ConsortFirst'
  BY <1>1 DEF SpellInv, ConsortFirst
<1>3. NeutralizedNeverActs'
  BY DEF SpellInv, NeutralizedNeverActs, Acted, NightNeutralized, NightBlocked, IsRecruit,
         RecruitPending, deedVars
<1> QED BY <1>2, <1>3 DEF SpellInv

(* While only the mafia have acted, nobody neutralized has. *)
LEMMA MafiaAreImmune == OnlyMafiaActed => NeutralizedNeverActs
  BY DEF OnlyMafiaActed, NeutralizedNeverActs

(* The consort's own deed comes before those it may block, and does not    *)
(* block the consort; no later deed blocks anyone.                         *)
LEMMA SpellNightAction ==
  ASSUME SpellInv, DeedInv', NEW a \in Player, NEW t \in Player, NightAction(a, t)
  PROVE  SpellInv'
<1>1. /\ phase = Night /\ UNCHANGED <<phase, enabled, role, players>>
      /\ UNCHANGED <<recruitYakuza, recruitTarget, currentNightRole, nightTurnQueue>>
      /\ currentNightSubPhase = "act" /\ currentNightSubPhase' = "ponder"
      /\ ActorsTurn(a) /\ MayTarget(a, t)
      /\ Faction(role[a]) = FactionMafia \/ ~NightNeutralized(a, pendingNight)
      /\ pendingNight' = [pendingNight EXCEPT ![a] = t]
  BY DEF NightAction, EnterPonder, EnterSubPhase, InPhase, lobbyVars, boardVars
<1>2. /\ pendingNight'[a] = t /\ \A b \in Player \ {a} : pendingNight'[b] = pendingNight[b]
      /\ players \subseteq Player
  BY <1>1 DEF SpellInv, DeedInv, TypeOK
<1>3. CASE currentNightRole = Mafia
  <2>1. Faction(role[a]) = FactionMafia
    BY <1>1, <1>3, MafiaFactionRoles DEF ActorsTurn
  <2>2. OnlyMafiaActed
    BY <1>1, <1>3 DEF SpellInv, ConsortFirst, BeforeConsort
  <2>3. OnlyMafiaActed'
    BY <1>1, <1>2, <2>1, <2>2 DEF OnlyMafiaActed, Acted
  <2>4. ConsortFirst'
    BY <1>1, <1>3, <2>3 DEF SpellInv, ConsortFirst, LaterTurns, IfEnabled
  <2>5. NeutralizedNeverActs'
    BY <2>3, MafiaAreImmune, PTL
  <2> QED BY <2>4, <2>5 DEF SpellInv
<1>4. CASE currentNightRole # Mafia
  <2>1. role[a] = currentNightRole \/ role[a] \in {Mafia, Yakuza}
    BY <1>1, <1>4 DEF ActorsTurn
  <2>2. role[a] = currentNightRole /\ role[a] \notin {Mafia, Yakuza}
    BY <1>1, <1>4 DEF ActorsTurn, SpellInv, DeedInv, TurnsInOrder
  <2>3. ~BeforeConsort'
    BY <1>1, <1>4 DEF BeforeConsort
  <2>4. ConsortFirst'
    BY <1>1, <1>4, <2>3 DEF SpellInv, ConsortFirst
  <2>5. ~NightNeutralized(a, pendingNight)
    BY <1>1, <2>2, MafiaFactionRoles
  <2>6. ASSUME NEW p \in Player, p # t \/ role[a] # Consort, ~NightNeutralized(p, pendingNight)
        PROVE  ~NightNeutralized(p, pendingNight)'
    BY <1>1, <1>2, <2>6 DEF NightNeutralized, NightBlocked, IsRecruit, RecruitPending
  <2>7. CASE role[a] = Consort
    <3>1. OnlyMafiaActed
      BY <1>1, <2>2, <2>7 DEF SpellInv, ConsortFirst, BeforeConsort
    <3>2. t # a
      BY <1>1, <2>7 DEF MayTarget, RejectsSelfTarget
    <3>3. ~NightNeutralized(a, pendingNight)'
      BY <2>5, <2>6, <3>2
    <3>4. \A b \in Player : (Acted(b) /\ Faction(role[b]) # FactionMafia)' => b = a
      BY <1>1, <1>2, <3>1 DEF OnlyMafiaActed, Acted
    <3>5. NeutralizedNeverActs'
      BY <3>3, <3>4 DEF NeutralizedNeverActs
    <3> QED BY <2>4, <3>5 DEF SpellInv
  <2>8. CASE role[a] # Consort
    <3>1. \A b \in Player : (Acted(b) /\ Faction(role[b]) # FactionMafia)' =>
                              ~NightNeutralized(b, pendingNight)
      BY <1>1, <1>2, <2>5 DEF SpellInv, NeutralizedNeverActs, Acted
    <3>2. NeutralizedNeverActs'
      BY <2>6, <2>8, <3>1 DEF NeutralizedNeverActs
    <3> QED BY <2>4, <3>2 DEF SpellInv
  <2> QED BY <2>7, <2>8
<1> QED BY <1>3, <1>4

(* A recruit is made in the mafia's turn, before anyone else acts. *)
LEMMA SpellRecruit ==
  ASSUME SpellInv, DeedInv', NEW y \in Player, NEW t \in Player, Recruit(y, t)
  PROVE  SpellInv'
<1>1. /\ phase = Night /\ currentNightRole = Mafia
      /\ UNCHANGED <<phase, enabled, role, pendingNight, currentNightRole, nightTurnQueue>>
      /\ currentNightSubPhase = "act" /\ currentNightSubPhase' = "ponder"
  BY DEF Recruit, EnterPonder, EnterSubPhase, InPhase, lobbyVars, boardVars
<1>2. OnlyMafiaActed'
  BY <1>1 DEF SpellInv, ConsortFirst, BeforeConsort, OnlyMafiaActed, Acted
<1>3. ConsortFirst'
  BY <1>1, <1>2 DEF SpellInv, ConsortFirst, LaterTurns, IfEnabled
<1>4. NeutralizedNeverActs'
  BY <1>2, MafiaAreImmune, PTL
<1> QED BY <1>3, <1>4 DEF SpellInv

(* Passing to the next turn, into the consort's at most once. *)
LEMMA SpellNextTurn ==
  ASSUME SpellInv, DeedInv', NextTurn, phase = Night,
         UNCHANGED <<phase, enabled, role, players, deedVars>>
  PROVE  SpellInv'
<1>1. /\ currentNightRole' = Head(nightTurnQueue)
      /\ nightTurnQueue' = Tail(nightTurnQueue)
      /\ currentNightSubPhase' = "narrate" /\ nightTurnQueue # <<>>
  BY DEF NextTurn
<1>2. LaterTurns' = LaterTurns
  BY DEF LaterTurns, IfEnabled
<1>3. CASE currentNightSubPhase = "opening"
  <2>1. nightTurnQueue = <<Mafia>> \o LaterTurns /\ LaterTurns \in Seq(Role)
    BY <1>3, LaterTurnsType DEF SpellInv, DeedInv, TurnsInOrder, NightOrder
  <2>2. currentNightRole' = Mafia /\ nightTurnQueue' = LaterTurns
    BY <1>1, <2>1
  <2> QED BY <1>2, <1>3, <2>2, SpellKept DEF BeforeConsort
<1>4. CASE currentNightSubPhase # "opening" /\ currentNightRole = Mafia
  <2>1. nightTurnQueue = LaterTurns
    BY <1>4 DEF SpellInv, ConsortFirst
  <2>2. nightTurnQueue' \in Seq(Role \ {Consort})
    BY <1>1, <2>1, ConsortWakesOnce
  <2>3. currentNightRole' # Mafia
    <3> DEFINE Other == Role \ {Mafia, Yakuza}
    <3>1. nightTurnQueue \in Seq(Other)
      BY <2>1, LaterTurnsType
    <3>2. Head(nightTurnQueue) \in Other
      <4> HIDE DEF Other
      <4> QED BY <1>1, <3>1
    <3> QED BY <1>1, <3>2
  <2> QED BY <1>4, <2>2, <2>3, SpellKept DEF BeforeConsort
<1>5. CASE currentNightSubPhase # "opening" /\ currentNightRole # Mafia
  <2> DEFINE Other == Role \ {Consort}
             Later == Role \ {Mafia, Yakuza}
  <2>1. nightTurnQueue \in Seq(Other) /\ nightTurnQueue \in Seq(Later)
    BY <1>5 DEF SpellInv, ConsortFirst, DeedInv, TurnsInOrder
  <2>2. /\ Head(nightTurnQueue) \in Other /\ Head(nightTurnQueue) \in Later
        /\ Tail(nightTurnQueue) \in Seq(Other)
    <3> HIDE DEF Other, Later
    <3> QED BY <1>1, <2>1
  <2>3. ~BeforeConsort' /\ currentNightRole' # Mafia /\ nightTurnQueue' \in Seq(Role \ {Consort})
    BY <1>1, <2>2 DEF BeforeConsort
  <2> QED BY <2>3, SpellKept
<1> QED BY <1>3, <1>4, <1>5

(* The rest of the night. *)
LEMMA SpellNight ==
  ASSUME SpellInv, DeedInv', NightNext, phase' = Night
  PROVE  SpellInv'
<1>1. ASSUME UNCHANGED <<phase, enabled, role, players, deedVars>>, phase = Night,
             UNCHANGED <<currentNightRole, nightTurnQueue>>,
             currentNightSubPhase # "opening", currentNightSubPhase' # "opening",
             currentNightSubPhase' \in {"narrate", "act"} => currentNightSubPhase \in {"narrate", "act"}
      PROVE  SpellInv'
  <2>1. LaterTurns' = LaterTurns
    BY <1>1 DEF LaterTurns, IfEnabled
  <2>2. BeforeConsort' => BeforeConsort
    BY <1>1 DEF BeforeConsort
  <2> QED BY <1>1, <2>1, <2>2, SpellKept DEF SpellInv, ConsortFirst
<1>2. CASE BeginNight
  <2>1. /\ phase # Night /\ UNCHANGED <<role, enabled, players, deedVars>>
        /\ currentNightSubPhase' = "opening"
    BY <1>2 DEF BeginNight, Lobby, Night, DayDiscussion, lobbyVars, boardVars
  <2>2. pendingNight' = NoTargets
    BY <2>1 DEF SpellInv, DeedInv, NoStaleDeeds, deedVars
  <2>3. OnlyMafiaActed'
    BY <2>2 DEF OnlyMafiaActed, Acted, NoTargets
  <2>4. ConsortFirst'
    BY <2>1, <2>3 DEF ConsortFirst
  <2>5. NeutralizedNeverActs'
    BY <2>3, MafiaAreImmune, PTL
  <2> QED BY <2>4, <2>5 DEF SpellInv
<1>3. ASSUME NEW a \in Player, NightPass(a)
      PROVE  SpellInv'
  <2>1. /\ UNCHANGED <<phase, enabled, role, players, deedVars>> /\ phase = Night
        /\ UNCHANGED <<currentNightRole, nightTurnQueue>>
        /\ currentNightSubPhase = "act" /\ currentNightSubPhase' = "ponder"
    BY <1>3 DEF NightPass, EnterPonder, EnterSubPhase, lobbyVars, boardVars, InPhase
  <2> QED BY <1>1, <2>1
<1>4. CASE AdvancePhase
  <2>1. phase = Night /\ UNCHANGED <<enabled, players>>
    BY <1>4 DEF AdvancePhase, InPhase, lobbyVars
  <2>2. CASE NextTurn /\ UNCHANGED <<phase, boardVars, deedVars>>
    BY <2>1, <2>2, SpellNextTurn DEF boardVars
  <2>3. CASE EndNarrate \/ EndAct \/ EndPonder \/ EndSleep
    <3>1. /\ UNCHANGED <<phase, role, deedVars>>
          /\ UNCHANGED <<currentNightRole, nightTurnQueue>>
          /\ currentNightSubPhase \in {"narrate", "act", "ponder", "sleep"}
          /\ currentNightSubPhase' \in {"act", "ponder", "sleep", "settle"}
          /\ currentNightSubPhase' = "act" => currentNightSubPhase = "narrate"
      BY <2>3
         DEF EndNarrate, EndAct, EndPonder, EndSleep, EnterPonder, EnterSubPhase, boardVars
    <3> QED BY <1>1, <2>1, <3>1
  <2>4. CASE ResolveAndExitNight
    <3>1. phase' # Night
      BY <2>4 DEF ResolveAndExitNight, ResolveDeaths, Night, DayDiscussion, Ended
    <3> QED BY <3>1
  <2> QED
    BY <1>4, <2>2, <2>3, <2>4 DEF AdvancePhase, EndOpening, EndSettle
<1> QED
  BY <1>2, <1>3, <1>4, SpellNightAction, SpellRecruit DEF NightNext

(* The invariant holds of the empty engine. *)
LEMMA SpellInit == Init => SpellInv
<1> SUFFICES ASSUME Init PROVE SpellInv
  OBVIOUS
<1>1. pendingNight = NoTargets /\ phase # Night
  BY DEF Init, Lobby, Night
<1> QED BY <1>1, DeedInit
       DEF SpellInv, ConsortFirst, NeutralizedNeverActs, Acted, NoTargets

(* No step breaks the invariant. *)
LEMMA SpellStep ==
  ASSUME SpellInv, [Next]_vars
  PROVE  SpellInv'
<1>1. DeedInv'
  BY DeedStep DEF SpellInv
<1>2. CASE phase' # Night
  BY <1>1, <1>2, SpellOff
<1>3. ASSUME phase' = Night, UNCHANGED <<phase, enabled, players, boardVars, turnVars, deedVars>>
      PROVE  SpellInv'
  <2>1. LaterTurns' = LaterTurns /\ BeforeConsort' = BeforeConsort
    BY <1>3 DEF LaterTurns, IfEnabled, BeforeConsort, turnVars
  <2> QED BY <1>1, <1>3, <2>1, SpellKept
          DEF SpellInv, ConsortFirst, boardVars, turnVars
<1>4. CASE phase' = Night /\ NightNext
  BY <1>1, <1>4, SpellNight
<1>5. LobbyNext =>
        \/ phase' # Night
        \/ UNCHANGED <<phase, enabled, players, boardVars, turnVars, deedVars>>
  BY DEF LobbyNext, CreateGame, AddPlayer, SetMafiaCount, SetOptional, StartGame, ResetGame,
         LobbyOpen, InPhase, Lobby, Night
<1>6. DayNext => phase' # Night
  BY DEF DayNext, OpenVoting, DayVote, RetractVote, DayAbstain, MayVote,
         BallotFrame, RevealVotes, ClearVotes, FinalizeVotes, ResolveDeaths,
         InPhase, DayDiscussion, DayVoting, Night, Ended
<1>7. UNCHANGED vars => UNCHANGED <<phase, enabled, players, boardVars, turnVars, deedVars>>
  BY DEF vars, lobbyVars
<1> QED BY <1>2, <1>3, <1>4, <1>5, <1>6, <1>7 DEF Next

(* However many of its members race for the window, the mafia faction gets *)
(* one deed a night.                                                       *)
THEOREM FactionActsOnceANight == Spec => []FactionActsOnce
<1>1. DeedInv => FactionActsOnce
  BY DEF DeedInv
<1> QED BY <1>1, DeedInvariant, PTL

(* No target and no recruit outlives its night, and while they stand they  *)
(* name living players.                                                    *)
THEOREM DeedsAreTonights == Spec => []NoStaleDeeds
<1>1. DeedInv => NoStaleDeeds
  BY DEF DeedInv
<1> QED BY <1>1, DeedInvariant, PTL

(* Nothing a neutralized player recorded is ever there to be nullified: in *)
(* whatever order commands come, who is blocked or recruited tonight has   *)
(* not acted and cannot act (rules_night.go:80, :465).                     *)
THEOREM NeutralizedAreSilent == Spec => []NeutralizedNeverActs
<1>1. SpellInv => NeutralizedNeverActs
  BY DEF SpellInv
<1>2. Spec => []SpellInv
  BY SpellInit, SpellStep, PTL DEF Spec
<1> QED BY <1>1, <1>2, PTL

-------------------------------------------------------------------------------
(* What a night does. *)

(* A faction that gets one deed has one victim at most, and none if that   *)
(* deed is a recruit.                                                      *)
LEMMA OneMafiaVictim ==
  ASSUME TypeOK, FactionActsOnce
  PROVE  /\ RecruitPending => MafiaVictims = {}
         /\ \E m : MafiaVictims \subseteq {m}
<1>1. IsFiniteSet(MafiaEntries) /\ Cardinality(MafiaEntries) \in Nat
  <2>1. IsFiniteSet(MafiaEntries)
    BY PlayerAssumption, FS_Subset DEF MafiaEntries
  <2> QED BY <2>1, FS_CardinalityType
<1>2. \/ MafiaEntries = {}
      \/ ~RecruitPending /\ \E a : MafiaEntries = {a}
  <2>1. \/ Cardinality(MafiaEntries) = 0
        \/ ~RecruitPending /\ Cardinality(MafiaEntries) = 1
    BY <1>1 DEF FactionActsOnce
  <2>2. Cardinality(MafiaEntries) = 0 => MafiaEntries = {}
    BY <1>1, FS_EmptySet
  <2>3. Cardinality(MafiaEntries) = 1 => \E a : MafiaEntries = {a}
    BY <1>1, FS_Singleton
  <2> QED BY <2>1, <2>2, <2>3, Zenon
<1>3. MafiaVictims \subseteq {pendingNight[a] : a \in MafiaEntries}
  BY MafiaFactionRoles
     DEF MafiaVictims, KillTargets, TargetsOf, Acting, MafiaEntries, Acted, TypeOK
<1> QED BY <1>2, <1>3

(* One vigilante, one shot. *)
LEMMA OneShotVictim ==
  ASSUME TypeOK, OneOf(Vigilante)
  PROVE  \E v : ShotVictims \subseteq {v}
<1>1. \A a, b \in Acting(Vigilante) : a = b
  BY DEF Acting, OneOf, TypeOK
<1>2. ShotVictims \subseteq {pendingNight[a] : a \in Acting(Vigilante)}
  BY DEF ShotVictims
<1>3. ASSUME NEW a \in Acting(Vigilante)
      PROVE  ShotVictims \subseteq {pendingNight[a]}
  BY <1>1, <1>2
<1>4. CASE Acting(Vigilante) = {}
  BY <1>2, <1>4
<1> QED BY <1>3, <1>4

(* A recorded shot is at somebody else, and there is a bullet for it. *)
AimedShot ==
  \A a \in Player :
    role[a] = Vigilante /\ Acted(a) => pendingNight[a] # a /\ ~vigilanteShotUsed

(* What the resolution of a night finds. *)
DawnInv == SpellInv /\ OneOf(Vigilante) /\ OneOf(Consort) /\ AimedShot

(* The invariant holds of the empty engine. *)
LEMMA DawnInit == Init => DawnInv
<1> SUFFICES ASSUME Init PROVE DawnInv
  OBVIOUS
<1>1. OneOf(Vigilante) /\ OneOf(Consort) /\ AimedShot
  BY DEF Init, OneOf, AimedShot, NoRole, Vigilante, Consort
<1> QED BY <1>1, SpellInit DEF DawnInv

(* Only the resolution of a night ends one. *)
LEMMA OnlyResolutionIsDawn ==
  ASSUME [Next]_vars, phase = Night, phase' # Night
  PROVE  ResolveAndExitNight /\ AdvancePhase
<1>1. ~LobbyNext
  BY DEF LobbyNext, CreateGame, AddPlayer, SetMafiaCount, SetOptional, StartGame,
         ResetGame, LobbyOpen, InPhase, Lobby, Night, Ended
<1>2. ~DayNext
  BY DEF DayNext, OpenVoting, DayVote, RetractVote, DayAbstain, MayVote, RevealVotes,
         ClearVotes, FinalizeVotes, InPhase, DayDiscussion, DayVoting, Night
<1>3. ~UNCHANGED vars
  BY DEF vars
<1>4. NightNext => ResolveAndExitNight /\ AdvancePhase
  BY DEF NightNext, BeginNight, NightAction, NightPass, Recruit, AdvancePhase, InPhase,
         EndOpening, EndNarrate, EndAct, EndPonder, EndSleep, EndSettle
<1> QED BY <1>1, <1>2, <1>3, <1>4 DEF Next

(* No step breaks the invariant. *)
LEMMA DawnStep ==
  ASSUME DawnInv, [Next]_vars
  PROVE  DawnInv'
<1>1. SpellInv'
  BY SpellStep DEF DawnInv
<1>2. OneOf(Vigilante)' /\ OneOf(Consort)'
  <2>1. Vigilante \in OptionalRole /\ Consort \in OptionalRole /\ TypeOK
    BY DEF OptionalRole, DawnInv, SpellInv, DeedInv
  <2> QED BY <2>1, OneOfStep DEF DawnInv
<1>3. ASSUME phase' # Night
      PROVE  AimedShot'
  BY <1>1, <1>3 DEF SpellInv, DeedInv, NoStaleDeeds, AimedShot, Acted, NoTargets
<1>4. ASSUME UNCHANGED <<pendingNight, role, vigilanteShotUsed>>
      PROVE  AimedShot'
  BY <1>4 DEF DawnInv, AimedShot, Acted
<1>5. ASSUME NEW a \in Player, NEW t \in Player, NightAction(a, t)
      PROVE  AimedShot'
  <2>1. /\ pendingNight' = [pendingNight EXCEPT ![a] = t] /\ MayTarget(a, t)
        /\ UNCHANGED <<role, vigilanteShotUsed>>
    BY <1>5 DEF NightAction, boardVars
  <2>2. /\ pendingNight'[a] = t
        /\ \A b \in Player \ {a} : pendingNight'[b] = pendingNight[b]
    BY <2>1 DEF DawnInv, SpellInv, DeedInv, TypeOK
  <2>3. role[a] = Vigilante => t # a /\ ~vigilanteShotUsed
    BY <2>1 DEF MayTarget, RejectsSelfTarget
  <2> QED BY <2>1, <2>2, <2>3 DEF DawnInv, AimedShot, Acted
<1>6. CASE LobbyNext
  <2>1. phase' # Night \/ UNCHANGED <<pendingNight, role, vigilanteShotUsed>>
    BY <1>6
       DEF LobbyNext, CreateGame, AddPlayer, SetMafiaCount, SetOptional, StartGame,
           ResetGame, LobbyOpen, InPhase, boardVars, deedVars, Lobby, Night
  <2> QED BY <1>1, <1>2, <1>3, <1>4, <2>1 DEF DawnInv
<1>7. CASE NightNext
  <2>1. \/ \E a, t \in Player : NightAction(a, t)
        \/ UNCHANGED <<pendingNight, role, vigilanteShotUsed>>
        \/ ResolveAndExitNight
    BY <1>7
       DEF NightNext, BeginNight, NightPass, Recruit, AdvancePhase, EndOpening, EndNarrate,
           EndAct, EndPonder, EndSleep, EndSettle, boardVars, deedVars
  <2>2. ResolveAndExitNight => phase' # Night
    BY DEF ResolveAndExitNight, ResolveDeaths, Night, DayDiscussion, Ended
  <2> QED BY <1>1, <1>2, <1>3, <1>4, <1>5, <2>1, <2>2 DEF DawnInv
<1>8. CASE DayNext
  <2>1. phase' # Night
    BY <1>8
       DEF DayNext, OpenVoting, DayVote, RetractVote, DayAbstain, MayVote, BallotFrame,
           RevealVotes, ClearVotes, FinalizeVotes, ResolveDeaths, InPhase, DayDiscussion,
           DayVoting, Night, Ended
  <2> QED BY <1>1, <1>2, <1>3, <2>1 DEF DawnInv
<1>9. CASE UNCHANGED vars
  BY <1>1, <1>2, <1>4, <1>9 DEF DawnInv, vars, boardVars, deedVars
<1> QED BY <1>6, <1>7, <1>8, <1>9 DEF Next

(* The invariant holds of every reachable state. *)
LEMMA DawnInvariant == Spec => []DawnInv
  BY DawnInit, DawnStep, PTL DEF Spec

(* Whoever recorded a deed carries it out: nobody is left to be nullified. *)
LEMMA ActedIsActing ==
  ASSUME SpellInv, NEW r
  PROVE  Acting(r) = {a \in players : Acted(a) /\ role[a] = r}
  BY DEF Acting, SpellInv, NeutralizedNeverActs, Acted, DeedInv, TypeOK

(* The targets of a role's actors are the players it attacked or saved. *)
LEMMA TargetsAreAttacked ==
  ASSUME SpellInv, NEW r, NEW p \in Player
  PROVE  p \in TargetsOf(r) <=> AttackedBy({r}, p)
<1>1. p # NoPlayer
  BY PlayerAssumption
<1> QED BY <1>1, ActedIsActing DEF TargetsOf, AttackedBy, Acted

(* A night's deaths are those its attacks call for. *)
LEMMA DeathsAtDawn ==
  ASSUME DawnInv, ResolveAndExitNight
  PROVE  DeathsHaveCauses
<1>1. /\ SpellInv /\ TypeOK /\ NoStaleDeeds /\ FactionActsOnce
      /\ OneOf(Vigilante) /\ AimedShot
      /\ alive' = AliveAtDawn /\ alive \subseteq players /\ players \subseteq Player
  BY DEF DawnInv, SpellInv, DeedInv, ResolveAndExitNight, ResolveDeaths, TypeOK
<1>2. \A p \in alive : p \in SaveTargets <=> AttackedBy({Doctor}, p)
  BY <1>1, TargetsAreAttacked DEF SaveTargets
<1>3. \A p \in alive : p \in KillTargets <=> AttackedBy({Mafia, Yakuza}, p)
  <2>1. \A p \in alive : AttackedBy({Mafia, Yakuza}, p) <=>
                           AttackedBy({Mafia}, p) \/ AttackedBy({Yakuza}, p)
    BY DEF AttackedBy
  <2> QED BY <1>1, <2>1, TargetsAreAttacked DEF KillTargets
<1>4. /\ \A p \in MafiaVictims : /\ p \in alive /\ p \notin SaveTargets
                                 /\ AttackedBy({Mafia, Yakuza}, p)
      /\ \A p \in alive : p \in KillTargets /\ p \notin SaveTargets => p \in MafiaVictims
  BY <1>3 DEF MafiaVictims
<1>5. \A p \in ShotVictims :
        /\ p \in alive /\ p \notin SaveTargets /\ p # recruitYakuza
        /\ \E a \in players : /\ pendingNight[a] = p /\ Acted(a)
                              /\ role[a] = Vigilante /\ a \in alive \ MafiaVictims
  BY <1>1, ActedIsActing DEF ShotVictims
<1>6. \A p \in alive \ alive' :
        p \in MafiaVictims \/ p \in ShotVictims \/ (RecruitPending /\ p = recruitYakuza)
  BY <1>1 DEF AliveAtDawn, AfterKills
<1>7. \A p \in alive \ alive' :
        \/ p = recruitYakuza
        \/ AttackedBy({Mafia, Yakuza, Vigilante}, p) /\ ~AttackedBy({Doctor}, p)
  BY <1>2, <1>4, <1>5, <1>6 DEF AttackedBy
<1>8. RecruitPending => recruitYakuza \notin alive'
  BY <1>1 DEF AliveAtDawn
<1>9. alive' \subseteq alive /\ alive' \cap MafiaVictims = {}
  BY <1>1 DEF AliveAtDawn, AfterKills
<1>10. ASSUME NEW v \in alive \ alive', role[v] = Vigilante, Acted(v)
       PROVE  pendingNight[v] \in alive'
  <2>1. /\ pendingNight[v] \in alive /\ pendingNight[v] # v /\ v \in Player
        /\ \A a \in players : role[a] = Vigilante => a = v
    BY <1>1, <1>10 DEF NoStaleDeeds, AimedShot, OneOf
  <2>2. RecruitPending => role[recruitYakuza] = Yakuza
    BY <1>1 DEF NoStaleDeeds
  <2>3. v \notin ShotVictims
    BY <1>5, <2>1
  <2>4. v \in MafiaVictims
    BY <1>6, <1>10, <2>2, <2>3 DEF Vigilante, Yakuza
  <2>5. ~RecruitPending /\ MafiaVictims = {v} /\ ShotVictims = {}
    BY <1>1, <1>5, <2>1, <2>4, OneMafiaVictim
  <2> QED BY <1>1, <2>1, <2>5 DEF AliveAtDawn, AfterKills
<1>11. \A p \in alive :
         AttackedBy({Mafia, Yakuza}, p) /\ ~AttackedBy({Doctor}, p) => p \notin alive'
  BY <1>2, <1>3, <1>4, <1>9
<1> QED BY <1>7, <1>8, <1>9, <1>10, <1>11 DEF DeathsHaveCauses

(* Every death of a night has its cause, every cause its death: the doctor *)
(* saves from attacks only, the yakuza's sacrifice stands, and a dead      *)
(* vigilante's shot hits nobody.                                           *)
THEOREM NightDeathsAreExplained == Spec => DeathsExplained
<1>1. DawnInv /\ [Next]_vars => [Dawn => DeathsHaveCauses]_vars
  BY DeathsAtDawn, OnlyResolutionIsDawn DEF Dawn
<1> QED BY <1>1, DawnInvariant, PTL DEF Spec, DeathsExplained

(* Nobody's role and no bullet changes on the way into a night or in it.   *)
LEMMA NightKeepsBoard ==
  ASSUME [Next]_vars, phase' = Night
  PROVE  UNCHANGED <<role, vigilanteShotUsed>>
<1>1. LobbyNext => UNCHANGED <<role, vigilanteShotUsed>>
  BY DEF LobbyNext, CreateGame, AddPlayer, SetMafiaCount, SetOptional, StartGame, ResetGame,
         LobbyOpen, InPhase, boardVars, Lobby, Night
<1>2. NightNext => UNCHANGED <<role, vigilanteShotUsed>>
  BY DEF NightNext, BeginNight, NightAction, NightPass, Recruit, AdvancePhase, EndOpening,
         EndNarrate, EndAct, EndPonder, EndSleep, EndSettle, ResolveAndExitNight,
         ResolveDeaths, boardVars, Night, DayDiscussion, Ended
<1>3. ~DayNext
  BY DEF DayNext, OpenVoting, DayVote, RetractVote, DayAbstain, MayVote, BallotFrame,
         RevealVotes, ClearVotes, FinalizeVotes, ResolveDeaths, InPhase, DayDiscussion,
         DayVoting, Night, Ended
<1> QED BY <1>1, <1>2, <1>3 DEF Next, vars, boardVars

(* Firing spends the bullet, hit or miss, and nothing else does: nobody    *)
(* fires twice in a game, and nobody is robbed of the shot.                *)
THEOREM OneBulletPerGame == Spec => OneBullet
<1>1. ASSUME DawnInv, [Next]_vars, rolesDealt, rolesDealt'
      PROVE  vigilanteShotUsed' <=> SpentByNow
  <2>1. CASE Dawn
    <3>1. vigilanteShotUsed' = (vigilanteShotUsed \/ VigilanteFired)
      BY <1>1, <2>1, OnlyResolutionIsDawn DEF Dawn, ResolveAndExitNight
    <3>2. VigilanteFired <=> \E a \in players : role[a] = Vigilante /\ Acted(a)
      BY <1>1, ActedIsActing DEF DawnInv, VigilanteFired
    <3> QED BY <2>1, <3>1, <3>2 DEF SpentByNow
  <2>2. CASE ~Dawn
    <3>1. UNCHANGED vigilanteShotUsed
      <4>1. LobbyNext => UNCHANGED vigilanteShotUsed
        BY <1>1
           DEF LobbyNext, CreateGame, AddPlayer, SetMafiaCount, SetOptional, StartGame,
               ResetGame, LobbyOpen, boardVars
      <4>2. AdvancePhase => UNCHANGED vigilanteShotUsed
        <5>1. ResolveAndExitNight => phase' # Night
          BY DEF ResolveAndExitNight, ResolveDeaths, Night, DayDiscussion, Ended
        <5> QED BY <2>2, <5>1
          DEF Dawn, AdvancePhase, InPhase, EndOpening, EndNarrate, EndAct, EndPonder,
              EndSleep, EndSettle, boardVars
      <4>3. NightNext /\ ~AdvancePhase => UNCHANGED vigilanteShotUsed
        BY DEF NightNext, BeginNight, NightAction, NightPass, Recruit, boardVars
      <4>4. DayNext => UNCHANGED vigilanteShotUsed
        BY DEF DayNext, OpenVoting, DayVote, RetractVote, DayAbstain, BallotFrame,
               RevealVotes, ClearVotes, FinalizeVotes, boardVars
      <4> QED BY <1>1, <4>1, <4>2, <4>3, <4>4 DEF Next, vars, boardVars
    <3> QED BY <1>1, <2>2, <3>1 DEF SpentByNow, DawnInv, SpellInv, DeedInv, TypeOK
  <2> QED BY <2>1, <2>2
<1>2. ASSUME DawnInv, DawnInv', [Next]_vars, NEW a \in players, role[a] = Vigilante, Acted(a)'
      PROVE  ~vigilanteShotUsed
  <2>1. a \in Player
    BY <1>2 DEF DawnInv, SpellInv, DeedInv, TypeOK
  <2>2. phase' = Night
    BY <1>2, <2>1 DEF DawnInv, SpellInv, DeedInv, NoStaleDeeds, Acted, NoTargets
  <2>3. UNCHANGED <<role, vigilanteShotUsed>>
    BY <1>2, <2>2, NightKeepsBoard
  <2> QED BY <1>2, <2>1, <2>3 DEF DawnInv, AimedShot
<1>3. DawnInv /\ DawnInv' /\ [Next]_vars =>
        [/\ rolesDealt /\ rolesDealt' => (vigilanteShotUsed' <=> SpentByNow)
         /\ \A a \in players :
              role[a] = Vigilante /\ Acted(a)' => ~vigilanteShotUsed]_vars
  BY <1>1, <1>2
<1> QED BY <1>3, DawnInvariant, PTL DEF Spec, OneBullet

(* A set inside a singleton has one member at most. *)
LEMMA AtMostOne ==
  ASSUME NEW x, NEW S, S \subseteq {x}
  PROVE  Cardinality(S) <= 1
<1>1. Cardinality({}) = 0 /\ Cardinality({x}) = 1
  BY FS_EmptySet, FS_Singleton
<1>2. S = {} \/ S = {x}
  OBVIOUS
<1>3. Cardinality(S) = 0 \/ Cardinality(S) = 1
  BY <1>1, <1>2, Zenon
<1> QED BY <1>3

(* Deaths promote the consort of a dead faction and touch nobody else. *)
LEMMA DeathsPromote ==
  ASSUME NEW al \in SUBSET Player, NEW ro \in [Player -> Role \cup {NoRole}],
         NEW next, ResolveDeaths(al, ro, next), NEW p \in Player, role'[p] # ro[p]
  PROVE  /\ role'[p] = Mafia /\ p \in alive' /\ ro[p] = Consort
         /\ FactionLiving(FactionMafia, alive', ro) = {}
  BY DEF ResolveDeaths, AfterPromotion, Promoted

(* A role changes only by a recruit that outlived the night as its yakuza  *)
(* did not, or by the consort's takeover; one at a time.                   *)
THEOREM RolesChangeByCause == Spec => RoleChangesExplained
<1> DEFINE Turned == {p \in Player : role'[p] # role[p]}
<1>1. ASSUME UNCHANGED role
      PROVE  RolesHaveCauses
  <2>1. Turned = {}
    BY <1>1
  <2>2. Cardinality(Turned) <= 1
    BY <2>1, AtMostOne
  <2> QED BY <2>1, <2>2 DEF RolesHaveCauses
<1>2. ASSUME DawnInv, NEW al \in SUBSET Player, ResolveDeaths(al, role, DayDiscussion)
      PROVE  RolesHaveCauses
  <2>1. TypeOK /\ OneOf(Consort)
    BY <1>2 DEF DawnInv, SpellInv, DeedInv
  <2>2. \A p \in Turned : /\ role'[p] = Mafia /\ p \in alive' /\ role[p] = Consort
                          /\ FactionLiving(FactionMafia, alive', role) = {}
    BY <1>2, <2>1, DeathsPromote DEF TypeOK
  <2>3. \E x : Turned \subseteq {x}
    BY <2>1, <2>2 DEF OneOf
  <2>4. Cardinality(Turned) <= 1
    BY <2>3, AtMostOne
  <2> QED BY <2>2, <2>4 DEF RolesHaveCauses
<1>3. ASSUME DawnInv, ResolveAndExitNight
      PROVE  RolesHaveCauses
  <2>1. /\ TypeOK /\ NoStaleDeeds
        /\ ResolveDeaths(AliveAtDawn, RolesAtDawn, DayDiscussion)
        /\ alive' = AliveAtDawn /\ AliveAtDawn \in SUBSET Player
        /\ RolesAtDawn \in [Player -> Role \cup {NoRole}]
    BY <1>3
       DEF DawnInv, SpellInv, DeedInv, ResolveAndExitNight, ResolveDeaths, TypeOK,
           AliveAtDawn, AfterKills, RolesAtDawn, Role
  <2>2. CASE Converts = {}
    <3>1. RolesAtDawn = role
      BY <2>1, <2>2 DEF RolesAtDawn, TypeOK
    <3> QED BY <1>2, <1>3, <2>1, <3>1
  <2>3. ASSUME NEW t \in Converts
        PROVE  RolesHaveCauses
    <3>1. /\ RecruitPending /\ t = recruitTarget /\ t \in AfterKills /\ IsRecruit(t)
          /\ \A p \in Converts : p = t
      BY <2>3 DEF Converts, IsRecruit
    <3>2. /\ recruitYakuza \in alive /\ role[recruitYakuza] = Yakuza
          /\ Faction(role[t]) # FactionMafia
      BY <2>1, <3>1 DEF NoStaleDeeds
    <3>3. t # recruitYakuza
      BY <3>2, MafiaFactionRoles
    <3>4. t \in alive' /\ recruitYakuza \in alive \ alive'
      BY <2>1, <3>1, <3>2, <3>3 DEF AliveAtDawn
    <3>5. t \in Player /\ RolesAtDawn[t] = Mafia
      BY <2>1, <2>3, <3>4 DEF RolesAtDawn
    <3>6. t \in FactionLiving(FactionMafia, alive', RolesAtDawn)
      BY <3>4, <3>5, MafiaFactionRoles DEF FactionLiving
    <3>7. \A p \in Player : role'[p] = RolesAtDawn[p]
      BY <2>1, <3>6, DeathsPromote
    <3>8. \A p \in Turned : p = t /\ role'[p] = Mafia
      BY <3>1, <3>5, <3>7 DEF RolesAtDawn
    <3>9. Cardinality(Turned) <= 1
      BY <3>8, AtMostOne
    <3> QED BY <3>1, <3>4, <3>8, <3>9 DEF RolesHaveCauses
  <2> QED BY <2>2, <2>3
<1>4. ASSUME DawnInv, [Next]_vars, rolesDealt, rolesDealt'
      PROVE  RolesHaveCauses
  <2>1. CASE LobbyNext
    <3>1. UNCHANGED role
      BY <1>4, <2>1
         DEF LobbyNext, CreateGame, AddPlayer, SetMafiaCount, SetOptional, StartGame,
             ResetGame, LobbyOpen, boardVars
    <3> QED BY <1>1, <3>1
  <2>2. CASE NightNext
    <3>1. ResolveAndExitNight \/ UNCHANGED role
      BY <2>2
         DEF NightNext, BeginNight, NightAction, NightPass, Recruit, AdvancePhase,
             EndOpening, EndNarrate, EndAct, EndPonder, EndSleep, EndSettle, boardVars
    <3> QED BY <1>1, <1>3, <1>4, <3>1
  <2>3. CASE DayNext
    <3>1. \/ UNCHANGED role
          \/ \E t : ResolveDeaths(alive \ {t}, role, DayDiscussion)
      BY <2>3
         DEF DayNext, OpenVoting, DayVote, RetractVote, DayAbstain, BallotFrame,
             RevealVotes, ClearVotes, FinalizeVotes, boardVars
    <3>2. \A t : alive \ {t} \in SUBSET Player
      BY <1>4 DEF DawnInv, SpellInv, DeedInv, TypeOK
    <3> QED BY <1>1, <1>2, <1>4, <3>1, <3>2
  <2>4. CASE UNCHANGED vars
    BY <1>1, <2>4 DEF vars, boardVars
  <2> QED BY <1>4, <2>1, <2>2, <2>3, <2>4 DEF Next
<1>5. DawnInv /\ [Next]_vars => [rolesDealt /\ rolesDealt' => RolesHaveCauses]_vars
  BY <1>4
<1> QED BY <1>5, DawnInvariant, PTL DEF Spec, RoleChangesExplained


-------------------------------------------------------------------------------
(* The order of the turns. *)

(* No value comes twice. *)
Distinct(s) == \A i, j \in 1 .. Len(s) : s[i] = s[j] => i = j

(* Sequences with nothing in common stay without repetition when joined. *)
LEMMA DistinctConcat ==
  ASSUME NEW S, NEW T, S \cap T = {}, NEW s \in Seq(S), NEW t \in Seq(T),
         Distinct(s), Distinct(t)
  PROVE  s \o t \in Seq(S \cup T) /\ Distinct(s \o t)
<1> DEFINE U == S \cup T
<1>1. s \in Seq(U) /\ t \in Seq(U)
  OBVIOUS
<1>2. s \o t \in Seq(U)
  <2> HIDE DEF U
  <2> QED BY <1>1
<1>3. /\ Len(s) \in Nat /\ Len(t) \in Nat /\ Len(s \o t) = Len(s) + Len(t)
      /\ \A i \in 1 .. Len(s) : s[i] \in S /\ (s \o t)[i] = s[i]
      /\ \A i \in 1 .. Len(t) : t[i] \in T
      /\ \A i \in Len(s) + 1 .. Len(s) + Len(t) : (s \o t)[i] = t[i - Len(s)]
  OBVIOUS
<1>4. ASSUME NEW i \in 1 .. Len(s \o t), NEW j \in 1 .. Len(s \o t), (s \o t)[i] = (s \o t)[j]
      PROVE  i = j
  <2>1. CASE i <= Len(s) /\ j <= Len(s)
    BY <1>3, <1>4, <2>1 DEF Distinct
  <2>2. CASE i > Len(s) /\ j > Len(s)
    <3>0. i - Len(s) \in 1 .. Len(t) /\ j - Len(s) \in 1 .. Len(t)
      BY <1>3, <2>2
    <3>1. PICK k \in 1 .. Len(t), l \in 1 .. Len(t) : k = i - Len(s) /\ l = j - Len(s)
      BY <3>0
    <3>2. t[k] = t[l]
      BY <1>3, <1>4, <2>2, <3>1
    <3>3. k = l
      BY <3>2 DEF Distinct
    <3> QED BY <1>3, <3>1, <3>3
  <2>3. CASE i <= Len(s) /\ j > Len(s)
    <3>1. (s \o t)[i] \in S /\ (s \o t)[j] \in T
      BY <1>3, <2>3
    <3> QED BY <1>4, <3>1
  <2>4. CASE i > Len(s) /\ j <= Len(s)
    <3>1. (s \o t)[i] \in T /\ (s \o t)[j] \in S
      BY <1>3, <2>4
    <3> QED BY <1>4, <3>1
  <2> QED BY <1>3, <2>1, <2>2, <2>3, <2>4
<1> QED BY <1>2, <1>4 DEF Distinct

(* Every role has one turn a night at most, and acts in it. *)
LEMMA EveryTurnIsOnce ==
  /\ NightOrder \in Seq(Role \ {Villager, Yakuza}) /\ Distinct(NightOrder)
  /\ Len(NightOrder) \in Nat /\ NightOrder[1] = Mafia
<1>1. ASSUME NEW r
      PROVE  /\ <<r>> \in Seq({r}) /\ Distinct(<<r>>)
             /\ IfEnabled(r) \in Seq({r}) /\ Distinct(IfEnabled(r))
  <2>1. <<r>> \in Seq({r}) /\ Len(<<r>>) = 1 /\ Len(<<>>) = 0 /\ <<>> \in Seq({r})
    OBVIOUS
  <2>2. Distinct(<<r>>) /\ Distinct(<<>>)
    BY <2>1 DEF Distinct
  <2>3. IfEnabled(r) \in {<<r>>, <<>>}
    BY DEF IfEnabled
  <2> QED BY <2>1, <2>2, <2>3
<1> DEFINE A == {Consort} \cup {Detective}
           B == A \cup {Vigilante}
           C == B \cup {Doctor}
           D == C \cup {Tracker}
           a == IfEnabled(Consort) \o <<Detective>>
           b == a \o IfEnabled(Vigilante)
           c == b \o <<Doctor>>
           d == c \o IfEnabled(Tracker)
<1>2. a \in Seq(A) /\ Distinct(a)
  <2>1. {Consort} \cap {Detective} = {}
    BY DEF Consort, Detective
  <2> QED BY <1>1, <2>1, DistinctConcat
<1>3. b \in Seq(B) /\ Distinct(b)
  <2>1. A \cap {Vigilante} = {}
    BY DEF Consort, Detective, Vigilante
  <2> HIDE DEF A, a
  <2> QED BY <1>1, <1>2, <2>1, DistinctConcat
<1>4. c \in Seq(C) /\ Distinct(c)
  <2>1. B \cap {Doctor} = {}
    BY DEF Consort, Detective, Vigilante, Doctor
  <2> HIDE DEF B, b
  <2> QED BY <1>1, <1>3, <2>1, DistinctConcat
<1>5. d \in Seq(D) /\ Distinct(d)
  <2>1. C \cap {Tracker} = {}
    BY DEF Consort, Detective, Vigilante, Doctor, Tracker
  <2> HIDE DEF C, c
  <2> QED BY <1>1, <1>4, <2>1, DistinctConcat
<1>6. LaterTurns = d
  BY DEF LaterTurns
<1>7. {Mafia} \cap D = {}
  BY DEF Consort, Detective, Vigilante, Doctor, Tracker, Mafia
<1>8. {Mafia} \cup D \subseteq Role \ {Villager, Yakuza}
  BY DEF Role, Consort, Detective, Vigilante, Doctor, Tracker, Mafia, Villager, Yakuza
<1> HIDE DEF D, d
<1> DEFINE E == Role \ {Villager, Yakuza}
<1>9. NightOrder \in Seq({Mafia} \cup D) /\ Distinct(NightOrder)
  <2>1. <<Mafia>> \o d \in Seq({Mafia} \cup D) /\ Distinct(<<Mafia>> \o d)
    BY <1>1, <1>5, <1>7, DistinctConcat
  <2> QED BY <1>6, <2>1 DEF NightOrder
<1>10. NightOrder \in Seq(E)
  <2> HIDE DEF E
  <2>1. {Mafia} \cup D \subseteq E
    BY <1>8 DEF E
  <2> QED BY <1>9, <2>1
<1>11. NightOrder[1] = Mafia
  BY <1>5, <1>6 DEF NightOrder
<1> QED BY <1>9, <1>10, <1>11

(* A role's index is the place of its turn. *)
LEMMA TurnIndexIs ==
  ASSUME NEW i \in 1 .. Len(NightOrder)
  PROVE  TurnIndex(NightOrder[i]) = i
<1>1. NightOrder[i] # NoRole /\ Distinct(NightOrder)
  <2>1. NightOrder[i] \in Role
    BY EveryTurnIsOnce
  <2> QED BY <2>1, EveryTurnIsOnce, RoleNames
<1>2. \A j \in 1 .. Len(NightOrder) : NightOrder[j] = NightOrder[i] => j = i
  BY <1>1 DEF Distinct
<1>3. (CHOOSE j \in 1 .. Len(NightOrder) : NightOrder[j] = NightOrder[i]) = i
  BY <1>2
<1> QED BY <1>1, <1>3 DEF TurnIndex

(* Of the night's turns, i have been called and the others are queued. *)
TurnsCalled(i) ==
  /\ currentNightRole = IF i = 0 THEN NoRole ELSE NightOrder[i]
  /\ Len(nightTurnQueue) = Len(NightOrder) - i
  /\ \A j \in 1 .. Len(nightTurnQueue) : nightTurnQueue[j] = NightOrder[i + j]

(* A night is at some point of its order of turns. *)
OnCue ==
  phase = Night =>
    \E i \in 0 .. Len(NightOrder) :
      TurnsCalled(i) /\ (i = 0 <=> currentNightSubPhase = "opening")

(* Where the cue stands can be told from the role it calls. *)
CueIsTurnIndex ==
  \A i \in 0 .. Len(NightOrder) : TurnsCalled(i) => TurnIndex(currentNightRole) = i

(* The role called gives the place away. *)
LEMMA TurnIndexOfCue == CueIsTurnIndex
<1> SUFFICES ASSUME NEW i \in 0 .. Len(NightOrder), TurnsCalled(i)
             PROVE  TurnIndex(currentNightRole) = i
  BY DEF CueIsTurnIndex
<1>1. Len(NightOrder) \in Nat
  BY EveryTurnIsOnce
<1>2. CASE i = 0
  BY <1>2 DEF TurnsCalled, TurnIndex
<1>3. CASE i # 0
  <2>1. i \in 1 .. Len(NightOrder)
    BY <1>1, <1>3
  <2> QED BY <1>3, <2>1, TurnIndexIs DEF TurnsCalled
<1> QED BY <1>2, <1>3

(* The next turn is the next of the order. *)
LEMMA NextTurnIsNext ==
  ASSUME TypeOK, NextTurn, UNCHANGED enabled, NEW i \in 0 .. Len(NightOrder), TurnsCalled(i)
  PROVE  i + 1 \in 1 .. Len(NightOrder) /\ TurnsCalled(i + 1)'
<1>1. /\ nightTurnQueue \in Seq(Role) /\ nightTurnQueue # <<>>
      /\ currentNightRole' = Head(nightTurnQueue) /\ nightTurnQueue' = Tail(nightTurnQueue)
      /\ NightOrder' = NightOrder
  BY DEF TypeOK, NextTurn, NightOrder, LaterTurns, IfEnabled
<1>2. /\ Len(nightTurnQueue) \in Nat \ {0} /\ Head(nightTurnQueue) = nightTurnQueue[1]
      /\ Len(Tail(nightTurnQueue)) = Len(nightTurnQueue) - 1
      /\ \A j \in 1 .. Len(nightTurnQueue) - 1 : Tail(nightTurnQueue)[j] = nightTurnQueue[j + 1]
  BY <1>1
<1>3. Len(NightOrder) \in Nat /\ i \in Nat
  BY EveryTurnIsOnce
<1>4. /\ Len(nightTurnQueue) = Len(NightOrder) - i
      /\ \A j \in 1 .. Len(nightTurnQueue) : nightTurnQueue[j] = NightOrder[i + j]
  BY DEF TurnsCalled
<1>5. i + 1 \in 1 .. Len(NightOrder) /\ currentNightRole' = NightOrder[i + 1]
  BY <1>1, <1>2, <1>3, <1>4
<1>6. \A j \in 1 .. Len(nightTurnQueue) - 1 : nightTurnQueue[j + 1] = NightOrder[i + 1 + j]
  <2>1. ASSUME NEW j \in 1 .. Len(nightTurnQueue) - 1
        PROVE  nightTurnQueue[j + 1] = NightOrder[i + 1 + j]
    <3>1. j + 1 \in 1 .. Len(nightTurnQueue) /\ i + (j + 1) = i + 1 + j
      BY <1>2, <1>3
    <3> QED BY <1>4, <3>1
  <2> QED BY <2>1
<1>7. /\ Len(nightTurnQueue') = Len(NightOrder) - (i + 1)
      /\ \A j \in 1 .. Len(nightTurnQueue') : nightTurnQueue'[j] = NightOrder[i + 1 + j]
  BY <1>1, <1>2, <1>3, <1>4, <1>6
<1>8. i + 1 # 0
  BY <1>3
<1> QED BY <1>1, <1>5, <1>7, <1>8 DEF TurnsCalled

-------------------------------------------------------------------------------
(* The steps of a night. *)

(* The next turn is called. *)
Calls ==
  /\ currentNightSubPhase \in {"opening", "settle"} /\ NextTurn
  /\ UNCHANGED <<deedVars, notices>>

(* Nothing but the clock moves, and it does not open or close a window. *)
Waits ==
  /\ currentNightSubPhase = "opening" <=> currentNightSubPhase' = "opening"
  /\ currentNightSubPhase \in {"narrate", "act"} <=> currentNightSubPhase' \in {"narrate", "act"}
  /\ UNCHANGED <<currentNightRole, nightTurnQueue, deedVars, notices>>

(* A turn ends in which nothing is done. *)
Ponders ==
  /\ currentNightSubPhase \in {"narrate", "act"} /\ EnterPonder({})
  /\ UNCHANGED deedVars

(* Only nightfall begins a night. *)
LEMMA OnlyDuskIsNightfall ==
  ASSUME [Next]_vars, phase # Night, phase' = Night
  PROVE  BeginNight
<1>1. ~LobbyNext
  BY DEF LobbyNext, CreateGame, AddPlayer, SetMafiaCount, SetOptional, StartGame,
         ResetGame, Lobby, Night
<1>2. ~DayNext
  BY DEF DayNext, OpenVoting, DayVote, RetractVote, DayAbstain, BallotFrame, RevealVotes,
         ClearVotes, FinalizeVotes, ResolveDeaths, DayDiscussion, DayVoting, Night, Ended
<1>3. NightNext => BeginNight
  BY DEF NightNext, NightAction, NightPass, Recruit, AdvancePhase, InPhase
<1> QED BY <1>1, <1>2, <1>3 DEF Next, vars

(* A night that goes on. *)
LEMMA NightLasts ==
  ASSUME [Next]_vars, phase = Night, phase' = Night
  PROVE  /\ UNCHANGED <<enabled, players, role, alive>>
         /\ \/ Calls
            \/ Waits
            \/ Ponders
            \/ \E a, t \in Player : NightAction(a, t)
            \/ \E y, t \in Player : Recruit(y, t)
<1>1. ~DayNext
  BY DEF DayNext, OpenVoting, DayVote, RetractVote, DayAbstain, MayVote, RevealVotes,
         ClearVotes, FinalizeVotes, InPhase, DayDiscussion, DayVoting, Night
<1>2. UNCHANGED <<enabled, players, role, alive, turnVars, deedVars, notices>> =>
        UNCHANGED <<enabled, players, role, alive>> /\ Waits
  BY DEF Waits, turnVars
<1>3. LobbyNext \/ UNCHANGED vars =>
        UNCHANGED <<enabled, players, role, alive, turnVars, deedVars, notices>>
  BY DEF LobbyNext, CreateGame, AddPlayer, SetMafiaCount, SetOptional, StartGame,
         ResetGame, LobbyOpen, InPhase, Lobby, Night, vars, boardVars, lobbyVars
<1>4. CASE BeginNight
  BY <1>4 DEF BeginNight, Lobby, Night, DayDiscussion
<1>5. ASSUME NEW a \in Player, NEW t \in Player, NightAction(a, t) \/ Recruit(a, t)
      PROVE  UNCHANGED <<enabled, players, role, alive>>
  BY <1>5 DEF NightAction, Recruit, lobbyVars, boardVars
<1>6. ASSUME NEW a \in Player, NightPass(a)
      PROVE  UNCHANGED <<enabled, players, role, alive>> /\ Ponders
  BY <1>6 DEF NightPass, Ponders, lobbyVars, boardVars
<1>7. CASE AdvancePhase
  <2>1. UNCHANGED <<enabled, players>>
    BY <1>7 DEF AdvancePhase, lobbyVars
  <2>2. ~ResolveAndExitNight
    BY DEF ResolveAndExitNight, ResolveDeaths, Night, DayDiscussion, Ended
  <2>3. UNCHANGED <<role, alive>>
    BY <1>7, <2>2
       DEF AdvancePhase, EndOpening, EndNarrate, EndAct, EndPonder, EndSleep, EndSettle, boardVars
  <2>4. EndOpening \/ EndSettle => Calls
    BY <2>2 DEF EndOpening, EndSettle, Calls
  <2>5. EndNarrate => Ponders \/ Waits
    BY DEF EndNarrate, Ponders, Waits, EnterSubPhase
  <2>6. EndAct => Ponders
    BY DEF EndAct, Ponders
  <2>7. EndPonder \/ EndSleep => Waits
    BY DEF EndPonder, EndSleep, Waits, EnterSubPhase
  <2> QED BY <1>7, <2>1, <2>3, <2>4, <2>5, <2>6, <2>7 DEF AdvancePhase
<1> QED BY <1>1, <1>2, <1>3, <1>4, <1>5, <1>6, <1>7 DEF Next, NightNext

(* While a turn lasts the cue stays. *)
LEMMA SameCue ==
  ASSUME UNCHANGED <<enabled, currentNightRole, nightTurnQueue>>, NEW i
  PROVE  NightOrder' = NightOrder /\ (TurnsCalled(i) => TurnsCalled(i)')
  BY DEF TurnsCalled, NightOrder, LaterTurns, IfEnabled

(* What a step of a night does to its cue. *)
LEMMA CueStep ==
  ASSUME TypeOK, [Next]_vars, phase = Night, phase' = Night,
         NEW i \in 0 .. Len(NightOrder), TurnsCalled(i), i = 0 <=> currentNightSubPhase = "opening"
  PROVE  /\ NightOrder' = NightOrder
         /\ \E j \in {i, i + 1} :
              /\ j \in 0 .. Len(NightOrder) /\ TurnsCalled(j)'
              /\ j = 0 <=> currentNightSubPhase' = "opening"
<1>1. UNCHANGED enabled
  BY NightLasts
<1>2. NightOrder' = NightOrder /\ Len(NightOrder) \in Nat /\ i \in Nat
  BY <1>1, EveryTurnIsOnce DEF NightOrder, LaterTurns, IfEnabled
<1>3. CASE Calls
  <2>1. currentNightSubPhase' = "narrate" /\ NextTurn
    BY <1>3 DEF Calls, NextTurn
  <2>2. i + 1 \in 1 .. Len(NightOrder) /\ TurnsCalled(i + 1)'
    BY <1>1, <2>1, NextTurnIsNext
  <2> QED BY <1>2, <2>1, <2>2
<1>4. CASE /\ UNCHANGED <<currentNightRole, nightTurnQueue>>
           /\ currentNightSubPhase = "opening" <=> currentNightSubPhase' = "opening"
  BY <1>1, <1>2, <1>4, SameCue
<1>5. Waits \/ Ponders \/ (\E a, t \in Player : NightAction(a, t) \/ Recruit(a, t)) =>
        /\ UNCHANGED <<currentNightRole, nightTurnQueue>>
        /\ currentNightSubPhase = "opening" <=> currentNightSubPhase' = "opening"
  BY DEF Waits, Ponders, NightAction, Recruit, EnterPonder, EnterSubPhase
<1> QED BY <1>3, <1>4, <1>5, NightLasts

(* The moderator's cues come in order. *)
LEMMA OnCueStep ==
  ASSUME TypeOK, OnCue, [Next]_vars
  PROVE  OnCue'
<1>1. CASE phase' = Night /\ phase # Night
  <2>1. BeginNight
    BY <1>1, OnlyDuskIsNightfall
  <2>2. /\ NightOrder' = NightOrder /\ nightTurnQueue' = NightOrder /\ currentNightRole' = NoRole
        /\ currentNightSubPhase' = "opening"
    BY <2>1 DEF BeginNight, NightOrder, LaterTurns, IfEnabled, lobbyVars
  <2>3. Len(NightOrder) \in Nat /\ \A j \in 1 .. Len(NightOrder) : 0 + j = j
    BY EveryTurnIsOnce
  <2>4. TurnsCalled(0)'
    BY <2>2, <2>3 DEF TurnsCalled
  <2> QED BY <2>2, <2>3, <2>4 DEF OnCue
<1>2. CASE phase' = Night /\ phase = Night
  <2>1. PICK i \in 0 .. Len(NightOrder) :
          TurnsCalled(i) /\ (i = 0 <=> currentNightSubPhase = "opening")
    BY <1>2 DEF OnCue
  <2> QED BY <1>2, <2>1, CueStep DEF OnCue
<1> QED BY <1>1, <1>2 DEF OnCue

(* Every night is on cue. *)
LEMMA OnCueInvariant == Spec => [](TypeOK /\ OnCue)
<1>1. Init => TypeOK /\ OnCue
  BY TypeInit DEF Init, OnCue, Lobby, Night
<1>2. TypeOK /\ OnCue /\ [Next]_vars => TypeOK' /\ OnCue'
  BY TypeStep, OnCueStep
<1> QED BY <1>1, <1>2, PTL DEF Spec

(* The moderator's cues are the same every night: one after the other, all *)
(* of them, whoever is alive to hear theirs (rules_phase.go:434).          *)
THEOREM EveryNightIsCalledAlike == Spec => SameCadenceEveryNight
<1> DEFINE Cadence ==
             phase = Night =>
               IF phase' = Night
                 THEN TurnIndex(currentNightRole') \in
                        {TurnIndex(currentNightRole), TurnIndex(currentNightRole) + 1}
                 ELSE TurnIndex(currentNightRole) = Len(NightOrder)
<1>1. ASSUME TypeOK, OnCue, [Next]_vars, phase = Night PROVE Cadence
  <2>1. PICK i \in 0 .. Len(NightOrder) :
          TurnsCalled(i) /\ (i = 0 <=> currentNightSubPhase = "opening")
    BY <1>1 DEF OnCue
  <2>2. TurnIndex(currentNightRole) = i
    BY <2>1, TurnIndexOfCue DEF CueIsTurnIndex
  <2>3. CASE phase' = Night
    <3>1. PICK j \in {i, i + 1} :
            NightOrder' = NightOrder /\ j \in 0 .. Len(NightOrder) /\ TurnsCalled(j)'
      BY <1>1, <2>1, <2>3, CueStep
    <3>2. CueIsTurnIndex'
      BY TurnIndexOfCue, PTL
    <3>3. TurnIndex(currentNightRole)' = j
      BY <3>1, <3>2 DEF CueIsTurnIndex
    <3>4. TurnIndex(currentNightRole)' = TurnIndex(currentNightRole')
      BY <3>1 DEF TurnIndex
    <3> QED BY <2>2, <2>3, <3>1, <3>3, <3>4
  <2>4. CASE phase' # Night
    <3>1. ResolveAndExitNight /\ AdvancePhase
      BY <1>1, <2>4, OnlyResolutionIsDawn
    <3>2. nightTurnQueue = <<>>
      BY <1>1, <2>4, <3>1
         DEF AdvancePhase, EndOpening, EndNarrate, EndAct, EndPonder, EndSleep, EndSettle
    <3>3. Len(nightTurnQueue) = 0 /\ Len(NightOrder) \in Nat
      BY <3>2, EveryTurnIsOnce
    <3> QED BY <1>1, <2>1, <2>2, <2>4, <3>3 DEF TurnsCalled
  <2> QED BY <2>3, <2>4
<1>2. TypeOK /\ OnCue /\ [Next]_vars => [Cadence]_vars
  BY <1>1
<1> QED BY <1>2, OnCueInvariant, PTL DEF Spec, SameCadenceEveryNight


-------------------------------------------------------------------------------
(* What players are told in the night. *)

(* r comes in s. *)
Has(s, r) == \E i \in 1 .. Len(s) : s[i] = r

(* The roles in play are those of every roster and those toggled on. *)
RolesAreCalled ==
  \A p \in Player :
    role[p] # NoRole =>
      rolesDealt /\ role[p] \in {Mafia, Detective, Doctor, Villager} \cup enabled

(* The turn of r has not come tonight, or its window is still open. *)
TurnAhead(r) ==
  \/ currentNightSubPhase = "opening"
  \/ Has(nightTurnQueue, r)
  \/ currentNightRole = r /\ currentNightSubPhase \in {"narrate", "act"}

(* A notice of the night says what is true for the rest of it. *)
ToldRight(n) ==
  /\ n.kind = "recruited" =>
       /\ IsRecruit(n.to) /\ HasNightAction(role[n.to])
       /\ n = NoticeTo("recruited", n.to, role[n.to])
  /\ n.kind = "blocked" => ~IsRecruit(n.to)
  /\ n.kind = "is_mafia" => ReadsMafia(n.about)
  /\ n.kind = "not_mafia" => ~ReadsMafia(n.about)
  /\ n.kind = "visit" /\ Faction(role[n.about]) = FactionMafia =>
       n.visit = TrackedVisit(n.about)

(* The recruit who has a turn hears of the recruit in it. *)
RecruitHears ==
  RecruitPending /\ HasNightAction(role[recruitTarget]) =>
    \/ TurnAhead(role[recruitTarget])
    \/ NoticeTo("recruited", recruitTarget, role[recruitTarget]) \in notices

(* Nothing is said in the mafia's turn, and what is said later is right. *)
NoticesInv ==
  phase = Night =>
    /\ MafiaTurnAhead => notices = {}
    /\ \A n \in notices : ToldRight(n)
    /\ RecruitHears


(* What comes in a part comes in the whole. *)
LEMMA HasConcat ==
  ASSUME NEW S, NEW s \in Seq(S), NEW t \in Seq(S), NEW r, Has(s, r) \/ Has(t, r)
  PROVE  s \o t \in Seq(S) /\ Has(s \o t, r)
<1>1. /\ Len(s) \in Nat /\ Len(t) \in Nat /\ Len(s \o t) = Len(s) + Len(t)
      /\ \A i \in 1 .. Len(s) : (s \o t)[i] = s[i]
      /\ \A i \in Len(s) + 1 .. Len(s) + Len(t) : (s \o t)[i] = t[i - Len(s)]
      /\ s \o t \in Seq(S)
  OBVIOUS
<1>2. CASE Has(s, r)
  BY <1>1, <1>2 DEF Has
<1>3. CASE Has(t, r)
  <2>1. PICK j \in 1 .. Len(t) : t[j] = r
    BY <1>3 DEF Has
  <2>2. /\ j + Len(s) \in Len(s) + 1 .. Len(s) + Len(t) /\ (j + Len(s)) - Len(s) = j
        /\ j + Len(s) \in 1 .. Len(s \o t)
    BY <1>1
  <2>3. (s \o t)[j + Len(s)] = r
    BY <1>1, <2>1, <2>2
  <2> QED BY <1>1, <2>2, <2>3 DEF Has
<1> QED BY <1>2, <1>3

(* Every role that acts, other than the mafia's, has a turn of its own. *)
LEMMA EveryRoleHasATurn ==
  ASSUME NEW r, HasNightAction(r), r \notin {Mafia, Yakuza},
         r \in {Mafia, Detective, Doctor, Villager} \cup enabled
  PROVE  Has(LaterTurns, r)
<1>1. \A q \in Role : IfEnabled(q) \in Seq(Role) /\ <<q>> \in Seq(Role) /\ Has(<<q>>, q)
  BY DEF IfEnabled, Has
<1>2. \A q \in Role : q \in enabled => Has(IfEnabled(q), q)
  BY <1>1 DEF IfEnabled
<1>3. {Consort, Detective, Vigilante, Doctor, Tracker} \subseteq Role
  BY DEF Role
<1> DEFINE a == IfEnabled(Consort) \o <<Detective>>
           b == a \o IfEnabled(Vigilante)
           c == b \o <<Doctor>>
           d == c \o IfEnabled(Tracker)
<1>4. \A s, t \in Seq(Role) : s \o t \in Seq(Role) /\ (Has(s, r) \/ Has(t, r) => Has(s \o t, r))
  BY HasConcat
<1>5. /\ a \in Seq(Role)
      /\ Has(IfEnabled(Consort), r) \/ Has(<<Detective>>, r) => Has(a, r)
  BY <1>1, <1>3, <1>4
<1>6. b \in Seq(Role) /\ (Has(a, r) \/ Has(IfEnabled(Vigilante), r) => Has(b, r))
  <2> HIDE DEF a
  <2> QED BY <1>1, <1>3, <1>4, <1>5
<1>7. c \in Seq(Role) /\ (Has(b, r) \/ Has(<<Doctor>>, r) => Has(c, r))
  <2> HIDE DEF b
  <2> QED BY <1>1, <1>3, <1>4, <1>6
<1>8. Has(c, r) \/ Has(IfEnabled(Tracker), r) => Has(d, r)
  <2> HIDE DEF c
  <2> QED BY <1>1, <1>3, <1>4, <1>7
<1>9. LaterTurns = d
  BY DEF LaterTurns
<1> HIDE DEF a, b, c, d
<1>10. r \in {Consort, Detective, Vigilante, Doctor, Tracker}
  BY DEF HasNightAction, Role
<1>11. /\ r \in {Consort, Vigilante, Tracker} => r \in enabled
       /\ r \in {Consort, Vigilante, Tracker} => r \notin {Mafia, Detective, Doctor, Villager}
  BY DEF Consort, Vigilante, Tracker, Mafia, Detective, Doctor, Villager
<1> QED BY <1>1, <1>2, <1>3, <1>5, <1>6, <1>7, <1>8, <1>9, <1>10, <1>11

(* A running game keeps its toggles and deals no new roles. *)
LEMMA RolesCalledStep ==
  ASSUME TypeOK, NoStaleDeeds, RolesAreCalled, [Next]_vars
  PROVE  RolesAreCalled'
<1>1. CASE StartGame
  <2>1. PICK d \in Deals : role' = [p \in Player |-> IF p \in players THEN d[p] ELSE NoRole]
    BY <1>1 DEF StartGame
  <2>2. \A p \in players : d[p] \in {Mafia, Detective, Doctor, Villager} \cup enabled
    BY DEF Deals
  <2> QED BY <1>1, <2>1, <2>2 DEF StartGame, RolesAreCalled
<1>2. CASE ResetGame
  BY <1>2 DEF ResetGame, ResetBoard, RolesAreCalled
<1>3. ASSUME UNCHANGED role, ~rolesDealt
      PROVE  RolesAreCalled'
  BY <1>3 DEF RolesAreCalled
<1>4. ASSUME UNCHANGED <<rolesDealt, enabled>>,
             \A p \in Player : role'[p] = role[p] \/ (role'[p] = Mafia /\ rolesDealt)
      PROVE  RolesAreCalled'
  BY <1>4 DEF RolesAreCalled
<1>5. UNCHANGED <<rolesDealt, enabled, role>> => RolesAreCalled'
  BY DEF RolesAreCalled
<1>6. ASSUME NEW al, NEW ro \in [Player -> Role \cup {NoRole}], NEW next,
             ResolveDeaths(al, ro, next), NEW p \in Player
      PROVE  role'[p] = ro[p] \/ (role'[p] = Mafia /\ ro[p] = Consort)
  BY <1>6 DEF ResolveDeaths, AfterPromotion, Promoted
<1>7. CASE AdvancePhase
  <2>1. UNCHANGED <<rolesDealt, enabled>>
    BY <1>7 DEF AdvancePhase, lobbyVars
  <2>2. ASSUME ResolveAndExitNight
        PROVE  RolesAreCalled'
    <3>1. RolesAtDawn \in [Player -> Role \cup {NoRole}]
      BY RoleNames DEF RolesAtDawn, TypeOK
    <3>2. ASSUME NEW p \in Player
          PROVE  RolesAtDawn[p] = role[p] \/ (RolesAtDawn[p] = Mafia /\ rolesDealt)
      <4>1. p \in Converts => rolesDealt
        BY RoleNames DEF Converts, IsRecruit, NoStaleDeeds, RolesAreCalled, TypeOK
      <4> QED BY <4>1 DEF RolesAtDawn
    <3>3. ASSUME NEW p \in Player
          PROVE  role'[p] = role[p] \/ (role'[p] = Mafia /\ rolesDealt)
      <4>1. role'[p] = RolesAtDawn[p] \/ (role'[p] = Mafia /\ RolesAtDawn[p] = Consort)
        BY <1>6, <2>2, <3>1 DEF ResolveAndExitNight
      <4>2. role[p] = Consort => rolesDealt
        BY RoleNames DEF RolesAreCalled
      <4> QED BY <3>2, <4>1, <4>2, RoleNames
    <3> QED BY <1>4, <2>1, <3>3
  <2>3. ResolveAndExitNight \/ UNCHANGED role
    BY <1>7
       DEF AdvancePhase, EndOpening, EndNarrate, EndAct, EndPonder, EndSleep, EndSettle, boardVars
  <2> QED BY <1>5, <2>1, <2>2, <2>3
<1>8. CASE FinalizeVotes
  <2>1. UNCHANGED <<rolesDealt, enabled>>
    BY <1>8 DEF FinalizeVotes, lobbyVars
  <2>2. UNCHANGED role \/ \E t : ResolveDeaths(alive \ {t}, role, DayDiscussion)
    BY <1>8 DEF FinalizeVotes
  <2>3. role \in [Player -> Role \cup {NoRole}]
    BY DEF TypeOK
  <2>4. \A p \in Player : role[p] = Consort => rolesDealt
    BY RoleNames DEF RolesAreCalled
  <2> QED BY <1>4, <1>5, <1>6, <2>1, <2>2, <2>3, <2>4
<1>9. LobbyNext => \/ StartGame \/ ResetGame
                   \/ UNCHANGED <<rolesDealt, enabled, role>>
                   \/ UNCHANGED role /\ ~rolesDealt
  BY DEF LobbyNext, CreateGame, AddPlayer, SetMafiaCount, SetOptional, LobbyOpen, boardVars
<1>10. NightNext => AdvancePhase \/ UNCHANGED <<rolesDealt, enabled, role>>
  BY DEF NightNext, BeginNight, NightAction, NightPass, Recruit, lobbyVars, boardVars
<1>11. DayNext => FinalizeVotes \/ UNCHANGED <<rolesDealt, enabled, role>>
  BY DEF DayNext, OpenVoting, DayVote, RetractVote, DayAbstain, BallotFrame, RevealVotes,
         ClearVotes, lobbyVars, boardVars
<1>12. UNCHANGED vars => UNCHANGED <<rolesDealt, enabled, role>>
  BY DEF vars, lobbyVars, boardVars
<1> QED BY <1>1, <1>2, <1>3, <1>5, <1>7, <1>8, <1>9, <1>10, <1>11, <1>12 DEF Next


(* The role called is one that acts. *)
LEMMA CalledRoleActs ==
  ASSUME OnCue, phase = Night, currentNightSubPhase # "opening"
  PROVE  HasNightAction(currentNightRole)
<1>1. PICK i \in 0 .. Len(NightOrder) : TurnsCalled(i) /\ i # 0
  BY DEF OnCue
<1>2. i \in 1 .. Len(NightOrder) /\ currentNightRole = NightOrder[i]
  BY <1>1, EveryTurnIsOnce DEF TurnsCalled
<1> QED BY <1>2, EveryTurnIsOnce DEF HasNightAction

(* While roles, recruit and the faction's target stand, what was told does. *)
LEMMA RightStays ==
  ASSUME UNCHANGED <<role, recruitYakuza, recruitTarget>>,
         FactionNightTarget' = FactionNightTarget, NEW n, ToldRight(n)
  PROVE  ToldRight(n)'
<1>1. IsRecruit(n.to)' <=> IsRecruit(n.to)
  BY DEF IsRecruit, RecruitPending
<1>2. ReadsMafia(n.about)' <=> ReadsMafia(n.about)
  BY DEF ReadsMafia, IsRecruit, RecruitPending
<1>3. Faction(role[n.about]) = FactionMafia => TrackedVisit(n.about)' = TrackedVisit(n.about)
  BY DEF TrackedVisit, Visits
<1> QED BY <1>1, <1>2, <1>3 DEF ToldRight

(* A turn's ponder tells its holder right ... *)
LEMMA PonderTellsRight ==
  ASSUME HasNightAction(currentNightRole), NEW pend,
         NEW n \in PonderNotices(currentNightRole, pend)
  PROVE  ToldRight(n)
<1>1. \/ \E p \in LivingHolders(currentNightRole) :
           IsRecruit(p) /\ n = NoticeTo("recruited", p, currentNightRole)
      \/ \E p \in LivingHolders(currentNightRole) :
           ~IsRecruit(p) /\ n = NoticeTo("blocked", p, currentNightRole)
  BY DEF PonderNotices
<1> QED BY <1>1 DEF ToldRight, NoticeTo, LivingHolders

(* ... and so does a submission its actor. *)
LEMMA ActionTellsRight ==
  ASSUME NEW a \in Player, NEW t \in Player, NEW n \in ActionNotices(a, t)
  PROVE  ToldRight(n)
<1>1. CASE role[a] = Detective
  <2>1. n.kind = (IF ReadsMafia(t) THEN "is_mafia" ELSE "not_mafia") /\ n.about = t
    BY <1>1 DEF ActionNotices, Detective, Tracker
  <2> QED BY <2>1 DEF ToldRight
<1>2. CASE role[a] = Tracker
  <2>1. n.kind = "visit" /\ n.about = t /\ n.visit = TrackedVisit(t)
    BY <1>2 DEF ActionNotices, Detective, Tracker
  <2> QED BY <2>1 DEF ToldRight
<1>3. CASE role[a] # Detective /\ role[a] # Tracker
  BY <1>3 DEF ActionNotices
<1> QED BY <1>1, <1>2, <1>3


(* A turn that ends with a ponder. *)
LEMMA NoticesPonder ==
  ASSUME DeedInv, OnCue, NoticesInv, phase = Night,
         UNCHANGED <<role, alive, recruitYakuza, recruitTarget>>,
         FactionNightTarget' = FactionNightTarget,
         currentNightSubPhase \in {"narrate", "act"},
         NEW said, \A n \in said : ToldRight(n), EnterPonder(said)
  PROVE  NoticesInv'
<1> DEFINE heard == PonderNotices(currentNightRole, pendingNight')
<1>1. /\ currentNightSubPhase' = "ponder" /\ notices' = notices \cup said \cup heard
      /\ UNCHANGED <<currentNightRole, nightTurnQueue>>
  BY DEF EnterPonder, EnterSubPhase
<1>2. ~MafiaTurnAhead'
  BY <1>1 DEF MafiaTurnAhead
<1>3. ASSUME NEW n \in notices'
      PROVE  ToldRight(n)'
  <2>1. HasNightAction(currentNightRole)
    BY CalledRoleActs
  <2>2. n \in heard => ToldRight(n)
    BY <2>1, PonderTellsRight
  <2>3. ToldRight(n)
    BY <1>1, <1>3, <2>2 DEF NoticesInv
  <2> QED BY <2>3, RightStays
<1>4. RecruitHears'
  <2> DEFINE r == role[recruitTarget]
  <2>1. SUFFICES ASSUME RecruitPending, HasNightAction(r)
                 PROVE  TurnAhead(r)' \/ NoticeTo("recruited", recruitTarget, r) \in notices'
    BY DEF RecruitHears, RecruitPending
  <2>2. TurnAhead(r) \/ NoticeTo("recruited", recruitTarget, r) \in notices
    BY <2>1 DEF NoticesInv, RecruitHears
  <2>3. recruitTarget \in alive /\ r # Mafia
    BY <2>1, MafiaFactionRoles DEF DeedInv, NoStaleDeeds
  <2>4. CASE Has(nightTurnQueue, r)
    BY <1>1, <2>4 DEF TurnAhead, Has
  <2>5. CASE currentNightRole = r
    <3>1. recruitTarget \in LivingHolders(currentNightRole) /\ IsRecruit(recruitTarget)
      BY <2>1, <2>3, <2>5 DEF LivingHolders, IsRecruit
    <3>2. NoticeTo("recruited", recruitTarget, r) \in heard
      BY <2>3, <2>5, <3>1 DEF PonderNotices
    <3> QED BY <1>1, <3>2
  <2>6. CASE NoticeTo("recruited", recruitTarget, r) \in notices
    BY <1>1, <2>6
  <2> QED BY <2>2, <2>4, <2>5, <2>6 DEF TurnAhead
<1> QED BY <1>2, <1>3, <1>4 DEF NoticesInv

(* The deed of the mafia's turn: nobody is told anything yet, and a recruit *)
(* with a turn has it ahead.                                                *)
LEMMA NoticesMafiaDeed ==
  ASSUME SpellInv, NoStaleDeeds', RolesAreCalled, NoticesInv, currentNightRole = Mafia,
         NEW a \in Player, NEW t \in Player, NightAction(a, t) \/ Recruit(a, t)
  PROVE  NoticesInv'
<1>1. /\ phase = Night /\ currentNightSubPhase = "act" /\ currentNightSubPhase' = "ponder"
      /\ UNCHANGED <<phase, role, alive, enabled, currentNightRole, nightTurnQueue>>
  BY DEF NightAction, Recruit, EnterPonder, EnterSubPhase, InPhase, lobbyVars, boardVars
<1>2. notices = {} /\ ~RecruitPending
  BY <1>1 DEF NoticesInv, MafiaTurnAhead, SpellInv, DeedInv, TurnsInOrder
<1>3. PonderNotices(currentNightRole, pendingNight') = {}
  BY DEF PonderNotices
<1>4. NightAction(a, t) => ActionNotices(a, t) = {}
  <2>1. NightAction(a, t) => role[a] \in {Mafia, Yakuza}
    BY MafiaFactionRoles DEF NightAction, ActorsTurn
  <2> QED BY <2>1 DEF ActionNotices, Mafia, Yakuza, Detective, Tracker
<1>5. notices' = {}
  BY <1>2, <1>3, <1>4 DEF NightAction, Recruit, EnterPonder
<1>6. CASE NightAction(a, t)
  <2>1. ~RecruitPending'
    BY <1>2, <1>6 DEF NightAction, RecruitPending
  <2> QED BY <1>5, <2>1 DEF NoticesInv, RecruitHears
<1>7. CASE Recruit(a, t)
  <2>1. nightTurnQueue = LaterTurns
    BY <1>1 DEF SpellInv, ConsortFirst
  <2>2. RecruitPending' /\ recruitTarget' = t
    BY <1>7, PlayerAssumption DEF Recruit, RecruitPending
  <2>3. role[t] \notin {Mafia, Yakuza}
    BY <1>1, <2>2, MafiaFactionRoles DEF NoStaleDeeds
  <2>4. ASSUME HasNightAction(role[t])
        PROVE  TurnAhead(role[t])'
    <3>1. role[t] # NoRole
      BY <2>4, RoleNames DEF HasNightAction
    <3>2. Has(LaterTurns, role[t])
      BY <2>3, <2>4, <3>1, EveryRoleHasATurn DEF RolesAreCalled
    <3> QED BY <1>1, <2>1, <3>2 DEF TurnAhead, Has
  <2> QED BY <1>1, <1>5, <2>2, <2>4 DEF NoticesInv, RecruitHears
<1> QED BY <1>6, <1>7

(* Between turns and while the clock runs nothing is said. *)
LEMMA NoticesQuiet ==
  ASSUME DeedInv, NoticesInv, phase = Night, UNCHANGED <<players, role>>, Calls \/ Waits
  PROVE  NoticesInv'
<1>1. UNCHANGED <<pendingNight, recruitYakuza, recruitTarget, notices>>
  BY DEF Calls, Waits, deedVars
<1>2. ASSUME NEW n \in notices
      PROVE  ToldRight(n)'
  <2>1. FactionNightTarget' = FactionNightTarget
    BY <1>1 DEF FactionNightTarget, RecruitPending
  <2> QED BY <1>1, <2>1, RightStays DEF NoticesInv
<1> DEFINE r == role[recruitTarget]
<1>3. CASE Waits
  <2>1. /\ MafiaTurnAhead' <=> MafiaTurnAhead
        /\ TurnAhead(r)' <=> TurnAhead(r)
    BY <1>1, <1>3 DEF Waits, MafiaTurnAhead, TurnAhead, Has
  <2> QED BY <1>1, <1>2, <2>1 DEF NoticesInv, RecruitHears, RecruitPending
<1>4. CASE Calls
  <2>1. /\ nightTurnQueue \in Seq(Role) /\ nightTurnQueue # <<>>
        /\ currentNightRole' = Head(nightTurnQueue) /\ nightTurnQueue' = Tail(nightTurnQueue)
        /\ currentNightSubPhase' = "narrate" /\ currentNightSubPhase \in {"opening", "settle"}
    BY <1>4 DEF Calls, NextTurn, DeedInv, TypeOK
  <2>2. CASE currentNightSubPhase = "opening"
    <3>1. notices = {} /\ ~RecruitPending
      BY <2>2 DEF NoticesInv, MafiaTurnAhead, DeedInv, TurnsInOrder
    <3> QED BY <1>1, <3>1 DEF NoticesInv, RecruitHears, RecruitPending
  <2>3. CASE currentNightSubPhase = "settle"
    <3>1. ~MafiaTurnAhead'
      <4> DEFINE Other == Role \ {Mafia, Yakuza}
      <4>1. nightTurnQueue \in Seq(Other)
        BY <2>3 DEF DeedInv, TurnsInOrder
      <4>2. Head(nightTurnQueue) \in Other
        <5> HIDE DEF Other
        <5> QED BY <2>1, <4>1
      <4> QED BY <2>1, <4>2 DEF MafiaTurnAhead
    <3>2. ASSUME TurnAhead(r)
          PROVE  TurnAhead(r)'
      <4>1. PICK i \in 1 .. Len(nightTurnQueue) : nightTurnQueue[i] = r
        BY <2>3, <3>2 DEF TurnAhead, Has
      <4>2. CASE i = 1
        BY <1>1, <2>1, <4>1, <4>2 DEF TurnAhead
      <4>3. CASE i # 1
        <5>1. i - 1 \in 1 .. Len(Tail(nightTurnQueue)) /\ Tail(nightTurnQueue)[i - 1] = r
          BY <2>1, <4>1, <4>3
        <5> QED BY <1>1, <2>1, <5>1 DEF TurnAhead, Has
      <4> QED BY <4>2, <4>3
    <3> HIDE DEF r
    <3>3. RecruitHears'
      BY <1>1, <3>2 DEF NoticesInv, RecruitHears, RecruitPending, r
    <3> QED BY <1>1, <1>2, <3>1, <3>3 DEF NoticesInv
  <2> QED BY <2>1, <2>2, <2>3
<1> QED BY <1>3, <1>4

(* No step breaks the invariant. *)
LEMMA NoticesStep ==
  ASSUME SpellInv, SpellInv', OnCue, RolesAreCalled, NoticesInv, [Next]_vars
  PROVE  NoticesInv'
<1>1. TypeOK /\ DeedInv /\ NoStaleDeeds /\ NoStaleDeeds'
  BY DEF SpellInv, DeedInv
<1>2. CASE phase' = Night /\ phase # Night
  <2>1. BeginNight
    BY <1>2, OnlyDuskIsNightfall
  <2>2. notices' = {} /\ ~RecruitPending'
    BY <1>1, <1>2, <2>1 DEF BeginNight, NoStaleDeeds, RecruitPending, deedVars
  <2> QED BY <2>2 DEF NoticesInv, RecruitHears
<1>3. CASE phase' = Night /\ phase = Night
  <2>1. UNCHANGED <<players, role, alive>>
    BY <1>3, NightLasts
  <2>2. ASSUME Ponders
        PROVE  NoticesInv'
    <3>1. /\ UNCHANGED <<pendingNight, recruitYakuza, recruitTarget>> /\ EnterPonder({})
          /\ currentNightSubPhase \in {"narrate", "act"}
      BY <2>2 DEF Ponders, deedVars
    <3>2. FactionNightTarget' = FactionNightTarget
      BY <2>1, <3>1 DEF FactionNightTarget, RecruitPending
    <3> QED BY <1>1, <1>3, <2>1, <3>1, <3>2, NoticesPonder
  <2>3. ASSUME NEW a \in Player, NEW t \in Player, NightAction(a, t), currentNightRole # Mafia
        PROVE  NoticesInv'
    <3>1. /\ UNCHANGED <<recruitYakuza, recruitTarget>> /\ EnterPonder(ActionNotices(a, t))
          /\ currentNightSubPhase = "act" /\ role[a] = currentNightRole
          /\ pendingNight' = [pendingNight EXCEPT ![a] = t]
      BY <2>3 DEF NightAction, ActorsTurn
    <3>2. Faction(role[a]) # FactionMafia
      BY <1>1, <1>3, <2>3, <3>1, MafiaFactionRoles DEF DeedInv, TurnsInOrder
    <3>3. \A b \in Player \ {a} : pendingNight'[b] = pendingNight[b]
      BY <1>1, <3>1 DEF TypeOK
    <3>4. FactionNightTarget' = FactionNightTarget
      <4>1. players \subseteq Player
        BY <1>1 DEF TypeOK
      <4> DEFINE Members == {p \in players : /\ pendingNight[p] # NoPlayer
                                            /\ Faction(role[p]) = FactionMafia}
      <4>2. Members' = Members /\ \A b \in Members : pendingNight'[b] = pendingNight[b]
        BY <2>1, <3>2, <3>3, <4>1
      <4> QED BY <2>1, <3>1, <4>2 DEF FactionNightTarget, RecruitPending
    <3>5. \A n \in ActionNotices(a, t) : ToldRight(n)
      BY <2>3, ActionTellsRight
    <3> QED BY <1>1, <1>3, <2>1, <3>1, <3>4, <3>5, NoticesPonder
  <2>4. ASSUME NEW a \in Player, NEW t \in Player, NightAction(a, t), currentNightRole = Mafia
        PROVE  NoticesInv'
    BY <1>1, <2>4, NoticesMafiaDeed
  <2>5. ASSUME NEW y \in Player, NEW t \in Player, Recruit(y, t)
        PROVE  NoticesInv'
    <3>1. currentNightRole = Mafia
      BY <2>5 DEF Recruit
    <3> QED BY <1>1, <2>5, <3>1, NoticesMafiaDeed
  <2>6. Calls \/ Waits => NoticesInv'
    BY <1>1, <1>3, <2>1, NoticesQuiet
  <2> QED BY <1>3, <2>2, <2>3, <2>4, <2>5, <2>6, NightLasts
<1> QED BY <1>2, <1>3 DEF NoticesInv

(* What dawn finds of the board and of what was told. *)
WatchInv == DawnInv /\ OnCue /\ RolesAreCalled /\ NoticesInv

(* The invariant holds of every reachable state. *)
LEMMA WatchInvariant == Spec => []WatchInv
<1>1. Init => WatchInv
  <2> SUFFICES ASSUME Init PROVE WatchInv
    OBVIOUS
  <2>1. OnCue /\ RolesAreCalled /\ NoticesInv
    BY DEF Init, OnCue, RolesAreCalled, NoticesInv, Lobby, Night
  <2> QED BY <2>1, DawnInit DEF WatchInv
<1>2. ASSUME WatchInv, [Next]_vars
      PROVE  WatchInv'
  <2>1. SpellInv /\ TypeOK /\ NoStaleDeeds
    BY <1>2 DEF WatchInv, DawnInv, SpellInv, DeedInv
  <2>2. DawnInv' /\ SpellInv'
    BY <1>2, DawnStep, SpellStep, <2>1 DEF WatchInv
  <2>3. OnCue' /\ RolesAreCalled'
    BY <1>2, <2>1, OnCueStep, RolesCalledStep DEF WatchInv
  <2> QED BY <1>2, <2>1, <2>2, <2>3, NoticesStep DEF WatchInv
<1> QED BY <1>1, <1>2, PTL DEF Spec


(* What dawn does to the board. *)
LEMMA BoardAtDawn ==
  ASSUME WatchInv, ResolveAndExitNight
  PROVE  /\ alive' = AliveAtDawn /\ AliveAtDawn \subseteq AfterKills
         /\ AfterKills \subseteq alive /\ alive \subseteq Player
         /\ \A p \in Player :
              \/ p \in Converts /\ role'[p] = Mafia
              \/ p \notin Converts /\ role'[p] = role[p]
              \/ /\ p \notin Converts /\ role'[p] = Mafia
                 /\ p \in AliveAtDawn /\ role[p] = Consort
<1>1. /\ TypeOK /\ ResolveDeaths(AliveAtDawn, RolesAtDawn, DayDiscussion)
      /\ alive' = AliveAtDawn
  BY DEF WatchInv, DawnInv, SpellInv, DeedInv, ResolveAndExitNight, ResolveDeaths
<1>2. /\ AliveAtDawn \subseteq AfterKills /\ AfterKills \subseteq alive /\ alive \subseteq Player
      /\ RolesAtDawn \in [Player -> Role \cup {NoRole}]
  BY <1>1, RoleNames DEF AliveAtDawn, AfterKills, TypeOK, RolesAtDawn
<1>3. ASSUME NEW p \in Player
      PROVE  \/ role'[p] = RolesAtDawn[p]
             \/ role'[p] = Mafia /\ p \in AliveAtDawn /\ RolesAtDawn[p] = Consort
  BY <1>1, <1>2, DeathsPromote
<1>4. ASSUME NEW p \in Player
      PROVE  RolesAtDawn[p] = IF p \in Converts THEN Mafia ELSE role[p]
  BY DEF RolesAtDawn
<1> QED BY <1>1, <1>2, <1>3, <1>4, RoleNames

(* By dawn no turn is ahead, and a recruit with a turn has heard of it. *)
LEMMA DawnFindsItTold ==
  ASSUME WatchInv, phase = Night, ResolveAndExitNight, AdvancePhase
  PROVE  /\ \A n \in notices : ToldRight(n)
         /\ RecruitPending /\ HasNightAction(role[recruitTarget]) =>
              NoticeTo("recruited", recruitTarget, role[recruitTarget]) \in notices
<1>1. phase' # Night
  BY DEF ResolveAndExitNight, ResolveDeaths, Night, DayDiscussion, Ended
<1>2. currentNightSubPhase = "settle" /\ nightTurnQueue = <<>>
  BY <1>1
     DEF AdvancePhase, EndOpening, EndNarrate, EndAct, EndPonder, EndSleep, EndSettle
<1>3. Len(nightTurnQueue) = 0
  BY <1>2
<1>4. \A r : ~TurnAhead(r)
  BY <1>2, <1>3 DEF TurnAhead, Has
<1> QED BY <1>4 DEF WatchInv, NoticesInv, RecruitHears

(* A player who changes sides by recruit hears of it once, whether or not  *)
(* it has a turn to hear it in, and no recruit is told it was blocked      *)
(* (rules_night.go:412).                                                   *)
THEOREM ConvertsAreToldOnce == Spec => ConvertToldOnce
<1> DEFINE Once(p) == /\ Told("blocked", p) = {}
                      /\ role'[p] # role[p] => Cardinality(Told("recruited", p)) = 1
<1>1. ASSUME WatchInv, phase = Night, ResolveAndExitNight, AdvancePhase,
             NEW p \in Player, IsRecruit(p)
      PROVE  Once(p)
  <2>1. /\ notices' = notices \cup DawnNotices /\ RecruitPending /\ p = recruitTarget
        /\ role[p] \notin {Mafia, Yakuza}
    BY <1>1, MafiaFactionRoles
       DEF ResolveAndExitNight, IsRecruit, WatchInv, DawnInv, SpellInv, DeedInv, NoStaleDeeds
  <2>2. \A n \in notices : ToldRight(n)
    BY <1>1, DawnFindsItTold
  <2>3. /\ \A n \in DawnNotices : n.kind # "blocked"
        /\ \A n \in DawnNotices :
             n.kind = "recruited" =>
               n = NoticeTo("recruited", n.to, NoRole) /\ ~HasNightAction(role[n.to])
    BY DEF DawnNotices, NoticeTo
  <2>4. Told("blocked", p) = {}
    BY <1>1, <2>1, <2>2, <2>3 DEF Told, ToldRight
  <2>5. ASSUME role'[p] # role[p]
        PROVE  Cardinality(Told("recruited", p)) = 1
    <3>1. p \in Converts
      <4>1. p \in Converts \/ (p \in AfterKills /\ role[p] = Consort)
        BY <1>1, <2>5, BoardAtDawn
      <4> QED BY <1>1, <4>1, RoleNames DEF Converts
    <3> DEFINE n == NoticeTo("recruited", p, IF HasNightAction(role[p]) THEN role[p] ELSE NoRole)
    <3>2. n.kind = "recruited" /\ n.to = p
      BY DEF NoticeTo
    <3>3. n \in notices'
      <4>1. CASE HasNightAction(role[p])
        BY <1>1, <2>1, <4>1, DawnFindsItTold
      <4>2. CASE ~HasNightAction(role[p])
        BY <2>1, <3>1, <4>2 DEF DawnNotices
      <4> QED BY <4>1, <4>2
    <3>4. ASSUME NEW m \in Told("recruited", p)
          PROVE  m = n
      BY <2>1, <2>2, <2>3, <3>4 DEF Told, ToldRight
    <3> HIDE DEF n
    <3>5. Told("recruited", p) = {n}
      BY <3>2, <3>3, <3>4 DEF Told
    <3> QED BY <3>5, FS_Singleton
  <2> QED BY <2>4, <2>5
<1>2. WatchInv /\ [Next]_vars => [Dawn => \A p \in Player : IsRecruit(p) => Once(p)]_vars
  BY <1>1, OnlyResolutionIsDawn DEF Dawn
<1> QED BY <1>2, WatchInvariant, PTL DEF Spec, ConvertToldOnce

(* The detective's readings survive the resolution of the night they were  *)
(* given in (rules_night.go:151).                                          *)
THEOREM DetectivesReadDawn == Spec => DetectiveHoldsAtDawn
<1> DEFINE Holds(n) ==
             /\ n.kind = "is_mafia" => Faction(role'[n.about]) = FactionMafia
             /\ n.kind = "not_mafia" =>
                  \/ Faction(role'[n.about]) # FactionMafia
                  \/ role[n.about] = Consort
<1>1. ASSUME WatchInv, phase = Night, ResolveAndExitNight, AdvancePhase,
             NEW n \in notices, n.about \in alive'
      PROVE  Holds(n)
  <2> DEFINE t == n.about
  <2>1. /\ t \in Player /\ t \in AfterKills /\ t \in AliveAtDawn
        /\ \/ t \in Converts /\ role'[t] = Mafia
           \/ t \notin Converts /\ role'[t] = role[t]
           \/ t \notin Converts /\ role'[t] = Mafia /\ role[t] = Consort
    BY <1>1, BoardAtDawn
  <2>2. ~(RecruitPending /\ t = recruitYakuza)
    BY <2>1 DEF AliveAtDawn
  <2>3. IsRecruit(t) <=> t \in Converts
    BY <1>1, <2>1, MafiaFactionRoles
       DEF Converts, IsRecruit, WatchInv, DawnInv, SpellInv, DeedInv, NoStaleDeeds
  <2>4. /\ n.kind = "is_mafia" => ReadsMafia(t)
        /\ n.kind = "not_mafia" => ~ReadsMafia(t)
    BY <1>1, DawnFindsItTold DEF ToldRight
  <2>5. ReadsMafia(t) <=> t \in Converts \/ Faction(role[t]) = FactionMafia
    BY <2>2, <2>3 DEF ReadsMafia
  <2> HIDE DEF t
  <2>6. /\ n.kind = "is_mafia" => Faction(role'[t]) = FactionMafia
        /\ n.kind = "not_mafia" => Faction(role'[t]) # FactionMafia \/ role[t] = Consort
    BY <2>1, <2>4, <2>5, MafiaFactionRoles
  <2> QED BY <2>6 DEF t
<1>2. WatchInv /\ [Next]_vars => [Dawn => \A n \in notices : n.about \in alive' => Holds(n)]_vars
  BY <1>1, OnlyResolutionIsDawn DEF Dawn
<1> QED BY <1>2, WatchInvariant, PTL DEF Spec, DetectiveHoldsAtDawn

(* A mafioso under a tracker's eye leads to the faction's victim, kill or  *)
(* recruit, and one who stayed home vouches for a quiet night (state.go:516). *)
THEOREM TrackersFindTheVictim == Spec => TrackerFindsTheVictim
<1> DEFINE Found(n) ==
             IF n.visit # NoPlayer
               THEN \/ n.visit \notin alive'
                    \/ AttackedBy({Doctor}, n.visit)
                    \/ Faction(role'[n.visit]) = FactionMafia
               ELSE \A p \in players \ {n.about} :
                      ~AttackedBy({Mafia, Yakuza}, p) /\ ~IsRecruit(p)
<1>1. ASSUME WatchInv, phase = Night, ResolveAndExitNight, AdvancePhase,
             NEW n \in notices, n.kind = "visit", Faction(role[n.about]) = FactionMafia
      PROVE  Found(n)
  <2>1. n.visit = TrackedVisit(n.about) /\ Visits(n.about) = FactionNightTarget \ {n.about}
    BY <1>1, DawnFindsItTold DEF ToldRight, Visits
  <2>2. /\ DawnInv /\ TypeOK /\ NoStaleDeeds /\ FactionActsOnce
        /\ players \subseteq Player /\ NoPlayer \notin Player /\ alive \subseteq players
    BY <1>1, PlayerAssumption DEF WatchInv, DawnInv, SpellInv, DeedInv, TypeOK
  <2>3. ASSUME RecruitPending
        PROVE  FactionNightTarget = {recruitTarget} /\ recruitTarget \in alive
    BY <2>2, <2>3 DEF FactionNightTarget, NoStaleDeeds
  <2>4. ASSUME ~RecruitPending
        PROVE  \A v : v \in FactionNightTarget <=>
                        v # NoPlayer /\ AttackedBy({Mafia, Yakuza}, v)
    BY <2>4, MafiaFactionRoles DEF FactionNightTarget, AttackedBy
  <2>5. ASSUME NEW v \in FactionNightTarget
        PROVE  /\ v \in alive
               /\ v \notin alive' \/ AttackedBy({Doctor}, v) \/ Faction(role'[v]) = FactionMafia
    <3>1. CASE RecruitPending
      <4>1. v = recruitTarget /\ v \in alive /\ v \in Player
        BY <2>2, <2>3, <2>5, <3>1
      <4>2. v \in AfterKills => v \in Converts
        BY <2>2, <3>1, <4>1, MafiaFactionRoles DEF Converts, IsRecruit, NoStaleDeeds
      <4>3. v \in alive' => v \in AfterKills
        BY <1>1, BoardAtDawn
      <4>4. v \in Converts => Faction(role'[v]) = FactionMafia
        BY <1>1, <4>1, BoardAtDawn, MafiaFactionRoles
      <4> QED BY <4>1, <4>2, <4>3, <4>4
    <3>2. CASE ~RecruitPending
      <4>1. v # NoPlayer /\ AttackedBy({Mafia, Yakuza}, v)
        BY <2>4, <2>5, <3>2
      <4>2. v \in alive
        BY <2>2, <4>1 DEF AttackedBy, NoStaleDeeds, Acted
      <4>3. AttackedBy({Mafia, Yakuza}, v) /\ ~AttackedBy({Doctor}, v) => v \notin alive'
        BY <1>1, <2>2, <4>2, DeathsAtDawn DEF DeathsHaveCauses
      <4> QED BY <4>1, <4>2, <4>3
    <3> QED BY <3>1, <3>2
  <2>6. CASE Visits(n.about) # {}
    <3>1. n.visit \in FactionNightTarget
      BY <2>1, <2>6 DEF TrackedVisit
    <3> QED BY <2>2, <2>5, <3>1
  <2>7. CASE Visits(n.about) = {}
    <3>1. n.visit = NoPlayer
      BY <2>1, <2>7 DEF TrackedVisit
    <3>2. ASSUME NEW p \in players \ {n.about}
          PROVE  ~AttackedBy({Mafia, Yakuza}, p) /\ ~IsRecruit(p)
      <4>1. p \notin FactionNightTarget /\ p # NoPlayer
        BY <2>1, <2>2, <2>7
      <4>2. ~IsRecruit(p)
        BY <2>3, <4>1 DEF IsRecruit
      <4>3. RecruitPending => MafiaEntries = {}
        <5>1. IsFiniteSet(MafiaEntries)
          BY PlayerAssumption, FS_Subset DEF MafiaEntries
        <5>2. Cardinality(MafiaEntries) \in Nat
          BY <5>1, FS_CardinalityType
        <5>3. RecruitPending => Cardinality(MafiaEntries) = 0
          BY <2>2, <5>2 DEF FactionActsOnce
        <5> QED BY <5>1, <5>3, FS_EmptySet
      <4>4. AttackedBy({Mafia, Yakuza}, p) => MafiaEntries # {}
        BY <2>2, <4>1, MafiaFactionRoles DEF AttackedBy, MafiaEntries, Acted
      <4> QED BY <2>4, <4>1, <4>2, <4>3, <4>4
    <3> QED BY <3>1, <3>2
  <2> QED BY <2>6, <2>7
<1>2. WatchInv /\ [Next]_vars =>
        [Dawn => \A n \in notices :
                   n.kind = "visit" /\ Faction(role[n.about]) = FactionMafia => Found(n)]_vars
  BY <1>1, OnlyResolutionIsDawn DEF Dawn
<1> QED BY <1>2, WatchInvariant, PTL DEF Spec, TrackerFindsTheVictim

===============================================================================
