---------------------------- MODULE OutcomeProofs -----------------------------
(***************************************************************************)
(* Theorems about how a game starts and ends: a fresh lobby, a fair deal,  *)
(* a game that is over exactly when it is decided; and, from these and the *)
(* invariants of the vote and of the night, that the engine implements the *)
(* abstract game.                                                          *)
(***************************************************************************)
EXTENDS MafiaGameProofs

OutcomeInv ==
  TypeOK /\ LobbyIsFresh /\ EndsExactlyWhenDecided /\ NeverHeadless

-------------------------------------------------------------------------------
(* The deal. *)

(* How many optional roles side with the mafia, by the toggles. *)
LEMMA AlignedOptions ==
  ASSUME TypeOK
  PROVE  Cardinality({r \in enabled : MafiaAligned(r)}) =
           (IF Consort \in enabled THEN 1 ELSE 0) + (IF Yakuza \in enabled THEN 1 ELSE 0)
<1> DEFINE K == {r \in enabled : MafiaAligned(r)}
<1>1. K = {r \in {Consort, Yakuza} : r \in enabled}
  BY DEF TypeOK, OptionalRole, MafiaAligned, Faction, FactionMafia,
         FactionConsort, FactionTown, Mafia, Yakuza, Consort, Vigilante, Tracker
<1>2. Consort # Yakuza
  BY DEF Consort, Yakuza
<1>3. CASE Consort \in enabled /\ Yakuza \in enabled
  <2>1. K = {Consort} \cup {Yakuza}
    BY <1>1, <1>3
  <2>2. IsFiniteSet({Consort}) /\ Cardinality({Consort}) = 1
    BY FS_Singleton
  <2>3. Cardinality({Consort} \cup {Yakuza}) = 2
    BY <1>2, <2>2, FS_AddElement
  <2> QED BY <1>3, <2>1, <2>3
<1>4. CASE Consort \in enabled /\ Yakuza \notin enabled
  <2>1. K = {Consort}
    BY <1>1, <1>4
  <2>2. Cardinality(K) = 1
    BY <2>1, FS_Singleton
  <2> QED BY <1>4, <2>2
<1>5. CASE Consort \notin enabled /\ Yakuza \in enabled
  <2>1. K = {Yakuza}
    BY <1>1, <1>5
  <2>2. Cardinality(K) = 1
    BY <2>1, FS_Singleton
  <2> QED BY <1>5, <2>2
<1>6. CASE Consort \notin enabled /\ Yakuza \notin enabled
  <2>1. K = {}
    BY <1>1, <1>6
  <2>2. Cardinality(K) = 0
    BY <2>1, FS_EmptySet
  <2> QED BY <1>6, <2>2
<1> QED BY <1>3, <1>4, <1>5, <1>6

(* A union of finite sets has at most as many members as the two together. *)
LEMMA UnionBound ==
  ASSUME NEW S, NEW T, IsFiniteSet(S), IsFiniteSet(T)
  PROVE  /\ IsFiniteSet(S \cup T)
         /\ Cardinality(S \cup T) <= Cardinality(S) + Cardinality(T)
<1>1. /\ IsFiniteSet(S \cup T)
      /\ Cardinality(S \cup T) =
           Cardinality(S) + Cardinality(T) - Cardinality(S \cap T)
  BY FS_Union
<1>2. IsFiniteSet(S \cap T)
  BY FS_Subset
<1>3. /\ Cardinality(S) \in Nat /\ Cardinality(T) \in Nat
      /\ Cardinality(S \cap T) \in Nat
  BY <1>2, FS_CardinalityType
<1> QED BY <1>1, <1>3

(* A dealt board is open: the mafia have a member, the town a majority of  *)
(* the seats, the consort one seat at most.                                *)
LEMMA DealIsOpen ==
  ASSUME TypeOK, alive = players, mafiaCount >= 1,
         TownHasMajority(Cardinality(players)), NEW d \in Deals,
         NEW ro, ro = [p \in Player |-> IF p \in players THEN d[p] ELSE NoRole]
  PROVE  /\ FactionLiving(FactionMafia, alive, ro) # {}
         /\ ~Decided(alive, ro)
         /\ 2 * Cardinality(FactionLiving(FactionTown, alive, ro)) > Cardinality(players)
         /\ Cardinality(FactionLiving(FactionConsort, alive, ro)) <= 1
<1> DEFINE With(r) == {p \in players : d[p] = r}
           n       == Cardinality(players)
           M       == FactionLiving(FactionMafia, alive, ro)
           T       == FactionLiving(FactionTown, alive, ro)
           Bad     == With(Mafia) \cup With(Yakuza) \cup With(Consort)
<1>1. /\ IsFiniteSet(players) /\ n \in Nat
      /\ mafiaCount \in Nat
      /\ \A r \in Role : IsFiniteSet(With(r)) /\ Cardinality(With(r)) \in Nat
  <2>1. IsFiniteSet(players)
    BY PlayerAssumption, FS_Subset DEF TypeOK
  <2>2. \A r \in Role : IsFiniteSet(With(r))
    BY <2>1, FS_Subset
  <2> QED BY <2>1, <2>2, FS_CardinalityType DEF TypeOK
<1>2. /\ Mafia \in Role /\ Yakuza \in Role /\ Consort \in Role
      /\ Mafia # Yakuza /\ Mafia # Consort /\ Yakuza # Consort
  BY DEF Role, Mafia, Yakuza, Consort
<1>3. Cardinality(With(Mafia)) = mafiaCount
  BY MafiaSeats
<1>4. /\ Cardinality(With(Consort)) = IF Consort \in enabled THEN 1 ELSE 0
      /\ Cardinality(With(Yakuza)) = IF Yakuza \in enabled THEN 1 ELSE 0
  BY OptionalSeats DEF OptionalRole
<1>5. /\ M = With(Mafia) \cup With(Yakuza)
      /\ T = players \ Bad
      /\ AlignedLiving(alive, ro) = Bad
  <2>1. \A p \in players : p \in Player /\ ro[p] = d[p]
    BY DEF TypeOK
  <2>2. \A r : /\ Faction(r) = FactionMafia <=> r \in {Mafia, Yakuza}
               /\ Faction(r) = FactionTown <=> r \notin {Mafia, Yakuza, Consort}
               /\ MafiaAligned(r) <=> r \in {Mafia, Yakuza, Consort}
    BY DEF Faction, MafiaAligned, FactionMafia, FactionTown, FactionConsort,
           Mafia, Yakuza, Consort
  <2> QED BY <2>1, <2>2 DEF FactionLiving, AlignedLiving
<1>6. /\ IsFiniteSet(M) /\ Cardinality(M) \in Nat
      /\ Cardinality(M) <= Cardinality(With(Mafia)) + Cardinality(With(Yakuza))
      /\ IsFiniteSet(Bad) /\ Cardinality(Bad) \in Nat
      /\ Cardinality(Bad) <= Cardinality(M) + Cardinality(With(Consort))
  <2>1. /\ IsFiniteSet(M)
        /\ Cardinality(M) <= Cardinality(With(Mafia)) + Cardinality(With(Yakuza))
    BY <1>1, <1>2, <1>5, UnionBound
  <2>2. /\ IsFiniteSet(M \cup With(Consort))
        /\ Cardinality(M \cup With(Consort)) <=
             Cardinality(M) + Cardinality(With(Consort))
    BY <1>1, <1>2, <2>1, UnionBound
  <2> QED BY <1>5, <2>1, <2>2, FS_CardinalityType
<1>7. Cardinality(T) = n - Cardinality(Bad)
  <2>1. players \cap Bad = Bad
    OBVIOUS
  <2>2. Cardinality(players \ Bad) = n - Cardinality(players \cap Bad)
    BY <1>1, FS_Difference
  <2> QED BY <1>5, <2>1, <2>2
<1>8. 2 * Cardinality(Bad) < n /\ Cardinality(M) <= Cardinality(Bad)
  <2>1. 2 * (mafiaCount + Cardinality({r \in enabled : MafiaAligned(r)})) < n
    BY DEF TownHasMajority
  <2>2. M \subseteq Bad
    BY <1>5
  <2>3. Cardinality(M) <= Cardinality(Bad)
    BY <1>6, <2>2, FS_Subset
  <2>4. Cardinality(Bad) <= mafiaCount + Cardinality({r \in enabled : MafiaAligned(r)})
    BY <1>1, <1>2, <1>3, <1>4, <1>6, AlignedOptions
  <2> QED BY <1>1, <1>6, <2>1, <2>3, <2>4, AlignedOptions
<1>9. Cardinality(T) > Cardinality(M)
  BY <1>1, <1>6, <1>7, <1>8
<1>10. With(Mafia) # {}
  BY <1>1, <1>3, FS_EmptySet
<1>11. 2 * Cardinality(T) > n
  BY <1>1, <1>6, <1>7, <1>8
<1>12. Cardinality(FactionLiving(FactionConsort, alive, ro)) <= 1
  <2>1. \A p \in players : p \in Player /\ ro[p] = d[p]
    BY DEF TypeOK
  <2>2. FactionLiving(FactionConsort, alive, ro) = With(Consort)
    BY <2>1 DEF FactionLiving, Faction, FactionMafia, FactionTown, FactionConsort,
                Mafia, Yakuza, Consort
  <2> QED BY <1>4, <2>2
<1>13. ~Decided(alive, ro)
  BY <1>1, <1>5, <1>6, <1>7, <1>9, <1>10 DEF Decided, TownWins, MafiaWins
<1>14. M # {}
  BY <1>5, <1>10
<1> QED BY <1>11, <1>12, <1>13, <1>14

-------------------------------------------------------------------------------
(* The steps. *)

(* Whatever died: a game that goes on is undecided and still has a killer, *)
(* and one that stops is decided.                                          *)
LEMMA DeathsDecide ==
  ASSUME NEW al \in SUBSET Player, NEW ro \in [Player -> Role \cup {NoRole}],
         ResolveDeaths(al, ro, DayDiscussion)
  PROVE  EndsExactlyWhenDecided' /\ NeverHeadless'
<1> DEFINE ro2 == AfterPromotion(al, ro)
<1>1. /\ alive' = al /\ role' = ro2
      /\ phase' = Ended <=> Decided(al, ro2)
  BY DEF ResolveDeaths, DayDiscussion, Ended
<1>2. EndsExactlyWhenDecided'
  BY <1>1 DEF EndsExactlyWhenDecided
<1>3. ASSUME FactionLiving(FactionMafia, al, ro2) = {}
      PROVE  Decided(al, ro2)
  <2>1. \A p \in al : Faction(ro2[p]) # FactionMafia
    BY <1>3 DEF FactionLiving
  <2>2. Faction(Mafia) = FactionMafia
    BY DEF Faction, Mafia
  <2>3. FactionLiving(FactionMafia, al, ro) = {}
    BY <2>1, <2>2 DEF AfterPromotion, FactionLiving
  <2>4. \A p \in al : ro[p] # Consort
    BY <2>1, <2>2, <2>3 DEF AfterPromotion, Promoted
  <2>5. \A p \in al : ~MafiaAligned(ro2[p])
    BY <2>1, <2>2, <2>4
       DEF AfterPromotion, Promoted, MafiaAligned, Faction, FactionMafia,
           FactionConsort, FactionTown
  <2> QED BY <2>5 DEF Decided, TownWins, AlignedLiving
<1>4. NeverHeadless'
  BY <1>1, <1>3 DEF NeverHeadless
<1> QED BY <1>2, <1>4

(* A step that leaves roles, lives and the end of the game alone. *)
LEMMA BoardUntouched ==
  ASSUME OutcomeInv, TypeOK', UNCHANGED <<rolesDealt, alive, role>>,
         phase' = Ended <=> phase = Ended, rolesDealt
  PROVE  OutcomeInv'
  BY DEF OutcomeInv, LobbyIsFresh, EndsExactlyWhenDecided, NeverHeadless

(* The invariant holds of the empty engine. *)
LEMMA OutcomeInit == Init => OutcomeInv
  BY TypeInit
     DEF Init, OutcomeInv, LobbyIsFresh, EndsExactlyWhenDecided, NeverHeadless

(* Lobby commands, the deal and the reset keep the invariant. *)
LEMMA OutcomeLobby ==
  ASSUME OutcomeInv, TypeOK', LobbyNext
  PROVE  OutcomeInv'
<1>1. ASSUME \/ \E c \in {0} \cup MafiaCounts : CreateGame(c)
             \/ \E c \in MafiaCounts : SetMafiaCount(c)
             \/ \E r \in OptionalRole, on \in BOOLEAN : SetOptional(r, on)
      PROVE  OutcomeInv'
  <2>1. UNCHANGED <<players, rolesDealt, phase, boardVars, turnVars, dayVars>>
    BY <1>1 DEF CreateGame, SetMafiaCount, SetOptional
  <2> QED
    BY <2>1
       DEF OutcomeInv, LobbyIsFresh, EndsExactlyWhenDecided, NeverHeadless,
           boardVars, turnVars, dayVars
<1>2. ASSUME NEW p \in Player, AddPlayer(p)
      PROVE  OutcomeInv'
  BY <1>2
     DEF AddPlayer, LobbyOpen, OutcomeInv, LobbyIsFresh, EndsExactlyWhenDecided,
         NeverHeadless, turnVars, dayVars
<1>3. CASE StartGame
  <2>1. /\ phase = Lobby /\ ~rolesDealt /\ alive = players
        /\ rolesDealt' /\ UNCHANGED <<phase, alive>>
    BY <1>3 DEF StartGame, LobbyOpen, InPhase, OutcomeInv, LobbyIsFresh
  <2>2. /\ mafiaCount >= 1 /\ TownHasMajority(Cardinality(players))
        /\ \E d \in Deals :
             role' = [p \in Player |-> IF p \in players THEN d[p] ELSE NoRole]
    BY <1>3 DEF StartGame
  <2>3. FactionLiving(FactionMafia, alive, role') # {} /\ ~Decided(alive, role')
    BY <2>1, <2>2, DealIsOpen DEF OutcomeInv
  <2> QED
    BY <2>1, <2>3
       DEF OutcomeInv, LobbyIsFresh, EndsExactlyWhenDecided, NeverHeadless,
           Lobby, Ended
<1>4. CASE ResetGame
  BY <1>4
     DEF ResetGame, ResetBoard, ResetTurn, OutcomeInv, LobbyIsFresh,
         EndsExactlyWhenDecided, NeverHeadless
<1> QED BY <1>1, <1>2, <1>3, <1>4 DEF LobbyNext

(* A night keeps the invariant: only its resolution kills. *)
LEMMA OutcomeNight ==
  ASSUME OutcomeInv, TypeOK', NightNext
  PROVE  OutcomeInv'
<1>1. rolesDealt /\ UNCHANGED rolesDealt
  BY DEF NightNext, BeginNight, NightAction, NightPass, Recruit, AdvancePhase,
         InPhase, OutcomeInv, LobbyIsFresh, lobbyVars, Lobby, Night, DayDiscussion
<1>2. ASSUME \/ BeginNight
             \/ \E a, t \in Player : NightAction(a, t)
             \/ \E a \in Player : NightPass(a)
             \/ \E y, t \in Player : Recruit(y, t)
      PROVE  OutcomeInv'
  <2>1. /\ phase # Ended /\ phase' # Ended
        /\ UNCHANGED <<alive, role>>
    BY <1>2
       DEF BeginNight, NightAction, NightPass, Recruit, InPhase, ActiveGame,
           boardVars, Night, Ended
  <2> QED BY <1>1, <2>1, BoardUntouched
<1>3. CASE AdvancePhase
  <2>1. phase = Night
    BY <1>3 DEF AdvancePhase, InPhase
  <2>2. CASE UNCHANGED <<phase, boardVars>>
    BY <1>1, <2>2, BoardUntouched DEF boardVars
  <2>3. CASE ResolveAndExitNight
    <3>1. /\ AliveAtDawn \in SUBSET Player
          /\ RolesAtDawn \in [Player -> Role \cup {NoRole}]
      BY DEF AliveAtDawn, AfterKills, RolesAtDawn, OutcomeInv, TypeOK, Role
    <3>2. EndsExactlyWhenDecided' /\ NeverHeadless'
      BY <2>3, <3>1, DeathsDecide DEF ResolveAndExitNight
    <3> QED BY <1>1, <3>2 DEF OutcomeInv, LobbyIsFresh
  <2> QED
    BY <1>3, <2>2, <2>3
       DEF AdvancePhase, EndOpening, EndNarrate, EndAct, EndPonder, EndSleep,
           EndSettle
<1> QED BY <1>2, <1>3 DEF NightNext

(* A day keeps the invariant: only the lynch kills. *)
LEMMA OutcomeDay ==
  ASSUME OutcomeInv, TypeOK', DayNext
  PROVE  OutcomeInv'
<1>1. rolesDealt /\ UNCHANGED rolesDealt
  BY DEF DayNext, OpenVoting, DayVote, RetractVote, DayAbstain, BallotFrame,
         MayVote, RevealVotes, ClearVotes, FinalizeVotes, InPhase, OutcomeInv,
         LobbyIsFresh, lobbyVars, Lobby, DayVoting, DayDiscussion
<1>2. CASE ~FinalizeVotes
  <2>1. /\ phase # Ended /\ phase' # Ended
        /\ UNCHANGED <<alive, role>>
    BY <1>2
       DEF DayNext, OpenVoting, DayVote, RetractVote, DayAbstain, BallotFrame,
           MayVote, RevealVotes, ClearVotes, InPhase, ActiveGame, boardVars,
           DayVoting, Ended
  <2> QED BY <1>1, <2>1, BoardUntouched
<1>3. CASE FinalizeVotes
  <2>1. phase = DayVoting
    BY <1>3 DEF FinalizeVotes, InPhase
  <2>2. CASE phase' = DayDiscussion /\ UNCHANGED <<role, alive>>
    BY <1>1, <2>1, <2>2, BoardUntouched DEF DayVoting, DayDiscussion, Ended
  <2>3. ASSUME NEW t, ResolveDeaths(alive \ {t}, role, DayDiscussion)
        PROVE  OutcomeInv'
    <3>1. /\ alive \ {t} \in SUBSET Player
          /\ role \in [Player -> Role \cup {NoRole}]
      BY DEF OutcomeInv, TypeOK
    <3>2. EndsExactlyWhenDecided' /\ NeverHeadless'
      BY <2>3, <3>1, DeathsDecide
    <3> QED BY <1>1, <3>2 DEF OutcomeInv, LobbyIsFresh
  <2> QED BY <1>3, <2>2, <2>3 DEF FinalizeVotes
<1> QED BY <1>2, <1>3

(* No step breaks the invariant. *)
LEMMA OutcomeStep ==
  ASSUME OutcomeInv, [Next]_vars
  PROVE  OutcomeInv'
<1>1. TypeOK'
  BY TypeStep DEF OutcomeInv
<1>2. CASE UNCHANGED vars
  BY <1>1, <1>2
     DEF OutcomeInv, LobbyIsFresh, EndsExactlyWhenDecided, NeverHeadless, vars,
         lobbyVars, boardVars, turnVars, dayVars
<1> QED BY <1>1, <1>2, OutcomeLobby, OutcomeNight, OutcomeDay DEF Next

(* The inductive invariant holds of every reachable state. *)
LEMMA OutcomeInvariant == Spec => []OutcomeInv
  BY OutcomeInit, OutcomeStep, PTL DEF Spec

(* The engine stops a game in the very step that decides it and never      *)
(* before.                                                                 *)
THEOREM GameEndsExactlyWhenDecided == Spec => []EndsExactlyWhenDecided
<1>1. OutcomeInv => EndsExactlyWhenDecided
  BY DEF OutcomeInv
<1> QED BY <1>1, OutcomeInvariant, PTL

(* A game that goes on always has a living member of the mafia faction:    *)
(* the consort takes over within the step that kills the last one.         *)
THEOREM GameIsNeverHeadless == Spec => []NeverHeadless
<1>1. OutcomeInv => NeverHeadless
  BY DEF OutcomeInv
<1> QED BY <1>1, OutcomeInvariant, PTL

(* A reset hands the next game a lobby without any rest of the last one.   *)
THEOREM ResetLobbyIsFresh == Spec => []LobbyIsFresh
<1>1. OutcomeInv => LobbyIsFresh
  BY DEF OutcomeInv
<1> QED BY <1>1, OutcomeInvariant, PTL

-------------------------------------------------------------------------------
(* The abstract game. *)

(* The instance counts with the same cardinality. *)
LEMMA SameCardinality == \A S : Abstract!Cardinality(S) = Cardinality(S)
  BY DEF Cardinality, Abstract!Cardinality

Sides(ro) == [p \in Player |-> SideOf(ro[p])]

(* Among players with a role the sides are the factions. *)
LEMMA SidesAreFactions ==
  ASSUME NEW al \in SUBSET Player, NEW ro, \A p \in al : ro[p] # NoRole
  PROVE  /\ Abstract!On("mafia", al, Sides(ro)) = FactionLiving(FactionMafia, al, ro)
         /\ Abstract!On("town", al, Sides(ro)) = FactionLiving(FactionTown, al, ro)
         /\ Abstract!On("sleeper", al, Sides(ro)) = FactionLiving(FactionConsort, al, ro)
         /\ FactionLiving(FactionConsort, al, ro) = {p \in al : ro[p] = Consort}
  BY DEF Abstract!On, Sides, SideOf, FactionLiving, Faction, FactionMafia, FactionTown,
         FactionConsort, Mafia, Yakuza, Consort

(* A board is decided when, among its sides, one has won. *)
LEMMA DecidedIsWon ==
  ASSUME NEW al \in SUBSET Player, NEW ro, \A p \in al : ro[p] # NoRole
  PROVE  Abstract!Won(al, Sides(ro)) <=> Decided(al, ro)
<1> DEFINE M == FactionLiving(FactionMafia, al, ro)
           T == FactionLiving(FactionTown, al, ro)
           C == FactionLiving(FactionConsort, al, ro)
<1>1. AlignedLiving(al, ro) = M \cup C
  BY DEF AlignedLiving, MafiaAligned, FactionLiving
<1>2. Cardinality(M) \in Nat /\ Cardinality(T) \in Nat
  <2>1. IsFiniteSet(M) /\ IsFiniteSet(T)
    BY PlayerAssumption, FS_Subset DEF FactionLiving
  <2> QED BY <2>1, FS_CardinalityType
<1>3. /\ Abstract!On("mafia", al, Sides(ro)) = M
      /\ Abstract!On("town", al, Sides(ro)) = T
      /\ Abstract!On("sleeper", al, Sides(ro)) = C
  BY SidesAreFactions
<1> HIDE DEF M, T, C
<1>4. Abstract!Cardinality(M) = Cardinality(M) /\ Abstract!Cardinality(T) = Cardinality(T)
  BY SameCardinality
<1>5. Abstract!Won(al, Sides(ro)) <=>
        \/ M \cup C = {}
        \/ Cardinality(M) > Cardinality(T)
        \/ Cardinality(M) = 1 /\ Cardinality(T) = 1
  BY <1>2, <1>3, <1>4 DEF Abstract!Won
<1>6. Decided(al, ro) <=>
        \/ M \cup C = {}
        \/ Cardinality(M) > Cardinality(T)
        \/ Cardinality(M) = Cardinality(T) /\ Cardinality(M) = 1
  BY <1>1, <1>2 DEF Decided, TownWins, MafiaWins, M, T
<1> QED BY <1>2, <1>5, <1>6

(* Who has a role: everybody at the table, once roles are dealt.  And one  *)
(* player at most has the bullet.                                          *)
Seated == rolesDealt => \A p \in Player : role[p] = NoRole <=> p \notin players

BoardInv == Seated /\ OneOf(Vigilante)

TableInv == OutcomeInv /\ VoteInv /\ DeedInv /\ BoardInv

(* Deaths with at most one player turned are Deaths of the abstract game:  *)
(* the promotion is the sleeper taking over, the win check its end.        *)
LEMMA DeathsImplemented ==
  ASSUME TypeOK, BoardInv, rolesDealt, UNCHANGED <<players, rolesDealt>>,
         phase \in {Night, DayVoting},
         NEW al \in SUBSET alive, Cardinality(alive \ al) \in 1 .. 2,
         NEW turned \in SUBSET al, Cardinality(turned) <= 1,
         turned # {} => FactionLiving(FactionMafia, alive \ al, role) # {},
         NEW ro, ro = [p \in Player |-> IF p \in turned THEN Mafia ELSE role[p]],
         ResolveDeaths(al, ro, DayDiscussion)
  PROVE  Abstract!Deaths
<1> DEFINE ro2 == AfterPromotion(al, ro)
<1>1. /\ alive' = al /\ role' = ro2
      /\ phase' = IF Decided(al, ro2) THEN Ended ELSE DayDiscussion
  BY DEF ResolveDeaths
<1>2. /\ al \subseteq Player /\ alive \ al \subseteq Player
      /\ \A p \in alive : p \in Player /\ role[p] # NoRole
      /\ \A p \in al : ro[p] # NoRole /\ ro2[p] # NoRole
  BY DEF TypeOK, BoardInv, Seated, AfterPromotion, Mafia, NoRole
<1>3. Abstract!Turn(turned) = Sides(ro)
  BY DEF Abstract!Turn, Sides, SideOf, Faction, FactionMafia, Mafia, NoRole
<1>4. Abstract!Heirs(al, Sides(ro)) = Promoted(al, ro)
  <2>1. al \in SUBSET Player /\ \A p \in al : ro[p] # NoRole
    BY <1>2
  <2>2. /\ Abstract!On("mafia", al, Sides(ro)) = FactionLiving(FactionMafia, al, ro)
        /\ Abstract!On("sleeper", al, Sides(ro)) = {p \in al : ro[p] = Consort}
    BY <2>1, SidesAreFactions
  <2> QED BY <2>2, Zenon DEF Abstract!Heirs, Promoted
<1>5. Abstract!Turn(turned \cup Promoted(al, ro)) = Sides(ro2)
  <2>1. \A p \in Player :
          ro2[p] = IF p \in turned \cup Promoted(al, ro) THEN Mafia ELSE role[p]
    BY DEF AfterPromotion
  <2>2. SideOf(Mafia) = "mafia"
    BY DEF SideOf, Faction, FactionMafia, Mafia, NoRole
  <2> HIDE DEF ro2
  <2>3. \A p \in Player :
          SideOf(ro2[p]) =
            IF p \in turned \cup Promoted(al, ro) THEN "mafia" ELSE SideOf(role[p])
    BY <2>1, <2>2
  <2> QED BY <2>3 DEF Abstract!Turn, Sides
<1>6. turned # {} => Abstract!On("mafia", alive \ al, Sides(role)) # {}
  BY <1>2, SidesAreFactions
<1>7. Sides(role)' = Abstract!Turn(turned \cup Abstract!Heirs(al, Abstract!Turn(turned)))
  BY <1>1, <1>3, <1>4, <1>5 DEF Sides
<1>8. Abstract!Won(al, Sides(role)') <=> Decided(al, ro2)
  BY <1>1, <1>2, DecidedIsWon DEF Sides
<1>9. /\ StageOf(rolesDealt, phase) = "running"
      /\ StageOf(rolesDealt, phase)' =
           IF Abstract!Won(al, Sides(role)') THEN "over" ELSE "running"
  BY <1>1, <1>8 DEF StageOf, Lobby, Night, DayVoting, DayDiscussion, Ended
<1>10. /\ Abstract!Cardinality(alive \ al) \in 1 .. 2
       /\ Abstract!Cardinality(turned) <= 1
  BY SameCardinality
<1> QED
  BY <1>1, <1>6, <1>7, <1>9, <1>10 DEF Abstract!Deaths, Sides

(* The invariant holds of the empty engine. *)
LEMMA TableInit == Init => TableInv
<1> SUFFICES ASSUME Init PROVE TableInv
  OBVIOUS
<1>1. BoardInv
  BY DEF Init, BoardInv, Seated, OneOf, NoRole, Vigilante
<1> QED BY <1>1, OutcomeInit, VoteInit, DeedInit DEF TableInv

(* Deaths give no role to an empty seat and take none away. *)
LEMMA DeathsKeepSeats ==
  ASSUME NEW al, NEW ro, NEW next, ResolveDeaths(al, ro, next)
  PROVE  \A p \in Player : role'[p] = NoRole <=> ro[p] = NoRole
  BY DEF ResolveDeaths, AfterPromotion, Promoted, Mafia, Consort, NoRole

(* The table keeps its roles: no step deals to an empty seat. *)
LEMMA SeatedStep ==
  ASSUME TypeOK, Seated, [Next]_vars
  PROVE  Seated'
<1>1. CASE StartGame
  <2>1. PICK d \in Deals :
          role' = [p \in Player |-> IF p \in players THEN d[p] ELSE NoRole]
    BY <1>1 DEF StartGame
  <2>2. \A p \in players : d[p] # NoRole
    BY DEF Deals, TypeOK, OptionalRole, NoRole, Mafia, Detective,
           Doctor, Villager, Consort, Vigilante, Yakuza, Tracker
  <2>3. UNCHANGED players
    BY <1>1 DEF StartGame
  <2> QED BY <2>1, <2>2, <2>3 DEF Seated
<1>2. CASE LobbyNext /\ ~StartGame
  BY <1>2
     DEF LobbyNext, CreateGame, AddPlayer, SetMafiaCount, SetOptional, ResetGame,
         LobbyOpen, boardVars, Seated
<1>3. ASSUME UNCHANGED <<rolesDealt, players>>,
             rolesDealt => \A p \in Player : role'[p] = NoRole <=> role[p] = NoRole
      PROVE  Seated'
  BY <1>3 DEF Seated
<1>4. CASE AdvancePhase /\ ResolveAndExitNight
  <2>1. \A p \in Player : role'[p] = NoRole <=> RolesAtDawn[p] = NoRole
    BY <1>4, DeathsKeepSeats DEF ResolveAndExitNight
  <2>2. Converts \subseteq players
    BY DEF Converts, AfterKills, TypeOK
  <2>3. rolesDealt => \A p \in Player : role'[p] = NoRole <=> role[p] = NoRole
    BY <2>1, <2>2 DEF RolesAtDawn, Mafia, NoRole, Seated
  <2>4. UNCHANGED <<rolesDealt, players>>
    BY <1>4 DEF AdvancePhase, lobbyVars
  <2> QED BY <1>3, <2>3, <2>4
<1>5. CASE NightNext /\ ~ResolveAndExitNight
  <2>1. UNCHANGED <<rolesDealt, players, role>>
    BY <1>5
       DEF NightNext, BeginNight, NightAction, NightPass, Recruit, AdvancePhase,
           EndOpening, EndNarrate, EndAct, EndPonder, EndSleep, EndSettle,
           lobbyVars, boardVars
  <2> QED BY <1>3, <2>1
<1>6. CASE FinalizeVotes
  <2>1. /\ UNCHANGED <<rolesDealt, players>>
        /\ \A p \in Player : role'[p] = NoRole <=> role[p] = NoRole
    BY <1>6, DeathsKeepSeats DEF FinalizeVotes, lobbyVars
  <2> QED BY <1>3, <2>1
<1>7. CASE DayNext /\ ~FinalizeVotes
  <2>1. UNCHANGED <<rolesDealt, players, role>>
    BY <1>7
       DEF DayNext, OpenVoting, DayVote, RetractVote, DayAbstain, BallotFrame,
           RevealVotes, ClearVotes, lobbyVars, boardVars
  <2> QED BY <1>3, <2>1
<1>8. CASE UNCHANGED vars
  BY <1>3, <1>8 DEF vars, lobbyVars, boardVars
<1>9. NightNext /\ ResolveAndExitNight => AdvancePhase
  <2>1. ResolveAndExitNight => phase' # Night
    BY DEF ResolveAndExitNight, ResolveDeaths, Night, DayDiscussion, Ended
  <2> QED BY <2>1
     DEF NightNext, BeginNight, NightAction, NightPass, Recruit, InPhase
<1> QED
  BY <1>1, <1>2, <1>4, <1>5, <1>6, <1>7, <1>8, <1>9 DEF Next

(* No step breaks the invariant. *)
LEMMA TableStep ==
  ASSUME TableInv, [Next]_vars
  PROVE  TableInv'
<1>1. OutcomeInv' /\ VoteInv' /\ DeedInv'
  BY OutcomeStep, VoteStep, DeedStep DEF TableInv
<1>2. TypeOK /\ Vigilante \in OptionalRole
  BY DEF OptionalRole, TableInv, OutcomeInv
<1>3. OneOf(Vigilante)'
  BY <1>2, OneOfStep DEF TableInv, BoardInv
<1>4. Seated'
  BY <1>2, SeatedStep DEF TableInv, BoardInv
<1> QED BY <1>1, <1>3, <1>4 DEF TableInv, BoardInv

-------------------------------------------------------------------------------
(* How many die. *)

(* A non-empty set inside a pair has one or two members. *)
LEMMA OneOrTwo ==
  ASSUME NEW x, NEW y, NEW S, S # {}, S \subseteq {x, y}
  PROVE  Cardinality(S) \in 1 .. 2
<1>1. /\ IsFiniteSet({x}) /\ Cardinality({x}) = 1
      /\ IsFiniteSet({y}) /\ Cardinality({y}) = 1
  BY FS_Singleton
<1>2. CASE S = {x} \/ S = {y}
  <2>1. Cardinality(S) = 1
    BY <1>1, <1>2, Zenon
  <2> QED BY <2>1
<1>3. CASE S = {x} \cup {y} /\ x # y
  <2>1. y \notin {x}
    BY <1>3
  <2>2. Cardinality({x} \cup {y}) = 2
    BY <1>1, <2>1, FS_AddElement
  <2>3. Cardinality(S) = 2
    BY <1>3, <2>2, Zenon
  <2> QED BY <2>3
<1> QED BY <1>2, <1>3

-------------------------------------------------------------------------------
(* The steps of the engine as steps of the abstract game. *)

(* Who is at the table has a role, once roles are dealt. *)
LEMMA LivingHaveRoles ==
  ASSUME TypeOK, BoardInv, rolesDealt
  PROVE  \A p \in alive : p \in Player /\ role[p] # NoRole
  BY DEF TypeOK, BoardInv, Seated

(* A lynch, of a living player and nobody else. *)
LEMMA LynchImplemented ==
  ASSUME TableInv, FinalizeVotes
  PROVE  Abstract!Deaths \/ UNCHANGED Abstract!gameVars
<1>1. /\ TypeOK /\ BoardInv /\ VoteInv /\ phase = DayVoting
      /\ rolesDealt /\ UNCHANGED <<players, rolesDealt>>
  BY DEF FinalizeVotes, InPhase, lobbyVars, TableInv, OutcomeInv, LobbyIsFresh, Lobby,
         DayVoting
<1>2. CASE phase' = DayDiscussion /\ UNCHANGED <<role, alive>>
  BY <1>1, <1>2
     DEF Abstract!gameVars, StageOf, Lobby, DayVoting, DayDiscussion, Ended
<1>3. ASSUME NEW t \in MajorityTargets, ResolveDeaths(alive \ {t}, role, DayDiscussion)
      PROVE  Abstract!Deaths
  <2> DEFINE al == alive \ {t}
  <2>1. t \in alive
    BY <1>1, <1>3, MajorityIsAlive
  <2>2. alive \ al = {t}
    BY <2>1
  <2>3. Cardinality(alive \ al) \in 1 .. 2
    BY <2>2, OneOrTwo
  <2>4. Cardinality({}) <= 1
    BY FS_EmptySet
  <2>5. role = [p \in Player |-> IF p \in {} THEN Mafia ELSE role[p]]
    BY <1>1 DEF TypeOK
  <2>6. al \in SUBSET alive /\ {} \in SUBSET al
    OBVIOUS
  <2> QED BY <1>1, <1>3, <2>3, <2>4, <2>5, <2>6, DeathsImplemented
<1> QED BY <1>2, <1>3 DEF FinalizeVotes

(* A night: a victim of the mafia or the yakuza that gave itself, and one  *)
(* of the vigilante.  Nobody is promoted, and the game does not end, when  *)
(* nobody dies.                                                            *)
LEMMA DawnImplemented ==
  ASSUME TableInv, phase = Night, UNCHANGED lobbyVars, ResolveAndExitNight
  PROVE  Abstract!Deaths \/ UNCHANGED Abstract!gameVars
<1> DEFINE al   == AliveAtDawn
           ro   == RolesAtDawn
           Dead == alive \ al
<1>1. /\ TypeOK /\ BoardInv /\ rolesDealt /\ UNCHANGED <<players, rolesDealt>>
      /\ FactionActsOnce /\ NoStaleDeeds /\ OneOf(Vigilante)
      /\ NeverHeadless /\ EndsExactlyWhenDecided
      /\ ResolveDeaths(al, ro, DayDiscussion)
  BY DEF ResolveAndExitNight, lobbyVars, TableInv, OutcomeInv, DeedInv, BoardInv,
         LobbyIsFresh, Lobby, Night
<1>2. PICK v : ShotVictims \subseteq {v}
  BY <1>1, OneShotVictim
<1>3. CASE RecruitPending
  <2>1. MafiaVictims = {}
    BY <1>1, <1>3, OneMafiaVictim
  <2>2. /\ recruitYakuza \in alive /\ role[recruitYakuza] = Yakuza
        /\ Faction(role[recruitTarget]) # FactionMafia
    BY <1>1, <1>3 DEF NoStaleDeeds
  <2>3. Dead # {} /\ Dead \subseteq {recruitYakuza, v} /\ recruitYakuza \in Dead
    BY <1>2, <1>3, <2>1, <2>2 DEF AliveAtDawn, AfterKills
  <2>4. Cardinality(Dead) \in 1 .. 2
    BY <2>3, OneOrTwo
  <2>5. recruitTarget # recruitYakuza
    BY <2>2, MafiaFactionRoles
  <2>6. Converts \subseteq al /\ Converts \subseteq {recruitTarget}
    BY <1>3, <2>5 DEF Converts, AliveAtDawn, IsRecruit
  <2>7. Cardinality(Converts) <= 1
    BY <2>6, AtMostOne
  <2>8. recruitYakuza \in FactionLiving(FactionMafia, Dead, role)
    BY <2>2, <2>3, MafiaFactionRoles DEF FactionLiving
  <2>9. al \subseteq alive
    BY DEF AliveAtDawn, AfterKills
  <2>10. Abstract!Deaths
    BY <1>1, <2>4, <2>6, <2>7, <2>8, <2>9, DeathsImplemented DEF RolesAtDawn
  <2> QED BY <2>10
<1>4. CASE ~RecruitPending
  <2>1. PICK m : MafiaVictims \subseteq {m}
    BY <1>1, OneMafiaVictim
  <2>2. al \subseteq alive /\ Dead \subseteq {m, v} /\ Converts = {}
    BY <1>2, <1>4, <2>1 DEF AliveAtDawn, AfterKills, Converts, IsRecruit
  <2>3. ro = [p \in Player |-> IF p \in {} THEN Mafia ELSE role[p]]
    BY <2>2 DEF RolesAtDawn
  <2>4. CASE Dead # {}
    <3>1. Cardinality(Dead) \in 1 .. 2
      BY <2>2, <2>4, OneOrTwo
    <3>2. Cardinality({}) <= 1
      BY FS_EmptySet
    <3>3. Abstract!Deaths
      BY <1>1, <2>2, <2>3, <3>1, <3>2, DeathsImplemented
    <3> QED BY <3>3
  <2>5. CASE Dead = {}
    <3>1. al = alive /\ ro = role
      BY <1>1, <2>2, <2>3, <2>5 DEF TypeOK
    <3>2. AfterPromotion(alive, role) = role
      BY <1>1 DEF AfterPromotion, Promoted, NeverHeadless, TypeOK, Night, Ended
    <3>3. ~Decided(alive, role)
      BY <1>1 DEF EndsExactlyWhenDecided, Night, Ended
    <3>4. alive' = alive /\ role' = role /\ phase' = DayDiscussion
      BY <1>1, <3>1, <3>2, <3>3 DEF ResolveDeaths
    <3> QED
      BY <1>1, <3>4 DEF Abstract!gameVars, StageOf, Lobby, Night, DayDiscussion, Ended
  <2> QED BY <2>4, <2>5
<1> QED BY <1>3, <1>4

(* The deal gives out sides as the abstract deal does. *)
LEMMA DealImplemented ==
  ASSUME TableInv, TableInv', StartGame
  PROVE  Abstract!Deal
<1>1. /\ phase = Lobby /\ ~rolesDealt /\ rolesDealt' /\ alive = players
      /\ UNCHANGED <<phase, players, alive>> /\ TypeOK /\ TypeOK' /\ Seated'
      /\ mafiaCount >= 1 /\ TownHasMajority(Cardinality(players))
  BY DEF StartGame, LobbyOpen, InPhase, TableInv, BoardInv, OutcomeInv, LobbyIsFresh
<1>2. PICK d \in Deals :
        role' = [p \in Player |-> IF p \in players THEN d[p] ELSE NoRole]
  BY DEF StartGame
<1>3. /\ FactionLiving(FactionMafia, players, role') # {}
      /\ 2 * Cardinality(FactionLiving(FactionTown, players, role')) > Cardinality(players)
      /\ Cardinality(FactionLiving(FactionConsort, players, role')) <= 1
  BY <1>1, <1>2, DealIsOpen
<1>4. players \in SUBSET Player /\ \A p \in players : role'[p] # NoRole
  BY <1>1 DEF Seated, TypeOK
<1>5. /\ Abstract!On("mafia", players, Sides(role')) # {}
      /\ 2 * Cardinality(Abstract!On("town", players, Sides(role'))) > Cardinality(players)
      /\ Cardinality(Abstract!On("sleeper", players, Sides(role'))) <= 1
  BY <1>3, <1>4, SidesAreFactions
<1>6. /\ Sides(role') \in [Player -> Abstract!Side]
      /\ \A p \in Player : Sides(role')[p] = "unknown" <=> p \notin players
  BY <1>1 DEF Sides, SideOf, Seated, Abstract!Side
<1>7. /\ StageOf(rolesDealt, phase) = "gathering"
      /\ StageOf(rolesDealt, phase)' = "dealt"
  BY <1>1 DEF StageOf
<1> QED BY <1>1, <1>5, <1>6, <1>7, SameCardinality DEF Abstract!Deal, Sides

(* Every step of the engine is a step of the abstract game or a stutter.   *)
LEMMA StepImplemented ==
  ASSUME TableInv, TableInv', [Next]_vars
  PROVE  [Abstract!Next]_Abstract!gameVars
<1>1. /\ ~rolesDealt => phase = Lobby /\ alive = players
      /\ Seated
  BY DEF TableInv, BoardInv, OutcomeInv, LobbyIsFresh
<1>2. ASSUME UNCHANGED <<players, role, alive>>,
             StageOf(rolesDealt, phase)' = StageOf(rolesDealt, phase)
      PROVE  UNCHANGED Abstract!gameVars
  BY <1>2 DEF Abstract!gameVars
<1>3. ASSUME NEW p \in Player, AddPlayer(p)
      PROVE  Abstract!Gather(p)
  BY <1>1, <1>3 DEF AddPlayer, LobbyOpen, InPhase, Abstract!Gather, StageOf
<1>4. CASE StartGame
  BY <1>4, DealImplemented DEF Abstract!Next
<1>5. CASE ResetGame
  <2>1. /\ StageOf(rolesDealt, phase) = "over"
        /\ StageOf(rolesDealt, phase)' = "gathering"
    BY <1>1, <1>5 DEF ResetGame, StageOf, Lobby, Ended
  <2>2. [p \in Player |-> SideOf(role'[p])] = [p \in Player |-> "unknown"]
    BY <1>5 DEF ResetGame, ResetBoard, SideOf
  <2>3. Abstract!PlayAgain
    BY <1>5, <2>1, <2>2 DEF ResetGame, ResetBoard, Abstract!PlayAgain
  <2> QED BY <2>3 DEF Abstract!Next
<1>6. CASE \/ \E c \in {0} \cup MafiaCounts : CreateGame(c)
           \/ \E c \in MafiaCounts : SetMafiaCount(c)
           \/ \E r \in OptionalRole, on \in BOOLEAN : SetOptional(r, on)
  <2>1. UNCHANGED <<players, role, alive, rolesDealt, phase>>
    BY <1>6 DEF CreateGame, SetMafiaCount, SetOptional, boardVars
  <2> QED BY <1>2, <2>1
<1>7. CASE BeginNight
  <2>1. /\ UNCHANGED <<players, role, alive, rolesDealt>> /\ rolesDealt
        /\ phase \in {Lobby, DayDiscussion} /\ phase' = Night
    BY <1>1, <1>7 DEF BeginNight, lobbyVars, boardVars, Lobby, DayDiscussion
  <2>2. CASE phase = Lobby
    <3>1. Abstract!Begin
      BY <2>1, <2>2 DEF Abstract!Begin, StageOf, Lobby, Night, Ended
    <3> QED BY <3>1 DEF Abstract!Next
  <2>3. CASE phase = DayDiscussion
    BY <1>2, <2>1, <2>3 DEF StageOf, Lobby, DayDiscussion, Night, Ended
  <2> QED BY <2>1, <2>2, <2>3
<1>8. CASE \/ \E a, t \in Player : NightAction(a, t)
           \/ \E a \in Player : NightPass(a)
           \/ \E y, t \in Player : Recruit(y, t)
           \/ AdvancePhase /\ ~ResolveAndExitNight
  <2>1. UNCHANGED <<players, role, alive, rolesDealt, phase>>
    BY <1>8
       DEF NightAction, NightPass, Recruit, AdvancePhase, EndOpening, EndNarrate, EndAct,
           EndPonder, EndSleep, EndSettle, lobbyVars, boardVars
  <2> QED BY <1>2, <2>1
<1>9. CASE AdvancePhase /\ ResolveAndExitNight
  <2>1. phase = Night /\ UNCHANGED lobbyVars
    BY <1>9 DEF AdvancePhase, InPhase
  <2> QED BY <1>9, <2>1, DawnImplemented DEF Abstract!Next
<1>10. CASE FinalizeVotes
  BY <1>10, LynchImplemented DEF Abstract!Next
<1>11. CASE DayNext /\ ~FinalizeVotes
  <2>1. /\ UNCHANGED <<players, role, alive, rolesDealt>>
        /\ phase \in {DayDiscussion, DayVoting} /\ phase' \in {DayDiscussion, DayVoting}
    BY <1>11
       DEF DayNext, OpenVoting, DayVote, RetractVote, DayAbstain, MayVote, BallotFrame,
           RevealVotes, ClearVotes, InPhase, lobbyVars, boardVars
  <2>2. StageOf(rolesDealt, phase)' = StageOf(rolesDealt, phase)
    BY <2>1 DEF StageOf, Lobby, DayDiscussion, DayVoting, Ended
  <2> QED BY <1>2, <2>1, <2>2
<1>12. CASE UNCHANGED vars
  <2>1. UNCHANGED <<players, role, alive, rolesDealt, phase>>
    BY <1>12 DEF vars, lobbyVars, boardVars
  <2> QED BY <1>2, <2>1
<1> QED
  BY <1>3, <1>4, <1>5, <1>6, <1>7, <1>8, <1>9, <1>10, <1>11, <1>12
     DEF Next, LobbyNext, NightNext, Abstract!Next

(* The empty engine is the abstract game before anybody came. *)
LEMMA InitImplemented == Init => Abstract!Init
  BY DEF Init, Abstract!Init, StageOf, SideOf

(* Whatever nights, votes and roles do, a player watching only who sits,   *)
(* lives and is on whose side sees the abstract game: fair deals, deaths   *)
(* of one or two, one conversion or takeover at a time, and an end exactly *)
(* when a side has won.                                                    *)
THEOREM EngineImplementsGame == Spec => ImplementsHiddenRoleGame
<1>1. Spec => []TableInv
  BY TableInit, TableStep, PTL DEF Spec
<1>2. TableInv /\ TableInv' /\ [Next]_vars => [Abstract!Next]_Abstract!gameVars
  BY StepImplemented
<1> QED
  BY <1>1, <1>2, InitImplemented, PTL
     DEF Spec, ImplementsHiddenRoleGame, Abstract!Spec

===============================================================================
