------------------------------ MODULE Projection -------------------------------
(***************************************************************************)
(* Who sees what: the room's event log, the redaction every event passes   *)
(* on its way to a player (projection.go), and the browser tab that puts   *)
(* names to roles from what gets through (web/events.js).                  *)
(*                                                                         *)
(* The engine emits the full truth.  An event is visible to an audience,   *)
(* and whether a player belongs to it is asked anew whenever the event is  *)
(* sent: to a tab that is connected, of the board right after the command; *)
(* to a tab that resumes, of the board at that moment, for events of any   *)
(* age.  Deaths, conversions and promotions move players between           *)
(* audiences, so three tabs of one player (never disconnected, resumed at  *)
(* its cursor, rebuilt from nothing) receive three different subsets of    *)
(* the log.                                                                *)
(*                                                                         *)
(* The engine is MafiaGame's, one game of it: what a reset does to cursors *)
(* is Room's subject.  An event is kept as its kind, its audience, the     *)
(* roles it names and the action it shows; events that name no role are    *)
(* left out but for one public Cue where a batch ends in some.             *)
(***************************************************************************)
EXTENDS MafiaGame, SequencesExt

VARIABLES
  log,     \* Room.events, as far as kept
  tab,     \* the tab of each player that has never been disconnected
  stale    \* each player's tabs that lost their connection at some moment

tableVars == <<log, tab, stale>>
projectionVars == <<vars, tableVars>>

-------------------------------------------------------------------------------
(* Audiences (event.go, projection.go). *)

To(audience, who) == [audience |-> audience, who |-> who]
Public       == To("public", NoPlayer)
PrivateTo(p) == To("player", p)
FactionOnly  == To("faction", NoPlayer)   \* FactionMafia, the only one used
Graveyard    == To("dead", NoPlayer)

(* Mutant: the graveyard is open to the living. *)
CanSeeTheGraveyard(v, to, al, ro) ==
  CASE to.audience = "public"  -> TRUE
    [] to.audience = "player"  -> v = to.who
    [] to.audience = "faction" -> v \in al /\ Faction(ro[v]) = FactionMafia
    [] to.audience = "dead"    -> v \in players

(* canSee, on the board of the moment of sending. *)
CanSee(v, to, al, ro) ==
  CASE to.audience = "public"  -> TRUE
    [] to.audience = "player"  -> v = to.who
    [] to.audience = "faction" -> v \in al /\ Faction(ro[v]) = FactionMafia
    [] to.audience = "dead"    -> v \notin al

-------------------------------------------------------------------------------
(* Events (event.go).  roles: pairs <<player, role>> that the event names. *)

Event(kind, to, roles) ==
  [kind |-> kind, to |-> to, roles |-> roles, act |-> <<NoPlayer, NoPlayer>>]

Cue         == Event("cue", Public, {})
NightFalls  == Event("night", Public, {})     \* PhaseChanged to the night
PlayerDied  == Event("died", Public, {})      \* PlayerKilled, PlayerLynched

RoleAssigned(p, r) == Event("role_assigned", PrivateTo(p), {<<p, r>>})
ConsortPromoted(p) == Event("promoted", PrivateTo(p), {<<p, Mafia>>})

(* Mutant: the roster lists the living members only. *)
LivingMafiaRoster(al, ro) ==
  Event("roster", FactionOnly,
        {<<p, ro[p]>> : p \in {q \in players \cap al : Faction(ro[q]) = FactionMafia}})

(* currentMafiaRoster: every member, alive or dead, and which of them is   *)
(* the yakuza; StartGame's roster is the same set.                         *)
MafiaRoster(al, ro) ==
  Event("roster", FactionOnly,
        {<<p, ro[p]>> : p \in {q \in players : Faction(ro[q]) = FactionMafia}})

Everyone(ro) == {<<p, ro[p]>> : p \in players}   \* finalRolesSnapshot

RosterRevealed(ro) == Event("roster_revealed", Graveyard, Everyone(ro))
GameEnded(ro)      == Event("game_ended", Public, Everyone(ro))

(* NightActionRecorded and RecruitRecorded: the faction sees its members'  *)
(* deeds, anyone else their own.                                           *)
Recorded(a, t) ==
  [Event("recorded",
         IF Faction(role[a]) = FactionMafia THEN FactionOnly ELSE PrivateTo(a),
         {<<a, role[a]>>})
     EXCEPT !.act = <<a, t>>]

(* SpectatorNightAction *)
Spectated(a, t) ==
  [Event("spectated", Graveyard, {<<a, role[a]>>, <<t, role[t]>>})
     EXCEPT !.act = <<a, t>>]

-------------------------------------------------------------------------------
(* The batch each command emits. *)

(* applyStartGame *)
DealBatch(ro) ==
  <<Cue>> \o SetToSeq({RoleAssigned(p, ro[p]) : p \in players})
          \o <<MafiaRoster(alive, ro)>>

(* applyNightAction, applyRecruit: the act, its mirror to the dead, and    *)
(* the public start of the ponder.                                         *)
ActBatch(a, t) == <<Recorded(a, t), Spectated(a, t), Cue>>

(* promoteConsortIfNeeded *)
PromotionBatch(al, ro) ==
  IF Promoted(al, ro) = {} THEN <<>>
  ELSE SetToSeq({ConsortPromoted(p) : p \in Promoted(al, ro)})
         \o <<MafiaRoster(al, AfterPromotion(al, ro))>>

(* revealRosterToGraveyard: only when the batch changed the board. *)
GraveyardBatch(batch, ro) ==
  IF \E i \in DOMAIN batch : batch[i].kind \in {"died", "promoted"}
    THEN <<RosterRevealed(ro)>>
    ELSE <<>>

(* Mutant: the graveyard's snapshot is taken before the promotion. *)
SnapshotBeforePromotion(batch, al, ro) ==
  LET told == batch \o PromotionBatch(al, ro)
      ro2  == AfterPromotion(al, ro)
  IN  told \o IF Decided(al, ro2) THEN <<GameEnded(ro2), Cue>>
              ELSE GraveyardBatch(told, ro) \o <<Cue>>

(* resolveDeathsAndMaybeEnd and the PhaseChanged that follows it: the      *)
(* promotion, then the final roles or the snapshot for the dead.           *)
DeathBatch(batch, al, ro) ==
  LET told == batch \o PromotionBatch(al, ro)
      ro2  == AfterPromotion(al, ro)
  IN  told \o IF Decided(al, ro2) THEN <<GameEnded(ro2), Cue>>
              ELSE GraveyardBatch(told, ro2) \o <<Cue>>

(* resolvePhase's kills, then resolveRecruit: the convert's new role, the  *)
(* yakuza's death, and the roster whether or not the recruit succeeded.    *)
NightBatch ==
  LET killed == IF AfterKills = alive THEN <<>> ELSE <<PlayerDied>>
      turned == SetToSeq({RoleAssigned(p, Mafia) : p \in Converts})
      paid   == IF AliveAtDawn = AfterKills THEN <<>> ELSE <<PlayerDied>>
  IN  killed \o IF RecruitPending
                  THEN turned \o paid \o <<MafiaRoster(AliveAtDawn, RolesAtDawn)>>
                  ELSE <<>>

-------------------------------------------------------------------------------
(* A tab (web/events.js, handleEvent): what it believes, and its cursor.   *)

NewModel ==
  [myRole |-> NoRole, peers |-> {}, yakuza |-> NoPlayer, revealed |-> {}, feed |-> {}]

RoleIn(e) == (CHOOSE x \in e.roles : TRUE)[2]

HandleEvent(m, e) ==
  CASE e.kind = "role_assigned" -> [m EXCEPT !.myRole = RoleIn(e)]
    [] e.kind = "promoted"      -> [m EXCEPT !.myRole = Mafia]
    [] e.kind = "roster" ->
         LET badged == {x[1] : x \in {y \in e.roles : y[2] = Yakuza}} IN
         [m EXCEPT !.peers  = @ \cup {x[1] : x \in e.roles},
                   !.yakuza = IF badged = {} THEN @ ELSE CHOOSE p \in badged : TRUE]
    [] e.kind \in {"roster_revealed", "game_ended"} -> [m EXCEPT !.revealed = e.roles]
    [] e.kind = "spectated"     -> [m EXCEPT !.feed = @ \cup {e.act}]
    [] e.kind = "night"         -> [m EXCEPT !.feed = {}]
    [] OTHER                    -> m

(* What a tab of v that shows m shows after it has been sent es: of each    *)
(* event it gets what v may see.                                           *)
Replay(v, m, es, al, ro) ==
  LET after[i \in 0 .. Len(es)] ==
        IF i = 0 THEN m
        ELSE IF CanSee(v, es[i].to, al, ro) THEN HandleEvent(after[i - 1], es[i])
        ELSE after[i - 1]
  IN  after[Len(es)]

(* broadcastToSubs: each event of a batch that starts after the log's      *)
(* first "base" as it comes, the cursor at the last one that got through.  *)
Receive(v, t, base, batch, al, ro) ==
  LET through == {i \in DOMAIN batch : CanSee(v, batch[i].to, al, ro)} IN
  [model  |-> Replay(v, t.model, batch, al, ro),
   cursor |-> IF through = {} THEN t.cursor
              ELSE base + CHOOSE i \in through : \A j \in through : j <= i]

(* handleRejoin with no cursor (a page load): the whole log. *)
Rebuilt(v) == Replay(v, NewModel, log, alive, role)

(* Mutant: the tail starts one event late. *)
ResumedOneLate(v, t) ==
  IF t.cursor \in 1 .. Len(log)
    THEN Replay(v, t.model, SubSeq(log, t.cursor + 2, Len(log)), alive, role)
    ELSE Rebuilt(v)

(* handleRejoin at the tab's cursor: the tail on top of what it holds.     *)
Resumed(v, t) ==
  IF t.cursor \in 1 .. Len(log)
    THEN Replay(v, t.model, SubSeq(log, t.cursor + 1, Len(log)), alive, role)
    ELSE Rebuilt(v)

-------------------------------------------------------------------------------
(* Every batch goes to the log and to the tabs that are connected.  Any    *)
(* tab may have lost its connection just before, with the cursor of the    *)
(* last event it got or with the one its last resume set.                  *)
Emit(batch) ==
  /\ log' = log \o batch
  /\ tab' = [v \in players |-> Receive(v, tab[v], Len(log), batch, alive', role')]
  /\ stale' = [v \in players |->
                 stale[v] \cup {tab[v], [tab[v] EXCEPT !.cursor = Len(log)]}]

NothingNamed == UNCHANGED tableVars

(* The deal has just been broadcast.  Its last event, the roster, is not   *)
(* for everyone: a resume sets the cursor past it, receiving does not.     *)
NewTab == [model |-> NewModel, cursor |-> 0]

Dealt ==
  /\ log = DealBatch(role)
  /\ tab = [v \in players |-> Receive(v, NewTab, 0, log, alive, role)]
  /\ stale = [v \in players |-> {[tab[v] EXCEPT !.cursor = Len(log)]}]

Dusk == BeginNight /\ Emit(<<Cue, NightFalls>>)

Submit(a, t) == NightAction(a, t) /\ Emit(ActBatch(a, t))

SubmitRecruit(y, t) == Recruit(y, t) /\ Emit(ActBatch(y, t))

Tick == AdvancePhase /\ phase' = Night /\ NothingNamed

Daybreak == AdvancePhase /\ phase' # Night
          /\ Emit(DeathBatch(NightBatch, AliveAtDawn, RolesAtDawn))

Adjourn == FinalizeVotes /\ alive' = alive /\ Emit(<<Cue>>)

Lynch == FinalizeVotes /\ alive' # alive
           /\ Emit(DeathBatch(<<PlayerDied>>, alive', role))

-------------------------------------------------------------------------------
(* A game from the empty lobby to its end, without the reset.              *)

Deal ==
  /\ StartGame
  /\ log' = DealBatch(role')
  /\ tab' = [v \in players |-> Receive(v, NewTab, 0, log', alive', role')]
  /\ stale' = [v \in players |-> {[tab'[v] EXCEPT !.cursor = Len(log')]}]

(* What is left of the lobby, the night and the day: commands whose events *)
(* name no role.                                                           *)
Quiet ==
  /\ \/ \E c \in {0} \cup MafiaCounts : CreateGame(c)
     \/ \E p \in Player : AddPlayer(p)
     \/ \E c \in MafiaCounts : SetMafiaCount(c)
     \/ \E r \in OptionalRole, on \in BOOLEAN : SetOptional(r, on)
     \/ \E a \in Player : NightPass(a)
     \/ OpenVoting
     \/ \E v, t \in Player : DayVote(v, t)
     \/ \E v \in Player : RetractVote(v) \/ DayAbstain(v)
     \/ RevealVotes
     \/ ClearVotes
  /\ NothingNamed

OneGameInit == Init /\ log = <<>> /\ tab = <<>> /\ stale = <<>>

OneGameNext ==
  \/ Deal
  \/ Dusk
  \/ \E a, t \in Player : Submit(a, t) \/ SubmitRecruit(a, t)
  \/ Tick
  \/ Daybreak
  \/ Adjourn
  \/ Lynch
  \/ Quiet

OneGameSpec == OneGameInit /\ [][OneGameNext]_projectionVars

===============================================================================
