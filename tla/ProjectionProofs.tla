---------------------------- MODULE ProjectionProofs ---------------------------
(***************************************************************************)
(* Theorems about who knows what: the secrets of a game are kept, and what *)
(* is shared reaches everyone it is meant for, however connected.  They    *)
(* hold for any set of players, and any length of the game.                *)
(***************************************************************************)
EXTENDS ProjectionProps, OutcomeProofs, FoldLemmas

-------------------------------------------------------------------------------
(* The types of events and of what tabs hold, and the audience each kind   *)
(* of event is for.                                                        *)
Named == Player \X (Role \cup {NoRole})
Kinds == {"cue", "night", "died", "role_assigned", "promoted", "roster",
          "roster_revealed", "game_ended", "recorded", "spectated"}
Audience == [audience : {"public", "player", "faction", "dead"}, who : Target]
Acts == Target \X Target

Addressed(e) ==
  /\ e.kind \in {"cue", "night", "died", "game_ended"} => e.to.audience = "public"
  /\ e.kind \in {"role_assigned", "promoted"} => e.to.audience = "player"
  /\ e.kind = "role_assigned" => \E r \in Role : e.roles = {<<e.to.who, r>>}
  /\ e.kind = "roster" => e.to.audience = "faction"
  /\ e.kind \in {"roster_revealed", "spectated"} => e.to.audience = "dead"

Ev == {e \in [kind : Kinds, to : Audience, roles : SUBSET Named, act : Acts] : Addressed(e)}

TabModel == [myRole : Role \cup {NoRole}, peers : SUBSET Player, yakuza : Target,
             revealed : SUBSET Named, feed : SUBSET Acts]
Tab == [model : TabModel, cursor : Nat]

(* Every tab a player may come back with: one it had when it lost its      *)
(* connection earlier, one that loses it now, and an empty one.            *)
AtEnd(t) == [t EXCEPT !.cursor = Len(log)]
Tabs(v) == stale[v] \cup {NewTab, tab[v], AtEnd(tab[v])}

Typed ==
  /\ log \in Seq(Ev)
  /\ tab = [v \in players |-> tab[v]] /\ stale = [v \in players |-> stale[v]]
  /\ \A v \in players : \A t \in Tabs(v) : t \in Tab /\ t.cursor <= Len(log)

(* A log settles a matter at k: the event there does, and from there on no *)
(* event says anything else.                                               *)
Settled(l, k, News, True) ==
  k \in DOMAIN l /\ l[k] \in News /\ \A j \in k .. Len(l) : l[j] \in True

(* What v knows of its own role. *)
TellsRole(e, v) == e.kind \in {"role_assigned", "promoted"} /\ e.to.who = v
TellsRoleIs(e, v, r) ==
  /\ TellsRole(e, v)
  /\ IF e.kind = "promoted" THEN r = Mafia ELSE e.roles = {<<v, r>>}

RoleNews(v, r) == {e \in Ev : TellsRoleIs(e, v, r)}
RoleTrue(v, r) == {e \in Ev : TellsRole(e, v) => TellsRoleIs(e, v, r)}
RoleTold(l, k, v, r) == Settled(l, k, RoleNews(v, r), RoleTrue(v, r))

OwnRoleKnown ==
  \A v \in players : \E k \in DOMAIN log :
    /\ RoleTold(log, k, v, role[v])
    /\ \A t \in Tabs(v) : t.cursor < k \/ t.model.myRole = role[v]

(* What the living may know. *)
MembersOf(ro) == {p \in players : Faction(ro[p]) = FactionMafia}
YakuzaOf(ro) == {p \in players : ro[p] = Yakuza}

Harmless(e, ro) ==
  /\ e.kind # "game_ended"
  /\ e.to.audience = "public" => e.roles = {}
  /\ e.to.audience = "player" => \A x \in e.roles : x[1] = e.to.who
  /\ e.to.audience = "faction" => \A x \in e.roles : x[1] \in MembersOf(ro)
  /\ e.kind = "roster" => \A x \in e.roles : x[2] = Yakuza => ro[x[1]] = Yakuza

Discreet(v, m, ro) ==
  /\ m.revealed = {} /\ m.feed = {}
  /\ m.peers \subseteq IF v \in MembersOf(ro) THEN MembersOf(ro) ELSE {}
  /\ m.yakuza \in {NoPlayer} \cup YakuzaOf(ro)

LivingAreDiscreet ==
  phase # Ended =>
    /\ \A i \in DOMAIN log : Harmless(log[i], role)
    /\ \A v \in alive : \A t \in Tabs(v) : Discreet(v, t.model, role)

(* What the faction knows of itself. *)
WholeRoster(e, ro) ==
  e.kind = "roster" /\ e.roles = {<<p, ro[p]>> : p \in MembersOf(ro)}

RosterNews(ro) == {e \in Ev : WholeRoster(e, ro)}
RosterTrue(ro) == {e \in Ev : e.kind = "roster" => WholeRoster(e, ro)}
RosterTold(l, k, ro) == Settled(l, k, RosterNews(ro), RosterTrue(ro))

KnowsCabal(m, ro) ==
  /\ m.peers = MembersOf(ro)
  /\ \A p \in MembersOf(ro) : p = m.yakuza <=> ro[p] = Yakuza

CabalKnown ==
  phase # Ended =>
    \E k \in DOMAIN log :
      /\ RosterTold(log, k, role)
      /\ \A v \in alive \cap MembersOf(role) : \A t \in Tabs(v) :
           t.cursor < k \/ KnowsCabal(t.model, role)

(* What is shown to the dead, and at the end of the game to everyone. *)
Reveals(e) == e.kind \in {"roster_revealed", "game_ended"}
BoardNews(ph, ro) ==
  {e \in Ev : Reveals(e) /\ e.roles = Everyone(ro) /\ (ph = Ended => e.kind = "game_ended")}
BoardTrue(ro) == {e \in Ev : Reveals(e) => e.roles = Everyone(ro)}
BoardShown(l, k, ph, ro) == Settled(l, k, BoardNews(ph, ro), BoardTrue(ro))

Watchers(al, ph) == IF ph = Ended THEN players ELSE players \ al

BoardKnown ==
  Watchers(alive, phase) # {} =>
    \E k \in DOMAIN log :
      /\ BoardShown(log, k, phase, role)
      /\ \A v \in Watchers(alive, phase) : \A t \in Tabs(v) :
           t.cursor < k \/ t.model.revealed = Everyone(role)

(* What the dead see of the night. *)
Tonight == {<<a, pendingNight[a]>> : a \in {b \in Player : pendingNight[b] # NoPlayer}}
             \cup (IF RecruitPending THEN {<<recruitYakuza, recruitTarget>>} ELSE {})
Seen(l, from, to) == {l[j].act : j \in {i \in from .. to : l[i].kind = "spectated"}}

NightShown(l, k, acts) ==
  /\ k \in DOMAIN l /\ l[k].kind = "night"
  /\ \A j \in k + 1 .. Len(l) : l[j].kind # "night"
  /\ Seen(l, k + 1, Len(l)) = acts

NightKnown ==
  phase = Night =>
    \E k \in DOMAIN log :
      /\ NightShown(log, k, Tonight)
      /\ \A v \in players \ alive : \A t \in Tabs(v) :
           t.cursor < k \/ t.model.feed = Seen(log, k + 1, t.cursor)

KnowledgeInv ==
  rolesDealt =>
    /\ Typed /\ OwnRoleKnown /\ LivingAreDiscreet /\ CabalKnown /\ BoardKnown
    /\ NightKnown

(* A tab that shows what its player should see. *)
Sound(v, m, al, ph, ro, acts) ==
  /\ m \in TabModel /\ m.myRole = ro[v]
  /\ ph # Ended /\ v \in al => Discreet(v, m, ro)
  /\ ph # Ended /\ v \in al \cap MembersOf(ro) => KnowsCabal(m, ro)
  /\ v \in Watchers(al, ph) => m.revealed = Everyone(ro)
  /\ ph = Night /\ v \notin al => m.feed = acts

-------------------------------------------------------------------------------
(* What a fold over a log computes. *)

(* The values a tab's model goes through. *)
Watches(f, v, m, es, al, ro) ==
  /\ f \in [0 .. Len(es) -> TabModel]
  /\ f[0] = m
  /\ Replay(v, m, es, al, ro) = f[Len(es)]
  /\ \A i \in 1 .. Len(es) :
       f[i] = IF CanSee(v, es[i].to, al, ro) THEN HandleEvent(f[i - 1], es[i]) ELSE f[i - 1]

(* What a tab makes of an event, item by item. *)
RoleAfter(m, e) ==
  IF e.kind = "role_assigned" THEN RoleIn(e)
  ELSE IF e.kind = "promoted" THEN Mafia ELSE m.myRole
BadgedIn(e) == {x[1] : x \in {y \in e.roles : y[2] = Yakuza}}
PeersAfter(m, e) == IF e.kind = "roster" THEN m.peers \cup {x[1] : x \in e.roles} ELSE m.peers
YakuzaAfter(m, e) ==
  IF e.kind = "roster" /\ BadgedIn(e) # {} THEN CHOOSE p \in BadgedIn(e) : TRUE ELSE m.yakuza
RevealedAfter(m, e) == IF Reveals(e) THEN e.roles ELSE m.revealed
FeedAfter(m, e) ==
  IF e.kind = "night" THEN {}
  ELSE IF e.kind = "spectated" THEN m.feed \cup {e.act} ELSE m.feed

(* handleEvent, item by item. *)
LEMMA EventHandled ==
  ASSUME NEW m \in TabModel, NEW e \in Ev
  PROVE  HandleEvent(m, e) = [myRole |-> RoleAfter(m, e), peers |-> PeersAfter(m, e),
                              yakuza |-> YakuzaAfter(m, e), revealed |-> RevealedAfter(m, e),
                              feed |-> FeedAfter(m, e)]
<1>1. m = [myRole |-> m.myRole, peers |-> m.peers, yakuza |-> m.yakuza,
           revealed |-> m.revealed, feed |-> m.feed]
  BY DEF TabModel
<1>2. CASE e.kind = "role_assigned"
  BY <1>1, <1>2 DEF HandleEvent, RoleAfter, PeersAfter, YakuzaAfter, RevealedAfter,
       FeedAfter, Reveals
<1>3. CASE e.kind = "promoted"
  BY <1>1, <1>3 DEF HandleEvent, RoleAfter, PeersAfter, YakuzaAfter, RevealedAfter,
       FeedAfter, Reveals
<1>4. CASE e.kind = "roster"
  BY <1>1, <1>4 DEF HandleEvent, RoleAfter, PeersAfter, YakuzaAfter, RevealedAfter,
       FeedAfter, Reveals, BadgedIn
<1>5. CASE e.kind = "spectated"
  BY <1>1, <1>5 DEF HandleEvent, RoleAfter, PeersAfter, YakuzaAfter, RevealedAfter,
       FeedAfter, Reveals
<1>6. CASE e.kind = "night"
  BY <1>1, <1>6 DEF HandleEvent, RoleAfter, PeersAfter, YakuzaAfter, RevealedAfter,
       FeedAfter, Reveals
<1>7. CASE e.kind = "roster_revealed"
  BY <1>1, <1>7 DEF HandleEvent, RoleAfter, PeersAfter, YakuzaAfter, RevealedAfter,
       FeedAfter, Reveals
<1>8. CASE e.kind = "game_ended"
  BY <1>1, <1>8 DEF HandleEvent, RoleAfter, PeersAfter, YakuzaAfter, RevealedAfter,
       FeedAfter, Reveals
<1>9. CASE e.kind \in {"cue", "died", "recorded"}
  BY <1>1, <1>9 DEF HandleEvent, RoleAfter, PeersAfter, YakuzaAfter, RevealedAfter,
       FeedAfter, Reveals
<1> QED BY <1>2, <1>3, <1>4, <1>5, <1>6, <1>7, <1>8, <1>9 DEF Ev, Kinds


(* Five facts about the events that change an item. *)
LEMMA RoleInIs ==
  ASSUME NEW e, NEW p, NEW r, e.roles = {<<p, r>>}
  PROVE  RoleIn(e) = r
<1>1. (CHOOSE x \in e.roles : TRUE) \in e.roles
  OBVIOUS
<1>2. (CHOOSE x \in e.roles : TRUE) = <<p, r>>
  BY <1>1
<1> QED BY <1>2 DEF RoleIn

(* The choice of the badged member. *)
LEMMA BadgeInIs ==
  ASSUME NEW e, BadgedIn(e) # {}
  PROVE  (CHOOSE p \in BadgedIn(e) : TRUE) \in BadgedIn(e)
  OBVIOUS

(* Whoever an event badges is a player it names. *)
LEMMA BadgedAreNamed ==
  ASSUME NEW e \in Ev, NEW p \in BadgedIn(e)
  PROVE  p \in Player /\ <<p, Yakuza>> \in e.roles
<1>1. PICK x \in e.roles : x[2] = Yakuza /\ p = x[1]
  BY DEF BadgedIn
<1>2. x = <<p, Yakuza>> /\ p \in Player
  BY <1>1 DEF Ev, Named
<1> QED BY <1>1, <1>2

(* A model stays one. *)
LEMMA EventTyped ==
  ASSUME NEW m \in TabModel, NEW e \in Ev
  PROVE  HandleEvent(m, e) \in TabModel
<1>1. RoleAfter(m, e) \in Role \cup {NoRole}
  <2>1. CASE e.kind = "role_assigned"
    <3>1. PICK r \in Role : e.roles = {<<e.to.who, r>>}
      BY <2>1 DEF Ev, Addressed
    <3>2. RoleIn(e) = r
      BY <3>1, RoleInIs
    <3> QED BY <2>1, <3>2 DEF RoleAfter
  <2> QED BY <2>1 DEF RoleAfter, TabModel, Role
<1>2. PeersAfter(m, e) \in SUBSET Player
  <2>1. \A x \in e.roles : x[1] \in Player
    BY DEF Ev, Named
  <2> QED BY <2>1 DEF PeersAfter, TabModel
<1>3. YakuzaAfter(m, e) \in Target
  <2>1. CASE e.kind = "roster" /\ BadgedIn(e) # {}
    <3>1. PICK p \in BadgedIn(e) : p = YakuzaAfter(m, e)
      BY <2>1, BadgeInIs DEF YakuzaAfter
    <3> QED BY <3>1, BadgedAreNamed DEF Target
  <2> QED BY <2>1 DEF YakuzaAfter, TabModel
<1>4. RevealedAfter(m, e) \in SUBSET Named
  BY DEF RevealedAfter, TabModel, Ev
<1>5. FeedAfter(m, e) \in SUBSET Acts
  BY DEF FeedAfter, TabModel, Ev
<1> HIDE DEF RoleAfter, PeersAfter, YakuzaAfter, RevealedAfter, FeedAfter
<1> QED BY <1>1, <1>2, <1>3, <1>4, <1>5, EventHandled DEF TabModel

(* The fold exists, and its last value is the model in the end. *)
LEMMA ReplayFold ==
  ASSUME NEW v, NEW m \in TabModel, NEW es \in Seq(Ev), NEW al, NEW ro
  PROVE  \E f : Watches(f, v, m, es, al, ro)
<1> DEFINE N == Len(es)
           T == TabModel
           step == [x \in T \X (1 .. N) |->
                      IF CanSee(v, es[x[2]].to, al, ro) THEN HandleEvent(x[1], es[x[2]])
                      ELSE x[1]]
           IsFold(f) == f = [i \in 0 .. N |->
                               IF i = 0 THEN m
                               ELSE IF CanSee(v, es[i].to, al, ro)
                                 THEN HandleEvent(f[i - 1], es[i])
                               ELSE f[i - 1]]
<1>1. N \in Nat /\ m \in T /\ \A i \in 1 .. N : es[i] \in Ev
  OBVIOUS
<1>2. step \in [T \X (1 .. N) -> T]
  <2>1. \A x \in T \X (1 .. N) : x[1] \in T /\ HandleEvent(x[1], es[x[2]]) \in T
    BY <1>1, EventTyped
  <2> HIDE DEF T
  <2> QED BY <2>1
<1>3. PICK f : IsFoldOf(f, T, m, N, step)
  <2> HIDE DEF N, T, step
  <2> QED BY <1>1, <1>2, FoldExists
<1>4. \A i \in 1 .. N :
        f[i] = IF CanSee(v, es[i].to, al, ro) THEN HandleEvent(f[i - 1], es[i]) ELSE f[i - 1]
  <2> TAKE i \in 1 .. N
  <2>1. PICK x \in T : x = f[i - 1]
    BY <1>3 DEF IsFoldOf
  <2>2. f[i] = step[<<x, i>>]
    <3> HIDE DEF step
    <3> QED BY <1>3, <2>1 DEF IsFoldOf
  <2>3. step[<<x, i>>] = IF CanSee(v, es[i].to, al, ro) THEN HandleEvent(x, es[i]) ELSE x
    OBVIOUS
  <2> QED BY <2>1, <2>2, <2>3
<1> HIDE DEF step
<1>5. f \in [0 .. N -> T] /\ f[0] = m /\ IsFold(f)
  <2>1. f = [i \in 0 .. N |-> f[i]] /\ \A i \in 0 .. N : i = 0 \/ i \in 1 .. N
    BY <1>1, <1>3 DEF IsFoldOf
  <2> QED BY <1>3, <1>4, <2>1 DEF IsFoldOf
<1>6. PICK g : IsFold(g) /\ Replay(v, m, es, al, ro) = g[N]
  <2>1. IsFold(CHOOSE g : IsFold(g))
    <3> HIDE DEF IsFold
    <3> QED BY <1>5
  <2>2. Replay(v, m, es, al, ro) = (CHOOSE g : IsFold(g))[N]
    BY DEF Replay
  <2> QED BY <2>1, <2>2
<1>7. SameUpTo(f, g, N)
  <2>1. f[0] = g[0]
    BY <1>1, <1>5, <1>6
  <2>2. \A i \in 1 .. N :
          g[i] = IF CanSee(v, es[i].to, al, ro) THEN HandleEvent(g[i - 1], es[i]) ELSE g[i - 1]
    <3> TAKE i \in 1 .. N
    <3>1. i \in 0 .. N /\ i # 0
      BY <1>1
    <3> HIDE DEF N
    <3> QED BY <1>6, <3>1
  <2>3. SameSteps(f, g, N)
    BY <1>4, <2>2 DEF SameSteps
  <2> HIDE DEF N, IsFold
  <2> QED BY <1>1, <2>1, <2>3, FoldsAgree
<1>8. f[N] = g[N]
  BY <1>1, <1>7 DEF SameUpTo
<1> HIDE DEF IsFold
<1>9. Watches(f, v, m, es, al, ro)
  BY <1>4, <1>5, <1>6, <1>8 DEF Watches
<1> QED BY <1>9

(* A set S of models that a tab comes into at k, from wherever in B it     *)
(* was, and no later event it gets leads out of.                           *)
Keeps(S, v, e, al, ro) ==
  CanSee(v, e.to, al, ro) => \A x \in S : HandleEvent(x, e) \in S
Enters(B, S, v, e, al, ro) ==
  CanSee(v, e.to, al, ro) /\ \A x \in B : HandleEvent(x, e) \in S

(* A set no event leads out of is never left. *)
LEMMA ReplayKept ==
  ASSUME NEW v, NEW m \in TabModel, NEW es \in Seq(Ev), NEW al, NEW ro,
         NEW B, m \in B, \A j \in 1 .. Len(es) : Keeps(B, v, es[j], al, ro),
         NEW f, Watches(f, v, m, es, al, ro)
  PROVE  \A i \in 0 .. Len(es) : f[i] \in B
<1> DEFINE U == {i \in 0 .. Len(es) : f[i] \in B}
<1>1. Len(es) \in Nat
  OBVIOUS
<1>2. 0 \in U
  BY <1>1 DEF Watches
<1>3. ASSUME NEW i \in 1 .. Len(es), i - 1 \in U PROVE i \in U
  <2>1. i \in 0 .. Len(es) /\ f[i - 1] \in B /\ Keeps(B, v, es[i], al, ro)
    BY <1>1, <1>3
  <2>2. f[i] = IF CanSee(v, es[i].to, al, ro) THEN HandleEvent(f[i - 1], es[i]) ELSE f[i - 1]
    BY DEF Watches
  <2>3. f[i] \in B
    BY <2>1, <2>2 DEF Keeps
  <2> QED BY <2>1, <2>3
<1> HIDE DEF U
<1>4. \A i \in 0 .. Len(es) : i \in U
  BY <1>1, <1>2, <1>3, IntervalInduction
<1> QED BY <1>4 DEF U

(* It stays in a set it came into, for the rest of the log. *)
LEMMA ReplayStays ==
  ASSUME NEW v, NEW m \in TabModel, NEW es \in Seq(Ev), NEW al, NEW ro,
         NEW B, m \in B, \A j \in 1 .. Len(es) : Keeps(B, v, es[j], al, ro),
         NEW S, NEW k \in 0 .. Len(es),
         IF k = 0 THEN m \in S ELSE Enters(B, S, v, es[k], al, ro),
         \A j \in k + 1 .. Len(es) : Keeps(S, v, es[j], al, ro)
  PROVE  Replay(v, m, es, al, ro) \in S
<1>1. PICK f : Watches(f, v, m, es, al, ro)
  BY ReplayFold
<1>2. Len(es) \in Nat
  OBVIOUS
<1>3. f[k] \in S
  <2>1. CASE k = 0
    BY <1>1, <2>1 DEF Watches
  <2>2. CASE k # 0
    <3>1. k \in 1 .. Len(es) /\ k - 1 \in 0 .. Len(es)
      BY <1>2, <2>2
    <3>2. f[k - 1] \in B
      BY <1>1, <3>1, ReplayKept
    <3> QED BY <1>1, <2>2, <3>1, <3>2 DEF Watches, Enters
  <2> QED BY <2>1, <2>2
<1> DEFINE U == {i \in 0 .. Len(es) : i >= k => f[i] \in S}
<1>4. 0 \in U
  BY <1>2, <1>3
<1>5. ASSUME NEW i \in 1 .. Len(es), i - 1 \in U PROVE i \in U
  <2>1. i \in 0 .. Len(es)
    BY <1>2
  <2>2. CASE i > k
    <3>1. f[i - 1] \in S /\ i \in k + 1 .. Len(es)
      BY <1>2, <1>5, <2>2
    <3>2. f[i] = IF CanSee(v, es[i].to, al, ro) THEN HandleEvent(f[i - 1], es[i]) ELSE f[i - 1]
      BY <1>1 DEF Watches
    <3>3. Keeps(S, v, es[i], al, ro)
      BY <3>1
    <3>4. f[i] \in S
      BY <3>1, <3>2, <3>3 DEF Keeps
    <3> QED BY <2>1, <3>4
  <2>3. CASE i <= k
    BY <1>2, <1>3, <2>1, <2>3
  <2> QED BY <2>2, <2>3
<1> HIDE DEF U
<1>6. \A i \in 0 .. Len(es) : i \in U
  BY <1>2, <1>4, <1>5, IntervalInduction
<1>7. Len(es) \in 0 .. Len(es) /\ Len(es) >= k
  BY <1>2
<1>8. f[Len(es)] \in S
  BY <1>6, <1>7 DEF U
<1> QED BY <1>1, <1>8 DEF Watches

(* A replay gives a model. *)
LEMMA ReplayTyped ==
  ASSUME NEW v, NEW m \in TabModel, NEW es \in Seq(Ev), NEW al, NEW ro
  PROVE  Replay(v, m, es, al, ro) \in TabModel
<1>1. \A j \in 1 .. Len(es) : Keeps(TabModel, v, es[j], al, ro)
  BY EventTyped DEF Keeps
<1>2. PICK f : Watches(f, v, m, es, al, ro)
  BY ReplayFold
<1>3. Len(es) \in 0 .. Len(es)
  OBVIOUS
<1>4. f[Len(es)] \in TabModel
  BY <1>1, <1>2, <1>3, ReplayKept
<1> QED BY <1>2, <1>4 DEF Watches

(* A tab that has the log up to its cursor gets the rest.                  *)
Rest(l, c) == SubSeq(l, c + 1, Len(l))

(* The tail after a cursor, event by event. *)
LEMMA RestParts ==
  ASSUME NEW l \in Seq(Ev), NEW c \in 0 .. Len(l)
  PROVE  /\ Rest(l, c) \in Seq(Ev) /\ Len(Rest(l, c)) = Len(l) - c
         /\ Len(l) \in Nat
         /\ \A i \in 1 .. Len(l) - c : Rest(l, c)[i] = l[c + i]
<1>1. Len(l) \in Nat /\ c \in Nat /\ c + 1 \in Int /\ Len(l) \in Int
  OBVIOUS
<1>2. \A i \in c + 1 .. Len(l) : l[i] \in Ev
  BY <1>1
<1>3. c + 1 <= Len(l) + 1
  BY <1>1
<1>4. Rest(l, c) \in Seq(Ev)
  BY <1>1, <1>2, SubSeqProperties DEF Rest
<1>5. Len(Rest(l, c)) = Len(l) - c
  BY <1>1 DEF Rest
<1> QED BY <1>1, <1>4, <1>5 DEF Rest

(* The same of the tail after a cursor, wherever the news is in the whole log. *)
LEMMA RestStays ==
  ASSUME NEW v, NEW l \in Seq(Ev), NEW c \in 0 .. Len(l), NEW m \in TabModel,
         NEW al, NEW ro,
         NEW B, m \in B, \A j \in 1 .. Len(l) : Keeps(B, v, l[j], al, ro),
         NEW S, NEW k \in 0 .. Len(l),
         IF k <= c THEN m \in S ELSE Enters(B, S, v, l[k], al, ro),
         \A j \in k + 1 .. Len(l) : Keeps(S, v, l[j], al, ro)
  PROVE  Replay(v, m, Rest(l, c), al, ro) \in S
<1>1. PICK es \in Seq(Ev) : es = Rest(l, c)
  BY RestParts
<1>2. Len(es) = Len(l) - c /\ Len(l) \in Nat /\ \A i \in 1 .. Len(es) : es[i] = l[c + i]
  BY <1>1, RestParts
<1>3. ASSUME NEW j \in 1 .. Len(es) PROVE Keeps(B, v, es[j], al, ro)
  <2>1. c + j \in 1 .. Len(l) /\ es[j] = l[c + j]
    BY <1>2
  <2> QED BY <2>1
<1>4. PICK i \in 0 .. Len(es) : i = (IF k <= c THEN 0 ELSE k - c)
  <2>1. 0 \in 0 .. Len(es) /\ (~(k <= c) => k - c \in 0 .. Len(es))
    BY <1>2
  <2> QED BY <2>1
<1>5. IF i = 0 THEN m \in S ELSE Enters(B, S, v, es[i], al, ro)
  <2>1. CASE k <= c
    BY <1>4, <2>1
  <2>2. CASE ~(k <= c)
    <3>1. i \in 1 .. Len(es) /\ i # 0 /\ es[i] = l[k]
      BY <1>2, <1>4, <2>2
    <3> QED BY <2>2, <3>1
  <2> QED BY <2>1, <2>2
<1>6. ASSUME NEW j \in i + 1 .. Len(es) PROVE Keeps(S, v, es[j], al, ro)
  <2>1. j \in 1 .. Len(es) /\ c + j \in k + 1 .. Len(l) /\ es[j] = l[c + j]
    BY <1>2, <1>4
  <2> QED BY <2>1
<1>7. Replay(v, m, es, al, ro) \in S
  BY <1>3, <1>5, <1>6, ReplayStays
<1> QED BY <1>1, <1>7

-------------------------------------------------------------------------------
(* What a tab knows when it has got the rest of the log. *)

LEMMA TypedKept ==
  ASSUME NEW v, NEW l \in Seq(Ev), NEW al, NEW ro
  PROVE  \A j \in 1 .. Len(l) : Keeps(TabModel, v, l[j], al, ro)
  BY EventTyped DEF Keeps

(* The items of a model after an event, one fact for each. *)
LEMMA AfterItems ==
  ASSUME NEW x \in TabModel, NEW e \in Ev
  PROVE  LET y == HandleEvent(x, e) IN
         /\ y \in TabModel
         /\ y.myRole = RoleAfter(x, e) /\ y.peers = PeersAfter(x, e)
         /\ y.yakuza = YakuzaAfter(x, e) /\ y.revealed = RevealedAfter(x, e)
         /\ y.feed = FeedAfter(x, e)
<1> HIDE DEF RoleAfter, PeersAfter, YakuzaAfter, RevealedAfter, FeedAfter
<1> QED BY EventTyped, EventHandled

(* Its own role: a private event is for its addressee at any time. *)
LEMMA RoleCaught ==
  ASSUME NEW v \in Player, NEW l \in Seq(Ev), NEW c \in 0 .. Len(l), NEW m \in TabModel,
         NEW al, NEW ro, NEW r, NEW k, RoleTold(l, k, v, r), c < k \/ m.myRole = r
  PROVE  Replay(v, m, Rest(l, c), al, ro).myRole = r
<1> DEFINE S == {x \in TabModel : x.myRole = r}
<1>1. k \in 1 .. Len(l) /\ k \in 0 .. Len(l) /\ Len(l) \in Nat
  BY DEF RoleTold, Settled, RoleNews, RoleTrue
<1>2. ASSUME NEW e \in Ev, NEW x \in TabModel, TellsRoleIs(e, v, r)
      PROVE  HandleEvent(x, e) \in S
  <2>1. e.kind = "role_assigned" \/ e.kind = "promoted"
    BY <1>2 DEF TellsRoleIs, TellsRole
  <2>2. RoleAfter(x, e) = r
    <3>1. CASE e.kind = "promoted"
      BY <1>2, <3>1 DEF TellsRoleIs, RoleAfter
    <3>2. CASE e.kind = "role_assigned"
      <4>1. e.roles = {<<v, r>>}
        BY <1>2, <3>2 DEF TellsRoleIs
      <4>2. RoleIn(e) = r
        BY <4>1, RoleInIs
      <4> QED BY <3>2, <4>2 DEF RoleAfter
    <3> QED BY <2>1, <3>1, <3>2
  <2> QED BY <2>2, AfterItems
<1>3. ASSUME NEW j \in k + 1 .. Len(l) PROVE Keeps(S, v, l[j], al, ro)
  <2>1. j \in 1 .. Len(l) /\ j \in k .. Len(l)
    BY <1>1
  <2>2. l[j] \in Ev /\ (TellsRole(l[j], v) => TellsRoleIs(l[j], v, r))
    BY <2>1 DEF RoleTold, Settled, RoleNews, RoleTrue
  <2> SUFFICES ASSUME CanSee(v, l[j].to, al, ro), NEW x \in S
               PROVE  HandleEvent(x, l[j]) \in S
    BY DEF Keeps
  <2>3. CASE l[j].kind \in {"role_assigned", "promoted"}
    <3>1. l[j].to.audience = "player"
      BY <2>2, <2>3 DEF Ev, Addressed
    <3>2. TellsRole(l[j], v)
      BY <2>3, <3>1 DEF CanSee, TellsRole
    <3> QED BY <1>2, <2>2, <3>2
  <2>4. CASE l[j].kind \notin {"role_assigned", "promoted"}
    <3>1. RoleAfter(x, l[j]) = x.myRole
      BY <2>4 DEF RoleAfter
    <3> QED BY <2>2, <3>1, AfterItems
  <2> QED BY <2>3, <2>4
<1>4. Enters(TabModel, S, v, l[k], al, ro)
  <2>1. l[k] \in Ev /\ TellsRoleIs(l[k], v, r)
    BY <1>1 DEF RoleTold, Settled, RoleNews, RoleTrue
  <2>2. l[k].to.audience = "player" /\ l[k].to.who = v
    BY <2>1 DEF TellsRoleIs, TellsRole, Ev, Addressed
  <2>3. CanSee(v, l[k].to, al, ro)
    BY <2>2 DEF CanSee
  <2> QED BY <1>2, <2>1, <2>3 DEF Enters
<1>5. IF k <= c THEN m \in S ELSE Enters(TabModel, S, v, l[k], al, ro)
  BY <1>1, <1>4
<1> HIDE DEF S
<1>6. Replay(v, m, Rest(l, c), al, ro) \in S
  BY <1>1, <1>3, <1>5, TypedKept, RestStays
<1> QED BY <1>6 DEF S

(* Nothing it should not know, while its player lives. *)
LEMMA DiscreetKept ==
  ASSUME NEW v \in players, NEW e \in Ev, NEW al, NEW ro, v \in al, Harmless(e, ro)
  PROVE  Keeps({x \in TabModel : Discreet(v, x, ro)}, v, e, al, ro)
<1> DEFINE S == {x \in TabModel : Discreet(v, x, ro)}
<1> SUFFICES ASSUME CanSee(v, e.to, al, ro), NEW x \in S
             PROVE  HandleEvent(x, e) \in S
  BY DEF Keeps
<1>1. e.kind # "game_ended" /\ e.kind # "roster_revealed" /\ e.kind # "spectated"
  <2>1. e.to.audience # "dead"
    BY DEF CanSee
  <2> QED BY <2>1 DEF Harmless, Ev, Addressed
<1>2. RevealedAfter(x, e) = {} /\ FeedAfter(x, e) = {}
  BY <1>1 DEF RevealedAfter, Reveals, FeedAfter, Discreet
<1>3. PICK known : known = IF v \in MembersOf(ro) THEN MembersOf(ro) ELSE {}
  OBVIOUS
<1>4. x.peers \subseteq known /\ x.yakuza \in {NoPlayer} \cup YakuzaOf(ro)
  BY <1>3 DEF Discreet
<1>5. CASE e.kind = "roster"
  <2>1. e.to.audience = "faction"
    BY <1>5 DEF Ev, Addressed
  <2>2. v \in MembersOf(ro)
    BY <2>1 DEF CanSee, MembersOf
  <2>3. \A z \in e.roles : z[1] \in known
    BY <1>3, <2>1, <2>2 DEF Harmless
  <2>4. PeersAfter(x, e) \subseteq known
    BY <1>4, <2>3 DEF PeersAfter
  <2>5. YakuzaAfter(x, e) \in {NoPlayer} \cup YakuzaOf(ro)
    <3>1. CASE BadgedIn(e) # {}
      <4>1. PICK p \in BadgedIn(e) : p = YakuzaAfter(x, e)
        BY <1>5, <3>1, BadgeInIs DEF YakuzaAfter
      <4>2. PICK z \in e.roles : z[2] = Yakuza /\ p = z[1]
        BY DEF BadgedIn
      <4>3. p \in players /\ ro[p] = Yakuza
        BY <1>5, <2>1, <4>2 DEF Harmless, MembersOf
      <4> QED BY <4>1, <4>3 DEF YakuzaOf
    <3>2. CASE BadgedIn(e) = {}
      BY <1>4, <3>2 DEF YakuzaAfter
    <3> QED BY <3>1, <3>2
  <2> QED BY <1>2, <1>3, <2>4, <2>5, AfterItems DEF Discreet
<1>6. CASE e.kind # "roster"
  <2>1. PeersAfter(x, e) = x.peers /\ YakuzaAfter(x, e) = x.yakuza
    BY <1>6 DEF PeersAfter, YakuzaAfter
  <2> QED BY <1>2, <1>3, <1>4, <2>1, AfterItems DEF Discreet
<1> QED BY <1>5, <1>6

(* What is harmless leaves a tab discreet. *)
LEMMA DiscreetCaught ==
  ASSUME NEW v \in players, NEW l \in Seq(Ev), NEW c \in 0 .. Len(l), NEW m \in TabModel,
         NEW al, NEW ro, v \in al, \A j \in DOMAIN l : Harmless(l[j], ro), Discreet(v, m, ro)
  PROVE  Discreet(v, Replay(v, m, Rest(l, c), al, ro), ro)
<1> DEFINE S == {x \in TabModel : Discreet(v, x, ro)}
<1>1. \A j \in 1 .. Len(l) : Keeps(S, v, l[j], al, ro)
  BY DiscreetKept
<1>2. m \in S /\ c \in 0 .. Len(l) /\ c <= c /\ \A j \in c + 1 .. Len(l) : j \in 1 .. Len(l)
  OBVIOUS
<1> HIDE DEF S
<1>3. Replay(v, m, Rest(l, c), al, ro) \in S
  BY <1>1, <1>2, RestStays
<1> QED BY <1>3 DEF S

(* A member of the faction: who its members are and which is the yakuza.   *)
OneYakuzaIn(ro) == \A p, q \in Player : ro[p] = Yakuza /\ ro[q] = Yakuza => p = q

(* What a roster of the whole faction badges and names. *)
LEMMA WholeRosterBadges ==
  ASSUME NEW e, NEW ro, WholeRoster(e, ro)
  PROVE  BadgedIn(e) = YakuzaOf(ro) /\ {x[1] : x \in e.roles} = MembersOf(ro)
<1>1. e.roles = {<<p, ro[p]>> : p \in MembersOf(ro)}
  BY DEF WholeRoster
<1>2. \A p \in MembersOf(ro) : <<p, ro[p]>> \in e.roles
  BY <1>1
<1>3. \A x \in e.roles : \E p \in MembersOf(ro) : x = <<p, ro[p]>>
  BY <1>1
<1>4. \A p \in players : ro[p] = Yakuza => p \in MembersOf(ro)
  BY DEF MembersOf, Faction, FactionMafia, Yakuza, Mafia
<1>5. ASSUME NEW p \in BadgedIn(e) PROVE p \in YakuzaOf(ro)
  <2>1. PICK x \in e.roles : x[2] = Yakuza /\ p = x[1]
    BY DEF BadgedIn
  <2>2. PICK q \in MembersOf(ro) : x = <<q, ro[q]>>
    BY <1>3
  <2> QED BY <2>1, <2>2 DEF YakuzaOf, MembersOf
<1>6. ASSUME NEW p \in YakuzaOf(ro) PROVE p \in BadgedIn(e)
  <2>1. <<p, ro[p]>> \in e.roles /\ ro[p] = Yakuza
    BY <1>2, <1>4 DEF YakuzaOf
  <2>2. <<p, ro[p]>>[1] = p /\ <<p, ro[p]>>[2] = ro[p]
    OBVIOUS
  <2> QED BY <2>1, <2>2 DEF BadgedIn
<1>7. {x[1] : x \in e.roles} = MembersOf(ro)
  <2>1. \A p \in MembersOf(ro) : p \in {x[1] : x \in e.roles}
    <3> TAKE p \in MembersOf(ro)
    <3>1. <<p, ro[p]>> \in e.roles /\ <<p, ro[p]>>[1] = p
      BY <1>2
    <3> QED BY <3>1
  <2>2. \A x \in e.roles : x[1] \in MembersOf(ro)
    BY <1>3
  <2> QED BY <2>1, <2>2
<1> QED BY <1>5, <1>6, <1>7

(* A member that gets the rest of the log knows the cabal. *)
LEMMA CabalCaught ==
  ASSUME players \subseteq Player,
         NEW v \in players, NEW l \in Seq(Ev), NEW c \in 0 .. Len(l), NEW m \in TabModel,
         NEW al, NEW ro, v \in al, v \in MembersOf(ro), OneYakuzaIn(ro),
         \A j \in DOMAIN l : Harmless(l[j], ro), Discreet(v, m, ro),
         NEW k, RosterTold(l, k, ro), c < k \/ KnowsCabal(m, ro)
  PROVE  KnowsCabal(Replay(v, m, Rest(l, c), al, ro), ro)
<1> DEFINE B == {x \in TabModel : Discreet(v, x, ro)}
           S == {x \in B : KnowsCabal(x, ro)}
<1>1. k \in 1 .. Len(l) /\ k \in 0 .. Len(l) /\ Len(l) \in Nat
  BY DEF RosterTold, Settled, RosterNews, RosterTrue
<1>2. \A j \in 1 .. Len(l) : Keeps(B, v, l[j], al, ro)
  BY DiscreetKept
<1>3. ASSUME NEW e \in Ev, NEW x \in B, WholeRoster(e, ro), HandleEvent(x, e) \in B
      PROVE  HandleEvent(x, e) \in S
  <2>1. e.kind = "roster" /\ BadgedIn(e) = YakuzaOf(ro) /\ {y[1] : y \in e.roles} = MembersOf(ro)
    BY <1>3, WholeRosterBadges DEF WholeRoster
  <2>2. x.peers \subseteq MembersOf(ro) /\ x.yakuza \in {NoPlayer} \cup YakuzaOf(ro)
    BY DEF Discreet
  <2>3. PeersAfter(x, e) = MembersOf(ro)
    BY <2>1, <2>2 DEF PeersAfter
  <2>4. PICK y : y = YakuzaAfter(x, e)
    OBVIOUS
  <2>5. \A p \in MembersOf(ro) : p = y <=> ro[p] = Yakuza
    <3>1. CASE YakuzaOf(ro) # {}
      <4>1. y \in YakuzaOf(ro)
        BY <2>1, <2>4, <3>1, BadgeInIs DEF YakuzaAfter
      <4> QED BY <4>1 DEF YakuzaOf, MembersOf, OneYakuzaIn
    <3>2. CASE YakuzaOf(ro) = {}
      <4>1. y = NoPlayer
        BY <2>1, <2>2, <2>4, <3>2 DEF YakuzaAfter
      <4> QED BY <3>2, <4>1, PlayerAssumption DEF YakuzaOf, MembersOf
    <3> QED BY <3>1, <3>2
  <2>6. KnowsCabal(HandleEvent(x, e), ro)
    BY <2>3, <2>4, <2>5, AfterItems DEF KnowsCabal
  <2> QED BY <1>3, <2>6
<1>4. ASSUME NEW j \in k + 1 .. Len(l) PROVE Keeps(S, v, l[j], al, ro)
  <2>1. j \in 1 .. Len(l) /\ j \in k .. Len(l)
    BY <1>1
  <2> SUFFICES ASSUME CanSee(v, l[j].to, al, ro), NEW x \in S
               PROVE  HandleEvent(x, l[j]) \in S
    BY DEF Keeps
  <2>2. l[j] \in Ev /\ x \in B /\ HandleEvent(x, l[j]) \in B
    BY <1>2, <2>1 DEF Keeps
  <2>3. CASE l[j].kind = "roster"
    <3>1. WholeRoster(l[j], ro)
      BY <2>1, <2>3 DEF RosterTold, Settled, RosterNews, RosterTrue
    <3> QED BY <1>3, <2>2, <3>1
  <2>4. CASE l[j].kind # "roster"
    <3>1. PeersAfter(x, l[j]) = x.peers /\ YakuzaAfter(x, l[j]) = x.yakuza
      BY <2>4 DEF PeersAfter, YakuzaAfter
    <3>2. KnowsCabal(HandleEvent(x, l[j]), ro)
      BY <2>2, <3>1, AfterItems DEF KnowsCabal
    <3> QED BY <2>2, <3>2
  <2> QED BY <2>3, <2>4
<1>5. Enters(B, S, v, l[k], al, ro)
  <2>1. l[k] \in Ev /\ WholeRoster(l[k], ro)
    BY <1>1 DEF RosterTold, Settled, RosterNews, RosterTrue
  <2>2. l[k].to.audience = "faction"
    BY <2>1 DEF WholeRoster, Ev, Addressed
  <2>3. CanSee(v, l[k].to, al, ro)
    BY <2>2 DEF CanSee, MembersOf
  <2>4. \A x \in B : HandleEvent(x, l[k]) \in B
    BY <1>1, <1>2, <2>3 DEF Keeps
  <2> QED BY <1>3, <2>1, <2>3, <2>4 DEF Enters
<1>6. IF k <= c THEN m \in S ELSE Enters(B, S, v, l[k], al, ro)
  BY <1>1, <1>5
<1>7. m \in B
  OBVIOUS
<1>8. Replay(v, m, Rest(l, c), al, ro) \in S
  <2> HIDE DEF S, B
  <2> QED BY <1>1, <1>2, <1>4, <1>6, <1>7, RestStays
<1> QED BY <1>8

(* The dead, and at the end everyone: the roles. *)
LEMMA BoardCaught ==
  ASSUME NEW v, NEW l \in Seq(Ev), NEW c \in 0 .. Len(l), NEW m \in TabModel,
         NEW al, NEW ph, NEW ro, v \in Watchers(al, ph),
         NEW k, BoardShown(l, k, ph, ro), c < k \/ m.revealed = Everyone(ro)
  PROVE  Replay(v, m, Rest(l, c), al, ro).revealed = Everyone(ro)
<1> DEFINE S == {x \in TabModel : x.revealed = Everyone(ro)}
<1>1. k \in 1 .. Len(l) /\ k \in 0 .. Len(l) /\ Len(l) \in Nat
  BY DEF BoardShown, Settled, BoardNews, BoardTrue
<1>2. ASSUME NEW e \in Ev, NEW x \in TabModel, Reveals(e), e.roles = Everyone(ro)
      PROVE  HandleEvent(x, e) \in S
  BY <1>2, AfterItems DEF RevealedAfter
<1>3. ASSUME NEW j \in k + 1 .. Len(l) PROVE Keeps(S, v, l[j], al, ro)
  <2>1. j \in 1 .. Len(l) /\ j \in k .. Len(l)
    BY <1>1
  <2>2. l[j] \in Ev /\ (Reveals(l[j]) => l[j].roles = Everyone(ro))
    BY <2>1 DEF BoardShown, Settled, BoardNews, BoardTrue
  <2>3. ASSUME NEW x \in S, ~Reveals(l[j]) PROVE HandleEvent(x, l[j]) \in S
    BY <2>2, <2>3, AfterItems DEF RevealedAfter
  <2> QED BY <1>2, <2>2, <2>3 DEF Keeps
<1>4. Enters(TabModel, S, v, l[k], al, ro)
  <2>1. l[k] \in Ev /\ Reveals(l[k]) /\ l[k].roles = Everyone(ro)
        /\ (ph = Ended => l[k].kind = "game_ended")
    BY <1>1 DEF BoardShown, Settled, BoardNews, BoardTrue
  <2>2. CanSee(v, l[k].to, al, ro)
    <3>1. CASE l[k].kind = "game_ended"
      <4>1. l[k].to.audience = "public"
        BY <2>1, <3>1 DEF Ev, Addressed
      <4> QED BY <4>1 DEF CanSee
    <3>2. CASE l[k].kind = "roster_revealed"
      <4>1. l[k].to.audience = "dead" /\ v \notin al
        BY <2>1, <3>2 DEF Ev, Addressed, Watchers
      <4> QED BY <4>1 DEF CanSee
    <3> QED BY <2>1, <3>1, <3>2 DEF Reveals
  <2> QED BY <1>2, <2>1, <2>2 DEF Enters
<1>5. IF k <= c THEN m \in S ELSE Enters(TabModel, S, v, l[k], al, ro)
  BY <1>1, <1>4
<1> HIDE DEF S
<1>6. Replay(v, m, Rest(l, c), al, ro) \in S
  BY <1>1, <1>3, <1>5, TypedKept, RestStays
<1> QED BY <1>6 DEF S

(* The dead: what is done tonight, from the nightfall on. *)
LEMMA SeenGrows ==
  ASSUME NEW l, NEW from \in Nat, NEW i \in Nat, from <= i
  PROVE  Seen(l, from, i) =
           Seen(l, from, i - 1) \cup (IF l[i].kind = "spectated" THEN {l[i].act} ELSE {})
<1> DEFINE J(n) == {j \in from .. n : l[j].kind = "spectated"}
<1>1. J(i) = J(i - 1) \cup (IF l[i].kind = "spectated" THEN {i} ELSE {})
  OBVIOUS
<1>2. \A n : Seen(l, from, n) = {l[j].act : j \in J(n)}
  BY DEF Seen
<1> HIDE DEF J
<1> QED BY <1>1, <1>2

(* Nothing has been seen before the nightfall. *)
LEMMA SeenNothing ==
  ASSUME NEW l, NEW from \in Nat, NEW i \in Int, i < from
  PROVE  Seen(l, from, i) = {}
<1>1. from .. i = {}
  OBVIOUS
<1> QED BY <1>1 DEF Seen

(* The dead that get the rest of the log have seen all that was done. *)
LEMMA NightCaught ==
  ASSUME NEW v, NEW l \in Seq(Ev), NEW c \in 0 .. Len(l), NEW m \in TabModel,
         NEW al, NEW ro, v \notin al, NEW acts, NEW k, NightShown(l, k, acts),
         c < k \/ m.feed = Seen(l, k + 1, c)
  PROVE  Replay(v, m, Rest(l, c), al, ro).feed = acts
<1>1. k \in 1 .. Len(l) /\ k \in Nat /\ Len(l) \in Nat /\ c \in Nat
  BY DEF NightShown
<1>2. PICK es \in Seq(Ev) : es = Rest(l, c)
  BY RestParts
<1>3. /\ Len(es) = Len(l) - c /\ \A i \in 1 .. Len(es) : es[i] = l[c + i]
  BY <1>2, RestParts
<1>4. PICK f : Watches(f, v, m, es, al, ro)
  BY ReplayFold
<1> DEFINE U == {i \in 0 .. Len(es) : k <= c + i => f[i].feed = Seen(l, k + 1, c + i)}
<1>5. 0 \in U
  BY <1>1, <1>3, <1>4 DEF Watches
<1>6. ASSUME NEW i \in 1 .. Len(es), i - 1 \in U PROVE i \in U
  <2>1. i \in 0 .. Len(es) /\ c + i \in 1 .. Len(l) /\ es[i] = l[c + i] /\ es[i] \in Ev
        /\ c + i \in Nat /\ c + (i - 1) = (c + i) - 1 /\ i - 1 \in 0 .. Len(es)
    BY <1>1, <1>3
  <2>2. /\ f[i] = IF CanSee(v, es[i].to, al, ro) THEN HandleEvent(f[i - 1], es[i]) ELSE f[i - 1]
        /\ f[i - 1] \in TabModel
    BY <1>4, <2>1 DEF Watches
  <2>3. f[i].feed = IF CanSee(v, es[i].to, al, ro) THEN FeedAfter(f[i - 1], es[i])
                    ELSE f[i - 1].feed
    <3>1. HandleEvent(f[i - 1], es[i]).feed = FeedAfter(f[i - 1], es[i])
      BY <2>1, <2>2, AfterItems
    <3> QED BY <2>2, <3>1
  <2>4. CASE c + i = k
    <3>1. es[i].kind = "night" /\ es[i].to.audience = "public"
      BY <2>1, <2>4 DEF NightShown, Ev, Addressed
    <3>2. f[i].feed = {}
      BY <2>3, <3>1 DEF CanSee, FeedAfter
    <3>3. Seen(l, k + 1, c + i) = {}
      BY <1>1, <2>4, SeenNothing
    <3> QED BY <2>1, <3>2, <3>3
  <2>5. CASE c + i > k
    <3>1. f[i - 1].feed = Seen(l, k + 1, (c + i) - 1) /\ es[i].kind # "night"
      BY <1>1, <1>6, <2>1, <2>5 DEF NightShown
    <3>2. Seen(l, k + 1, c + i) =
            f[i - 1].feed \cup (IF es[i].kind = "spectated" THEN {es[i].act} ELSE {})
      <4>1. k + 1 \in Nat /\ k + 1 <= c + i
        BY <1>1, <2>1, <2>5
      <4> QED BY <2>1, <3>1, <4>1, SeenGrows
    <3>3. CASE es[i].kind = "spectated"
      <4>1. es[i].to.audience = "dead"
        BY <2>1, <3>3 DEF Ev, Addressed
      <4>2. f[i].feed = f[i - 1].feed \cup {es[i].act}
        BY <2>3, <3>3, <4>1 DEF CanSee, FeedAfter
      <4> QED BY <2>1, <3>2, <3>3, <4>2
    <3>4. CASE es[i].kind # "spectated"
      <4>1. f[i].feed = f[i - 1].feed
        BY <2>3, <3>1, <3>4 DEF FeedAfter
      <4> QED BY <2>1, <3>2, <3>4, <4>1
    <3> QED BY <3>3, <3>4
  <2>6. CASE c + i < k
    BY <1>1, <2>1, <2>6
  <2> QED BY <1>1, <2>1, <2>4, <2>5, <2>6
<1> HIDE DEF U
<1>7. \A i \in 0 .. Len(es) : i \in U
  BY <1>3, <1>5, <1>6, IntervalInduction
<1>8. Len(es) \in 0 .. Len(es) /\ c + Len(es) = Len(l) /\ k <= c + Len(es)
  BY <1>1, <1>3
<1>9. f[Len(es)].feed = acts
  BY <1>7, <1>8 DEF U, NightShown
<1> QED BY <1>2, <1>4, <1>9 DEF Watches

-------------------------------------------------------------------------------
(* A batch at the end of a log. *)

LEMMA Joined ==
  ASSUME NEW l \in Seq(Ev), NEW b \in Seq(Ev)
  PROVE  /\ l \o b \in Seq(Ev) /\ Len(l \o b) = Len(l) + Len(b)
         /\ \A i \in 1 .. Len(l) : (l \o b)[i] = l[i]
         /\ \A i \in 1 .. Len(b) : (l \o b)[Len(l) + i] = b[i]
         /\ Rest(l \o b, Len(l)) = b
<1>1. /\ l \o b \in Seq(Ev) /\ Len(l \o b) = Len(l) + Len(b)
      /\ Len(l) \in Nat /\ Len(b) \in Nat
  OBVIOUS
<1>2. \A i \in 1 .. Len(l) + Len(b) :
        (l \o b)[i] = IF i <= Len(l) THEN l[i] ELSE b[i - Len(l)]
  BY ConcatProperties
<1>3. ASSUME NEW i \in 1 .. Len(l) PROVE (l \o b)[i] = l[i]
  BY <1>1, <1>2
<1>4. ASSUME NEW i \in 1 .. Len(b) PROVE (l \o b)[Len(l) + i] = b[i]
  <2>1. Len(l) + i \in 1 .. Len(l) + Len(b) /\ ~(Len(l) + i <= Len(l))
        /\ (Len(l) + i) - Len(l) = i
    BY <1>1
  <2> QED BY <1>2, <2>1
<1>5. Rest(l \o b, Len(l)) = b
  <2>1. PICK w \in Seq(Ev) : w = l \o b
    BY <1>1
  <2>2. PICK c \in 0 .. Len(w) : c = Len(l) /\ Len(w) - c = Len(b)
    BY <1>1, <2>1
  <2>3. PICK r \in Seq(Ev) : r = Rest(w, c) /\ Len(r) = Len(w) - c
                           /\ \A i \in 1 .. Len(w) - c : r[i] = w[c + i]
    BY RestParts
  <2>4. Len(r) = Len(b) /\ \A i \in 1 .. Len(b) : r[i] = w[c + i]
    BY <2>2, <2>3
  <2>5. \A i \in 1 .. Len(b) : r[i] = b[i]
    BY <1>4, <2>1, <2>2, <2>4
  <2>6. r = b
    BY <2>4, <2>5, SeqEqual
  <2> QED BY <2>1, <2>2, <2>3, <2>6
<1> QED BY <1>1, <1>3, <1>4, <1>5

(* The matter stays settled as long as nothing else is said ... *)
LEMMA SettledOn ==
  ASSUME NEW l \in Seq(Ev), NEW b \in Seq(Ev), NEW G, NEW H, b \in Seq(H),
         NEW k, Settled(l, k, G, H)
  PROVE  Settled(l \o b, k, G, H)
<1>1. k \in 1 .. Len(l) /\ Len(l) \in Nat /\ Len(b) \in Nat
  BY DEF Settled
<1>2. PICK w \in Seq(Ev) : w = l \o b /\ Len(w) = Len(l) + Len(b)
  BY Joined
<1>3. w[k] = l[k] /\ k \in 1 .. Len(w)
  BY <1>1, <1>2, Joined
<1>4. ASSUME NEW j \in k .. Len(w) PROVE w[j] \in H
  <2>1. j \in 1 .. Len(w)
    BY <1>1
  <2>2. CASE j \in 1 .. Len(l)
    <3>1. w[j] = l[j] /\ j \in k .. Len(l)
      BY <1>1, <1>2, <2>2, Joined
    <3> QED BY <3>1 DEF Settled
  <2>3. CASE j \notin 1 .. Len(l)
    <3>1. j - Len(l) \in 1 .. Len(b) /\ j = Len(l) + (j - Len(l))
      BY <1>1, <1>2, <2>1, <2>3
    <3>2. PICK i \in 1 .. Len(b) : j = Len(l) + i
      BY <3>1
    <3>3. w[j] = b[i]
      BY <1>2, <3>2, Joined
    <3> QED BY <3>3
  <2> QED BY <2>2, <2>3
<1> QED BY <1>2, <1>3, <1>4 DEF Settled

(* ... and is settled anew by what is said last. *)
LEMMA SettledLate ==
  ASSUME NEW l \in Seq(Ev), NEW b \in Seq(Ev), NEW G, NEW H,
         NEW k, Settled(b, k, G, H)
  PROVE  Settled(l \o b, Len(l) + k, G, H) /\ Len(l) + k > Len(l)
<1>1. k \in 1 .. Len(b) /\ Len(l) \in Nat /\ Len(b) \in Nat
  BY DEF Settled
<1>2. PICK w \in Seq(Ev) : w = l \o b /\ Len(w) = Len(l) + Len(b)
  BY Joined
<1>3. w[Len(l) + k] = b[k] /\ Len(l) + k \in 1 .. Len(w)
  BY <1>1, <1>2, Joined
<1>4. ASSUME NEW j \in Len(l) + k .. Len(w) PROVE w[j] \in H
  <2>1. j - Len(l) \in 1 .. Len(b) /\ j - Len(l) \in k .. Len(b) /\ Len(l) + (j - Len(l)) = j
    BY <1>1, <1>2
  <2>2. w[j] = b[j - Len(l)]
    BY <1>2, <2>1, Joined
  <2> QED BY <2>1, <2>2 DEF Settled
<1> QED BY <1>1, <1>2, <1>3, <1>4 DEF Settled

Brings(b, News, True) == \E k : Settled(b, k, News, True)

(* What follows may say no more of it. *)
LEMMA BringsOn ==
  ASSUME NEW b \in Seq(Ev), NEW c \in Seq(Ev), NEW G, NEW H, c \in Seq(H), Brings(b, G, H)
  PROVE  Brings(b \o c, G, H)
  BY SettledOn DEF Brings

(* What comes last counts. *)
LEMMA BringsLate ==
  ASSUME NEW b \in Seq(Ev), NEW c \in Seq(Ev), NEW G, NEW H, Brings(c, G, H)
  PROVE  Brings(b \o c, G, H)
  BY SettledLate DEF Brings

(* A batch that says nothing else brings what it says at all. *)
LEMMA BringsOne ==
  ASSUME NEW b \in Seq(Ev), NEW G, NEW H, b \in Seq(H), NEW i \in DOMAIN b, b[i] \in G
  PROVE  Brings(b, G, H)
<1>1. \A j \in i .. Len(b) : b[j] \in H
  OBVIOUS
<1> QED BY <1>1 DEF Brings, Settled

(* One event is a batch. *)
LEMMA BringsIt ==
  ASSUME NEW e \in Ev, NEW G, NEW H, e \in G, e \in H
  PROVE  Brings(<<e>>, G, H)
<1>1. <<e>> \in Seq(Ev) /\ <<e>> \in Seq(H) /\ 1 \in DOMAIN <<e>> /\ <<e>>[1] = e
  OBVIOUS
<1> QED BY <1>1, BringsOne

(* The events of a set, in any order. *)
LEMMA SetToSeqLists ==
  ASSUME NEW S, IsFiniteSet(S)
  PROVE  SetToSeq(S) \in Seq(S) /\ \A x \in S : \E i \in DOMAIN SetToSeq(S) : SetToSeq(S)[i] = x
<1>1. Cardinality(S) \in Nat /\ ExistsBijection(1 .. Cardinality(S), S)
  BY FS_CardinalityType
<1>2. PICK f \in [1 .. Cardinality(S) -> S] : IsInjective(f)
  BY <1>1 DEF ExistsBijection, Bijection, Injection, IsInjective
<1>3. SetToSeq(S) \in [1 .. Cardinality(S) -> S] /\ IsInjective(SetToSeq(S))
  BY <1>2 DEF SetToSeq
<1>4. PICK g \in [1 .. Cardinality(S) -> S] : g = SetToSeq(S) /\ IsInjective(g)
  BY <1>3
<1>5. g \in Injection(1 .. Cardinality(S), S)
  BY <1>4 DEF Injection, IsInjective
<1>6. Cardinality(1 .. Cardinality(S)) = Cardinality(S)
  BY <1>1, FS_Interval
<1>7. g \in Surjection(1 .. Cardinality(S), S)
  BY <1>5, <1>6, FS_Injection
<1>8. \A x \in S : \E i \in DOMAIN g : g[i] = x
  BY <1>4, <1>7 DEF Surjection
<1>9. g \in Seq(S)
  BY <1>1, <1>4
<1> QED BY <1>4, <1>8, <1>9

-------------------------------------------------------------------------------
(* The events, as the batches are made of them. *)
RoleMap == [Player -> Role \cup {NoRole}]

(* The fields of an event. *)
LEMMA EventIs ==
  ASSUME NEW kind \in Kinds, NEW to \in Audience, NEW roles \in SUBSET Named
  PROVE  LET e == Event(kind, to, roles) IN
         /\ e \in [kind : Kinds, to : Audience, roles : SUBSET Named, act : Acts]
         /\ e.kind = kind /\ e.to = to /\ e.roles = roles
  BY DEF Event, Acts, Target

(* The four audiences. *)
LEMMA Audiences ==
  /\ Public \in Audience /\ Public.audience = "public"
  /\ FactionOnly \in Audience /\ FactionOnly.audience = "faction"
  /\ Graveyard \in Audience /\ Graveyard.audience = "dead"
  /\ \A p \in Player : /\ PrivateTo(p) \in Audience /\ PrivateTo(p).audience = "player"
                       /\ PrivateTo(p).who = p
  BY DEF Public, FactionOnly, Graveyard, PrivateTo, To, Audience, Target

(* The events that name nobody. *)
LEMMA PlainEvents ==
  ASSUME NEW e \in {Cue, NightFalls, PlayerDied}
  PROVE  /\ e \in Ev /\ e.kind \in {"cue", "night", "died"} /\ e.roles = {}
         /\ e.to.audience = "public"
         /\ e = Cue => e.kind = "cue"
         /\ e = NightFalls => e.kind = "night"
         /\ e = PlayerDied => e.kind = "died"
<1>1. PICK kind \in {"cue", "night", "died"} :
        /\ e = Event(kind, Public, {}) /\ (e = Cue => kind = "cue")
        /\ (e = NightFalls => kind = "night") /\ (e = PlayerDied => kind = "died")
  BY DEF Cue, NightFalls, PlayerDied, Event
<1>2. kind \in Kinds /\ {} \in SUBSET Named
  BY DEF Kinds
<1>3. /\ e \in [kind : Kinds, to : Audience, roles : SUBSET Named, act : Acts]
      /\ e.kind = kind /\ e.to = Public /\ e.roles = {}
  BY <1>1, <1>2, EventIs, Audiences
<1> QED BY <1>1, <1>3, Audiences DEF Ev, Addressed

(* The private events. *)
LEMMA RoleEvents ==
  ASSUME NEW p \in Player, NEW r \in Role
  PROVE  /\ RoleAssigned(p, r) \in Ev /\ RoleAssigned(p, r).kind = "role_assigned"
         /\ RoleAssigned(p, r).to.audience = "player" /\ RoleAssigned(p, r).to.who = p
         /\ RoleAssigned(p, r).roles = {<<p, r>>}
         /\ ConsortPromoted(p) \in Ev /\ ConsortPromoted(p).kind = "promoted"
         /\ ConsortPromoted(p).to.audience = "player" /\ ConsortPromoted(p).to.who = p
         /\ ConsortPromoted(p).roles = {<<p, Mafia>>}
<1>1. {<<p, r>>} \in SUBSET Named /\ {<<p, Mafia>>} \in SUBSET Named
  BY DEF Named, Role
<1>2. PICK e : e = RoleAssigned(p, r)
  OBVIOUS
<1>3. /\ e \in [kind : Kinds, to : Audience, roles : SUBSET Named, act : Acts]
      /\ e.kind = "role_assigned" /\ e.to = PrivateTo(p) /\ e.roles = {<<p, r>>}
  BY <1>1, <1>2, EventIs, Audiences DEF RoleAssigned, Kinds
<1>4. e \in Ev
  BY <1>3, Audiences DEF Ev, Addressed
<1>5. PICK f : f = ConsortPromoted(p)
  OBVIOUS
<1>6. /\ f \in [kind : Kinds, to : Audience, roles : SUBSET Named, act : Acts]
      /\ f.kind = "promoted" /\ f.to = PrivateTo(p) /\ f.roles = {<<p, Mafia>>}
  BY <1>1, <1>5, EventIs, Audiences DEF ConsortPromoted, Kinds
<1>7. f \in Ev
  BY <1>6, Audiences DEF Ev, Addressed
<1> QED BY <1>2, <1>3, <1>4, <1>5, <1>6, <1>7, Audiences

(* The faction's events. *)
LEMMA RosterEvents ==
  ASSUME players \subseteq Player, NEW al, NEW ro \in RoleMap
  PROVE  /\ MafiaRoster(al, ro) \in Ev /\ MafiaRoster(al, ro).kind = "roster"
         /\ MafiaRoster(al, ro).to.audience = "faction"
         /\ MafiaRoster(al, ro).roles = {<<p, ro[p]>> : p \in MembersOf(ro)}
<1>1. {<<p, ro[p]>> : p \in MembersOf(ro)} \in SUBSET Named
  BY DEF Named, MembersOf, RoleMap
<1>2. PICK e : e = MafiaRoster(al, ro)
  OBVIOUS
<1>3. e = Event("roster", FactionOnly, {<<p, ro[p]>> : p \in MembersOf(ro)})
  BY <1>2 DEF MafiaRoster, MembersOf
<1>4. /\ e \in [kind : Kinds, to : Audience, roles : SUBSET Named, act : Acts]
      /\ e.kind = "roster" /\ e.to = FactionOnly
      /\ e.roles = {<<p, ro[p]>> : p \in MembersOf(ro)}
  BY <1>1, <1>3, EventIs, Audiences DEF Kinds
<1>5. e \in Ev
  BY <1>4, Audiences DEF Ev, Addressed
<1> QED BY <1>2, <1>4, <1>5, Audiences

(* The events that show the board. *)
LEMMA BoardEvents ==
  ASSUME players \subseteq Player, NEW ro \in RoleMap
  PROVE  /\ RosterRevealed(ro) \in Ev /\ RosterRevealed(ro).kind = "roster_revealed"
         /\ RosterRevealed(ro).to.audience = "dead"
         /\ RosterRevealed(ro).roles = Everyone(ro)
         /\ GameEnded(ro) \in Ev /\ GameEnded(ro).kind = "game_ended"
         /\ GameEnded(ro).to.audience = "public" /\ GameEnded(ro).roles = Everyone(ro)
<1>1. Everyone(ro) \in SUBSET Named
  BY DEF Named, Everyone, RoleMap
<1>2. PICK e : e = RosterRevealed(ro)
  OBVIOUS
<1>3. /\ e \in [kind : Kinds, to : Audience, roles : SUBSET Named, act : Acts]
      /\ e.kind = "roster_revealed" /\ e.to = Graveyard /\ e.roles = Everyone(ro)
  BY <1>1, <1>2, EventIs, Audiences DEF RosterRevealed, Kinds
<1>4. e \in Ev
  BY <1>3, Audiences DEF Ev, Addressed
<1>5. PICK f : f = GameEnded(ro)
  OBVIOUS
<1>6. /\ f \in [kind : Kinds, to : Audience, roles : SUBSET Named, act : Acts]
      /\ f.kind = "game_ended" /\ f.to = Public /\ f.roles = Everyone(ro)
  BY <1>1, <1>5, EventIs, Audiences DEF GameEnded, Kinds
<1>7. f \in Ev
  BY <1>6, Audiences DEF Ev, Addressed
<1> QED BY <1>2, <1>3, <1>4, <1>5, <1>6, <1>7, Audiences

(* The two records of an act. *)
LEMMA ActEvents ==
  ASSUME role \in RoleMap, NEW a \in Player, NEW t \in Player
  PROVE  /\ Recorded(a, t) \in Ev /\ Recorded(a, t).kind = "recorded"
         /\ Recorded(a, t).to.audience =
              IF Faction(role[a]) = FactionMafia THEN "faction" ELSE "player"
         /\ Faction(role[a]) # FactionMafia => Recorded(a, t).to.who = a
         /\ Recorded(a, t).roles = {<<a, role[a]>>}
         /\ Spectated(a, t) \in Ev /\ Spectated(a, t).kind = "spectated"
         /\ Spectated(a, t).to.audience = "dead" /\ Spectated(a, t).act = <<a, t>>
<1>1. /\ {<<a, role[a]>>} \in SUBSET Named
      /\ {<<a, role[a]>>, <<t, role[t]>>} \in SUBSET Named /\ <<a, t>> \in Acts
  BY DEF Named, RoleMap, Acts, Target
<1>2. PICK to \in Audience :
        /\ to = IF Faction(role[a]) = FactionMafia THEN FactionOnly ELSE PrivateTo(a)
        /\ to.audience = IF Faction(role[a]) = FactionMafia THEN "faction" ELSE "player"
        /\ Faction(role[a]) # FactionMafia => to.who = a
  BY Audiences
<1>3. PICK e : e = Event("recorded", to, {<<a, role[a]>>})
  OBVIOUS
<1>4. /\ e \in [kind : Kinds, to : Audience, roles : SUBSET Named, act : Acts]
      /\ e.kind = "recorded" /\ e.to = to /\ e.roles = {<<a, role[a]>>}
  BY <1>1, <1>3, EventIs DEF Kinds
<1>5. Recorded(a, t) = [e EXCEPT !.act = <<a, t>>]
  BY <1>2, <1>3 DEF Recorded
<1>6. PICK f : f = Event("spectated", Graveyard, {<<a, role[a]>>, <<t, role[t]>>})
  OBVIOUS
<1>7. /\ f \in [kind : Kinds, to : Audience, roles : SUBSET Named, act : Acts]
      /\ f.kind = "spectated" /\ f.to = Graveyard
  BY <1>1, <1>6, EventIs, Audiences DEF Kinds
<1>8. Spectated(a, t) = [f EXCEPT !.act = <<a, t>>]
  BY <1>6 DEF Spectated
<1>9. PICK g : g = [e EXCEPT !.act = <<a, t>>]
  OBVIOUS
<1>10. /\ g \in [kind : Kinds, to : Audience, roles : SUBSET Named, act : Acts]
       /\ g.kind = "recorded" /\ g.to = to /\ g.roles = {<<a, role[a]>>}
  BY <1>1, <1>4, <1>9
<1>11. PICK h : h = [f EXCEPT !.act = <<a, t>>]
  OBVIOUS
<1>12. /\ h \in [kind : Kinds, to : Audience, roles : SUBSET Named, act : Acts]
       /\ h.kind = "spectated" /\ h.to = Graveyard /\ h.act = <<a, t>>
  BY <1>1, <1>7, <1>11
<1>13. g \in Ev /\ h \in Ev
  BY <1>2, <1>10, <1>12, Audiences DEF Ev, Addressed
<1> QED BY <1>2, <1>5, <1>8, <1>9, <1>10, <1>11, <1>12, <1>13, Audiences

-------------------------------------------------------------------------------
(* The tabs after a batch: those there were, and the connected one, which  *)
(* is where the batch has taken it.                                        *)
Batch(b) == b \in Seq(Ev) /\ Len(b) >= 1 /\ b[Len(b)].to.audience = "public"

Took(v, t) ==
  t.cursor = Len(log') /\ t.model = Replay(v, tab[v].model, Rest(log', Len(log)), alive', role')

(* A batch ends in a public event, so every cursor ends at its end. *)
LEMMA Received ==
  ASSUME NEW v, NEW t \in Tab, NEW base \in Nat, NEW b, Batch(b), NEW al, NEW ro
  PROVE  Receive(v, t, base, b, al, ro) =
           [model |-> Replay(v, t.model, b, al, ro), cursor |-> base + Len(b)]
<1> DEFINE through == {i \in DOMAIN b : CanSee(v, b[i].to, al, ro)}
<1>1. b \in Seq(Ev) /\ Len(b) \in Nat /\ Len(b) \in DOMAIN b
  BY DEF Batch
<1>2. Len(b) \in through
  BY <1>1 DEF Batch, CanSee
<1>3. \A j \in through : j <= Len(b) /\ j \in Nat
  BY <1>1
<1>4. (CHOOSE i \in through : \A j \in through : j <= i) = Len(b)
  <2>1. PICK n \in through : n = CHOOSE i \in through : \A j \in through : j <= i
    BY <1>2, <1>3
  <2>2. \A j \in through : j <= n
    BY <1>2, <1>3, <2>1
  <2> QED BY <1>1, <1>2, <1>3, <2>1, <2>2
<1> QED BY <1>2, <1>4 DEF Receive

(* The tabs there are after a batch. *)
LEMMA TabsTaken ==
  ASSUME Typed, players \subseteq Player, players' = players,
         NEW b, Batch(b), Emit(b)
  PROVE  /\ Typed' /\ log' = log \o b /\ Len(log') > Len(log)
         /\ Rest(log', Len(log)) = b
         /\ \A v \in players : \A t \in Tabs(v)' : t \in Tabs(v) \/ Took(v, t)
<1>1. log \in Seq(Ev) /\ b \in Seq(Ev) /\ Len(log) \in Nat /\ Len(b) \in Nat \ {0}
  BY DEF Typed, Batch
<1>2. /\ log' = log \o b /\ log' \in Seq(Ev) /\ Len(log') = Len(log) + Len(b)
      /\ Len(log') > Len(log) /\ Len(log') \in Nat
      /\ Rest(log', Len(log)) = b
  BY <1>1, Joined DEF Emit
<1>3. ASSUME NEW v \in players
      PROVE  /\ tab[v] \in Tab /\ tab'[v] \in Tab /\ Took(v, tab'[v])
             /\ AtEnd(tab[v])' = tab'[v]
             /\ stale'[v] = stale[v] \cup {tab[v], AtEnd(tab[v])}
  <2>1. tab[v] \in Tab
    BY DEF Typed, Tabs
  <2>2. tab'[v] = Receive(v, tab[v], Len(log), b, alive', role')
    BY DEF Emit
  <2>3. tab'[v] = [model |-> Replay(v, tab[v].model, b, alive', role'), cursor |-> Len(log')]
    BY <1>1, <1>2, <2>1, <2>2, Received
  <2>4. Replay(v, tab[v].model, b, alive', role') \in TabModel
    BY <1>1, <2>1, ReplayTyped DEF Tab
  <2>5. tab'[v] \in Tab /\ Took(v, tab'[v])
    BY <1>2, <2>3, <2>4 DEF Tab, Took
  <2>6. AtEnd(tab[v])' = tab'[v]
    BY <2>3 DEF AtEnd
  <2>7. stale'[v] = stale[v] \cup {tab[v], AtEnd(tab[v])}
    BY DEF Emit, AtEnd
  <2> QED BY <2>1, <2>5, <2>6, <2>7
<1>4. ASSUME NEW v \in players, NEW t \in Tabs(v)'
      PROVE  t \in Tabs(v) \/ (t = tab'[v] /\ Took(v, t))
  <2>1. t \in stale'[v] \cup {NewTab, tab'[v]}
    BY <1>3 DEF Tabs
  <2> QED BY <1>3, <2>1 DEF Tabs
<1>5. Typed'
  <2>1. tab' = [v \in players' |-> tab'[v]] /\ stale' = [v \in players' |-> stale'[v]]
    BY DEF Emit
  <2>2. ASSUME NEW v \in players, NEW t \in Tabs(v)'
        PROVE  t \in Tab /\ t.cursor <= Len(log')
    <3>1. CASE t \in Tabs(v)
      <4>1. t \in Tab /\ t.cursor <= Len(log) /\ t.cursor \in Nat
        BY <3>1 DEF Typed, Tab
      <4> QED BY <1>1, <1>2, <4>1
    <3>2. CASE t = tab'[v] /\ Took(v, t)
      BY <1>2, <1>3, <3>2 DEF Took
    <3> QED BY <1>4, <2>2, <3>1, <3>2
  <2> QED BY <1>2, <2>1, <2>2 DEF Typed
<1> QED BY <1>2, <1>4, <1>5

-------------------------------------------------------------------------------
(* What a batch does to what is known, item by item. *)
Sent(b) ==
  /\ Typed /\ players \subseteq Player /\ players' = players
  /\ Batch(b) /\ Emit(b)

(* The tab that was connected, as it was before the batch. *)
LEMMA BeforeBatch ==
  ASSUME NEW b, Sent(b), NEW v \in players
  PROVE  /\ log \in Seq(Ev) /\ log' \in Seq(Ev) /\ b \in Seq(Ev) /\ log' = log \o b
         /\ Len(log) \in 0 .. Len(log') /\ tab[v].model \in TabModel
         /\ AtEnd(tab[v]) \in Tabs(v)
         /\ AtEnd(tab[v]).cursor = Len(log) /\ AtEnd(tab[v]).model = tab[v].model
         /\ \A t \in Tabs(v) : t.cursor <= Len(log) /\ t.cursor \in Nat /\ t.model \in TabModel
<1>1. Typed' /\ log' = log \o b /\ Len(log') > Len(log)
  BY TabsTaken DEF Sent
<1>2. log \in Seq(Ev) /\ log' \in Seq(Ev) /\ b \in Seq(Ev)
  BY <1>1 DEF Typed, Sent, Batch
<1>3. tab[v] \in Tabs(v) /\ AtEnd(tab[v]) \in Tabs(v)
  BY DEF Tabs
<1>4. \A t \in Tabs(v) : t \in Tab /\ t.cursor <= Len(log)
  BY DEF Sent, Typed
<1>5. tab[v] \in Tab
  BY <1>3, <1>4
<1>6. AtEnd(tab[v]).cursor = Len(log) /\ AtEnd(tab[v]).model = tab[v].model
  BY <1>5 DEF AtEnd, Tab
<1> QED BY <1>1, <1>2, <1>3, <1>4, <1>5, <1>6 DEF Tab

(* News at the end of the log is ahead of every tab there was. *)
LEMMA SettledAhead ==
  ASSUME NEW b, Sent(b), NEW G, NEW H, Brings(b, G, H)
  PROVE  \E k : Settled(log', k, G, H) /\ \A v \in players : \A t \in Tabs(v) : t.cursor < k
<1>1. log \in Seq(Ev) /\ b \in Seq(Ev) /\ log' = log \o b
  BY TabsTaken DEF Sent, Typed, Batch
<1>2. PICK j : Settled(b, j, G, H)
  BY DEF Brings
<1>3. Settled(log', Len(log) + j, G, H) /\ Len(log) + j > Len(log)
  BY <1>1, <1>2, SettledLate
<1>4. \A v \in players : \A t \in Tabs(v) : t.cursor <= Len(log) /\ t.cursor \in Nat
  BY DEF Sent, Typed, Tab
<1>5. j \in Nat /\ Len(log) \in Nat
  BY <1>1, <1>2 DEF Settled
<1> QED BY <1>3, <1>4, <1>5

TellsRoles(b) ==
  \A v \in players :
    /\ b \in Seq(RoleTrue(v, role'[v]))
    /\ role'[v] # role[v] => Brings(b, RoleNews(v, role'[v]), RoleTrue(v, role'[v]))

(* A batch that tells each change to whom it concerns keeps OwnRoleKnown. *)
LEMMA OwnRoleStep ==
  ASSUME NEW b, Sent(b), OwnRoleKnown, TellsRoles(b)
  PROVE  OwnRoleKnown'
<1> SUFFICES ASSUME NEW v \in players
             PROVE  \E k \in DOMAIN log' :
                      /\ RoleTold(log', k, v, role'[v])
                      /\ \A t \in Tabs(v)' : t.cursor < k \/ t.model.myRole = role'[v]
  BY DEF OwnRoleKnown, Sent
<1> DEFINE G == RoleNews(v, role'[v])
           H == RoleTrue(v, role'[v])
<1>1. PICK k : /\ RoleTold(log', k, v, role'[v])
               /\ \A t \in Tabs(v) : t.cursor < k \/ t.model.myRole = role'[v]
  <2>1. CASE role'[v] # role[v]
    <3>1. Brings(b, G, H)
      BY <2>1 DEF TellsRoles
    <3> HIDE DEF G, H
    <3>2. PICK k : Settled(log', k, G, H) /\ \A t \in Tabs(v) : t.cursor < k
      BY <3>1, SettledAhead
    <3>3. RoleTold(log', k, v, role'[v])
      BY <3>2 DEF RoleTold, G, H
    <3> QED BY <3>2, <3>3
  <2>2. CASE role'[v] = role[v]
    <3>1. PICK k : /\ RoleTold(log, k, v, role'[v])
                   /\ \A t \in Tabs(v) : t.cursor < k \/ t.model.myRole = role'[v]
      BY <2>2 DEF OwnRoleKnown
    <3>2. Settled(log, k, G, H) /\ b \in Seq(H)
      BY <3>1 DEF RoleTold, TellsRoles
    <3> HIDE DEF G, H
    <3>3. Settled(log', k, G, H)
      BY <3>2, BeforeBatch, SettledOn
    <3>4. RoleTold(log', k, v, role'[v])
      BY <3>3 DEF RoleTold, G, H
    <3> QED BY <3>1, <3>4
  <2> QED BY <2>1, <2>2
<1>2. k \in DOMAIN log'
  BY <1>1 DEF RoleTold, Settled
<1>3. Replay(v, tab[v].model, Rest(log', Len(log)), alive', role').myRole = role'[v]
  <2>1. Len(log) < k \/ tab[v].model.myRole = role'[v]
    BY <1>1, BeforeBatch
  <2>2. v \in Player
    BY DEF Sent
  <2> QED BY <1>1, <2>1, <2>2, BeforeBatch, RoleCaught
<1>4. \A t \in Tabs(v)' : t \in Tabs(v) \/ Took(v, t)
  BY TabsTaken DEF Sent
<1> QED BY <1>1, <1>2, <1>3, <1>4 DEF Took

(* Roles change in one direction: into the faction, and not to the yakuza. *)
Grows(ro, ro2) ==
  \A p \in players :
    /\ Faction(ro[p]) = FactionMafia => Faction(ro2[p]) = FactionMafia
    /\ ro[p] = Yakuza => ro2[p] = Yakuza

HarmlessIn(ro) == {e \in Ev : Harmless(e, ro)}

(* An event that names members names members still when the faction has grown. *)
LEMMA HarmlessGrows ==
  ASSUME NEW ro, NEW ro2, Grows(ro, ro2)
  PROVE  HarmlessIn(ro) \subseteq HarmlessIn(ro2)
<1> SUFFICES ASSUME NEW e \in Ev, Harmless(e, ro) PROVE Harmless(e, ro2)
  BY DEF HarmlessIn
<1>1. MembersOf(ro) \subseteq MembersOf(ro2)
  BY DEF Grows, MembersOf
<1>2. e.kind = "roster" => e.to.audience = "faction"
  BY DEF Ev, Addressed
<1>3. e.kind = "roster" => \A x \in e.roles : x[2] = Yakuza => ro2[x[1]] = Yakuza
  BY <1>2 DEF Harmless, Grows, MembersOf
<1> QED BY <1>1, <1>3 DEF Harmless

(* LivingAreDiscreet of the next state. *)
LEMMA LivingPrimed ==
  ASSUME players' = players
  PROVE  LivingAreDiscreet' <=>
           (phase' # Ended =>
              /\ \A i \in DOMAIN log' : Harmless(log'[i], role')
              /\ \A v \in alive' : \A t \in Tabs(v)' : Discreet(v, t.model, role'))
  BY DEF LivingAreDiscreet, Harmless, Discreet, MembersOf, YakuzaOf

(* A harmless batch, or the end of the game, keeps LivingAreDiscreet. *)
LEMMA LivingStep ==
  ASSUME NEW b, Sent(b), phase # Ended, LivingAreDiscreet, Grows(role, role'),
         alive' \subseteq alive, alive' \subseteq players,
         phase' # Ended => b \in Seq(HarmlessIn(role'))
  PROVE  LivingAreDiscreet'
<1> SUFFICES ASSUME phase' # Ended
             PROVE  /\ \A i \in DOMAIN log' : Harmless(log'[i], role')
                    /\ \A v \in alive' : \A t \in Tabs(v)' : Discreet(v, t.model, role')
  BY LivingPrimed DEF Sent
<1>2. MembersOf(role) \subseteq MembersOf(role') /\ YakuzaOf(role) \subseteq YakuzaOf(role')
  BY DEF Grows, MembersOf, YakuzaOf
<1>4. log \in Seq(Ev) /\ log' \in Seq(Ev) /\ b \in Seq(Ev) /\ log' = log \o b
  BY TabsTaken DEF Sent, Typed, Batch
<1>6. \A i \in DOMAIN log : log[i] \in HarmlessIn(role')
  BY <1>4, HarmlessGrows DEF LivingAreDiscreet, HarmlessIn
<1>7. log \in Seq(HarmlessIn(role')) /\ b \in Seq(HarmlessIn(role'))
  BY <1>4, <1>6
<1>8. log' \in Seq(HarmlessIn(role'))
  BY <1>4, <1>7, ConcatProperties
<1>9. \A i \in DOMAIN log' : Harmless(log'[i], role')
  BY <1>8 DEF HarmlessIn
<1>10. ASSUME NEW v \in alive', NEW m, Discreet(v, m, role) PROVE Discreet(v, m, role')
  BY <1>2, <1>10 DEF Discreet
<1>11. ASSUME NEW v \in alive', NEW t \in Tabs(v)' PROVE Discreet(v, t.model, role')
  <2>1. v \in players /\ v \in alive
    OBVIOUS
  <2>2. \A u \in Tabs(v) : Discreet(v, u.model, role)
    BY <2>1 DEF LivingAreDiscreet
  <2>3. Discreet(v, tab[v].model, role')
    BY <1>10, <2>1, <2>2, BeforeBatch
  <2>4. Discreet(v, Replay(v, tab[v].model, Rest(log', Len(log)), alive', role'), role')
    BY <1>9, <2>1, <2>3, BeforeBatch, DiscreetCaught
  <2>5. t \in Tabs(v) \/ Took(v, t)
    BY <1>11, <2>1, TabsTaken DEF Sent
  <2> QED BY <1>10, <2>2, <2>4, <2>5 DEF Took
<1> QED BY <1>9, <1>11

TellsRoster(b) ==
  \/ role' = role /\ b \in Seq(RosterTrue(role'))
  \/ Brings(b, RosterNews(role'), RosterTrue(role'))

(* A batch that brings a roster when the faction changed keeps CabalKnown. *)
LEMMA CabalStep ==
  ASSUME NEW b, Sent(b), phase # Ended, CabalKnown, LivingAreDiscreet',
         alive' \subseteq alive, alive' \subseteq players, OneYakuzaIn(role'),
         phase' # Ended => TellsRoster(b)
  PROVE  CabalKnown'
<1> SUFFICES ASSUME phase' # Ended
             PROVE  \E k \in DOMAIN log' :
                      /\ RosterTold(log', k, role')
                      /\ \A v \in alive' \cap MembersOf(role') : \A t \in Tabs(v)' :
                           t.cursor < k \/ KnowsCabal(t.model, role')
  <2>1. players' = players
    BY DEF Sent
  <2> QED BY <2>1 DEF CabalKnown, RosterTold, RosterNews, RosterTrue, WholeRoster,
               MembersOf, KnowsCabal
<1>1. PICK k : /\ RosterTold(log', k, role')
               /\ \A v \in alive' \cap MembersOf(role') : \A t \in Tabs(v) :
                    t.cursor < k \/ KnowsCabal(t.model, role')
  <2>1. CASE Brings(b, RosterNews(role'), RosterTrue(role'))
    <3>1. PICK k : /\ Settled(log', k, RosterNews(role'), RosterTrue(role'))
                   /\ \A v \in players : \A t \in Tabs(v) : t.cursor < k
      BY <2>1, SettledAhead
    <3> QED BY <3>1 DEF RosterTold
  <2>2. CASE role' = role /\ b \in Seq(RosterTrue(role'))
    <3>1. PICK k : /\ RosterTold(log, k, role)
                   /\ \A v \in alive \cap MembersOf(role) : \A t \in Tabs(v) :
                        t.cursor < k \/ KnowsCabal(t.model, role)
      BY DEF CabalKnown
    <3>2. log \in Seq(Ev) /\ b \in Seq(Ev) /\ log' = log \o b
      BY TabsTaken DEF Sent, Typed, Batch
    <3>3. Settled(log, k, RosterNews(role'), RosterTrue(role'))
      BY <2>2, <3>1 DEF RosterTold
    <3>4. Settled(log', k, RosterNews(role'), RosterTrue(role'))
      BY <2>2, <3>2, <3>3, SettledOn
    <3> QED BY <2>2, <3>1, <3>4 DEF RosterTold
  <2> QED BY <2>1, <2>2 DEF TellsRoster
<1>2. k \in DOMAIN log'
  BY <1>1 DEF RosterTold, Settled
<1>3. ASSUME NEW v \in alive' \cap MembersOf(role'), NEW t \in Tabs(v)'
      PROVE  t.cursor < k \/ KnowsCabal(t.model, role')
  <2>1. v \in players /\ players' = players /\ v \in alive' /\ v \in MembersOf(role')
    BY DEF Sent
  <2>2. Len(log) < k \/ KnowsCabal(tab[v].model, role')
    BY <1>1, <2>1, BeforeBatch
  <2>3. tab[v] \in stale'[v]
    BY <2>1 DEF Sent, Emit
  <2>4. tab[v] \in Tabs(v)'
    BY <2>3 DEF Tabs
  <2>5. /\ \A i \in DOMAIN log' : Harmless(log'[i], role')
        /\ Discreet(v, tab[v].model, role')
    BY <2>1, <2>4, LivingPrimed
  <2>6. KnowsCabal(Replay(v, tab[v].model, Rest(log', Len(log)), alive', role'), role')
    <3>1. players \subseteq Player
      BY DEF Sent
    <3> QED BY <1>1, <2>1, <2>2, <2>5, <3>1, BeforeBatch, CabalCaught
  <2>7. t \in Tabs(v) \/ Took(v, t)
    BY <1>3, <2>1, TabsTaken DEF Sent
  <2> QED BY <1>1, <2>1, <2>6, <2>7 DEF Took
<1> QED BY <1>1, <1>2, <1>3

ShowsBoard(b) ==
  \/ phase' # Ended /\ role' = role /\ alive' = alive /\ b \in Seq(BoardTrue(role'))
  \/ Brings(b, BoardNews(phase', role'), BoardTrue(role'))

(* A batch that shows the board when it changed keeps BoardKnown. *)
LEMMA BoardStep ==
  ASSUME NEW b, Sent(b), phase # Ended, BoardKnown, ShowsBoard(b)
  PROVE  BoardKnown'
<1>1. players' = players
  BY DEF Sent
<1> SUFFICES ASSUME Watchers(alive', phase') # {}
             PROVE  \E k \in DOMAIN log' :
                      /\ BoardShown(log', k, phase', role')
                      /\ \A v \in Watchers(alive', phase') : \A t \in Tabs(v)' :
                           t.cursor < k \/ t.model.revealed = Everyone(role')
  BY <1>1 DEF BoardKnown, Watchers, BoardShown, BoardNews, BoardTrue, Everyone
<1>2. PICK k : /\ BoardShown(log', k, phase', role')
               /\ \A v \in Watchers(alive', phase') : \A t \in Tabs(v) :
                    t.cursor < k \/ t.model.revealed = Everyone(role')
  <2>1. CASE Brings(b, BoardNews(phase', role'), BoardTrue(role'))
    <3>1. PICK k : /\ Settled(log', k, BoardNews(phase', role'), BoardTrue(role'))
                   /\ \A v \in players : \A t \in Tabs(v) : t.cursor < k
      BY <2>1, SettledAhead
    <3>2. Watchers(alive', phase') \subseteq players
      BY DEF Watchers
    <3> QED BY <3>1, <3>2 DEF BoardShown
  <2>2. CASE phase' # Ended /\ role' = role /\ alive' = alive /\ b \in Seq(BoardTrue(role'))
    <3>1. Watchers(alive', phase') = Watchers(alive, phase)
      BY <2>2 DEF Watchers
    <3>2. PICK k : /\ BoardShown(log, k, phase, role)
                   /\ \A v \in Watchers(alive, phase) : \A t \in Tabs(v) :
                        t.cursor < k \/ t.model.revealed = Everyone(role)
      BY <3>1 DEF BoardKnown
    <3>3. log \in Seq(Ev) /\ b \in Seq(Ev) /\ log' = log \o b
      BY TabsTaken DEF Sent, Typed, Batch
    <3>4. BoardNews(phase', role') = BoardNews(phase, role)
      BY <2>2 DEF BoardNews
    <3>5. Settled(log, k, BoardNews(phase', role'), BoardTrue(role'))
      BY <2>2, <3>2, <3>4 DEF BoardShown
    <3>6. Settled(log', k, BoardNews(phase', role'), BoardTrue(role'))
      BY <2>2, <3>3, <3>5, SettledOn
    <3> QED BY <2>2, <3>1, <3>2, <3>6 DEF BoardShown
  <2> QED BY <2>1, <2>2 DEF ShowsBoard
<1>3. k \in DOMAIN log'
  BY <1>2 DEF BoardShown, Settled
<1>4. ASSUME NEW v \in Watchers(alive', phase'), NEW t \in Tabs(v)'
      PROVE  t.cursor < k \/ t.model.revealed = Everyone(role')
  <2>1. v \in players
    BY DEF Watchers
  <2>2. Len(log) < k \/ tab[v].model.revealed = Everyone(role')
    BY <1>2, <2>1, BeforeBatch
  <2>3. Replay(v, tab[v].model, Rest(log', Len(log)), alive', role').revealed = Everyone(role')
    BY <1>2, <2>1, <2>2, BeforeBatch, BoardCaught
  <2>4. t \in Tabs(v) \/ Took(v, t)
    BY <1>4, <2>1, TabsTaken DEF Sent
  <2> QED BY <1>2, <2>3, <2>4 DEF Took
<1> QED BY <1>2, <1>3, <1>4

(* NightKnown of the next state. *)
LEMMA NightStep ==
  ASSUME NEW b, Sent(b), alive' = alive,
         NEW k, NightShown(log', k, Tonight'),
         \A v \in players \ alive : \A t \in Tabs(v) :
           t.cursor < k \/ t.model.feed = Seen(log', k + 1, t.cursor)
  PROVE  NightKnown'
<1>1. k \in DOMAIN log' /\ players' = players
  BY DEF NightShown, Sent
<1> SUFFICES ASSUME NEW v \in players \ alive, NEW t \in Tabs(v)'
             PROVE  t.cursor < k \/ t.model.feed = Seen(log', k + 1, t.cursor)
  BY <1>1 DEF NightKnown
<1>2. Len(log) < k \/ tab[v].model.feed = Seen(log', k + 1, Len(log))
  BY BeforeBatch
<1>3. Replay(v, tab[v].model, Rest(log', Len(log)), alive', role').feed = Tonight'
  BY <1>2, BeforeBatch, NightCaught
<1>4. Seen(log', k + 1, Len(log')) = Tonight'
  BY DEF NightShown
<1>5. t \in Tabs(v) \/ Took(v, t)
  BY TabsTaken DEF Sent
<1> QED BY <1>3, <1>4, <1>5 DEF Took

(* What has been seen of two parts of a log. *)
LEMMA SeenJoined ==
  ASSUME NEW l \in Seq(Ev), NEW b \in Seq(Ev), NEW from \in Nat \ {0}, from <= Len(l) + 1
  PROVE  /\ \A c \in 0 .. Len(l) : Seen(l \o b, from, c) = Seen(l, from, c)
         /\ Seen(l \o b, from, Len(l \o b)) = Seen(l, from, Len(l)) \cup Seen(b, 1, Len(b))
<1>1. Len(l) \in Nat /\ Len(b) \in Nat
  OBVIOUS
<1>2. PICK w \in Seq(Ev) :
        /\ w = l \o b /\ Len(w) = Len(l) + Len(b)
        /\ \A i \in 1 .. Len(l) : w[i] = l[i]
        /\ \A i \in 1 .. Len(b) : w[Len(l) + i] = b[i]
  BY Joined
<1>3. ASSUME NEW c \in 0 .. Len(l) PROVE Seen(w, from, c) = Seen(l, from, c)
  <2>1. \A j \in from .. c : w[j] = l[j]
    BY <1>1, <1>2
  <2> QED BY <2>1 DEF Seen
<1>4. ASSUME NEW x
      PROVE  x \in Seen(w, from, Len(w)) <=> x \in Seen(l, from, Len(l)) \cup Seen(b, 1, Len(b))
  <2>1. ASSUME NEW j \in from .. Len(w), w[j].kind = "spectated", x = w[j].act
        PROVE  x \in Seen(l, from, Len(l)) \cup Seen(b, 1, Len(b))
    <3>1. CASE j <= Len(l)
      <4>1. j \in from .. Len(l) /\ w[j] = l[j]
        BY <1>1, <1>2, <3>1
      <4> QED BY <2>1, <4>1 DEF Seen
    <3>2. CASE j > Len(l)
      <4>1. PICK i \in 1 .. Len(b) : j = Len(l) + i
        <5>1. j - Len(l) \in 1 .. Len(b) /\ j = Len(l) + (j - Len(l))
          BY <1>1, <1>2, <3>2
        <5> QED BY <5>1
      <4>2. w[j] = b[i]
        BY <1>2, <4>1
      <4> QED BY <2>1, <4>2 DEF Seen
    <3> QED BY <1>1, <3>1, <3>2
  <2>2. ASSUME NEW j \in from .. Len(l), l[j].kind = "spectated", x = l[j].act
        PROVE  x \in Seen(w, from, Len(w))
    <3>1. j \in from .. Len(w) /\ w[j] = l[j]
      BY <1>1, <1>2
    <3> QED BY <2>2, <3>1 DEF Seen
  <2>3. ASSUME NEW i \in 1 .. Len(b), b[i].kind = "spectated", x = b[i].act
        PROVE  x \in Seen(w, from, Len(w))
    <3>1. Len(l) + i \in from .. Len(w) /\ w[Len(l) + i] = b[i]
      BY <1>1, <1>2
    <3> QED BY <2>3, <3>1 DEF Seen
  <2>4. x \in Seen(w, from, Len(w)) =>
          \E j \in from .. Len(w) : w[j].kind = "spectated" /\ x = w[j].act
    BY DEF Seen
  <2>5. x \in Seen(l, from, Len(l)) =>
          \E j \in from .. Len(l) : l[j].kind = "spectated" /\ x = l[j].act
    BY DEF Seen
  <2>6. x \in Seen(b, 1, Len(b)) =>
          \E j \in 1 .. Len(b) : b[j].kind = "spectated" /\ x = b[j].act
    BY DEF Seen
  <2> QED BY <2>1, <2>2, <2>3, <2>4, <2>5, <2>6
<1> QED BY <1>2, <1>3, <1>4

(* A night falls: nothing has been done yet. *)
LEMMA NightFallsStep ==
  ASSUME Sent(<<Cue, NightFalls>>), alive' = alive, Tonight' = {}
  PROVE  NightKnown'
<1> DEFINE k == Len(log) + 2
<1>1. PICK b : b = <<Cue, NightFalls>>
  OBVIOUS
<1>2. Cue \in Ev /\ NightFalls \in Ev /\ NightFalls.kind = "night"
  BY PlainEvents
<1>3. Len(b) = 2 /\ b[2] = NightFalls /\ b \in Seq(Ev)
  BY <1>1, <1>2
<1>4. log \in Seq(Ev) /\ log' = log \o b /\ Len(log) \in Nat
  <2>1. Sent(b)
    BY <1>1
  <2> QED BY <2>1, TabsTaken DEF Sent, Typed
<1>5. Len(log') = k /\ log'[k] = NightFalls /\ log' \in Seq(Ev)
  <2>1. PICK l \in Seq(Ev) : l = log
    BY <1>4
  <2>2. /\ Len(l \o b) = Len(l) + Len(b) /\ l \o b \in Seq(Ev)
        /\ \A i \in 1 .. Len(b) : (l \o b)[Len(l) + i] = b[i]
    BY <1>3, Joined
  <2>3. (l \o b)[Len(l) + 2] = b[2]
    BY <1>3, <2>2
  <2> QED BY <1>3, <1>4, <2>1, <2>2, <2>3
<1>6. Seen(log', k + 1, Len(log')) = {}
  BY <1>4, <1>5, SeenNothing
<1>7. NightShown(log', k, Tonight')
  BY <1>2, <1>4, <1>5, <1>6 DEF NightShown
<1>8. \A v \in players : \A t \in Tabs(v) : t.cursor < k
  BY <1>4 DEF Sent, Typed, Tab
<1> HIDE DEF k
<1> QED BY <1>1, <1>7, <1>8, NightStep

(* A night goes on. *)
LEMMA NightGoesOn ==
  ASSUME NEW b, Sent(b), phase = Night, NightKnown, alive' = alive,
         \A i \in DOMAIN b : b[i].kind # "night",
         Tonight' = Tonight \cup Seen(b, 1, Len(b))
  PROVE  NightKnown'
<1>1. PICK k \in DOMAIN log :
        /\ NightShown(log, k, Tonight)
        /\ \A v \in players \ alive : \A t \in Tabs(v) :
             t.cursor < k \/ t.model.feed = Seen(log, k + 1, t.cursor)
  BY DEF NightKnown
<1>2. log \in Seq(Ev) /\ b \in Seq(Ev) /\ log' = log \o b
  BY TabsTaken DEF Sent, Typed, Batch
<1>3. k \in 1 .. Len(log) /\ k + 1 \in Nat \ {0} /\ k + 1 <= Len(log) + 1
      /\ Len(log) \in Nat /\ Len(b) \in Nat
  BY <1>2
<1>4. /\ \A c \in 0 .. Len(log) : Seen(log', k + 1, c) = Seen(log, k + 1, c)
      /\ Seen(log', k + 1, Len(log')) = Seen(log, k + 1, Len(log)) \cup Seen(b, 1, Len(b))
  BY <1>2, <1>3, SeenJoined
<1>5. ASSUME NEW j \in k + 1 .. Len(log') PROVE log'[j].kind # "night"
  <2>1. CASE j <= Len(log)
    <3>1. j \in 1 .. Len(log) /\ j \in k + 1 .. Len(log)
      BY <1>3, <2>1
    <3>2. log'[j] = log[j]
      BY <1>2, <3>1, Joined
    <3> QED BY <1>1, <3>1, <3>2 DEF NightShown
  <2>2. CASE j > Len(log)
    <3>1. Len(log') = Len(log) + Len(b)
      BY <1>2, Joined
    <3>2. PICK i \in 1 .. Len(b) : j = Len(log) + i
      <4>1. j - Len(log) \in 1 .. Len(b) /\ j = Len(log) + (j - Len(log))
        BY <1>3, <2>2, <3>1
      <4> QED BY <4>1
    <3>3. log'[j] = b[i]
      BY <1>2, <3>2, Joined
    <3> QED BY <1>2, <3>3
  <2> QED BY <1>3, <2>1, <2>2
<1>6. log'[k] = log[k] /\ k \in DOMAIN log'
  BY <1>2, <1>3, Joined
<1>7. NightShown(log', k, Tonight')
  BY <1>1, <1>4, <1>5, <1>6 DEF NightShown
<1>8. \A v \in players : \A t \in Tabs(v) : t.cursor \in 0 .. Len(log)
  BY <1>3 DEF Sent, Typed, Tab
<1>9. \A v \in players \ alive : \A t \in Tabs(v) :
        t.cursor < k \/ t.model.feed = Seen(log', k + 1, t.cursor)
  BY <1>1, <1>4, <1>8
<1> QED BY <1>7, <1>9, NightStep

-------------------------------------------------------------------------------
(* What the batches say. *)
Bland == {e \in Ev : e.kind \in {"cue", "night", "died", "recorded", "spectated"}}

(* A bland event says nothing of roles, rosters or the board. *)
LEMMA BlandSaysNothing ==
  ASSUME NEW e \in Bland, NEW v, NEW r, NEW ro
  PROVE  e \in RoleTrue(v, r) /\ e \in RosterTrue(ro) /\ e \in BoardTrue(ro)
  BY DEF Bland, RoleTrue, TellsRole, RosterTrue, BoardTrue, Reveals

(* So it is of the events that name nobody. *)
LEMMA PlainIsBland ==
  ASSUME NEW e \in {Cue, NightFalls, PlayerDied}, NEW ro
  PROVE  e \in Bland /\ e \in HarmlessIn(ro)
<1>1. /\ e \in Ev /\ e.kind \in {"cue", "night", "died"} /\ e.roles = {}
      /\ e.to.audience = "public"
  BY PlainEvents
<1> QED BY <1>1 DEF Bland, HarmlessIn, Harmless

(* A private event tells its player's role, and nothing else. *)
LEMMA RoleToldTruly ==
  ASSUME NEW p \in Player, NEW ro \in RoleMap, ro[p] \in Role,
         NEW e \in {RoleAssigned(p, ro[p])}
                     \cup (IF ro[p] = Mafia THEN {ConsortPromoted(p)} ELSE {}),
         NEW v, NEW ro2
  PROVE  /\ e \in Ev /\ e.kind \in {"role_assigned", "promoted"}
         /\ e \in RoleTrue(v, ro[v]) /\ (v = p => e \in RoleNews(v, ro[v]))
         /\ e \in RosterTrue(ro2) /\ e \in BoardTrue(ro2) /\ e \in HarmlessIn(ro2)
<1>1. /\ e \in Ev /\ e.kind \in {"role_assigned", "promoted"}
      /\ e.kind = "promoted" => ro[p] = Mafia
      /\ e.to.audience = "player" /\ e.to.who = p /\ e.roles = {<<p, ro[p]>>}
  <2>1. CASE e = RoleAssigned(p, ro[p])
    BY <2>1, RoleEvents
  <2>2. CASE ro[p] = Mafia /\ e = ConsortPromoted(p)
    BY <2>2, RoleEvents
  <2> QED BY <2>1, <2>2
<1>2. TellsRole(e, v) <=> v = p
  BY <1>1 DEF TellsRole
<1>3. v = p => TellsRoleIs(e, v, ro[v])
  BY <1>1, <1>2 DEF TellsRoleIs
<1>4. e \in RosterTrue(ro2) /\ e \in BoardTrue(ro2)
  BY <1>1 DEF RosterTrue, BoardTrue, Reveals
<1>5. \A x \in e.roles : x[1] = e.to.who
  BY <1>1
<1>6. Harmless(e, ro2)
  BY <1>1, <1>5 DEF Harmless
<1> QED BY <1>1, <1>2, <1>3, <1>4, <1>6 DEF RoleTrue, RoleNews, HarmlessIn

(* A roster tells the whole faction, and only the faction. *)
LEMMA RosterToldTruly ==
  ASSUME players \subseteq Player, NEW al, NEW ro \in RoleMap, NEW v, NEW r, NEW ro2
  PROVE  LET e == MafiaRoster(al, ro) IN
         /\ e \in Ev /\ e.kind = "roster" /\ e \in RoleTrue(v, r)
         /\ e \in RosterNews(ro) /\ e \in RosterTrue(ro) /\ e \in BoardTrue(ro2)
         /\ e \in HarmlessIn(ro)
<1>1. PICK e : e = MafiaRoster(al, ro)
  OBVIOUS
<1>2. /\ e \in Ev /\ e.kind = "roster" /\ e.to.audience = "faction"
      /\ e.roles = {<<p, ro[p]>> : p \in MembersOf(ro)}
  BY <1>1, RosterEvents
<1>3. WholeRoster(e, ro)
  BY <1>2 DEF WholeRoster
<1>4. \A x \in e.roles : x[1] \in MembersOf(ro) /\ (x[2] = Yakuza => ro[x[1]] = Yakuza)
  BY <1>2
<1>5. Harmless(e, ro)
  BY <1>2, <1>4 DEF Harmless
<1>6. e \in RoleTrue(v, r) /\ e \in BoardTrue(ro2)
  BY <1>2 DEF RoleTrue, TellsRole, BoardTrue, Reveals
<1>7. e \in RosterNews(ro) /\ e \in RosterTrue(ro) /\ e \in HarmlessIn(ro)
  BY <1>2, <1>3, <1>5 DEF RosterNews, RosterTrue, HarmlessIn
<1> QED BY <1>1, <1>2, <1>6, <1>7

(* A snapshot tells the whole board, and only the dead while the game runs. *)
LEMMA BoardToldTruly ==
  ASSUME players \subseteq Player, NEW ro \in RoleMap,
         NEW e \in {RosterRevealed(ro), GameEnded(ro)}, NEW v, NEW r, NEW ro2, NEW ph
  PROVE  /\ e \in Ev /\ e \in RoleTrue(v, r) /\ e \in RosterTrue(ro2)
         /\ e \in BoardTrue(ro) /\ (e = GameEnded(ro) \/ ph # Ended => e \in BoardNews(ph, ro))
         /\ e = RosterRevealed(ro) => e \in HarmlessIn(ro2)
<1>1. /\ e \in Ev /\ e.kind \in {"roster_revealed", "game_ended"}
      /\ e.roles = Everyone(ro)
      /\ e = GameEnded(ro) => e.kind = "game_ended"
      /\ e = RosterRevealed(ro) => e.kind = "roster_revealed" /\ e.to.audience = "dead"
  BY BoardEvents
<1>2. e \in RoleTrue(v, r) /\ e \in RosterTrue(ro2) /\ e \in BoardTrue(ro)
  BY <1>1 DEF RoleTrue, TellsRole, RosterTrue, BoardTrue
<1>3. e = GameEnded(ro) \/ ph # Ended => e \in BoardNews(ph, ro)
  BY <1>1 DEF BoardNews, Reveals
<1>4. e = RosterRevealed(ro) => e \in HarmlessIn(ro2)
  BY <1>1 DEF HarmlessIn, Harmless
<1> QED BY <1>1, <1>2, <1>3, <1>4

(* The records of an act name its actor to its faction or itself, and both to the dead. *)
LEMMA ActsAreHarmless ==
  ASSUME role \in RoleMap, players \subseteq Player, NEW a \in players, NEW t \in Player
  PROVE  \A e \in {Recorded(a, t), Spectated(a, t)} : e \in Bland /\ e \in HarmlessIn(role)
<1>1. PICK e : e = Recorded(a, t)
  OBVIOUS
<1>2. PICK f : f = Spectated(a, t)
  OBVIOUS
<1>3. /\ e \in Ev /\ e.kind = "recorded" /\ e.roles = {<<a, role[a]>>}
      /\ e.to.audience = (IF Faction(role[a]) = FactionMafia THEN "faction" ELSE "player")
      /\ Faction(role[a]) # FactionMafia => e.to.who = a
      /\ f \in Ev /\ f.kind = "spectated" /\ f.to.audience = "dead"
  BY <1>1, <1>2, ActEvents
<1>4. \A x \in e.roles : x[1] = a
  BY <1>3
<1>5. Faction(role[a]) = FactionMafia => a \in MembersOf(role)
  BY DEF MembersOf
<1>6. Harmless(e, role)
  BY <1>3, <1>4, <1>5 DEF Harmless
<1>7. Harmless(f, role)
  BY <1>3 DEF Harmless
<1> QED BY <1>1, <1>2, <1>3, <1>6, <1>7 DEF Bland, HarmlessIn

(* A sequence over a set is one over a larger set. *)
LEMMA SeqWithin ==
  ASSUME NEW S, NEW T, S \subseteq T, NEW b \in Seq(S)
  PROVE  b \in Seq(T)
  OBVIOUS

(* The end of a batch of deaths. *)
Ending(told, decided, ro) ==
  IF decided THEN <<GameEnded(ro), Cue>> ELSE GraveyardBatch(told, ro) \o <<Cue>>

Deadly(b) == \E i \in DOMAIN b : b[i].kind \in {"died", "promoted"}

(* The end of a batch of deaths, in its three forms. *)
LEMMA EndingIs ==
  ASSUME NEW told, NEW decided \in BOOLEAN, NEW ro \in RoleMap, players \subseteq Player
  PROVE  LET b == Ending(told, decided, ro) IN
         \/ decided /\ b = <<GameEnded(ro), Cue>>
         \/ ~decided /\ Deadly(told) /\ b = <<RosterRevealed(ro), Cue>>
         \/ ~decided /\ ~Deadly(told) /\ b = <<Cue>>
<1>1. Cue \in Ev /\ RosterRevealed(ro) \in Ev
  BY PlainEvents, BoardEvents
<1>2. <<RosterRevealed(ro)>> \o <<Cue>> = <<RosterRevealed(ro), Cue>>
  BY <1>1, Pairs
<1>3. <<Cue>> \in Seq(Ev)
  BY <1>1
<1>4. <<>> \o <<Cue>> = <<Cue>>
  BY <1>3
<1> HIDE DEF RosterRevealed, Cue
<1> QED BY <1>2, <1>4 DEF Ending, GraveyardBatch, Deadly

SaysOfEnd(b, told, decided, ro, ph, v, r, ro2) ==
  /\ Batch(b) /\ b \in Seq(RoleTrue(v, r)) /\ b \in Seq(RosterTrue(ro2))
  /\ b \in Seq(BoardTrue(ro)) /\ (~decided => b \in Seq(HarmlessIn(ro2)))
  /\ decided \/ Deadly(told) => Brings(b, BoardNews(ph, ro), BoardTrue(ro))

(* The end of a batch of deaths shows the board if the batch changed it. *)
LEMMA EndingSays ==
  ASSUME NEW told, NEW decided \in BOOLEAN, NEW ro \in RoleMap, players \subseteq Player,
         NEW b, b = Ending(told, decided, ro), NEW v, NEW r, NEW ro2,
         NEW ph, ph = Ended => decided
  PROVE  SaysOfEnd(b, told, decided, ro, ph, v, r, ro2)
<1>1. PICK c \in Bland : c = Cue /\ c \in HarmlessIn(ro2)
  BY PlainIsBland
<1>2. /\ c \in Ev /\ c \in RoleTrue(v, r) /\ c \in RosterTrue(ro2) /\ c \in BoardTrue(ro)
      /\ c.to.audience = "public"
  BY <1>1, BlandSaysNothing, PlainEvents DEF Bland
<1>3. ASSUME NEW e \in {RosterRevealed(ro), GameEnded(ro)}, b = <<e, c>>,
             e = GameEnded(ro) <=> decided
      PROVE  /\ Batch(b) /\ b \in Seq(RoleTrue(v, r)) /\ b \in Seq(RosterTrue(ro2))
             /\ b \in Seq(BoardTrue(ro)) /\ (~decided => b \in Seq(HarmlessIn(ro2)))
             /\ Brings(b, BoardNews(ph, ro), BoardTrue(ro))
  <2>1. /\ e \in Ev /\ e \in RoleTrue(v, r) /\ e \in RosterTrue(ro2) /\ e \in BoardTrue(ro)
        /\ e \in BoardNews(ph, ro) /\ (~decided => e \in HarmlessIn(ro2))
    BY <1>3, BoardToldTruly
  <2>2. /\ b \in Seq(Ev) /\ b \in Seq(RoleTrue(v, r)) /\ b \in Seq(RosterTrue(ro2))
        /\ b \in Seq(BoardTrue(ro)) /\ (~decided => b \in Seq(HarmlessIn(ro2)))
        /\ Len(b) = 2 /\ b[1] = e /\ b[2] = c
    BY <1>1, <1>2, <1>3, <2>1
  <2>3. Brings(b, BoardNews(ph, ro), BoardTrue(ro))
    BY <2>1, <2>2, BringsOne
  <2> QED BY <1>2, <2>2, <2>3 DEF Batch
<1>4. CASE decided /\ b = <<GameEnded(ro), c>>
  BY <1>3, <1>4 DEF SaysOfEnd
<1>5. CASE ~decided /\ Deadly(told) /\ b = <<RosterRevealed(ro), c>>
  <2>1. RosterRevealed(ro) # GameEnded(ro)
    BY BoardEvents
  <2> QED BY <1>3, <1>5, <2>1 DEF SaysOfEnd
<1>6. CASE ~decided /\ ~Deadly(told) /\ b = <<c>>
  <2>1. /\ b \in Seq(Ev) /\ b \in Seq(RoleTrue(v, r)) /\ b \in Seq(RosterTrue(ro2))
        /\ b \in Seq(BoardTrue(ro)) /\ b \in Seq(HarmlessIn(ro2))
        /\ Len(b) = 1 /\ b[1] = c
    BY <1>1, <1>2, <1>6
  <2> QED BY <1>2, <1>6, <2>1 DEF Batch, SaysOfEnd
<1> QED BY <1>1, <1>4, <1>5, <1>6, EndingIs

(* A consort that takes over is told so, and the faction whom it is. *)
LEMMA PromotionTypes ==
  ASSUME players \subseteq Player, NEW al, NEW ro \in RoleMap
  PROVE  /\ AfterPromotion(al, ro) \in RoleMap /\ Grows(ro, AfterPromotion(al, ro))
         /\ Promoted(al, ro) = {} => AfterPromotion(al, ro) = ro
         /\ \A p \in Player : p \notin Promoted(al, ro) => AfterPromotion(al, ro)[p] = ro[p]
         /\ \A p \in Player : p \in Promoted(al, ro) => AfterPromotion(al, ro)[p] = Mafia
         /\ Promoted(al, ro) \subseteq al
<1>1. \A p \in Promoted(al, ro) : ro[p] = Consort
  BY DEF Promoted
<1>2. /\ AfterPromotion(al, ro) \in RoleMap
      /\ Promoted(al, ro) = {} => AfterPromotion(al, ro) = ro
      /\ \A p \in Player : p \notin Promoted(al, ro) => AfterPromotion(al, ro)[p] = ro[p]
      /\ \A p \in Player : p \in Promoted(al, ro) => AfterPromotion(al, ro)[p] = Mafia
      /\ Promoted(al, ro) \subseteq al
  BY DEF AfterPromotion, RoleMap, Role, Promoted
<1>3. PICK ro2 : ro2 = AfterPromotion(al, ro)
  OBVIOUS
<1>4. \A p \in players : ro2[p] = ro[p] \/ ro[p] = Consort
  BY <1>1, <1>2, <1>3
<1>5. Grows(ro, ro2)
  BY <1>4, MafiaFactionRoles, RoleNames DEF Grows
<1> QED BY <1>2, <1>3, <1>5

SaysOfPromotion(b, al, ro, ro2) ==
  /\ b \in Seq(Ev) /\ b \in Seq(HarmlessIn(ro2)) /\ b \in Seq(BoardTrue(ro2))
  /\ b \in Seq(RosterTrue(ro2)) /\ \A v \in players : b \in Seq(RoleTrue(v, ro2[v]))
  /\ \A v \in players :
       ro2[v] # ro[v] => \E i \in DOMAIN b : b[i] \in RoleNews(v, ro2[v])
  /\ IF Promoted(al, ro) = {}
       THEN b = <<>> /\ ro2 = ro
       ELSE Brings(b, RosterNews(ro2), RosterTrue(ro2)) /\ Deadly(b)

(* A promotion tells the new mafioso and the faction; otherwise nothing changes. *)
LEMMA PromotionSays ==
  ASSUME players \subseteq Player, NEW al, al \subseteq players, NEW ro \in RoleMap,
         NEW ro2, ro2 = AfterPromotion(al, ro), NEW b, b = PromotionBatch(al, ro)
  PROVE  SaysOfPromotion(b, al, ro, ro2)
<1>1. /\ ro2 \in RoleMap /\ (Promoted(al, ro) = {} => ro2 = ro)
      /\ \A p \in Player : p \notin Promoted(al, ro) => ro2[p] = ro[p]
      /\ \A p \in Player : p \in Promoted(al, ro) => ro2[p] = Mafia
      /\ Promoted(al, ro) \subseteq players
  BY PromotionTypes
<1>2. CASE Promoted(al, ro) = {}
  <2>1. b = <<>> /\ ro2 = ro
    BY <1>1, <1>2 DEF PromotionBatch
  <2> QED BY <1>2, <2>1 DEF SaysOfPromotion
<1>3. CASE Promoted(al, ro) # {}
  <2> DEFINE P == Promoted(al, ro)
             C == {ConsortPromoted(p) : p \in P}
             c == SetToSeq(C)
             X(v) == HarmlessIn(ro2) \cap BoardTrue(ro2) \cap RosterTrue(ro2)
                       \cap RoleTrue(v, ro2[v])
  <2>1. IsFiniteSet(C)
    <3>1. IsFiniteSet(P) /\ P \subseteq Player
      BY <1>1, PlayerAssumption, FS_Subset
    <3> DEFINE f == [p \in P |-> ConsortPromoted(p)]
    <3>2. f \in Surjection(P, C)
      BY DEF Surjection
    <3> HIDE DEF f
    <3> QED BY <3>1, <3>2, FS_Surjection
  <2>2. c \in Seq(C) /\ \A x \in C : \E i \in DOMAIN c : c[i] = x
    <3> HIDE DEF C
    <3> QED BY <2>1, SetToSeqLists
  <2>3. ASSUME NEW p \in P, NEW v \in players
        PROVE  /\ ConsortPromoted(p) \in Ev /\ ConsortPromoted(p) \in X(v)
               /\ ConsortPromoted(p).kind = "promoted"
               /\ v = p => ConsortPromoted(p) \in RoleNews(v, ro2[v])
    <3>1. p \in Player /\ ro2[p] = Mafia /\ ro2[p] \in Role /\ v \in Player
      BY <1>1, RoleNames
    <3>2. PICK e : e = ConsortPromoted(p)
      OBVIOUS
    <3>3. e \in {RoleAssigned(p, ro2[p])} \cup (IF ro2[p] = Mafia THEN {ConsortPromoted(p)} ELSE {})
      BY <3>1, <3>2
    <3>4. /\ e \in Ev /\ e \in RoleTrue(v, ro2[v]) /\ (v = p => e \in RoleNews(v, ro2[v]))
          /\ e \in RosterTrue(ro2) /\ e \in BoardTrue(ro2) /\ e \in HarmlessIn(ro2)
      BY <1>1, <3>1, <3>3, RoleToldTruly
    <3>5. e.kind = "promoted"
      BY <3>1, <3>2, RoleEvents
    <3> QED BY <3>2, <3>4, <3>5
  <2>4. PICK e \in Ev :
          /\ e = MafiaRoster(al, ro2) /\ e \in RosterNews(ro2) /\ e \in RosterTrue(ro2)
          /\ \A v \in players : e \in X(v)
    <3>1. PICK e : e = MafiaRoster(al, ro2)
      OBVIOUS
    <3> QED BY <1>1, <3>1, RosterToldTruly
  <2>5. C \subseteq Ev /\ \A v \in players : C \subseteq X(v)
    BY <1>1, <2>3
  <2>6. b = c \o <<e>>
    BY <1>1, <1>3, <2>4 DEF PromotionBatch
  <2> HIDE DEF C, P, X, c
  <2>7. c \in Seq(Ev) /\ <<e>> \in Seq(Ev) /\ b \in Seq(Ev)
    BY <2>2, <2>4, <2>5, <2>6, SeqWithin, ConcatProperties
  <2>8. ASSUME NEW v \in players PROVE b \in Seq(X(v))
    <3>1. c \in Seq(X(v)) /\ <<e>> \in Seq(X(v))
      BY <2>2, <2>4, <2>5, SeqWithin
    <3> QED BY <2>6, <3>1, ConcatProperties
  <2>9. PICK w \in players : w \in P
    BY <1>1, <1>3 DEF P
  <2>10. /\ b \in Seq(HarmlessIn(ro2)) /\ b \in Seq(BoardTrue(ro2)) /\ b \in Seq(RosterTrue(ro2))
         /\ \A v \in players : b \in Seq(RoleTrue(v, ro2[v]))
    <3>1. \A v \in players : /\ X(v) \subseteq HarmlessIn(ro2) /\ X(v) \subseteq BoardTrue(ro2)
                             /\ X(v) \subseteq RosterTrue(ro2)
                             /\ X(v) \subseteq RoleTrue(v, ro2[v])
      BY DEF X
    <3> QED BY <2>8, <2>9, <3>1, SeqWithin
  <2>11. ASSUME NEW p \in P
         PROVE  \E i \in DOMAIN b : b[i] = ConsortPromoted(p)
    <3>1. PICK i \in DOMAIN c : c[i] = ConsortPromoted(p)
      BY <2>2 DEF C
    <3>2. i \in 1 .. Len(c) /\ (c \o <<e>>)[i] = c[i] /\ i \in DOMAIN b
      BY <2>6, <2>7, <3>1, Joined
    <3> QED BY <2>6, <3>1, <3>2
  <2>12. ASSUME NEW v \in players, ro2[v] # ro[v]
         PROVE  \E i \in DOMAIN b : b[i] \in RoleNews(v, ro2[v])
    <3>1. v \in P
      BY <1>1, <2>12 DEF P
    <3> QED BY <2>3, <2>11, <3>1
  <2>13. Deadly(b)
    BY <2>3, <2>9, <2>11 DEF Deadly
  <2>14. Brings(b, RosterNews(ro2), RosterTrue(ro2))
    BY <2>4, <2>6, <2>7, BringsIt, BringsLate
  <2> QED BY <1>3, <2>7, <2>10, <2>12, <2>13, <2>14 DEF SaysOfPromotion
<1> QED BY <1>2, <1>3

SaysOfDeaths(b, b0, ro, ro2, ph) ==
  /\ Batch(b) /\ (ph # Ended => b \in Seq(HarmlessIn(ro2)))
  /\ \A v \in players :
       /\ b \in Seq(RoleTrue(v, ro2[v]))
       /\ \/ ro2[v] # ro[v]
          \/ \E i \in DOMAIN b0 : b0[i] \in RoleNews(v, ro2[v])
          => Brings(b, RoleNews(v, ro2[v]), RoleTrue(v, ro2[v]))
  /\ \/ Brings(b, RosterNews(ro2), RosterTrue(ro2))
     \/ /\ ro2 = ro
        /\ b0 \in Seq(RosterTrue(ro)) => b \in Seq(RosterTrue(ro2))
        /\ ~Brings(b0, RosterNews(ro), RosterTrue(ro))
  /\ \/ Brings(b, BoardNews(ph, ro2), BoardTrue(ro2))
     \/ ph # Ended /\ ro2 = ro /\ ~Deadly(b0) /\ b \in Seq(BoardTrue(ro2))

(* A batch of deaths: what b0 said of the deaths, the takeover, the ending. *)
LEMMA DeathSays ==
  ASSUME players \subseteq Player, NEW al, al \subseteq players, NEW ro \in RoleMap,
         NEW b0 \in Seq(Ev), NEW ro2, ro2 = AfterPromotion(al, ro),
         NEW ph, ph = Ended <=> Decided(al, ro2),
         NEW b, b = DeathBatch(b0, al, ro),
         b0 \in Seq(HarmlessIn(ro)), b0 \in Seq(BoardTrue(ro2)),
         \A v \in players : b0 \in Seq(RoleTrue(v, ro2[v]))
  PROVE  SaysOfDeaths(b, b0, ro, ro2, ph)
<1> DEFINE pb == PromotionBatch(al, ro)
           told == b0 \o pb
           e == Ending(told, Decided(al, ro2), ro2)
<1>1. b = told \o e
  BY DEF DeathBatch, Ending
<1>2. ro2 \in RoleMap /\ Grows(ro, ro2) /\ Decided(al, ro2) \in BOOLEAN
  <2>1. Decided(al, ro2) \in BOOLEAN
    BY DEF Decided, TownWins, MafiaWins
  <2> QED BY <2>1, PromotionTypes
<1>3. /\ pb \in Seq(Ev) /\ pb \in Seq(HarmlessIn(ro2)) /\ pb \in Seq(BoardTrue(ro2))
      /\ pb \in Seq(RosterTrue(ro2)) /\ \A v \in players : pb \in Seq(RoleTrue(v, ro2[v]))
      /\ \A v \in players :
           ro2[v] # ro[v] => \E i \in DOMAIN pb : pb[i] \in RoleNews(v, ro2[v])
      /\ IF Promoted(al, ro) = {}
           THEN pb = <<>> /\ ro2 = ro
           ELSE Brings(pb, RosterNews(ro2), RosterTrue(ro2)) /\ Deadly(pb)
  <2>1. PICK c : c = pb
    OBVIOUS
  <2>2. SaysOfPromotion(c, al, ro, ro2)
    BY <2>1, PromotionSays
  <2> HIDE DEF pb
  <2> QED BY <2>1, <2>2 DEF SaysOfPromotion
<1> HIDE DEF pb
<1>4. told \in Seq(Ev)
  BY <1>3, ConcatProperties
<1>5. /\ Batch(e) /\ e \in Seq(RosterTrue(ro2)) /\ e \in Seq(BoardTrue(ro2))
      /\ \A v \in players : e \in Seq(RoleTrue(v, ro2[v]))
      /\ ph # Ended => e \in Seq(HarmlessIn(ro2))
      /\ ph = Ended \/ Deadly(told) => Brings(e, BoardNews(ph, ro2), BoardTrue(ro2))
  <2>1. PICK d \in BOOLEAN : d = Decided(al, ro2)
    BY <1>2
  <2>2. PICK x : x = Ending(told, d, ro2)
    OBVIOUS
  <2>3. x = e /\ (ph = Ended <=> d)
    BY <2>1, <2>2
  <2> HIDE DEF told, e
  <2>4. \A v : SaysOfEnd(x, told, d, ro2, ph, v, ro2[v], ro2)
    BY <1>2, <2>2, <2>3, EndingSays
  <2> QED BY <2>3, <2>4 DEF SaysOfEnd
<1> HIDE DEF told, e
<1>6. e \in Seq(Ev) /\ Len(e) >= 1 /\ e[Len(e)].to.audience = "public"
  BY <1>5 DEF Batch
<1>7. Batch(b)
  <2>1. /\ b \in Seq(Ev) /\ Len(b) = Len(told) + Len(e)
        /\ \A i \in 1 .. Len(e) : b[Len(told) + i] = e[i]
    BY <1>1, <1>4, <1>6, Joined
  <2>2. Len(told) \in Nat /\ Len(e) \in Nat /\ Len(e) \in 1 .. Len(e)
    BY <1>4, <1>6
  <2>3. b[Len(b)] = e[Len(e)] /\ Len(b) >= 1
    BY <1>6, <2>1, <2>2
  <2> QED BY <1>6, <2>1, <2>3 DEF Batch
<1>8. ASSUME NEW X, b0 \in Seq(X), pb \in Seq(X), e \in Seq(X)
      PROVE  b \in Seq(X)
  <2>1. told \in Seq(X)
    BY <1>8, ConcatProperties DEF told
  <2> QED BY <1>1, <1>8, <2>1, ConcatProperties
<1>9. b0 \in Seq(HarmlessIn(ro2))
  BY <1>2, HarmlessGrows, SeqWithin
<1>10. ph # Ended => b \in Seq(HarmlessIn(ro2))
  BY <1>3, <1>5, <1>8, <1>9
<1>11. b \in Seq(BoardTrue(ro2)) /\ \A v \in players : b \in Seq(RoleTrue(v, ro2[v]))
  BY <1>3, <1>5, <1>8
<1>12. (\A i \in DOMAIN b0 : \E j \in DOMAIN b : b[j] = b0[i])
       /\ (\A i \in DOMAIN pb : \E j \in DOMAIN b : b[j] = pb[i])
  <2>1. \A i \in 1 .. Len(told) : b[i] = told[i] /\ i \in DOMAIN b
    <3>1. /\ b \in Seq(Ev) /\ Len(b) = Len(told) + Len(e)
          /\ \A i \in 1 .. Len(told) : b[i] = told[i]
      BY <1>1, <1>4, <1>6, Joined
    <3> QED BY <1>4, <1>6, <3>1
  <2>2. /\ Len(told) = Len(b0) + Len(pb)
        /\ \A i \in 1 .. Len(b0) : told[i] = b0[i]
        /\ \A i \in 1 .. Len(pb) : told[Len(b0) + i] = pb[i]
    BY <1>3, Joined DEF told
  <2>3. Len(b0) \in Nat /\ Len(pb) \in Nat /\ DOMAIN b0 = 1 .. Len(b0) /\ DOMAIN pb = 1 .. Len(pb)
    BY <1>3
  <2>4. ASSUME NEW i \in DOMAIN b0 PROVE \E j \in DOMAIN b : b[j] = b0[i]
    <3>1. i \in 1 .. Len(told)
      BY <2>2, <2>3
    <3> QED BY <2>1, <2>2, <2>3, <3>1
  <2>5. ASSUME NEW i \in DOMAIN pb PROVE \E j \in DOMAIN b : b[j] = pb[i]
    <3>1. Len(b0) + i \in 1 .. Len(told)
      BY <2>2, <2>3
    <3> QED BY <2>1, <2>2, <2>3, <3>1
  <2> QED BY <2>4, <2>5
<1>13. ASSUME NEW v \in players,
              \/ ro2[v] # ro[v]
              \/ \E i \in DOMAIN b0 : b0[i] \in RoleNews(v, ro2[v])
       PROVE  Brings(b, RoleNews(v, ro2[v]), RoleTrue(v, ro2[v]))
  <2>1. PICK j \in DOMAIN b : b[j] \in RoleNews(v, ro2[v])
    BY <1>3, <1>12, <1>13
  <2> QED BY <1>7, <1>11, <2>1, BringsOne DEF Batch
<1>14. CASE Promoted(al, ro) # {}
  <2>1. Brings(told, RosterNews(ro2), RosterTrue(ro2))
    BY <1>3, <1>14, BringsLate DEF told
  <2>2. Brings(b, RosterNews(ro2), RosterTrue(ro2))
    BY <1>1, <1>4, <1>5, <1>6, <2>1, BringsOn
  <2>3. Deadly(told)
    <3>1. PICK i \in DOMAIN pb : pb[i].kind \in {"died", "promoted"}
      BY <1>3, <1>14 DEF Deadly
    <3>2. told[Len(b0) + i] = pb[i] /\ Len(told) = Len(b0) + Len(pb)
      BY <1>3, <3>1, Joined DEF told
    <3>3. Len(b0) + i \in DOMAIN told
      BY <1>3, <1>4, <3>1, <3>2
    <3> QED BY <3>1, <3>2, <3>3 DEF Deadly
  <2>4. Brings(b, BoardNews(ph, ro2), BoardTrue(ro2))
    BY <1>1, <1>4, <1>5, <1>6, <2>3, BringsLate
  <2> QED BY <1>7, <1>10, <1>11, <1>13, <2>2, <2>4 DEF SaysOfDeaths
<1>15. CASE Promoted(al, ro) = {}
  <2>1. told = b0 /\ ro2 = ro
    BY <1>3, <1>15 DEF told
  <2>2. b0 \in Seq(RosterTrue(ro)) => b \in Seq(RosterTrue(ro2))
    BY <1>3, <1>5, <1>8, <2>1
  <2>3. Brings(b0, RosterNews(ro), RosterTrue(ro)) => Brings(b, RosterNews(ro2), RosterTrue(ro2))
    BY <1>1, <1>5, <1>6, <2>1, BringsOn
  <2>4. ph = Ended \/ Deadly(b0) => Brings(b, BoardNews(ph, ro2), BoardTrue(ro2))
    BY <1>1, <1>4, <1>5, <1>6, <2>1, BringsLate
  <2> QED BY <1>7, <1>10, <1>11, <1>13, <2>1, <2>2, <2>3, <2>4 DEF SaysOfDeaths
<1> QED BY <1>14, <1>15

(* What a night's deaths and its recruit say. *)
DawnFacts ==
  /\ AliveAtDawn \subseteq players /\ AliveAtDawn \subseteq alive
  /\ RolesAtDawn \in RoleMap /\ Grows(role, RolesAtDawn)
  /\ Converts \subseteq players /\ \A p \in Converts : RolesAtDawn[p] = Mafia
  /\ \A p \in Player : p \notin Converts => RolesAtDawn[p] = role[p]
  /\ ~RecruitPending => Converts = {} /\ RolesAtDawn = role /\ AliveAtDawn = AfterKills
  /\ RecruitPending => AliveAtDawn # alive

(* Who turns and who dies at dawn, from the invariants of the night. *)
LEMMA AtDawn ==
  ASSUME TypeOK, NoStaleDeeds, OneYakuza
  PROVE  DawnFacts
<1>1. /\ role \in RoleMap /\ players \subseteq Player /\ alive \subseteq players
  BY DEF TypeOK, RoleMap
<1>2. AfterKills \subseteq alive /\ AliveAtDawn \subseteq AfterKills
  BY DEF AfterKills, AliveAtDawn
<1>3. Converts \subseteq AfterKills /\ \A p \in Converts : IsRecruit(p)
  BY DEF Converts
<1>4. /\ RolesAtDawn \in RoleMap /\ \A p \in Player : p \notin Converts => RolesAtDawn[p] = role[p]
      /\ \A p \in Player : p \in Converts => RolesAtDawn[p] = Mafia
  BY <1>1 DEF RolesAtDawn, RoleMap, Role
<1>5. \A p \in Converts : Faction(role[p]) # FactionMafia
  BY <1>3 DEF IsRecruit, NoStaleDeeds
<1>6. Grows(role, RolesAtDawn)
  <2>1. \A p \in players : RolesAtDawn[p] = role[p] \/ Faction(role[p]) # FactionMafia
    BY <1>1, <1>4, <1>5
  <2>2. Faction(Yakuza) = FactionMafia
    BY MafiaFactionRoles
  <2> QED BY <2>1, <2>2 DEF Grows
<1>7. ~RecruitPending => Converts = {} /\ RolesAtDawn = role /\ AliveAtDawn = AfterKills
  <2>1. ~RecruitPending => Converts = {} /\ AliveAtDawn = AfterKills
    BY <1>3 DEF IsRecruit, AliveAtDawn
  <2>2. Converts = {} => RolesAtDawn = role
    BY <1>1 DEF RolesAtDawn, RoleMap
  <2> QED BY <2>1, <2>2
<1>8. RecruitPending => AliveAtDawn # alive
  BY <1>2 DEF NoStaleDeeds, AliveAtDawn
<1> QED BY <1>1, <1>2, <1>3, <1>4, <1>6, <1>7, <1>8 DEF DawnFacts

(* The night's batch tells the convert its role and, after a recruit, the faction its members. *)
LEMMA NightSays ==
  ASSUME players \subseteq Player, DawnFacts, NEW ro2, \A p \in Converts : ro2[p] = Mafia,
         NEW b, b = NightBatch
  PROVE  /\ b \in Seq(Ev) /\ b \in Seq(HarmlessIn(RolesAtDawn)) /\ b \in Seq(BoardTrue(ro2))
         /\ \A v \in players : b \in Seq(RoleTrue(v, ro2[v]))
         /\ \A v \in Converts : \E i \in DOMAIN b : b[i] \in RoleNews(v, ro2[v])
         /\ IF RecruitPending
              THEN Brings(b, RosterNews(RolesAtDawn), RosterTrue(RolesAtDawn))
              ELSE b \in Seq(RosterTrue(RolesAtDawn))
         /\ ~Deadly(b) => AliveAtDawn = alive /\ RolesAtDawn = role
<1> DEFINE ro == RolesAtDawn
           C == {RoleAssigned(p, Mafia) : p \in Converts}
           killed == IF AfterKills = alive THEN <<>> ELSE <<PlayerDied>>
           turned == SetToSeq(C)
           paid == IF AliveAtDawn = AfterKills THEN <<>> ELSE <<PlayerDied>>
           roster == MafiaRoster(AliveAtDawn, ro)
           X(v) == HarmlessIn(ro) \cap BoardTrue(ro2) \cap RoleTrue(v, ro2[v])
<1>0. ro \in RoleMap /\ Converts \subseteq Player
  BY DEF DawnFacts
<1>1. b = killed \o (IF RecruitPending THEN turned \o paid \o <<roster>> ELSE <<>>)
  BY DEF NightBatch
<1>2. PICK d \in Ev : /\ d = PlayerDied /\ d.kind = "died" /\ d \in HarmlessIn(ro)
                      /\ d \in BoardTrue(ro2) /\ d \in RosterTrue(ro)
                      /\ \A v : d \in RoleTrue(v, ro2[v])
  <2>1. PICK d \in Bland : d = PlayerDied
    BY PlainIsBland
  <2> QED BY <2>1, PlainIsBland, PlainEvents, BlandSaysNothing DEF Bland
<1>3. /\ killed \in Seq(Ev) /\ paid \in Seq(Ev) /\ killed \in Seq(RosterTrue(ro))
      /\ \A v : killed \in Seq(X(v)) /\ paid \in Seq(X(v))
      /\ AfterKills # alive => killed = <<d>>
      /\ AliveAtDawn # AfterKills => paid = <<d>>
  BY <1>2
<1>4. ASSUME NEW p \in Converts, NEW v
      PROVE  /\ RoleAssigned(p, Mafia) \in Ev /\ RoleAssigned(p, Mafia) \in X(v)
             /\ v = p => RoleAssigned(p, Mafia) \in RoleNews(v, ro2[v])
  <2>1. PICK map \in RoleMap : map = [q \in Player |-> Mafia]
    BY DEF RoleMap, Role
  <2>2. p \in Player /\ map[p] = Mafia /\ ro2[p] = Mafia
    BY <1>0, <2>1
  <2>3. PICK e : e = RoleAssigned(p, map[p])
    OBVIOUS
  <2>4. e \in {RoleAssigned(p, map[p])} \cup (IF map[p] = Mafia THEN {ConsortPromoted(p)} ELSE {})
        /\ map[p] \in Role
    BY <2>2, <2>3, RoleNames
  <2>5. /\ e \in Ev /\ (v = p => e \in RoleNews(v, map[v])) /\ e \in RoleTrue(v, map[v])
        /\ e \in BoardTrue(ro2) /\ e \in HarmlessIn(ro)
    BY <2>2, <2>4, RoleToldTruly
  <2>6. e \in RoleTrue(v, ro2[v])
    <3>1. CASE v = p
      BY <2>2, <2>5, <3>1
    <3>2. CASE v # p
      BY <2>2, <2>3, <2>5, <3>2, RoleEvents, RoleNames DEF RoleTrue, TellsRole
    <3> QED BY <3>1, <3>2
  <2> QED BY <2>2, <2>3, <2>5, <2>6
<1>5. PICK e \in Ev : /\ e = roster /\ e \in RosterNews(ro) /\ e \in RosterTrue(ro)
                      /\ \A v : e \in X(v)
  <2>1. PICK e : e = MafiaRoster(AliveAtDawn, ro)
    OBVIOUS
  <2> HIDE DEF ro
  <2> QED BY <1>0, <2>1, RosterToldTruly
<1>6. turned \in Seq(C) /\ \A x \in C : \E i \in DOMAIN turned : turned[i] = x
  <2>1. IsFiniteSet(Converts)
    BY <1>0, PlayerAssumption, FS_Subset
  <2> DEFINE f == [p \in Converts |-> RoleAssigned(p, Mafia)]
  <2>2. f \in Surjection(Converts, C)
    BY DEF Surjection
  <2>3. IsFiniteSet(C)
    <3> HIDE DEF f, C
    <3> QED BY <2>1, <2>2, FS_Surjection
  <2> HIDE DEF C
  <2> QED BY <2>3, SetToSeqLists
<1>7. C \subseteq Ev /\ \A v : C \subseteq X(v)
  <2>1. \A p \in Converts : RoleAssigned(p, Mafia) \in Ev
    BY <1>0, RoleEvents, RoleNames
  <2> QED BY <1>4, <2>1
<1> HIDE DEF killed, turned, paid, C, X
<1> DEFINE rest == turned \o paid \o <<e>>
<1>8. turned \o paid \in Seq(Ev) /\ rest \in Seq(Ev)
  BY <1>3, <1>5, <1>6, <1>7, SeqWithin, ConcatProperties
<1>9. ASSUME NEW v PROVE rest \in Seq(X(v))
  BY <1>3, <1>5, <1>6, <1>7, SeqWithin, ConcatProperties
<1>10. b = IF RecruitPending THEN killed \o rest ELSE killed
  BY <1>1, <1>3, <1>5
<1>11. b \in Seq(Ev) /\ \A v : b \in Seq(X(v))
  <2> HIDE DEF rest
  <2> QED BY <1>3, <1>8, <1>9, <1>10, ConcatProperties
<1>12. /\ b \in Seq(HarmlessIn(ro)) /\ b \in Seq(BoardTrue(ro2))
       /\ \A v : b \in Seq(RoleTrue(v, ro2[v]))
  <2>1. \A v : /\ X(v) \subseteq HarmlessIn(ro) /\ X(v) \subseteq BoardTrue(ro2)
               /\ X(v) \subseteq RoleTrue(v, ro2[v])
    BY DEF X
  <2>2. ASSUME NEW v
        PROVE  /\ b \in Seq(HarmlessIn(ro)) /\ b \in Seq(BoardTrue(ro2))
               /\ b \in Seq(RoleTrue(v, ro2[v]))
    <3>1. b \in Seq(X(v))
      BY <1>11
    <3> QED BY <2>1, <3>1, SeqWithin
  <2> QED BY <2>2
<1>13. ASSUME RecruitPending, NEW j \in DOMAIN rest
       PROVE  \E i \in DOMAIN b : b[i] = rest[j]
  <2>1. PICK k \in Seq(Ev) : k = killed
    BY <1>3
  <2>2. PICK r \in Seq(Ev) : r = rest
    BY <1>8
  <2>3. b = k \o r
    BY <1>10, <1>13, <2>1, <2>2
  <2>4. /\ Len(b) = Len(k) + Len(r) /\ \A i \in 1 .. Len(r) : b[Len(k) + i] = r[i]
    BY <2>3, Joined
  <2>5. j \in 1 .. Len(r) /\ Len(k) + j \in DOMAIN b
    BY <1>11, <2>2, <2>4
  <2> QED BY <2>2, <2>4, <2>5
<1>14. ASSUME NEW v \in Converts PROVE \E i \in DOMAIN b : b[i] \in RoleNews(v, ro2[v])
  <2>1. RecruitPending
    BY DEF DawnFacts
  <2>2. PICK i \in DOMAIN turned : turned[i] = RoleAssigned(v, Mafia)
    BY <1>6 DEF C
  <2>3. turned \in Seq(Ev)
    BY <1>6, <1>7, SeqWithin
  <2>4. PICK t \in Seq(Ev) : t = turned \o paid
    BY <1>8
  <2>5. i \in 1 .. Len(t) /\ t[i] = turned[i]
    BY <1>3, <2>2, <2>3, <2>4, Joined
  <2>6. <<e>> \in Seq(Ev)
    OBVIOUS
  <2>7. (t \o <<e>>)[i] = t[i] /\ i \in DOMAIN (t \o <<e>>)
    BY <2>5, <2>6, Joined
  <2>8. i \in DOMAIN rest /\ rest[i] = RoleAssigned(v, Mafia)
    BY <2>2, <2>4, <2>5, <2>7
  <2> HIDE DEF rest
  <2>9. RoleAssigned(v, Mafia) \in RoleNews(v, ro2[v])
    BY <1>4
  <2> QED BY <1>13, <2>1, <2>8, <2>9
<1>15. IF RecruitPending
         THEN Brings(b, RosterNews(ro), RosterTrue(ro))
         ELSE b \in Seq(RosterTrue(ro))
  <2>1. CASE RecruitPending
    <3>1. Brings(<<e>>, RosterNews(ro), RosterTrue(ro))
      BY <1>5, BringsIt
    <3>2. Brings(rest, RosterNews(ro), RosterTrue(ro))
      <4>1. <<e>> \in Seq(Ev)
        OBVIOUS
      <4> QED BY <1>8, <3>1, <4>1, BringsLate
    <3> HIDE DEF rest
    <3>3. Brings(killed \o rest, RosterNews(ro), RosterTrue(ro))
      BY <1>3, <1>8, <3>2, BringsLate
    <3> QED BY <1>10, <2>1, <3>3
  <2>2. CASE ~RecruitPending
    BY <1>3, <1>10, <2>2
  <2> QED BY <2>1, <2>2
<1>16. ASSUME AfterKills # alive PROVE Deadly(b)
  <2>1. killed = <<d>>
    BY <1>3, <1>16
  <2>2. 1 \in DOMAIN b /\ b[1] = d
    <3>1. CASE RecruitPending
      <4>1. <<d>> \in Seq(Ev) /\ 1 \in 1 .. Len(<<d>>) /\ <<d>>[1] = d
        OBVIOUS
      <4> HIDE DEF rest
      <4>2. (<<d>> \o rest)[1] = d /\ 1 \in DOMAIN (<<d>> \o rest)
        BY <1>8, <4>1, Joined
      <4> QED BY <1>10, <2>1, <3>1, <4>2
    <3>2. CASE ~RecruitPending
      BY <1>10, <2>1, <3>2
    <3> QED BY <3>1, <3>2
  <2> QED BY <1>2, <2>2 DEF Deadly
<1>17. ASSUME RecruitPending, AliveAtDawn # AfterKills PROVE Deadly(b)
  <2>1. paid = <<d>>
    BY <1>3, <1>17
  <2>2. turned \in Seq(Ev) /\ <<d>> \in Seq(Ev) /\ <<e>> \in Seq(Ev)
    BY <1>6, <1>7, SeqWithin
  <2>3. PICK t \in Seq(Ev) : t = turned \o <<d>>
    BY <2>2, ConcatProperties
  <2>4. PICK i \in DOMAIN t : t[i] = d
    <3>1. /\ Len(t) = Len(turned) + 1 /\ t[Len(turned) + 1] = d
      BY <2>2, <2>3, Joined
    <3>2. Len(turned) + 1 \in DOMAIN t
      BY <2>2, <3>1
    <3> QED BY <3>1, <3>2
  <2>5. (t \o <<e>>)[i] = t[i] /\ i \in DOMAIN (t \o <<e>>)
    BY <2>2, <2>4, Joined
  <2>6. rest[i] = d /\ i \in DOMAIN rest
    BY <2>1, <2>3, <2>4, <2>5
  <2> HIDE DEF rest
  <2> QED BY <1>2, <1>13, <1>17, <2>6 DEF Deadly
<1>18. ~Deadly(b) => AliveAtDawn = alive /\ ro = role
  BY <1>16, <1>17 DEF DawnFacts
<1> HIDE DEF ro
<1> QED BY <1>11, <1>12, <1>14, <1>15, <1>18 DEF ro

-------------------------------------------------------------------------------
(* The steps of a game that is under way. *)
Table ==
  /\ TableInv /\ TableInv' /\ rolesDealt /\ rolesDealt' /\ players' = players
  /\ KnowledgeInv

(* What the invariants of the engine give. *)
LEMMA AtTheTable ==
  ASSUME TableInv
  PROVE  /\ TypeOK /\ players \subseteq Player /\ alive \subseteq players /\ role \in RoleMap
         /\ NoStaleDeeds /\ OneYakuza /\ TurnsInOrder /\ OneYakuzaIn(role)
  BY DEF TableInv, DeedInv, TypeOK, RoleMap, OneYakuza, OneOf, OneYakuzaIn

(* There is no second yakuza. *)
LEMMA StillOneYakuza ==
  ASSUME TableInv'
  PROVE  OneYakuzaIn(role')
<1>1. OneYakuza'
  BY DEF TableInv, DeedInv
<1> QED BY <1>1 DEF OneYakuza, OneOf, OneYakuzaIn

(* Deaths, of a night or of a day. *)
LEMMA DeathStep ==
  ASSUME Table, phase # Ended, phase' # Night,
         NEW al, al \subseteq players, al \subseteq alive, alive' = al,
         NEW ro \in RoleMap, Grows(role, ro), role' = AfterPromotion(al, ro),
         phase' = Ended <=> Decided(al, role'),
         NEW b0 \in Seq(Ev), Emit(DeathBatch(b0, al, ro)),
         b0 \in Seq(HarmlessIn(ro)), b0 \in Seq(BoardTrue(role')),
         \A v \in players : b0 \in Seq(RoleTrue(v, role'[v])),
         \A v \in players :
           ro[v] # role[v] => \E i \in DOMAIN b0 : b0[i] \in RoleNews(v, role'[v]),
         \/ Brings(b0, RosterNews(ro), RosterTrue(ro))
         \/ ro = role /\ b0 \in Seq(RosterTrue(ro)),
         Deadly(b0) \/ (al = alive /\ ro = role)
  PROVE  KnowledgeInv'
<1>1. /\ players \subseteq Player /\ alive \subseteq players /\ players' = players
      /\ Typed /\ OwnRoleKnown /\ LivingAreDiscreet /\ CabalKnown /\ BoardKnown
  BY AtTheTable DEF Table, KnowledgeInv
<1>2. PICK b : b = DeathBatch(b0, al, ro)
  OBVIOUS
<1>3. SaysOfDeaths(b, b0, ro, role', phase')
  <2>1. PICK ro2 : ro2 = role'
    OBVIOUS
  <2>2. PICK ph : ph = phase'
    OBVIOUS
  <2>3. ro2 = AfterPromotion(al, ro) /\ (ph = Ended <=> Decided(al, ro2))
    BY <2>1, <2>2
  <2>4. b0 \in Seq(BoardTrue(ro2)) /\ \A v \in players : b0 \in Seq(RoleTrue(v, ro2[v]))
    BY <2>1
  <2>5. SaysOfDeaths(b, b0, ro, ro2, ph)
    BY <1>1, <1>2, <2>3, <2>4, DeathSays
  <2> QED BY <2>1, <2>2, <2>5
<1>4. Sent(b)
  BY <1>1, <1>2, <1>3 DEF Sent, SaysOfDeaths
<1>5. TellsRoles(b)
  BY <1>3 DEF TellsRoles, SaysOfDeaths
<1>6. TellsRoster(b)
  BY <1>3 DEF TellsRoster, SaysOfDeaths
<1>7. ShowsBoard(b)
  BY <1>3 DEF ShowsBoard, SaysOfDeaths
<1>8. Grows(role, role')
  <2>1. Grows(ro, role')
    BY <1>1, PromotionTypes
  <2> QED BY <2>1 DEF Grows
<1>9. Typed'
  BY <1>4, TabsTaken DEF Sent
<1>10. OwnRoleKnown'
  BY <1>1, <1>4, <1>5, OwnRoleStep
<1>11. LivingAreDiscreet'
  BY <1>1, <1>3, <1>4, <1>8, LivingStep DEF SaysOfDeaths
<1>12. CabalKnown'
  <2>1. OneYakuzaIn(role')
    BY StillOneYakuza DEF Table
  <2> QED BY <1>1, <1>4, <1>6, <1>11, <2>1, CabalStep
<1>13. BoardKnown'
  BY <1>1, <1>4, <1>7, BoardStep
<1>14. NightKnown'
  BY DEF NightKnown
<1> QED BY <1>9, <1>10, <1>11, <1>12, <1>13, <1>14 DEF KnowledgeInv

(* Whatever names no role, or the role of the actor to those who know it.  *)
LEMMA BlandStep ==
  ASSUME Table, phase # Ended, phase' # Ended, alive' = alive, role' = role,
         NEW b, Batch(b), Emit(b), b \in Seq(Bland), b \in Seq(HarmlessIn(role)), NightKnown'
  PROVE  KnowledgeInv'
<1>1. /\ players \subseteq Player /\ alive \subseteq players /\ players' = players
      /\ Typed /\ OwnRoleKnown /\ LivingAreDiscreet /\ CabalKnown /\ BoardKnown
  BY AtTheTable DEF Table, KnowledgeInv
<1>2. Sent(b)
  BY <1>1 DEF Sent
<1>3. \A v, r, ro : /\ Bland \subseteq RoleTrue(v, r) /\ Bland \subseteq RosterTrue(ro)
                    /\ Bland \subseteq BoardTrue(ro)
  BY BlandSaysNothing
<1>4. /\ \A v, r : b \in Seq(RoleTrue(v, r))
      /\ b \in Seq(RosterTrue(role')) /\ b \in Seq(BoardTrue(role'))
  BY <1>3, SeqWithin
<1>5. TellsRoles(b) /\ TellsRoster(b) /\ ShowsBoard(b)
  BY <1>4 DEF TellsRoles, TellsRoster, ShowsBoard
<1>6. Typed'
  BY <1>2, TabsTaken DEF Sent
<1>7. OwnRoleKnown'
  BY <1>1, <1>2, <1>5, OwnRoleStep
<1>8. LivingAreDiscreet'
  <2>1. Grows(role, role')
    BY DEF Grows
  <2> QED BY <1>1, <1>2, <2>1, LivingStep
<1>9. CabalKnown'
  <2>1. OneYakuzaIn(role')
    BY StillOneYakuza DEF Table
  <2> QED BY <1>1, <1>2, <1>5, <1>8, <2>1, CabalStep
<1>10. BoardKnown'
  BY <1>1, <1>2, <1>5, BoardStep
<1> QED BY <1>6, <1>7, <1>8, <1>9, <1>10 DEF KnowledgeInv

(* What is not told. *)
LEMMA StillStep ==
  ASSUME Table, UNCHANGED <<role, alive, tableVars>>, phase' = Ended <=> phase = Ended,
         phase' = Night => phase = Night /\ Tonight' = Tonight
  PROVE  KnowledgeInv'
<1>1. players' = players /\ role' = role /\ alive' = alive /\ log' = log /\ tab' = tab
      /\ stale' = stale
  BY DEF Table, tableVars
<1>2. /\ Typed /\ OwnRoleKnown /\ LivingAreDiscreet /\ CabalKnown /\ BoardKnown /\ NightKnown
  BY DEF Table, KnowledgeInv
<1>3. \A v : Tabs(v)' = Tabs(v)
  BY <1>1 DEF Tabs, AtEnd
<1>4. Typed' /\ OwnRoleKnown'
  BY <1>1, <1>2, <1>3 DEF Typed, OwnRoleKnown
<1>5. LivingAreDiscreet'
  <2>1. phase' # Ended => phase # Ended
    OBVIOUS
  <2>2. phase # Ended =>
          /\ \A i \in DOMAIN log' : Harmless(log'[i], role')
          /\ \A v \in alive' : \A t \in Tabs(v) : Discreet(v, t.model, role')
    BY <1>1, <1>2 DEF LivingAreDiscreet
  <2>3. phase' # Ended => \A v \in alive' : \A t \in Tabs(v)' : Discreet(v, t.model, role')
    <3> SUFFICES ASSUME phase' # Ended, NEW v \in alive', NEW t \in Tabs(v)'
                 PROVE  Discreet(v, t.model, role')
      OBVIOUS
    <3>1. t \in Tabs(v)
      BY <1>3
    <3> QED BY <2>1, <2>2, <3>1
  <2>4. players' = players
    BY <1>1
  <2>5. phase' # Ended => \A i \in DOMAIN log' : Harmless(log'[i], role')
    BY <2>1, <2>2
  <2> QED BY <2>3, <2>4, <2>5, LivingPrimed
<1>6. CabalKnown'
  <2>1. MembersOf(role)' = MembersOf(role)
    BY <1>1 DEF MembersOf
  <2>2. \A k : RosterTold(log, k, role)' <=> RosterTold(log, k, role)
    BY <1>1 DEF RosterTold, RosterNews, RosterTrue, WholeRoster, MembersOf
  <2>3. \A m : KnowsCabal(m, role)' <=> KnowsCabal(m, role)
    BY <1>1 DEF KnowsCabal, MembersOf
  <2> QED BY <1>1, <1>2, <1>3, <2>1, <2>2, <2>3 DEF CabalKnown
<1>7. BoardKnown'
  <2>1. Watchers(alive, phase)' = Watchers(alive, phase)
    BY <1>1 DEF Watchers
  <2>2. \A k : BoardShown(log, k, phase, role)' <=> BoardShown(log, k, phase, role)
    BY <1>1 DEF BoardShown, BoardNews, BoardTrue, Everyone
  <2>3. Everyone(role)' = Everyone(role)
    BY <1>1 DEF Everyone
  <2> QED BY <1>1, <1>2, <1>3, <2>1, <2>2, <2>3 DEF BoardKnown
<1>8. NightKnown'
  BY <1>1, <1>2, <1>3 DEF NightKnown
<1> QED BY <1>4, <1>5, <1>6, <1>7, <1>8 DEF KnowledgeInv

-------------------------------------------------------------------------------
(* The commands, one by one. *)
LEMMA DuskStep ==
  ASSUME Table, Dusk
  PROVE  KnowledgeInv'
<1>1. /\ phase # Ended /\ phase # Night /\ phase' = Night /\ phase' # Ended
      /\ alive' = alive /\ role' = role /\ deedVars' = deedVars
  BY DEF Dusk, BeginNight, ActiveGame, boardVars, Night, Lobby, DayDiscussion, Ended
<1>2. PICK b : b = <<Cue, NightFalls>>
  OBVIOUS
<1>3. Emit(b) /\ Emit(<<Cue, NightFalls>>)
  BY <1>2 DEF Dusk
<1>4. /\ Cue \in Bland /\ Cue \in HarmlessIn(role) /\ Cue \in Ev
      /\ NightFalls \in Bland /\ NightFalls \in HarmlessIn(role) /\ NightFalls \in Ev
      /\ NightFalls.to.audience = "public"
  BY PlainIsBland, PlainEvents
<1>5. /\ b \in Seq(Bland) /\ b \in Seq(HarmlessIn(role)) /\ b \in Seq(Ev)
      /\ Len(b) = 2 /\ b[2] = NightFalls
  BY <1>2, <1>4
<1>6. Batch(b)
  BY <1>4, <1>5 DEF Batch
<1>7. Tonight' = {}
  <2>1. pendingNight = NoTargets /\ ~RecruitPending
    BY <1>1, AtTheTable DEF Table, NoStaleDeeds
  <2>2. pendingNight' = NoTargets /\ recruitYakuza' = NoPlayer
    BY <1>1, <2>1 DEF deedVars, RecruitPending
  <2> QED BY <2>2 DEF Tonight, NoTargets, RecruitPending
<1>8. Sent(<<Cue, NightFalls>>)
  BY <1>2, <1>3, <1>6, AtTheTable DEF Sent, Table, KnowledgeInv
<1>9. NightKnown'
  BY <1>1, <1>7, <1>8, NightFallsStep
<1> QED BY <1>1, <1>3, <1>5, <1>6, <1>9, BlandStep

(* What an act says, whatever else it does. *)
LEMMA ActStep ==
  ASSUME Table, phase = Night, phase' = Night, alive' = alive, role' = role,
         NEW a \in players, NEW t \in Player, Emit(ActBatch(a, t)),
         Tonight' = Tonight \cup {<<a, t>>}
  PROVE  KnowledgeInv'
<1>1. players \subseteq Player /\ role \in RoleMap /\ players' = players /\ Typed /\ NightKnown
      /\ a \in Player
  BY AtTheTable DEF Table, KnowledgeInv
<1>2. phase # Ended /\ phase' # Ended
  BY DEF Night, Ended
<1>3. PICK r : r = Recorded(a, t)
  OBVIOUS
<1>4. PICK s : s = Spectated(a, t)
  OBVIOUS
<1>5. PICK c : c = Cue
  OBVIOUS
<1>6. PICK b : b = <<r, s, c>>
  OBVIOUS
<1>7. /\ r \in Bland /\ r \in HarmlessIn(role) /\ s \in Bland /\ s \in HarmlessIn(role)
      /\ c \in Bland /\ c \in HarmlessIn(role)
  BY <1>1, <1>3, <1>4, <1>5, ActsAreHarmless, PlainIsBland
<1>8. /\ r \in Ev /\ r.kind = "recorded" /\ s \in Ev /\ s.kind = "spectated"
      /\ s.act = <<a, t>> /\ c \in Ev /\ c.kind = "cue" /\ c.to.audience = "public"
  BY <1>1, <1>3, <1>4, <1>5, ActEvents, PlainEvents
<1>9. /\ b \in Seq(Bland) /\ b \in Seq(HarmlessIn(role)) /\ b \in Seq(Ev)
      /\ Len(b) = 3 /\ b[1] = r /\ b[2] = s /\ b[3] = c /\ DOMAIN b = 1 .. 3
  BY <1>6, <1>7, <1>8
<1>10. Batch(b) /\ Emit(b)
  BY <1>3, <1>4, <1>5, <1>6, <1>8, <1>9 DEF Batch, ActBatch
<1>11. \A i \in 1 .. 3 : b[i].kind # "night" /\ (b[i].kind = "spectated" => i = 2)
  BY <1>8, <1>9
<1>12. Seen(b, 1, Len(b)) = {<<a, t>>}
  <2>1. {i \in 1 .. 3 : b[i].kind = "spectated"} = {2}
    BY <1>8, <1>9, <1>11
  <2> QED BY <1>8, <1>9, <2>1 DEF Seen
<1>13. Sent(b)
  BY <1>1, <1>10 DEF Sent
<1>14. NightKnown'
  BY <1>1, <1>9, <1>11, <1>12, <1>13, NightGoesOn
<1> QED BY <1>2, <1>9, <1>10, <1>14, BlandStep

(* A night action keeps what is known. *)
LEMMA SubmitStep ==
  ASSUME Table, NEW a \in Player, NEW t \in Player, Submit(a, t)
  PROVE  KnowledgeInv'
<1>1. /\ phase = Night /\ phase' = Night /\ alive' = alive /\ role' = role /\ a \in players
      /\ pendingNight[a] = NoPlayer /\ pendingNight' = [pendingNight EXCEPT ![a] = t]
      /\ recruitYakuza' = recruitYakuza /\ recruitTarget' = recruitTarget
  BY DEF Submit, NightAction, InPhase, LivingPlayer, boardVars
<1>2. pendingNight \in [Player -> Target] /\ t # NoPlayer
  BY AtTheTable, PlayerAssumption DEF Table, TypeOK
<1>3. Tonight' = Tonight \cup {<<a, t>>}
  <2>1. {<<p, pendingNight'[p]>> : p \in {q \in Player : pendingNight'[q] # NoPlayer}}
          = {<<p, pendingNight[p]>> : p \in {q \in Player : pendingNight[q] # NoPlayer}}
              \cup {<<a, t>>}
    BY <1>1, <1>2
  <2>2. RecruitPending' = RecruitPending
    BY <1>1 DEF RecruitPending
  <2> QED BY <1>1, <2>1, <2>2 DEF Tonight
<1>4. Emit(ActBatch(a, t))
  BY DEF Submit
<1> QED BY <1>1, <1>3, <1>4, ActStep

(* So does a recruit. *)
LEMMA RecruitStep ==
  ASSUME Table, NEW y \in Player, NEW t \in Player, SubmitRecruit(y, t)
  PROVE  KnowledgeInv'
<1>1. /\ phase = Night /\ phase' = Night /\ alive' = alive /\ role' = role /\ y \in players
      /\ currentNightRole = Mafia /\ currentNightSubPhase = "act"
      /\ recruitYakuza' = y /\ recruitTarget' = t /\ pendingNight' = pendingNight
  BY DEF SubmitRecruit, Recruit, InPhase, LivingPlayer, boardVars
<1>2. ~RecruitPending
  BY <1>1, AtTheTable DEF Table, TurnsInOrder, MafiaTurnAhead
<1>3. RecruitPending'
  BY <1>1, PlayerAssumption DEF RecruitPending
<1>4. Tonight' = Tonight \cup {<<y, t>>}
  BY <1>1, <1>2, <1>3 DEF Tonight
<1>5. Emit(ActBatch(y, t))
  BY DEF SubmitRecruit
<1> QED BY <1>1, <1>4, <1>5, ActStep

(* A finalized vote kills nobody or one. *)
LEMMA LynchTargets ==
  ASSUME Table, FinalizeVotes
  PROVE  /\ phase = DayVoting /\ phase # Ended /\ phase' # Night
         /\ \/ alive' = alive /\ role' = role /\ phase' # Ended
            \/ \E t \in alive : ResolveDeaths(alive \ {t}, role, DayDiscussion)
<1>1. phase = DayVoting /\ phase # Ended /\ phase' # Night
  BY DEF FinalizeVotes, InPhase, ResolveDeaths, DayVoting, DayDiscussion, Ended, Night
<1>2. VoteInv
  BY DEF Table, TableInv
<1>3. MajorityTargets \subseteq alive
  BY <1>1, <1>2, MajorityIsAlive
<1>4. \/ alive' = alive /\ role' = role /\ phase' = DayDiscussion
      \/ \E t \in MajorityTargets : ResolveDeaths(alive \ {t}, role, DayDiscussion)
  BY DEF FinalizeVotes
<1> QED BY <1>1, <1>3, <1>4 DEF DayDiscussion, Ended

(* A vote that kills nobody keeps what is known. *)
LEMMA AdjournStep ==
  ASSUME Table, Adjourn
  PROVE  KnowledgeInv'
<1>1. /\ phase # Ended /\ phase' # Night /\ phase' # Ended /\ alive' = alive /\ role' = role
  <2>1. FinalizeVotes /\ alive' = alive
    BY DEF Adjourn
  <2>2. ~ \E t \in alive : ResolveDeaths(alive \ {t}, role, DayDiscussion)
    BY <2>1 DEF ResolveDeaths
  <2> QED BY <2>1, <2>2, LynchTargets
<1>2. PICK b : b = <<Cue>>
  OBVIOUS
<1>3. Cue \in Bland /\ Cue \in HarmlessIn(role) /\ Cue \in Ev /\ Cue.to.audience = "public"
  BY PlainIsBland, PlainEvents
<1>4. /\ b \in Seq(Bland) /\ b \in Seq(HarmlessIn(role)) /\ b \in Seq(Ev)
      /\ Len(b) = 1 /\ b[1] = Cue
  BY <1>2, <1>3
<1>5. Batch(b) /\ Emit(b)
  BY <1>2, <1>3, <1>4 DEF Batch, Adjourn
<1>6. NightKnown'
  BY <1>1 DEF NightKnown
<1> QED BY <1>1, <1>4, <1>5, <1>6, BlandStep

(* So does a lynch. *)
LEMMA LynchStep ==
  ASSUME Table, Lynch
  PROVE  KnowledgeInv'
<1>1. /\ FinalizeVotes /\ alive' # alive /\ Emit(DeathBatch(<<PlayerDied>>, alive', role))
  BY DEF Lynch
<1>2. PICK t \in alive : ResolveDeaths(alive \ {t}, role, DayDiscussion)
  BY <1>1, LynchTargets
<1>3. phase # Ended /\ phase' # Night
  BY <1>1, LynchTargets
<1>4. PICK al : al = alive'
  OBVIOUS
<1>5. /\ al = alive \ {t} /\ role' = AfterPromotion(al, role)
      /\ phase' = Ended <=> Decided(al, role')
  BY <1>2, <1>4 DEF ResolveDeaths, DayDiscussion, Ended
<1>6. players \subseteq Player /\ alive \subseteq players /\ role \in RoleMap
  BY AtTheTable DEF Table
<1>7. PICK b0 : b0 = <<PlayerDied>>
  OBVIOUS
<1>8. PICK d : d = PlayerDied
  OBVIOUS
<1>9. /\ d \in Bland /\ d \in HarmlessIn(role) /\ d \in Ev /\ d.kind = "died"
  BY <1>8, PlainIsBland, PlainEvents
<1>10. /\ b0 \in Seq(Bland) /\ b0 \in Seq(HarmlessIn(role)) /\ b0 \in Seq(Ev)
       /\ Len(b0) = 1 /\ b0[1] = d
  BY <1>7, <1>8, <1>9
<1>11. /\ \A v, r : b0 \in Seq(RoleTrue(v, r))
       /\ \A ro : b0 \in Seq(RosterTrue(ro)) /\ b0 \in Seq(BoardTrue(ro))
  <2>1. \A v, r, ro : /\ Bland \subseteq RoleTrue(v, r) /\ Bland \subseteq RosterTrue(ro)
                      /\ Bland \subseteq BoardTrue(ro)
    BY BlandSaysNothing
  <2> QED BY <1>10, <2>1, SeqWithin
<1>12. Deadly(b0)
  BY <1>9, <1>10 DEF Deadly
<1>13. Grows(role, role)
  BY DEF Grows
<1>14. Emit(DeathBatch(b0, al, role)) /\ al \subseteq players /\ al \subseteq alive
  BY <1>1, <1>4, <1>5, <1>6, <1>7
<1> QED BY <1>3, <1>4, <1>5, <1>6, <1>10, <1>11, <1>12, <1>13, <1>14, DeathStep

(* So does the dawn. *)
LEMMA DaybreakStep ==
  ASSUME Table, Daybreak
  PROVE  KnowledgeInv'
<1>1. /\ AdvancePhase /\ phase = Night /\ phase' # Night /\ phase # Ended
      /\ Emit(DeathBatch(NightBatch, AliveAtDawn, RolesAtDawn))
  BY DEF Daybreak, AdvancePhase, InPhase, Night, Ended
<1>2. ResolveDeaths(AliveAtDawn, RolesAtDawn, DayDiscussion)
  BY <1>1 DEF AdvancePhase, EndOpening, EndNarrate, EndAct, EndPonder, EndSleep, EndSettle,
              ResolveAndExitNight
<1>3. players \subseteq Player /\ DawnFacts
  BY AtTheTable, AtDawn DEF Table
<1>4. PICK al : al = AliveAtDawn
  OBVIOUS
<1>5. PICK ro : ro = RolesAtDawn
  OBVIOUS
<1>6. PICK b0 : b0 = NightBatch
  OBVIOUS
<1>7. PICK ro2 : ro2 = role'
  OBVIOUS
<1>8. /\ alive' = al /\ ro2 = AfterPromotion(al, ro)
      /\ phase' = Ended <=> Decided(al, ro2)
  BY <1>2, <1>4, <1>5, <1>7 DEF ResolveDeaths, DayDiscussion, Ended
<1>9. /\ al \subseteq players /\ al \subseteq alive /\ ro \in RoleMap /\ Grows(role, ro)
      /\ Converts \subseteq players /\ \A p \in Converts : ro[p] = Mafia
      /\ \A p \in Player : p \notin Converts => ro[p] = role[p]
      /\ ~RecruitPending => ro = role
  BY <1>3, <1>4, <1>5 DEF DawnFacts
<1>10. \A p \in Converts : ro2[p] = Mafia
  BY <1>3, <1>8, <1>9, PromotionTypes
<1>11. /\ b0 \in Seq(Ev) /\ b0 \in Seq(HarmlessIn(ro)) /\ b0 \in Seq(BoardTrue(ro2))
       /\ \A v \in players : b0 \in Seq(RoleTrue(v, ro2[v]))
       /\ \A v \in Converts : \E i \in DOMAIN b0 : b0[i] \in RoleNews(v, ro2[v])
       /\ IF RecruitPending
            THEN Brings(b0, RosterNews(ro), RosterTrue(ro))
            ELSE b0 \in Seq(RosterTrue(ro))
       /\ ~Deadly(b0) => al = alive /\ ro = role
  BY <1>3, <1>4, <1>5, <1>6, <1>10, NightSays
<1>12. \A v \in players :
         ro[v] # role[v] => \E i \in DOMAIN b0 : b0[i] \in RoleNews(v, ro2[v])
  BY <1>3, <1>9, <1>11
<1>13. Emit(DeathBatch(b0, al, ro))
  BY <1>1, <1>4, <1>5, <1>6
<1> HIDE DEF Table
<1>14. /\ b0 \in Seq(BoardTrue(role')) /\ \A v \in players : b0 \in Seq(RoleTrue(v, role'[v]))
       /\ \A v \in players :
            ro[v] # role[v] => \E i \in DOMAIN b0 : b0[i] \in RoleNews(v, role'[v])
       /\ role' = AfterPromotion(al, ro)
       /\ phase' = Ended <=> Decided(al, role')
  BY <1>7, <1>8, <1>11, <1>12
<1>15. \/ Brings(b0, RosterNews(ro), RosterTrue(ro))
       \/ ro = role /\ b0 \in Seq(RosterTrue(ro))
  BY <1>9, <1>11
<1>16. Deadly(b0) \/ (al = alive /\ ro = role)
  BY <1>11
<1> QED BY <1>1, <1>8, <1>9, <1>11, <1>13, <1>14, <1>15, <1>16, DeathStep

(* So does the timer within a night. *)
LEMMA TickStep ==
  ASSUME Table, Tick
  PROVE  KnowledgeInv'
<1>1. /\ AdvancePhase /\ phase = Night /\ phase' = Night /\ UNCHANGED tableVars
  BY DEF Tick, NothingNamed, AdvancePhase, InPhase
<1>2. /\ UNCHANGED <<role, alive>> /\ UNCHANGED deedVars
  BY <1>1 DEF AdvancePhase, EndOpening, EndNarrate, EndAct, EndPonder, EndSleep, EndSettle,
              ResolveAndExitNight, ResolveDeaths, boardVars, Night, DayDiscussion, Ended
<1>3. Tonight' = Tonight
  BY <1>2 DEF Tonight, deedVars, RecruitPending
<1> QED BY <1>1, <1>2, <1>3, StillStep DEF Night, Ended

(* So do the commands whose events name no role. *)
LEMMA QuietStep ==
  ASSUME Table, Quiet
  PROVE  KnowledgeInv'
<1>1. UNCHANGED tableVars /\ rolesDealt /\ rolesDealt'
  BY DEF Quiet, NothingNamed, Table
<1>2. ASSUME (\E c \in {0} \cup MafiaCounts : CreateGame(c)) \/ (\E a \in Player : NightPass(a))
      PROVE  KnowledgeInv'
  <2>1. /\ UNCHANGED <<role, alive, phase>> /\ UNCHANGED deedVars
    BY <1>2 DEF CreateGame, NightPass, boardVars
  <2>2. Tonight' = Tonight
    BY <2>1 DEF Tonight, deedVars, RecruitPending
  <2> QED BY <1>1, <2>1, <2>2, StillStep
<1>3. ASSUME ~ \E a \in Player : NightPass(a), ~ \E c \in {0} \cup MafiaCounts : CreateGame(c)
      PROVE  KnowledgeInv'
  <2>1. /\ ~ \E p \in Player : AddPlayer(p)
        /\ ~ \E c \in MafiaCounts : SetMafiaCount(c)
        /\ ~ \E r \in OptionalRole, on \in BOOLEAN : SetOptional(r, on)
    BY <1>1 DEF AddPlayer, SetMafiaCount, SetOptional, LobbyOpen
  <2>2. \/ OpenVoting
        \/ \E v, t \in Player : DayVote(v, t)
        \/ \E v \in Player : RetractVote(v) \/ DayAbstain(v)
        \/ RevealVotes
        \/ ClearVotes
    BY <1>3, <2>1 DEF Quiet
  <2>3. /\ UNCHANGED <<role, alive>> /\ phase \in {DayDiscussion, DayVoting}
        /\ phase' = DayVoting
    BY <2>2 DEF OpenVoting, DayVote, RetractVote, DayAbstain, RevealVotes, ClearVotes, MayVote,
                BallotFrame, InPhase, boardVars
  <2> QED BY <1>1, <2>3, StillStep DEF Night, Ended, DayDiscussion, DayVoting
<1> QED BY <1>2, <1>3

-------------------------------------------------------------------------------
(* The deal. *)
LEMMA LastIndex ==
  ASSUME NEW n \in Nat, NEW S, S \subseteq 1 .. n, S # {}
  PROVE  \E i \in S : \A j \in S : j <= i
<1> DEFINE U == {k \in 0 .. n : \/ \A j \in S : j > k
                                \/ \E i \in S : \A j \in S : j <= k => j <= i}
<1>1. 0 \in U
  OBVIOUS
<1>2. ASSUME NEW k \in 1 .. n, k - 1 \in U PROVE k \in U
  <2>1. CASE k \in S
    <3>1. \A j \in S : j <= k => j <= k
      OBVIOUS
    <3> QED BY <2>1, <3>1
  <2>2. CASE k \notin S
    <3>1. \A j \in S : j <= k <=> j <= k - 1
      BY <2>2
    <3>2. \A j \in S : j > k - 1 => j > k
      BY <2>2
    <3> QED BY <1>2, <3>1, <3>2
  <2> QED BY <2>1, <2>2
<1> HIDE DEF U
<1>3. \A k \in 0 .. n : k \in U
  BY <1>1, <1>2, IntervalInduction
<1>4. n \in U /\ \A j \in S : j <= n /\ ~(j > n)
  BY <1>3
<1>5. \E i \in S : \A j \in S : j <= n => j <= i
  <2>1. \/ \A j \in S : j > n
        \/ \E i \in S : \A j \in S : j <= n => j <= i
    BY <1>4 DEF U
  <2> QED BY <1>4, <2>1
<1> QED BY <1>4, <1>5

(* An empty tab. *)
LEMMA NewTabs ==
  /\ NewTab \in Tab /\ NewTab.cursor = 0 /\ NewTab.model = NewModel /\ NewModel \in TabModel
  /\ NewModel.peers = {} /\ NewModel.yakuza = NoPlayer /\ NewModel.revealed = {}
  /\ NewModel.feed = {}
  BY DEF NewTab, NewModel, Tab, TabModel, Target

(* The tail from the start is the log. *)
LEMMA WholeLog ==
  ASSUME NEW l \in Seq(Ev)
  PROVE  Rest(l, 0) = l
<1>1. Len(l) \in Nat /\ \A i \in 1 .. Len(l) : l[i] \in Ev
  OBVIOUS
<1>2. /\ Rest(l, 0) \in Seq(Ev) /\ Len(Rest(l, 0)) = Len(l)
      /\ \A i \in 1 .. Len(l) : Rest(l, 0)[i] = l[i]
  BY <1>1, RestParts
<1> QED BY <1>2

SaysOfDeal(b, ro) ==
  /\ b \in Seq(Ev) /\ Len(b) >= 1 /\ b \in Seq(HarmlessIn(ro))
  /\ \A v \in players : Brings(b, RoleNews(v, ro[v]), RoleTrue(v, ro[v]))
  /\ Brings(b, RosterNews(ro), RosterTrue(ro))

(* The deal tells everyone their role and the faction its members. *)
LEMMA DealSays ==
  ASSUME players \subseteq Player, NEW ro \in RoleMap, \A p \in players : ro[p] \in Role,
         NEW b, b = DealBatch(ro)
  PROVE  SaysOfDeal(b, ro)
<1> DEFINE C == {RoleAssigned(p, ro[p]) : p \in players}
           c == SetToSeq(C)
           X(v) == HarmlessIn(ro) \cap RoleTrue(v, ro[v])
<1>1. IsFiniteSet(C)
  <2>1. IsFiniteSet(players)
    BY PlayerAssumption, FS_Subset
  <2> DEFINE f == [p \in players |-> RoleAssigned(p, ro[p])]
  <2>2. f \in Surjection(players, C)
    BY DEF Surjection
  <2> HIDE DEF f
  <2> QED BY <2>1, <2>2, FS_Surjection
<1>2. c \in Seq(C) /\ \A x \in C : \E i \in DOMAIN c : c[i] = x
  <2> HIDE DEF C
  <2> QED BY <1>1, SetToSeqLists
<1>3. ASSUME NEW p \in players, NEW v
      PROVE  /\ RoleAssigned(p, ro[p]) \in Ev /\ RoleAssigned(p, ro[p]) \in X(v)
             /\ v = p => RoleAssigned(p, ro[p]) \in RoleNews(v, ro[v])
  <2>1. p \in Player /\ ro[p] \in Role
    OBVIOUS
  <2>2. PICK e : e = RoleAssigned(p, ro[p])
    OBVIOUS
  <2>3. e \in {RoleAssigned(p, ro[p])} \cup (IF ro[p] = Mafia THEN {ConsortPromoted(p)} ELSE {})
    BY <2>2
  <2>4. /\ e \in Ev /\ e \in RoleTrue(v, ro[v]) /\ (v = p => e \in RoleNews(v, ro[v]))
        /\ e \in HarmlessIn(ro)
    BY <2>1, <2>3, RoleToldTruly
  <2> QED BY <2>2, <2>4
<1>4. PICK e \in Ev :
        /\ e = MafiaRoster(alive, ro) /\ e \in RosterNews(ro) /\ e \in RosterTrue(ro)
        /\ \A v : e \in X(v)
  <2>1. PICK e : e = MafiaRoster(alive, ro)
    OBVIOUS
  <2> QED BY <2>1, RosterToldTruly
<1>5. PICK q \in Ev : q = Cue /\ \A v : q \in X(v)
  <2>1. PICK q : q = Cue
    OBVIOUS
  <2>2. q \in Bland /\ q \in HarmlessIn(ro) /\ q \in Ev
    BY <2>1, PlainIsBland, PlainEvents
  <2>3. \A v : q \in RoleTrue(v, ro[v])
    BY <2>2, BlandSaysNothing
  <2> QED BY <2>1, <2>2, <2>3
<1>6. b = (<<q>> \o c) \o <<e>>
  BY <1>4, <1>5 DEF DealBatch
<1>7. C \subseteq Ev /\ \A v : C \subseteq X(v)
  BY <1>3
<1>8. ASSUME NEW v \in players PROVE RoleAssigned(v, ro[v]) \in C
  OBVIOUS
<1> HIDE DEF C, c, X
<1>9. /\ <<q>> \in Seq(Ev) /\ c \in Seq(Ev) /\ <<e>> \in Seq(Ev)
      /\ <<q>> \o c \in Seq(Ev) /\ b \in Seq(Ev)
  BY <1>2, <1>6, <1>7, SeqWithin, ConcatProperties
<1>10. ASSUME NEW v PROVE b \in Seq(X(v)) /\ <<q>> \in Seq(X(v)) /\ c \in Seq(X(v))
                          /\ <<e>> \in Seq(X(v))
  <2>1. <<q>> \in Seq(X(v)) /\ c \in Seq(X(v)) /\ <<e>> \in Seq(X(v))
    BY <1>2, <1>4, <1>5, <1>7, SeqWithin
  <2> QED BY <1>6, <2>1, ConcatProperties
<1>11. ASSUME NEW v
       PROVE  /\ b \in Seq(HarmlessIn(ro)) /\ b \in Seq(RoleTrue(v, ro[v]))
  <2>1. X(v) \subseteq HarmlessIn(ro) /\ X(v) \subseteq RoleTrue(v, ro[v])
    BY DEF X
  <2> QED BY <1>10, <2>1, SeqWithin
<1>12. Len(b) >= 1
  <2>1. Len(b) = Len(<<q>> \o c) + Len(<<e>>) /\ Len(<<q>> \o c) \in Nat
    BY <1>6, <1>9, Joined
  <2> QED BY <2>1
<1>13. ASSUME NEW v \in players
       PROVE  Brings(b, RoleNews(v, ro[v]), RoleTrue(v, ro[v]))
  <2>1. PICK i \in DOMAIN c : c[i] = RoleAssigned(v, ro[v])
    BY <1>2, <1>8
  <2>2. (<<q>> \o c)[1 + i] = c[i] /\ Len(<<q>> \o c) = 1 + Len(c) /\ i \in 1 .. Len(c)
    <3>1. i \in 1 .. Len(c) /\ Len(<<q>>) = 1
      BY <1>9, <2>1
    <3> QED BY <1>9, <3>1, Joined
  <2>3. 1 + i \in 1 .. Len(<<q>> \o c) /\ Len(b) = Len(<<q>> \o c) + 1
    <3>1. Len(c) \in Nat /\ Len(<<e>>) = 1
      BY <1>9
    <3> QED BY <1>6, <1>9, <2>2, <3>1, Joined
  <2>4. b[1 + i] = c[i] /\ 1 + i \in DOMAIN b
    <3>1. b[1 + i] = (<<q>> \o c)[1 + i]
      BY <1>6, <1>9, <2>3, Joined
    <3>2. 1 + i \in 1 .. Len(b)
      BY <1>9, <2>3
    <3> QED BY <1>9, <2>2, <3>1, <3>2
  <2>5. b[1 + i] \in RoleNews(v, ro[v])
    BY <1>3, <2>1, <2>4
  <2> QED BY <1>9, <1>11, <2>4, <2>5, BringsOne
<1>14. Brings(b, RosterNews(ro), RosterTrue(ro))
  BY <1>4, <1>6, <1>9, BringsIt, BringsLate
<1> QED BY <1>9, <1>11, <1>12, <1>13, <1>14 DEF SaysOfDeal

(* The board that is dealt. *)
LEMMA AtTheDeal ==
  ASSUME TableInv, TableInv', Deal
  PROVE  /\ players \subseteq Player /\ players' = players /\ alive' = players /\ phase' = Lobby
         /\ role' \in RoleMap /\ log' = DealBatch(role') /\ OneYakuzaIn(role')
         /\ \A p \in players : role'[p] \in Role
<1>1. /\ players' = players /\ alive' = alive /\ phase' = phase /\ rolesDealt' /\ phase = Lobby
      /\ ~rolesDealt
  BY DEF Deal, StartGame, LobbyOpen, InPhase
<1>2. alive = players
  BY <1>1 DEF TableInv, OutcomeInv, LobbyIsFresh
<1>3. players \subseteq Player /\ role' \in RoleMap
  <2>1. TypeOK /\ TypeOK'
    BY DEF TableInv, OutcomeInv
  <2> QED BY <2>1 DEF TypeOK, RoleMap
<1>4. \A p \in players : role'[p] \in Role
  <2>1. \A p \in Player : role'[p] = NoRole <=> p \notin players
    BY <1>1 DEF TableInv, BoardInv, Seated
  <2> QED BY <1>3, <2>1 DEF RoleMap
<1> QED BY <1>1, <1>2, <1>3, <1>4, StillOneYakuza DEF Deal

(* A tab that has just been dealt its role, or none. *)
FirstTab(v, t) ==
  /\ t \in Tab /\ t.cursor <= Len(log')
  /\ t.cursor = 0 \/ t.model = Replay(v, NewModel, Rest(log', 0), alive', role')
  /\ t.model \in {NewModel, Replay(v, NewModel, Rest(log', 0), alive', role')}

(* The tabs there are after the deal. *)
LEMMA FirstTabs ==
  ASSUME Deal, log' \in Seq(Ev), players' = players
  PROVE  /\ tab' = [v \in players |-> tab'[v]] /\ stale' = [v \in players |-> stale'[v]]
         /\ \A v \in players : \A t \in Tabs(v)' : FirstTab(v, t)
<1>1. /\ tab' = [v \in players |-> Receive(v, NewTab, 0, log', alive', role')]
      /\ stale' = [v \in players |-> {[tab'[v] EXCEPT !.cursor = Len(log')]}]
      /\ Len(log') \in Nat
  BY DEF Deal
<1>2. ASSUME NEW v \in players
      PROVE  /\ FirstTab(v, tab'[v]) /\ FirstTab(v, AtEnd(tab[v])') /\ FirstTab(v, NewTab)
             /\ stale'[v] = {AtEnd(tab[v])'}
  <2> DEFINE through == {i \in DOMAIN log' : CanSee(v, log'[i].to, alive', role')}
             m == Replay(v, NewModel, log', alive', role')
             n == IF through = {} THEN 0 ELSE 0 + CHOOSE i \in through : \A j \in through : j <= i
  <2>1. tab'[v] = [model |-> m, cursor |-> n]
    BY <1>1, NewTabs DEF Receive
  <2>2. m = Replay(v, NewModel, Rest(log', 0), alive', role')
    BY WholeLog
  <2>3. m \in TabModel
    BY NewTabs, ReplayTyped
  <2>4. through \subseteq 1 .. Len(log')
    OBVIOUS
  <2> HIDE DEF through, m
  <2>5. n \in 0 .. Len(log')
    <3>1. CASE through = {}
      BY <1>1, <3>1
    <3>2. CASE through # {}
      <4>1. \E i \in through : \A j \in through : j <= i
        BY <1>1, <2>4, <3>2, LastIndex
      <4>2. (CHOOSE i \in through : \A j \in through : j <= i) \in through
        BY <4>1
      <4> QED BY <1>1, <2>4, <3>2, <4>2
    <3> QED BY <3>1, <3>2
  <2> HIDE DEF n
  <2>6. tab'[v] \in Tab /\ tab'[v].model = m /\ tab'[v].cursor <= Len(log')
    BY <1>1, <2>1, <2>3, <2>5 DEF Tab
  <2>7. AtEnd(tab[v])' = [tab'[v] EXCEPT !.cursor = Len(log')]
    BY DEF AtEnd
  <2>8. PICK u : u = [tab'[v] EXCEPT !.cursor = Len(log')]
    OBVIOUS
  <2>9. u \in Tab /\ u.model = m /\ u.cursor <= Len(log')
    BY <1>1, <2>6, <2>8 DEF Tab
  <2>10. FirstTab(v, tab'[v]) /\ FirstTab(v, u)
    BY <2>2, <2>6, <2>9 DEF FirstTab
  <2>11. FirstTab(v, NewTab)
    BY <1>1, NewTabs DEF FirstTab
  <2> QED BY <1>1, <2>7, <2>8, <2>10, <2>11
<1>3. ASSUME NEW v \in players, NEW t \in Tabs(v)' PROVE FirstTab(v, t)
  <2>1. t \in stale'[v] \cup {NewTab, tab'[v], AtEnd(tab[v])'}
    BY <1>3 DEF Tabs
  <2> QED BY <1>2, <2>1
<1> QED BY <1>1, <1>3

(* The deal establishes what is known. *)
LEMMA DealStep ==
  ASSUME TableInv, TableInv', Deal
  PROVE  KnowledgeInv'
<1>1. /\ players \subseteq Player /\ players' = players /\ alive' = players /\ phase' = Lobby
      /\ role' \in RoleMap /\ log' = DealBatch(role') /\ OneYakuzaIn(role')
      /\ \A p \in players : role'[p] \in Role
  BY AtTheDeal
<1>2. SaysOfDeal(log', role')
  <2>1. PICK ro \in RoleMap : ro = role'
    BY <1>1
  <2>2. PICK b : b = DealBatch(ro)
    OBVIOUS
  <2>3. \A p \in players : ro[p] \in Role
    BY <1>1, <2>1
  <2>4. SaysOfDeal(b, ro)
    BY <1>1, <2>2, <2>3, DealSays
  <2> QED BY <1>1, <2>1, <2>2, <2>4
<1>3. /\ log' \in Seq(Ev) /\ 0 \in 0 .. Len(log') /\ NewModel \in TabModel
      /\ \A i \in DOMAIN log' : Harmless(log'[i], role')
  <2>1. log' \in Seq(Ev) /\ log' \in Seq(HarmlessIn(role'))
    BY <1>2 DEF SaysOfDeal
  <2> QED BY <2>1, NewTabs DEF HarmlessIn
<1>4. /\ tab' = [v \in players |-> tab'[v]] /\ stale' = [v \in players |-> stale'[v]]
      /\ \A v \in players : \A t \in Tabs(v)' : FirstTab(v, t)
  BY <1>1, <1>3, FirstTabs
<1>5. Typed'
  BY <1>1, <1>3, <1>4 DEF Typed, FirstTab
<1>6. OwnRoleKnown'
  <2> SUFFICES ASSUME NEW v \in players
               PROVE  \E k \in DOMAIN log' :
                        /\ RoleTold(log', k, v, role'[v])
                        /\ \A t \in Tabs(v)' : t.cursor < k \/ t.model.myRole = role'[v]
    BY <1>1 DEF OwnRoleKnown
  <2>1. PICK k : Settled(log', k, RoleNews(v, role'[v]), RoleTrue(v, role'[v]))
    BY <1>2 DEF SaysOfDeal, Brings
  <2>2. RoleTold(log', k, v, role'[v]) /\ k \in DOMAIN log'
    BY <2>1 DEF RoleTold, Settled
  <2>3. 0 < k /\ v \in Player
    BY <1>1, <1>3, <2>2
  <2>4. Replay(v, NewModel, Rest(log', 0), alive', role').myRole = role'[v]
    BY <1>3, <2>2, <2>3, RoleCaught
  <2> QED BY <1>4, <2>2, <2>3, <2>4 DEF FirstTab
<1>7. \A v \in players : Discreet(v, NewModel, role')
  BY NewTabs DEF Discreet
<1>8. \A v \in players : Discreet(v, Replay(v, NewModel, Rest(log', 0), alive', role'), role')
  BY <1>1, <1>3, <1>7, DiscreetCaught
<1>9. LivingAreDiscreet'
  <2>1. \A v \in alive' : \A t \in Tabs(v)' : Discreet(v, t.model, role')
    BY <1>1, <1>4, <1>7, <1>8 DEF FirstTab
  <2> QED BY <1>1, <1>3, <2>1, LivingPrimed
<1>10. CabalKnown'
  <2>1. PICK k : Settled(log', k, RosterNews(role'), RosterTrue(role'))
    BY <1>2 DEF SaysOfDeal, Brings
  <2>2. RosterTold(log', k, role') /\ k \in DOMAIN log'
    BY <2>1 DEF RosterTold, Settled
  <2>3. 0 < k
    BY <1>3, <2>2
  <2>4. ASSUME NEW v \in alive' \cap MembersOf(role'), NEW t \in Tabs(v)'
        PROVE  t.cursor < k \/ KnowsCabal(t.model, role')
    <3>1. v \in players /\ v \in alive' /\ v \in MembersOf(role')
      BY <1>1
    <3>2. KnowsCabal(Replay(v, NewModel, Rest(log', 0), alive', role'), role')
      BY <1>1, <1>3, <1>7, <2>2, <2>3, <3>1, CabalCaught
    <3>3. FirstTab(v, t)
      BY <1>4, <2>4, <3>1
    <3> QED BY <2>3, <3>2, <3>3 DEF FirstTab
  <2>5. MembersOf(role)' = MembersOf(role') /\ \A m : KnowsCabal(m, role)' <=> KnowsCabal(m, role')
    BY <1>1 DEF MembersOf, KnowsCabal
  <2>6. \A j : RosterTold(log, j, role)' <=> RosterTold(log', j, role')
    BY <1>1 DEF RosterTold, RosterNews, RosterTrue, WholeRoster, MembersOf
  <2> QED BY <2>2, <2>4, <2>5, <2>6 DEF CabalKnown
<1>11. BoardKnown'
  BY <1>1 DEF BoardKnown, Watchers, Lobby, Ended
<1>12. NightKnown'
  BY <1>1 DEF NightKnown, Lobby, Night
<1> QED BY <1>5, <1>6, <1>9, <1>10, <1>11, <1>12 DEF KnowledgeInv

-------------------------------------------------------------------------------
(* A whole game. *)
ProjectionInv == TableInv /\ KnowledgeInv

(* A step of the game with its log is a step of the engine. *)
LEMMA OneGameIsAGame ==
  ASSUME [OneGameNext]_projectionVars
  PROVE  [Next]_vars
<1>1. OneGameNext => Next
  BY DEF OneGameNext, Deal, Dusk, Submit, SubmitRecruit, Tick, Daybreak, Adjourn, Lynch, Quiet,
         Next, LobbyNext, NightNext, DayNext
<1>2. UNCHANGED projectionVars => UNCHANGED vars
  BY DEF projectionVars
<1> QED BY <1>1, <1>2

(* Once roles are dealt nobody sits down. *)
LEMMA SeatsAreTaken ==
  ASSUME [OneGameNext]_projectionVars, rolesDealt', ~Deal
  PROVE  rolesDealt /\ players' = players
<1>1. CASE UNCHANGED projectionVars
  BY <1>1 DEF projectionVars, vars, lobbyVars
<1>2. CASE Dusk \/ Tick \/ Daybreak \/ Adjourn \/ Lynch
  BY <1>2 DEF Dusk, BeginNight, Tick, Daybreak, AdvancePhase, Adjourn, Lynch, FinalizeVotes,
              lobbyVars, ActiveGame, InPhase
<1>3. CASE \E a, t \in Player : Submit(a, t) \/ SubmitRecruit(a, t)
  BY <1>3 DEF Submit, NightAction, SubmitRecruit, Recruit, lobbyVars
<1>4. CASE Quiet
  BY <1>4 DEF Quiet, CreateGame, AddPlayer, SetMafiaCount, SetOptional, NightPass, OpenVoting,
              DayVote, RetractVote, DayAbstain, BallotFrame, RevealVotes, ClearVotes, lobbyVars,
              LobbyOpen
<1> QED BY <1>1, <1>2, <1>3, <1>4 DEF OneGameNext

(* The invariant is inductive. *)
LEMMA ProjectionStep ==
  ASSUME ProjectionInv, [OneGameNext]_projectionVars
  PROVE  ProjectionInv'
<1>1. TableInv'
  BY OneGameIsAGame, TableStep DEF ProjectionInv
<1>2. CASE ~rolesDealt'
  BY <1>1, <1>2 DEF ProjectionInv, KnowledgeInv
<1>3. CASE Deal
  BY <1>1, <1>3, DealStep DEF ProjectionInv
<1>4. CASE rolesDealt' /\ ~Deal
  <2>1. Table
    BY <1>1, <1>4, SeatsAreTaken DEF ProjectionInv, Table
  <2>2. CASE UNCHANGED projectionVars
    <3>1. UNCHANGED <<role, alive, phase>> /\ UNCHANGED tableVars /\ UNCHANGED deedVars
      BY <2>2 DEF projectionVars, vars, boardVars
    <3>2. Tonight' = Tonight
      BY <3>1 DEF Tonight, deedVars, RecruitPending
    <3>3. KnowledgeInv'
      BY <2>1, <3>1, <3>2, StillStep
    <3> QED BY <1>1, <3>3 DEF ProjectionInv
  <2>3. CASE OneGameNext
    <3>1. ASSUME NEW a \in Player, NEW t \in Player, Submit(a, t) \/ SubmitRecruit(a, t)
          PROVE  KnowledgeInv'
      BY <2>1, <3>1, SubmitStep, RecruitStep
    <3>2. KnowledgeInv'
      BY <1>4, <2>1, <2>3, <3>1, DuskStep, TickStep, DaybreakStep, AdjournStep, LynchStep, QuietStep
         DEF OneGameNext
    <3> QED BY <1>1, <3>2 DEF ProjectionInv
  <2> QED BY <2>2, <2>3
<1> QED BY <1>2, <1>3, <1>4

(* So it holds of every game. *)
LEMMA ProjectionInvariant == OneGameSpec => []ProjectionInv
<1>1. OneGameInit => ProjectionInv
  BY TableInit DEF OneGameInit, ProjectionInv, KnowledgeInv, Init
<1> QED BY <1>1, ProjectionStep, PTL DEF OneGameSpec

-------------------------------------------------------------------------------
(* What the invariant means for a player, however it is connected. *)
LEMMA ModelsAreReplays ==
  ASSUME Typed, NEW v \in players, NEW m \in Models(v)
  PROVE  \E t \in Tabs(v) : /\ t \in Tab /\ t.cursor \in 0 .. Len(log)
                            /\ m = Replay(v, t.model, Rest(log, t.cursor), alive, role)
<1>1. log \in Seq(Ev) /\ \A t \in Tabs(v) : t \in Tab /\ t.cursor \in 0 .. Len(log)
  BY DEF Typed, Tab
<1>2. CASE m = tab[v].model
  <2>1. PICK t \in Tabs(v) : t = AtEnd(tab[v])
    BY DEF Tabs
  <2>2. tab[v] \in Tab
    BY <1>1 DEF Tabs
  <2>3. t.cursor = Len(log) /\ t.model = m /\ m \in TabModel
    BY <1>2, <2>1, <2>2 DEF AtEnd, Tab
  <2>4. Rest(log, Len(log)) \in Seq(Ev) /\ Len(Rest(log, Len(log))) = 0
    BY <1>1, RestParts
  <2>5. PICK es \in Seq(Ev) : es = Rest(log, Len(log)) /\ Len(es) = 0
    BY <2>4
  <2>6. PICK f : Watches(f, v, m, es, alive, role)
    BY <2>3, ReplayFold
  <2>7. Replay(v, m, es, alive, role) = m
    BY <2>5, <2>6 DEF Watches
  <2> QED BY <1>1, <2>3, <2>5, <2>7
<1>3. CASE m = Rebuilt(v)
  <2>1. NewTab \in Tabs(v)
    BY DEF Tabs
  <2>2. m = Replay(v, NewTab.model, Rest(log, NewTab.cursor), alive, role)
    BY <1>1, <1>3, NewTabs, WholeLog DEF Rebuilt
  <2> QED BY <1>1, <2>1, <2>2
<1>4. CASE \E t \in stale[v] : m = Resumed(v, t)
  <2>1. PICK t \in stale[v] : m = Resumed(v, t)
    BY <1>4
  <2>2. t \in Tabs(v)
    BY DEF Tabs
  <2>3. CASE t.cursor \in 1 .. Len(log)
    BY <1>1, <2>1, <2>2, <2>3 DEF Resumed, Rest
  <2>4. CASE ~(t.cursor \in 1 .. Len(log))
    BY <1>3, <2>1, <2>4 DEF Resumed
  <2> QED BY <2>3, <2>4
<1> QED BY <1>2, <1>3, <1>4 DEF Models

(* However a player is connected, its tab shows what it should. *)
LEMMA ModelsAreSound ==
  ASSUME ProjectionInv, rolesDealt, NEW v \in players, NEW m \in Models(v)
  PROVE  Sound(v, m, alive, phase, role, Tonight)
<1>1. /\ Typed /\ OwnRoleKnown /\ LivingAreDiscreet /\ CabalKnown /\ BoardKnown /\ NightKnown
      /\ players \subseteq Player /\ alive \subseteq players /\ OneYakuzaIn(role)
  BY AtTheTable DEF ProjectionInv, KnowledgeInv
<1>2. PICK t \in Tabs(v) : /\ t \in Tab /\ t.cursor \in 0 .. Len(log)
                           /\ m = Replay(v, t.model, Rest(log, t.cursor), alive, role)
  BY <1>1, ModelsAreReplays
<1>3. /\ log \in Seq(Ev) /\ t.model \in TabModel /\ v \in Player
  BY <1>1, <1>2 DEF Typed, Tab
<1>4. m \in TabModel
  <2>1. Rest(log, t.cursor) \in Seq(Ev)
    BY <1>2, <1>3, RestParts
  <2> QED BY <1>2, <1>3, <2>1, ReplayTyped
<1>5. m.myRole = role[v]
  <2>1. PICK k : RoleTold(log, k, v, role[v]) /\ (t.cursor < k \/ t.model.myRole = role[v])
    BY <1>1 DEF OwnRoleKnown
  <2> QED BY <1>2, <1>3, <2>1, RoleCaught
<1>6. ASSUME phase # Ended, v \in alive
      PROVE  /\ \A i \in DOMAIN log : Harmless(log[i], role)
             /\ Discreet(v, t.model, role) /\ Discreet(v, m, role)
  <2>1. /\ \A i \in DOMAIN log : Harmless(log[i], role)
        /\ Discreet(v, t.model, role)
    BY <1>1, <1>6 DEF LivingAreDiscreet
  <2> QED BY <1>2, <1>3, <1>6, <2>1, DiscreetCaught
<1>7. ASSUME phase # Ended, v \in alive \cap MembersOf(role)
      PROVE  KnowsCabal(m, role)
  <2>1. PICK k : RosterTold(log, k, role) /\ (t.cursor < k \/ KnowsCabal(t.model, role))
    BY <1>1, <1>7 DEF CabalKnown
  <2>2. v \in alive /\ v \in MembersOf(role)
    BY <1>7
  <2> QED BY <1>1, <1>2, <1>3, <1>6, <1>7, <2>1, <2>2, CabalCaught
<1>8. ASSUME v \in Watchers(alive, phase)
      PROVE  m.revealed = Everyone(role)
  <2>1. PICK k : /\ BoardShown(log, k, phase, role)
                 /\ t.cursor < k \/ t.model.revealed = Everyone(role)
    BY <1>1, <1>8 DEF BoardKnown
  <2> QED BY <1>2, <1>3, <1>8, <2>1, BoardCaught
<1>9. ASSUME phase = Night, v \notin alive
      PROVE  m.feed = Tonight
  <2>1. PICK k : NightShown(log, k, Tonight) /\ (t.cursor < k \/ t.model.feed = Seen(log, k + 1, t.cursor))
    BY <1>1, <1>9 DEF NightKnown
  <2> QED BY <1>2, <1>3, <1>9, <2>1, NightCaught
<1> QED BY <1>4, <1>5, <1>6, <1>7, <1>8, <1>9 DEF Sound

(* The badge of a model that shows the board, and of one that does not. *)
LEMMA BadgesShown ==
  ASSUME NEW v, NEW m, NEW p \in players
  PROVE  /\ m.revealed = Everyone(role) => Badge(v, m, p) = role[p]
         /\ m.revealed = {} =>
              Badge(v, m, p) = IF p \in m.peers THEN IF p = m.yakuza THEN Yakuza ELSE Mafia
                               ELSE IF p = v THEN m.myRole
                               ELSE NoRole
<1> DEFINE shown == {x[2] : x \in {y \in m.revealed : y[1] = p}}
<1>1. ASSUME m.revealed = Everyone(role) PROVE shown = {role[p]}
  <2>1. <<p, role[p]>> \in m.revealed
    BY <1>1 DEF Everyone
  <2>2. \A y \in m.revealed : \E q \in players : y = <<q, role[q]>>
    BY <1>1 DEF Everyone
  <2>3. \A y \in m.revealed : y[1] = p => y[2] = role[p]
    BY <2>2
  <2>4. role[p] \in shown
    BY <2>1
  <2>5. \A r \in shown : r = role[p]
    BY <2>3
  <2> QED BY <2>4, <2>5
<1>2. ASSUME m.revealed = {} PROVE shown = {}
  BY <1>2
<1>3. Badge(v, m, p) = IF shown # {} THEN CHOOSE r \in shown : TRUE
                       ELSE IF p \in m.peers THEN IF p = m.yakuza THEN Yakuza ELSE Mafia
                       ELSE IF p = v THEN m.myRole
                       ELSE NoRole
  BY DEF Badge
<1> HIDE DEF shown
<1>4. ASSUME m.revealed = Everyone(role) PROVE Badge(v, m, p) = role[p]
  <2>1. (CHOOSE r \in shown : TRUE) \in shown
    BY <1>1, <1>4
  <2> QED BY <1>1, <1>3, <1>4, <2>1
<1> QED BY <1>2, <1>3, <1>4

(* The cabal, as a member that is sound shows it. *)
LEMMA CabalBadges ==
  ASSUME NEW v \in players, NEW m, m.revealed = {}, KnowsCabal(m, role),
         NEW p \in MembersOf(role)
  PROVE  Badge(v, m, p) = role[p]
<1>1. p \in players /\ p \in m.peers /\ (p = m.yakuza <=> role[p] = Yakuza)
  BY DEF MembersOf, KnowsCabal
<1>2. role[p] \in {Mafia, Yakuza}
  BY DEF MembersOf, Faction, FactionMafia, FactionConsort, FactionTown
<1>3. Badge(v, m, p) = IF p = m.yakuza THEN Yakuza ELSE Mafia
  BY <1>1, BadgesShown
<1> QED BY <1>1, <1>2, <1>3

(* Nobody is sent, and nobody's tab holds, a role that is not theirs to    *)
(* know: redaction on a resume judges old events by the board of today,    *)
(* and no conversion, promotion or death makes that say too much.          *)
THEOREM TheLivingLearnNoRole == OneGameSpec => []LivingLearnNoRole
<1>1. ASSUME ProjectionInv PROVE LivingLearnNoRole
  <2> SUFFICES ASSUME Running, NEW v \in alive
               PROVE  LET mayKnow == IF v \in Members THEN Members ELSE {v} IN
                      /\ \A i \in DOMAIN log :
                           CanSee(v, log[i].to, alive, role) =>
                             \A x \in log[i].roles : x[1] \in mayKnow
                      /\ \A t \in {tab[v]} \cup stale[v] :
                           /\ t.model.peers \subseteq mayKnow
                           /\ t.model.revealed = {} /\ t.model.feed = {}
    BY DEF LivingLearnNoRole
  <2>1. /\ Typed /\ alive \subseteq players
        /\ \A i \in DOMAIN log : Harmless(log[i], role)
        /\ \A t \in Tabs(v) : Discreet(v, t.model, role)
    BY <1>1, AtTheTable DEF ProjectionInv, KnowledgeInv, Running, LivingAreDiscreet
  <2>2. Members = MembersOf(role)
    BY DEF Members, MembersOf
  <2>3. ASSUME NEW i \in DOMAIN log, CanSee(v, log[i].to, alive, role), NEW x \in log[i].roles
        PROVE  x[1] \in IF v \in Members THEN Members ELSE {v}
    <3>1. PICK e \in Ev : e = log[i]
      BY <2>1 DEF Typed
    <3>2. e.to.audience \in {"public", "player", "faction", "dead"} /\ Harmless(e, role)
      BY <2>1, <3>1 DEF Ev, Audience
    <3>3. /\ e.to.audience = "player" => v = e.to.who
          /\ e.to.audience = "faction" => v \in alive /\ Faction(role[v]) = FactionMafia
          /\ e.to.audience # "dead"
      BY <2>3, <3>1 DEF CanSee
    <3>4. v \in players
      BY <2>1
    <3>5. CASE e.to.audience = "player"
      BY <2>3, <3>1, <3>2, <3>3, <3>5 DEF Harmless
    <3>6. CASE e.to.audience = "faction"
      BY <2>2, <2>3, <3>1, <3>2, <3>3, <3>4, <3>6 DEF Harmless, MembersOf
    <3>7. CASE e.to.audience = "public"
      BY <2>3, <3>1, <3>2, <3>7 DEF Harmless
    <3> QED BY <3>2, <3>3, <3>5, <3>6, <3>7
  <2>4. ASSUME NEW t \in {tab[v]} \cup stale[v]
        PROVE  /\ t.model.peers \subseteq IF v \in Members THEN Members ELSE {v}
               /\ t.model.revealed = {} /\ t.model.feed = {}
    <3>1. t \in Tabs(v)
      BY DEF Tabs
    <3> QED BY <2>1, <2>2, <3>1 DEF Discreet
  <2> QED BY <2>3, <2>4
<1> QED BY <1>1, ProjectionInvariant, PTL

(* A convert, a promoted consort and a mafioso that reloaded the page see  *)
(* the same cabal: the last roster told them all of it, and every roster   *)
(* before it a part.                                                       *)
THEOREM TheCabalIsKnown == OneGameSpec => []CabalIsKnown
<1>1. ASSUME ProjectionInv PROVE CabalIsKnown
  <2> SUFFICES ASSUME Running, NEW v \in alive \cap Members, NEW m \in Models(v)
               PROVE  /\ m.myRole = role[v]
                      /\ m.peers = Members
                      /\ \A p \in Members : Badge(v, m, p) = role[p]
    BY DEF CabalIsKnown
  <2>1. Members = MembersOf(role) /\ v \in players /\ rolesDealt /\ phase # Ended
    BY DEF Members, MembersOf, Running
  <2>2. Sound(v, m, alive, phase, role, Tonight)
    BY <1>1, <2>1, ModelsAreSound
  <2>3. m.myRole = role[v] /\ Discreet(v, m, role) /\ KnowsCabal(m, role)
    BY <2>1, <2>2 DEF Sound
  <2>4. m.peers = Members /\ m.revealed = {}
    BY <2>1, <2>3 DEF KnowsCabal, Discreet
  <2> QED BY <2>1, <2>3, <2>4, CabalBadges
<1> QED BY <1>1, ProjectionInvariant, PTL

(* Whoever dies is shown the whole board at once, and again whenever a     *)
(* death or a promotion changes it; what the night's actors do is mirrored *)
(* to the dead as it happens, or in the tail of a resume.                  *)
THEOREM TheDeadSeeTheBoard == OneGameSpec => []DeadSeeTheBoard
<1>1. ASSUME ProjectionInv PROVE DeadSeeTheBoard
  <2> SUFFICES ASSUME Running, NEW v \in players \ alive, NEW m \in Models(v)
               PROVE  /\ \A p \in players : Badge(v, m, p) = role[p]
                      /\ phase = Night => {a \in Player : pendingNight[a] # NoPlayer}
                                            \subseteq {x[1] : x \in m.feed}
    BY DEF DeadSeeTheBoard
  <2>1. Sound(v, m, alive, phase, role, Tonight)
    BY <1>1, ModelsAreSound DEF Running
  <2>2. v \in Watchers(alive, phase)
    BY DEF Watchers, Running
  <2>3. m.revealed = Everyone(role) /\ (phase = Night => m.feed = Tonight)
    BY <2>1, <2>2 DEF Sound
  <2>4. \A a \in Player : pendingNight[a] # NoPlayer => <<a, pendingNight[a]>> \in Tonight
    BY DEF Tonight
  <2>5. ASSUME phase = Night, NEW a \in Player, pendingNight[a] # NoPlayer
        PROVE  a \in {x[1] : x \in m.feed}
    <3>1. <<a, pendingNight[a]>> \in m.feed
      BY <2>3, <2>4, <2>5
    <3> QED BY <3>1
  <2> QED BY <2>3, <2>5, BadgesShown
<1> QED BY <1>1, ProjectionInvariant, PTL

(* How a player is connected makes no difference to what its tab shows.    *)
THEOREM EveryResumeAgrees == OneGameSpec => []ResumesAgree
<1>1. ASSUME ProjectionInv PROVE ResumesAgree
  <2> SUFFICES ASSUME rolesDealt, NEW v \in players, NEW m \in Models(v)
               PROVE  /\ m.myRole = Rebuilt(v).myRole
                      /\ \A p \in players : Badge(v, m, p) = Badge(v, Rebuilt(v), p)
                      /\ phase = Night => m.feed = Rebuilt(v).feed
    BY DEF ResumesAgree
  <2>1. PICK whole \in Models(v) : whole = Rebuilt(v)
    BY DEF Models
  <2>2. Sound(v, m, alive, phase, role, Tonight) /\ Sound(v, whole, alive, phase, role, Tonight)
    BY <1>1, ModelsAreSound
  <2>3. m.myRole = role[v] /\ whole.myRole = role[v]
    BY <2>2 DEF Sound
  <2>4. CASE v \in Watchers(alive, phase)
    <3>1. m.revealed = Everyone(role) /\ whole.revealed = Everyone(role)
      BY <2>2, <2>4 DEF Sound
    <3>2. \A p \in players : Badge(v, m, p) = Badge(v, whole, p)
      BY <3>1, BadgesShown
    <3>3. phase = Night => v \notin alive
      BY <2>4 DEF Watchers, Night, Ended
    <3>4. phase = Night => m.feed = whole.feed
      BY <2>2, <3>3 DEF Sound
    <3> QED BY <2>1, <2>3, <3>2, <3>4
  <2>5. CASE v \notin Watchers(alive, phase)
    <3>1. phase # Ended /\ v \in alive
      BY <2>5 DEF Watchers
    <3>2. Discreet(v, m, role) /\ Discreet(v, whole, role)
      BY <2>2, <3>1 DEF Sound
    <3>3. m.revealed = {} /\ whole.revealed = {} /\ m.feed = whole.feed
      BY <3>2 DEF Discreet
    <3>4. ASSUME NEW p \in players PROVE Badge(v, m, p) = Badge(v, whole, p)
      <4>1. CASE v \in MembersOf(role)
        <5>1. KnowsCabal(m, role) /\ KnowsCabal(whole, role)
          BY <2>2, <3>1, <4>1 DEF Sound
        <5>2. CASE p \in MembersOf(role)
          BY <3>3, <5>1, <5>2, CabalBadges
        <5>3. CASE p \notin MembersOf(role)
          <6>1. p \notin m.peers /\ p \notin whole.peers
            BY <5>1, <5>3 DEF KnowsCabal
          <6> QED BY <2>3, <3>3, <6>1, BadgesShown
        <5> QED BY <5>2, <5>3
      <4>2. CASE v \notin MembersOf(role)
        <5>1. m.peers = {} /\ whole.peers = {}
          BY <3>2, <4>2 DEF Discreet
        <5> QED BY <2>3, <3>3, <5>1, BadgesShown
      <4> QED BY <4>1, <4>2
    <3> QED BY <2>1, <2>3, <3>3, <3>4
  <2> QED BY <2>4, <2>5
<1> QED BY <1>1, ProjectionInvariant, PTL

===============================================================================
