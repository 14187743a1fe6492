---------------------------- MODULE ProjectionProps ----------------------------
(***************************************************************************)
(* Secrets kept and secrets shared: properties of Projection.  Each is     *)
(* stated for all the tabs a player may have open: the one that was never  *)
(* disconnected, one that resumes now from any earlier moment, and one     *)
(* that rebuilds its model from the whole log.                             *)
(***************************************************************************)
EXTENDS Projection

Running == rolesDealt /\ phase # Ended

Models(v) ==
  {tab[v].model, Rebuilt(v)} \cup {Resumed(v, t) : t \in stale[v]}

Members == {p \in players : Faction(role[p]) = FactionMafia}

(* The badge beside p's name (render.js): a revealed role first, then the  *)
(* faction's badge, then the player's own role.                            *)
Badge(v, m, p) ==
  LET shown == {x[2] : x \in {y \in m.revealed : y[1] = p}} IN
  IF shown # {} THEN CHOOSE r \in shown : TRUE
  ELSE IF p \in m.peers THEN IF p = m.yakuza THEN Yakuza ELSE Mafia
  ELSE IF p = v THEN m.myRole
  ELSE NoRole

(* While the game runs, nothing a living player would be sent on any       *)
(* resume, and nothing its tabs hold of what they were sent before, names  *)
(* the role of another; but for a member of the mafia faction, to whom     *)
(* only other members are named.                                           *)
LivingLearnNoRole ==
  Running =>
    \A v \in alive :
      LET mayKnow == IF v \in Members THEN Members ELSE {v} IN
      /\ \A i \in DOMAIN log :
           CanSee(v, log[i].to, alive, role) =>
             \A x \in log[i].roles : x[1] \in mayKnow
      /\ \A t \in {tab[v]} \cup stale[v] :
           /\ t.model.peers \subseteq mayKnow
           /\ t.model.revealed = {} /\ t.model.feed = {}

(* Every living member of the faction, however it came to it and however   *)
(* it is connected, has the whole faction before it, the dead included.    *)
(* Comments disagree on what a re-issued roster lists: this is the code    *)
(* (state.go:333-384, rules_night.go:429-435); rules_night.go:397-398 and  *)
(* events.js:450-464 leave out the dead or the yakuza.                     *)
CabalIsKnown ==
  Running =>
    \A v \in alive \cap Members : \A m \in Models(v) :
      /\ m.myRole = role[v]
      /\ m.peers = Members
      /\ \A p \in Members : Badge(v, m, p) = role[p]

(* The dead see every role as it is now, conversions and promotions after  *)
(* their death included, and all that was done this night.                 *)
DeadSeeTheBoard ==
  Running =>
    \A v \in players \ alive : \A m \in Models(v) :
      /\ \A p \in players : Badge(v, m, p) = role[p]
      /\ phase = Night => {a \in Player : pendingNight[a] # NoPlayer}
                             \subseteq {x[1] : x \in m.feed}

(* A delta resume shows what a rebuild shows, and both show what a tab     *)
(* that was never away shows: every badge and, at night, the feed.         *)
ResumesAgree ==
  rolesDealt =>
    \A v \in players :
      LET whole == Rebuilt(v) IN
      \A m \in Models(v) :
        /\ m.myRole = whole.myRole
        /\ \A p \in players : Badge(v, m, p) = Badge(v, whole, p)
        /\ phase = Night => m.feed = whole.feed

===============================================================================
