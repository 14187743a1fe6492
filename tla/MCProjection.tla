------------------------------ MODULE MCProjection -----------------------------
(***************************************************************************)
(* Projection over games that start from a board StartGame can deal, with  *)
(* MCNight's bounds and at most MaxNights nights.                          *)
(***************************************************************************)
EXTENDS MCNight, ProjectionProps

CONSTANTS
  MaxNights,   \* how many nights a game may have
  Suspects     \* the roles whose holders the table votes for

(* The fewest seats that hold mafioso, yakuza and consort, without a       *)
(* vigilante; and five seats with one.                                     *)
Lean == <<Mafia, Yakuza, Consort, Detective, Doctor, Villager, Villager>>
LeanAndFive == {Lean, Five}

ProjectionInit == DealtInit /\ Dealt

Nights == Cardinality({i \in DOMAIN log : log[i].kind = "night"})

ProjectionNext ==
  \/ Cardinality(players \ alive) <= MaxDead /\ Nights < MaxNights /\ Dusk
  \/ \E a, t \in Player : role[a] \notin Silent /\ Submit(a, t)
  \/ \E y, t \in Player : SubmitRecruit(y, t)
  \/ Tick
  \/ Daybreak
  \/ OpenVoting /\ NothingNamed
  \/ \E v, t \in Player : role[t] \in Suspects /\ VoteInTurn(v, t) /\ NothingNamed
  \/ Adjourn
  \/ Lynch

(* The room's timer is fair, its players are not. *)
ProjectionSpec ==
  /\ ProjectionInit
  /\ [][ProjectionNext]_projectionVars
  /\ WF_vars(AdvancePhase)

===============================================================================
