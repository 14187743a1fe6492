---------------------------- MODULE HiddenRoleGame ----------------------------
(***************************************************************************)
(* What the game promises its players, without nights, votes or roles: a   *)
(* town with a secret mafia and perhaps a sleeper is dealt; people die and *)
(* at most one is turned at a time; the sleeper takes over a mafia that    *)
(* has died out; and the game is over at once when, and only when, one     *)
(* side has won.                                                           *)
(***************************************************************************)
EXTENDS Integers, FiniteSets

CONSTANT Player

Side == {"unknown", "town", "mafia", "sleeper"}

VARIABLES
  stage,     \* "gathering", "dealt", "running" or "over"
  seated,    \* who takes part
  side,      \* each player's side
  living     \* who is alive

gameVars == <<stage, seated, side, living>>

On(s, liv, sd) == {p \in liv : sd[p] = s}

(* The mafia win by outnumbering the town, or one against one; the town by *)
(* the death of every mafioso and of the sleeper.                          *)
Won(liv, sd) ==
  LET mafia == Cardinality(On("mafia", liv, sd))
      town  == Cardinality(On("town", liv, sd))
  IN  \/ On("mafia", liv, sd) \cup On("sleeper", liv, sd) = {}
      \/ mafia > town
      \/ mafia = 1 /\ town = 1

Init ==
  /\ stage = "gathering"
  /\ seated = {}
  /\ side = [p \in Player |-> "unknown"]
  /\ living = {}

Gather(p) ==
  /\ stage = "gathering"
  /\ seated' = seated \cup {p}
  /\ living' = seated'
  /\ UNCHANGED <<stage, side>>

(* The town starts with a strict majority, the mafia with a member. *)
Deal ==
  /\ stage = "gathering"
  /\ stage' = "dealt"
  /\ side' \in [Player -> Side]
  /\ \A p \in Player : side'[p] = "unknown" <=> p \notin seated
  /\ On("mafia", seated, side') # {}
  /\ Cardinality(On("sleeper", seated, side')) <= 1
  /\ 2 * Cardinality(On("town", seated, side')) > Cardinality(seated)
  /\ UNCHANGED <<seated, living>>

Begin ==
  /\ stage = "dealt"
  /\ stage' = "running"
  /\ UNCHANGED <<seated, side, living>>

Turn(S) == [p \in Player |-> IF p \in S THEN "mafia" ELSE side[p]]

(* The sleepers who take over once the dead and the turned are known. *)
Heirs(liv, sd) == IF On("mafia", liv, sd) = {} THEN On("sleeper", liv, sd) ELSE {}

(* One or two die.  A mafioso may die to turn a living player. *)
Deaths ==
  /\ stage = "running"
  /\ living' \subseteq living
  /\ Cardinality(living \ living') \in 1 .. 2
  /\ \E turned \in SUBSET living' :
       /\ Cardinality(turned) <= 1
       /\ turned # {} => On("mafia", living \ living', side) # {}
       /\ side' = Turn(turned \cup Heirs(living', Turn(turned)))
  /\ stage' = IF Won(living', side') THEN "over" ELSE "running"
  /\ UNCHANGED seated

PlayAgain ==
  /\ stage = "over"
  /\ stage' = "gathering"
  /\ side' = [p \in Player |-> "unknown"]
  /\ living' = seated
  /\ UNCHANGED seated

Next ==
  \/ \E p \in Player : Gather(p)
  \/ Deal
  \/ Begin
  \/ Deaths
  \/ PlayAgain

Spec == Init /\ [][Next]_gameVars

===============================================================================
