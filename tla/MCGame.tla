-------------------------------- MODULE MCGame --------------------------------
(***************************************************************************)
(* A whole small room: lobby, deal, nights, days, reset.  Spec takes every *)
(* input the engine accepts; BlocSpec, for a larger room, lets the living  *)
(* of a day vote for one and the same player only and neither retract nor  *)
(* abstain (how often each lynch is reached, not whether, is what that     *)
(* leaves out).                                                            *)
(***************************************************************************)
EXTENDS MafiaGameProps, TLC

(* The players are interchangeable. *)
Symmetry == Permutations(Player)

BlocVote(v, t) ==
  /\ \A w \in Player : votes[w] \in {NoPlayer, t}
  /\ DayVote(v, t)

BlocNext ==
  \/ LobbyNext
  \/ NightNext
  \/ OpenVoting
  \/ \E v, t \in Player : BlocVote(v, t)
  \/ RevealVotes
  \/ ClearVotes
  \/ FinalizeVotes

BlocSpec == Init /\ [][BlocNext]_vars

===============================================================================
