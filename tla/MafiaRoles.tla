------------------------------ MODULE MafiaRoles ------------------------------
(***************************************************************************)
(* The role registry of the game engine: role.go and rolespec.go.  Every   *)
(* per-role fact the engine branches on is one operator here, so that the  *)
(* rules ask "which faction" and "may it pass" the way the code asks the   *)
(* roleSpecs map.                                                          *)
(***************************************************************************)

Villager  == "villager"
Mafia     == "mafia"
Doctor    == "doctor"
Detective == "detective"
Consort   == "consort"
Vigilante == "vigilante"
Yakuza    == "yakuza"
Tracker   == "tracker"

NoRole == ""          \* the zero value: before the deal, and between turns

Role == {Villager, Mafia, Doctor, Detective,
         Consort, Vigilante, Yakuza, Tracker}

(* Roles the host may toggle on; each takes the seat of a villager. *)
OptionalRole == {Consort, Vigilante, Yakuza, Tracker}

FactionTown    == "faction town"
FactionMafia   == "faction mafia"
FactionConsort == "faction consort"

(* Role.Faction: an unknown role (NoRole) falls back to the town. *)
Faction(r) ==
  IF r \in {Mafia, Yakuza} THEN FactionMafia
  ELSE IF r = Consort THEN FactionConsort
  ELSE FactionTown

(* Faction.MafiaAligned: who wins with the mafia. *)
MafiaAligned(r) == Faction(r) \in {FactionMafia, FactionConsort}

(* roleSpecs[r].NightAction # nil *)
HasNightAction(r) == r \in Role \ {Villager}

(* nightActionSpec.AllowPass: only the vigilante may hold fire. *)
AllowPass(r) == r = Vigilante

(* nightActionSpec.Validate, less the "bullet already spent" clause, which *)
(* reads the game state (see GameState!MayTarget).                         *)
RejectsSelfTarget(r) == r \in {Consort, Detective, Tracker, Vigilante}
RejectsMafioso(r)    == r \in {Mafia, Yakuza}

===============================================================================
