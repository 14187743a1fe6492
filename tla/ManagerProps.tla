------------------------------ MODULE ManagerProps -----------------------------
(* What the manager promises: the properties of Manager.                   *)
EXTENDS Manager

Stages == {"unused", "running", "stopping", "done", "removed", "gone"}

(* The type of every variable. *)
TypeOK ==
  /\ DOMAIN rooms \subseteq Code
  /\ \A k \in DOMAIN rooms : rooms[k] \in Room
  /\ stopped \in BOOLEAN
  /\ sweeping \subseteq Room /\ old \subseteq Room /\ waiting \subseteq Room
  /\ active \in Int
  /\ stage \in [Room -> Stages]
  /\ code \in [Room -> Code \cup {NoCode}]
  /\ inbox \in [Room -> Seq({"check", "other"})]
  /\ \A r \in Room : Len(inbox[r]) <= InboxCap
  /\ people \in [Room -> {"some", "none", "gone"}]
  /\ process \in {"serving", "draining", "closing", "waiting", "exited"}
  /\ requests \in 0 .. MaxRequests

Counted == {r \in Room : stage[r] \notin {"unused", "gone"}}

(* A room can be found under its code for exactly as long as it may still  *)
(* do something: its removal, by code and in a goroutine of its own, never *)
(* takes another room's entry, and no room lives on unregistered, out of   *)
(* the cap's and the sweeper's reach (manager.go:133, :217).  The gauge    *)
(* follows.                                                                *)
LiveRoomsAreRegistered ==
  /\ \A r \in Room :
       stage[r] \in {"running", "stopping", "done"} =>
         code[r] \in DOMAIN rooms /\ rooms[code[r]] = r
  /\ \A k \in DOMAIN rooms : stage[rooms[k]] \in {"running", "stopping", "done"}
  /\ Cardinality({r \in Room : Looping(r)}) <= MaxRooms
  /\ active = Cardinality(Counted)

(* When main has waited for the rooms it knows of, no room of the process  *)
(* is still running (main.go:135, manager.go:173).                         *)
CleanShutdown ==
  process = "exited" /\ waiting = {} => \A r \in Room : ~Looping(r)

Unwanted(r) == r \in old \/ people[r] = "gone"

(* A room past its lifetime, or that everybody has left, is taken out of   *)
(* the registry, unless somebody comes back in time (manager.go:236).      *)
UnwantedRoomsGo ==
  \A r \in Room :
    (stage[r] = "running" /\ Unwanted(r)) ~>
      (stage[r] = "gone" \/ (stage[r] = "running" /\ ~Unwanted(r)) \/ ~Up)
===============================================================================
