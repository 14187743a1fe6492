--------------------------------- MODULE Manager -------------------------------
(***************************************************************************)
(* The rooms of a process: the registry that creates, finds and reaps them *)
(* (room/manager.go), the two policies by which a room reaps itself        *)
(* (handleLifetimeCheck in room/room.go), and main's shutdown around them  *)
(* (cmd/server/main.go).                                                   *)
(*                                                                         *)
(* Each room runs two goroutines, its loop and the one that removes it     *)
(* from the registry; the sweeper is another, and so is every request that *)
(* creates a room.  CreateRoom, Get, the sweeper's snapshot, Close's and   *)
(* the removal hold the mutex, so each is one step.                        *)
(*                                                                         *)
(* Time is two thresholds a room may pass, MaxLifetime and EmptyTTL, and   *)
(* the deadline of main's shutdown.                                        *)
(***************************************************************************)
EXTENDS Integers, FiniteSets, Sequences

CONSTANTS
  Room,          \* rooms the process can create, each used once
  Code,          \* the room codes
  MaxRooms,      \* maxRooms
  InboxCap,      \* inboxCapacity
  MaxRequests,   \* bound: POST /api/rooms requests in flight at a time
  MaxMessages    \* bound: messages the connections submit in all

ASSUME ManagerAssumption ==
  /\ {MaxRooms, InboxCap, MaxRequests, MaxMessages} \subseteq Nat \ {0}
  /\ IsFiniteSet(Room) /\ IsFiniteSet(Code)

VARIABLES
  (* the Manager *)
  rooms,        \* the registry: code to room
  stopped,      \* is the manager's context cancelled
  sweeping,     \* the rooms of the sweeper's snapshot it has yet to nudge
  active,       \* the rooms.active gauge
  (* the Rooms *)
  stage,        \* "unused", "running", "stopping" (context cancelled), "done",
                \* "removed" (from the registry), "gone" (and counted out)
  code,
  inbox,        \* "check" (inLifetimeCheck) and "other" messages
  old,          \* the rooms past MaxLifetime, while they run
  people,       \* "some", "none", or "gone" (none for EmptyTTL)
  messages,     \* bound: what is left of MaxMessages
  (* main *)
  process,      \* "serving", "draining", "closing", "waiting", "exited"
  requests,     \* the creating requests in flight
  waiting       \* the rooms Close has yet to wait for

managerVars == <<rooms, stopped, sweeping, active>>
roomVars    == <<stage, code, inbox, old, people, messages>>
mainVars    == <<process, requests, waiting>>
vars == <<managerVars, roomVars, mainVars>>

Up == process # "exited"

Registered == {rooms[k] : k \in DOMAIN rooms}
Looping(r) == stage[r] \in {"running", "stopping"}

NoCode == "no code"

-------------------------------------------------------------------------------
(* CreateRoom and the requests that call it. *)

(* The server accepts until it is told to shut down. *)
RequestArrives ==
  /\ process = "serving"
  /\ requests < MaxRequests
  /\ requests' = requests + 1
  /\ UNCHANGED <<managerVars, roomVars, process, waiting>>

(* Mutant: codes are not checked against the registry. *)
AnyCode == Code

(* The codes allocCodeLocked may return. *)
FreeCodes == Code \ DOMAIN rooms

(* A room created under a cancelled context stops at once. *)
CreateRoom(r, k) ==
  /\ Up
  /\ requests > 0
  /\ stage[r] = "unused"
  /\ Cardinality(DOMAIN rooms) < MaxRooms
  /\ k \in FreeCodes
  /\ rooms' = [c \in DOMAIN rooms \cup {k} |-> IF c = k THEN r ELSE rooms[c]]
  /\ active' = active + 1
  /\ stage' = [stage EXCEPT ![r] = IF stopped THEN "stopping" ELSE "running"]
  /\ code' = [code EXCEPT ![r] = k]
  /\ requests' = requests - 1
  /\ UNCHANGED <<stopped, sweeping, inbox, old, people, messages, process, waiting>>

(* At capacity, or no free code in maxCodeAttempts draws. *)
RefuseRoom ==
  /\ Up
  /\ requests > 0
  /\ Cardinality(DOMAIN rooms) >= MaxRooms \/ DOMAIN rooms # {}
  /\ requests' = requests - 1
  /\ UNCHANGED <<managerVars, roomVars, process, waiting>>

-------------------------------------------------------------------------------
(* A room's life: who is in it, its clocks, its loop. *)

(* A player attaches, or the last one is detached, as some message is      *)
(* handled; the empty-room clock starts and stops with it.                 *)
HandleOther(r) ==
  /\ Up
  /\ Looping(r)
  /\ inbox[r] # <<>>
  /\ Head(inbox[r]) = "other"
  /\ inbox' = [inbox EXCEPT ![r] = Tail(@)]
  /\ \E now \in {people[r], "some", IF people[r] = "some" THEN "none" ELSE people[r]} :
       people' = [people EXCEPT ![r] = now]
  /\ UNCHANGED <<managerVars, stage, code, old, messages, mainVars>>

(* Submit: any connection that found the room.  The select may still send  *)
(* after the cancel, if the look at the context came before it; once the   *)
(* loop has ended nothing reads what is sent (RunEnds).                    *)
SubmitOther(r) ==
  /\ Up
  /\ Looping(r)
  /\ Len(inbox[r]) < InboxCap
  /\ messages > 0
  /\ messages' = messages - 1
  /\ inbox' = [inbox EXCEPT ![r] = Append(@, "other")]
  /\ UNCHANGED <<managerVars, stage, code, old, people, mainVars>>

(* Mutant: only the hard cap is looked at. *)
ExpiredByAge(r) == r \in old

(* handleLifetimeCheck: both policies are judged here, on the room's state *)
(* now, not when the sweeper asked.                                        *)
Expired(r) == r \in old \/ people[r] = "gone"

HandleLifetimeCheck(r) ==
  /\ Up
  /\ Looping(r)
  /\ inbox[r] # <<>>
  /\ Head(inbox[r]) = "check"
  /\ inbox' = [inbox EXCEPT ![r] = Tail(@)]
  /\ stage' = [stage EXCEPT ![r] = IF Expired(r) THEN "stopping" ELSE @]
  /\ UNCHANGED <<managerVars, code, old, people, messages, mainVars>>

(* Run disconnects everyone and closes done; what its inbox holds is never *)
(* read.                                                                   *)
RunEnds(r) ==
  /\ stage' = [stage EXCEPT ![r] = "done"]
  /\ people' = [people EXCEPT ![r] = "none"]
  /\ inbox' = [inbox EXCEPT ![r] = <<>>]
  /\ old' = old \ {r}
  /\ UNCHANGED <<managerVars, code, messages, mainVars>>

(* It has seen its context cancelled, or has panicked once too often.      *)
RunExits(r) ==
  /\ Up
  /\ stage[r] = "stopping"
  /\ RunEnds(r)

CrashLoop(r) ==
  /\ Up
  /\ Looping(r)
  /\ RunEnds(r)

(* reapWhenDone: the removal under the mutex, then the gauge. *)
ReapWhenDone(r) ==
  /\ Up
  /\ stage[r] = "done"
  /\ stage' = [stage EXCEPT ![r] = "removed"]
  /\ rooms' = [k \in DOMAIN rooms \ {code[r]} |-> rooms[k]]
  /\ UNCHANGED <<stopped, sweeping, active, code, inbox, old, people, messages, mainVars>>

RecordRoomClosed(r) ==
  /\ Up
  /\ stage[r] = "removed"
  /\ stage' = [stage EXCEPT ![r] = "gone"]
  /\ active' = active - 1
  /\ UNCHANGED <<rooms, stopped, sweeping, code, inbox, old, people, messages, mainVars>>

(* MaxLifetime passes, and EmptyTTL since the last player left. *)
GrowsOld(r) ==
  /\ Up
  /\ Looping(r)
  /\ r \notin old
  /\ old' = old \cup {r}
  /\ UNCHANGED <<managerVars, stage, code, inbox, people, messages, mainVars>>

StaysEmpty(r) ==
  /\ Up
  /\ Looping(r)
  /\ people[r] = "none"
  /\ people' = [people EXCEPT ![r] = "gone"]
  /\ UNCHANGED <<managerVars, stage, code, inbox, old, messages, mainVars>>

-------------------------------------------------------------------------------
(* The sweeper. *)

(* A tick: the snapshot. *)
SweepOnce ==
  /\ Up
  /\ ~stopped
  /\ sweeping = {}
  /\ Registered # {}
  /\ sweeping' = Registered
  /\ UNCHANGED <<rooms, stopped, active, roomVars, mainVars>>

(* Mutant: the push does not mind a full inbox. *)
NudgeAnyway(r) ==
  /\ Up
  /\ r \in sweeping
  /\ Looping(r)
  /\ inbox' = [inbox EXCEPT ![r] = Append(@, "check")]
  /\ sweeping' = sweeping \ {r}
  /\ UNCHANGED <<rooms, stopped, active, stage, code, old, people, messages, mainVars>>

(* requestLifetimeCheck: lands ... *)
Nudge(r) ==
  /\ Up
  /\ r \in sweeping
  /\ Looping(r)
  /\ Len(inbox[r]) < InboxCap
  /\ inbox' = [inbox EXCEPT ![r] = Append(@, "check")]
  /\ sweeping' = sweeping \ {r}
  /\ UNCHANGED <<rooms, stopped, active, stage, code, old, people, messages, mainVars>>

(* ... or is skipped, for a full inbox or a room that is closing. *)
SkipNudge(r) ==
  /\ Up
  /\ r \in sweeping
  /\ Len(inbox[r]) = InboxCap \/ stage[r] # "running"
  /\ sweeping' = sweeping \ {r}
  /\ UNCHANGED <<rooms, stopped, active, roomVars, mainVars>>

-------------------------------------------------------------------------------
(* main: a signal, srv.Shutdown, mgr.Close. *)

Signal ==
  /\ process = "serving"
  /\ process' = "draining"
  /\ UNCHANGED <<managerVars, roomVars, requests, waiting>>

(* Mutant: the manager is closed while requests are being served. *)
CloseWithoutDraining ==
  /\ process = "draining"
  /\ process' = "closing"
  /\ UNCHANGED <<managerVars, roomVars, requests, waiting>>

(* srv.Shutdown returns when the last request does ... *)
Drained ==
  /\ process = "draining"
  /\ requests = 0
  /\ process' = "closing"
  /\ UNCHANGED <<managerVars, roomVars, requests, waiting>>

(* Close cancels every room's context through its own, and then looks who  *)
(* is registered.                                                          *)
Close ==
  /\ process = "closing"
  /\ ~stopped
  /\ stopped' = TRUE
  /\ stage' = [r \in Room |-> IF stage[r] = "running" THEN "stopping" ELSE stage[r]]
  /\ UNCHANGED <<rooms, sweeping, active, code, inbox, old, people, messages, mainVars>>

Snapshot ==
  /\ process = "closing"
  /\ stopped
  /\ process' = "waiting"
  /\ waiting' = Registered
  /\ UNCHANGED <<managerVars, roomVars, requests>>

AwaitRoom(r) ==
  /\ process = "waiting"
  /\ r \in waiting
  /\ ~Looping(r)
  /\ waiting' = waiting \ {r}
  /\ UNCHANGED <<managerVars, roomVars, process, requests>>

Exit ==
  /\ process = "waiting"
  /\ waiting = {}
  /\ process' = "exited"
  /\ UNCHANGED <<managerVars, roomVars, requests, waiting>>

(* ... or the ten seconds pass: main exits without closing the manager, or *)
(* Close returns early.                                                    *)
DeadlinePasses ==
  /\ process \in {"draining", "waiting"}
  /\ process' = "exited"
  /\ IF process = "waiting" THEN waiting # {} /\ UNCHANGED waiting
     ELSE requests > 0 /\ waiting' = Registered
  /\ UNCHANGED <<managerVars, roomVars, requests>>

-------------------------------------------------------------------------------
Init ==
  /\ rooms = [k \in {} |-> CHOOSE r \in Room : TRUE]
  /\ stopped = FALSE
  /\ sweeping = {}
  /\ active = 0
  /\ stage = [r \in Room |-> "unused"]
  /\ code = [r \in Room |-> NoCode]
  /\ inbox = [r \in Room |-> <<>>]
  /\ old = {}
  /\ people = [r \in Room |-> "none"]
  /\ messages = MaxMessages
  /\ process = "serving"
  /\ requests = 0
  /\ waiting = {}

RoomStep(r) ==
  \/ HandleOther(r) \/ HandleLifetimeCheck(r) \/ RunExits(r) \/ CrashLoop(r)
  \/ ReapWhenDone(r) \/ RecordRoomClosed(r)
  \/ SubmitOther(r) \/ GrowsOld(r) \/ StaysEmpty(r)

Sweeper == SweepOnce \/ \E r \in Room : Nudge(r) \/ SkipNudge(r)

Main ==
  \/ RequestArrives \/ RefuseRoom \/ \E r \in Room, k \in Code : CreateRoom(r, k)
  \/ Signal \/ Drained \/ Close \/ Snapshot \/ Exit \/ DeadlinePasses
  \/ \E r \in Room : AwaitRoom(r)

Next == Sweeper \/ Main \/ \E r \in Room : RoomStep(r)

Spec == Init /\ [][Next]_vars

(* Goroutines that can run do, and the sweeper's ticker ticks.  Nothing is *)
(* assumed of players, requests and time; but players send finitely many   *)
(* messages, so no inbox is full at every tick for ever.                   *)
Fairness ==
  /\ WF_vars(SweepOnce)
  /\ WF_vars(Close)
  /\ \A r \in Room :
       /\ WF_vars(Nudge(r))
       /\ WF_vars(SkipNudge(r))
       /\ WF_vars(HandleOther(r) \/ HandleLifetimeCheck(r))
       /\ WF_vars(RunExits(r))
       /\ WF_vars(ReapWhenDone(r))
       /\ WF_vars(RecordRoomClosed(r))

FairSpec == Spec /\ Fairness
===============================================================================
