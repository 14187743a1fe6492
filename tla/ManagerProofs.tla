------------------------------ MODULE ManagerProofs ----------------------------
(***************************************************************************)
(* Theorems about the registry of rooms and the process's shutdown, for    *)
(* all finite sets of rooms and codes, every capacity, inbox and bound.    *)
(***************************************************************************)
EXTENDS ManagerProps, FunctionTheorems, FiniteSetTheorems, TLAPS

(* The registry and the rooms agree, in both directions: a room that may   *)
(* still do something is found under its code, and the room found under a  *)
(* code has that code.  Without the second, the removal of one room could  *)
(* leave another code pointing at it.                                      *)
Enrolled(r) == stage[r] \in {"running", "stopping", "done"}

RegistryInv ==
  /\ \A r \in Room : Enrolled(r) => code[r] \in DOMAIN rooms /\ rooms[code[r]] = r
  /\ \A k \in DOMAIN rooms : Enrolled(rooms[k]) /\ code[rooms[k]] = k

(* The registry never outgrows its capacity. *)
CapacityInv == IsFiniteSet(DOMAIN rooms) /\ Cardinality(DOMAIN rooms) <= MaxRooms

GaugeInv == active = Cardinality(Counted)

(* The registry is read for the last time when no request can create a     *)
(* room any more: who loops afterwards was seen.                           *)
ShutdownInv ==
  /\ process \in {"closing", "waiting"} => requests = 0
  /\ process = "waiting" => \A r \in Room : Looping(r) => r \in waiting
  /\ CleanShutdown

ManagerInv == TypeOK /\ RegistryInv /\ CapacityInv /\ GaugeInv /\ ShutdownInv

-------------------------------------------------------------------------------
(* An inbox within its capacity after one push or one pop. *)
LEMMA PushFits ==
  ASSUME NEW q \in Seq({"check", "other"}), Len(q) < InboxCap, NEW m \in {"check", "other"}
  PROVE  Append(q, m) \in Seq({"check", "other"}) /\ Len(Append(q, m)) <= InboxCap
  BY ManagerAssumption

LEMMA PopFits ==
  ASSUME NEW q \in Seq({"check", "other"}), Len(q) <= InboxCap, q # <<>>
  PROVE  Tail(q) \in Seq({"check", "other"}) /\ Len(Tail(q)) <= InboxCap
  BY ManagerAssumption

LEMMA EmptyFits == <<>> \in Seq({"check", "other"}) /\ Len(<<>>) <= InboxCap
<1>1. Len(<<>>) = 0
  OBVIOUS
<1> QED BY <1>1, ManagerAssumption

LEMMA TypeInit == Init => TypeOK
<1> SUFFICES ASSUME Init PROVE TypeOK
  OBVIOUS
<1>1. DOMAIN rooms = {}
  BY DEF Init
<1>2. 0 \in 0 .. MaxRequests
  BY ManagerAssumption
<1>3. /\ stage \in [Room -> Stages] /\ code \in [Room -> Code \cup {NoCode}]
      /\ people \in [Room -> {"some", "none", "gone"}]
  BY DEF Init, Stages
<1>4. /\ inbox \in [Room -> Seq({"check", "other"})]
      /\ \A r \in Room : Len(inbox[r]) <= InboxCap
  BY EmptyFits DEF Init
<1>5. active \in Int /\ requests \in 0 .. MaxRequests
  BY <1>2 DEF Init
<1>6. stopped \in BOOLEAN
  BY DEF Init
<1>7. /\ sweeping \subseteq Room /\ old \subseteq Room /\ waiting \subseteq Room
      /\ process \in {"serving", "draining", "closing", "waiting", "exited"}
  BY DEF Init
<1> QED BY <1>1, <1>2, <1>3, <1>4, <1>5, <1>6, <1>7 DEF TypeOK

(* What a room's own steps do to the types. *)
LEMMA TypeRoom ==
  ASSUME TypeOK, NEW r \in Room, RoomStep(r)
  PROVE  TypeOK'
<1> USE ManagerAssumption DEF TypeOK, Stages, managerVars, roomVars, mainVars
<1>1. CASE HandleOther(r) \/ HandleLifetimeCheck(r)
  <2>1. inbox[r] # <<>> /\ inbox' = [inbox EXCEPT ![r] = Tail(@)]
    BY <1>1 DEF HandleOther, HandleLifetimeCheck
  <2>2. /\ inbox' \in [Room -> Seq({"check", "other"})]
        /\ \A q \in Room : Len(inbox'[q]) <= InboxCap
    BY <2>1, PopFits
  <2>3. CASE HandleOther(r)
    <3>1. people' \in [Room -> {"some", "none", "gone"}]
      BY <2>3 DEF HandleOther
    <3> QED BY <2>2, <2>3, <3>1 DEF HandleOther
  <2>4. CASE HandleLifetimeCheck(r)
    BY <2>2, <2>4 DEF HandleLifetimeCheck
  <2> QED BY <1>1, <2>3, <2>4
<1>2. CASE SubmitOther(r)
  <2>1. Len(inbox[r]) < InboxCap /\ inbox' = [inbox EXCEPT ![r] = Append(@, "other")]
    BY <1>2 DEF SubmitOther
  <2>2. /\ inbox' \in [Room -> Seq({"check", "other"})]
        /\ \A q \in Room : Len(inbox'[q]) <= InboxCap
    BY <2>1, PushFits
  <2> QED BY <1>2, <2>2 DEF SubmitOther
<1>3. CASE RunExits(r) \/ CrashLoop(r)
  <2>1. RunEnds(r)
    BY <1>3 DEF RunExits, CrashLoop
  <2>2. /\ inbox' \in [Room -> Seq({"check", "other"})]
        /\ \A q \in Room : Len(inbox'[q]) <= InboxCap
    BY <2>1, EmptyFits DEF RunEnds
  <2> QED BY <2>1, <2>2 DEF RunEnds
<1>4. CASE ReapWhenDone(r)
  BY <1>4 DEF ReapWhenDone
<1>5. CASE RecordRoomClosed(r)
  BY <1>5 DEF RecordRoomClosed
<1>6. CASE GrowsOld(r) \/ StaysEmpty(r)
  BY <1>6 DEF GrowsOld, StaysEmpty
<1> QED BY <1>1, <1>2, <1>3, <1>4, <1>5, <1>6 DEF RoomStep

LEMMA TypeSweeper ==
  ASSUME TypeOK, Sweeper
  PROVE  TypeOK'
<1> USE DEF TypeOK, roomVars, mainVars
<1>1. CASE SweepOnce
  BY <1>1 DEF SweepOnce, Registered
<1>2. ASSUME NEW r \in Room, Nudge(r)
      PROVE  TypeOK'
  <2>1. Len(inbox[r]) < InboxCap /\ inbox' = [inbox EXCEPT ![r] = Append(@, "check")]
    BY <1>2 DEF Nudge
  <2>2. /\ inbox' \in [Room -> Seq({"check", "other"})]
        /\ \A q \in Room : Len(inbox'[q]) <= InboxCap
    BY <2>1, PushFits
  <2> QED BY <1>2, <2>2 DEF Nudge
<1>3. ASSUME NEW r \in Room, SkipNudge(r)
      PROVE  TypeOK'
  BY <1>3 DEF SkipNudge
<1> QED BY <1>1, <1>2, <1>3 DEF Sweeper

LEMMA TypeMain ==
  ASSUME TypeOK, Main
  PROVE  TypeOK'
<1> USE ManagerAssumption DEF TypeOK, Stages, managerVars, roomVars
<1>1. CASE RequestArrives \/ RefuseRoom
  BY <1>1 DEF RequestArrives, RefuseRoom
<1>2. ASSUME NEW r \in Room, NEW k \in Code, CreateRoom(r, k)
      PROVE  TypeOK'
  <2>1. DOMAIN rooms' \subseteq Code /\ \A c \in DOMAIN rooms' : rooms'[c] \in Room
    BY <1>2 DEF CreateRoom
  <2>2. stage' \in [Room -> Stages] /\ code' \in [Room -> Code \cup {NoCode}]
    BY <1>2 DEF CreateRoom
  <2> QED BY <1>2, <2>1, <2>2 DEF CreateRoom
<1>3. CASE Signal \/ Drained \/ Exit
  BY <1>3 DEF Signal, Drained, Exit
<1>4. CASE Close
  BY <1>4 DEF Close, mainVars
<1>5. CASE Snapshot \/ DeadlinePasses
  BY <1>5 DEF Snapshot, DeadlinePasses, Registered
<1>6. ASSUME NEW r \in Room, AwaitRoom(r)
      PROVE  TypeOK'
  BY <1>6 DEF AwaitRoom
<1> QED BY <1>1, <1>2, <1>3, <1>4, <1>5, <1>6 DEF Main

LEMMA TypeStep == TypeOK /\ [Next]_vars => TypeOK'
<1>1. TypeOK /\ UNCHANGED vars => TypeOK'
  BY DEF TypeOK, vars, managerVars, roomVars, mainVars
<1> QED BY <1>1, TypeRoom, TypeSweeper, TypeMain DEF Next

-------------------------------------------------------------------------------
(* Steps that leave the registry alone and enrol or discharge nobody keep  *)
(* it in order.                                                            *)
LEMMA RegistryKept ==
  ASSUME RegistryInv, UNCHANGED <<rooms, code>>,
         \A r \in Room : Enrolled(r)' <=> Enrolled(r),
         \A k \in DOMAIN rooms : rooms[k] \in Room
  PROVE  RegistryInv'
  BY DEF RegistryInv

LEMMA RegistryStep ==
  ASSUME TypeOK, RegistryInv, Next
  PROVE  RegistryInv'
<1>1. ASSUME NEW r \in Room, NEW k \in Code, CreateRoom(r, k)
      PROVE  RegistryInv'
  <2>1. /\ k \notin DOMAIN rooms /\ ~Enrolled(r)
        /\ DOMAIN rooms' = DOMAIN rooms \cup {k}
        /\ rooms'[k] = r /\ \A c \in DOMAIN rooms : rooms'[c] = rooms[c]
    BY <1>1 DEF CreateRoom, FreeCodes, Enrolled
  <2>2. /\ code'[r] = k /\ \A q \in Room \ {r} : code'[q] = code[q]
        /\ Enrolled(r)' /\ \A q \in Room \ {r} : Enrolled(q)' <=> Enrolled(q)
    BY <1>1 DEF CreateRoom, Enrolled, TypeOK
  <2>3. \A c \in DOMAIN rooms : rooms[c] \in Room \ {r}
    BY <2>1 DEF RegistryInv, TypeOK
  <2> QED BY <2>1, <2>2, <2>3 DEF RegistryInv
<1>2. ASSUME NEW r \in Room, ReapWhenDone(r)
      PROVE  RegistryInv'
  <2>1. /\ code[r] \in DOMAIN rooms /\ rooms[code[r]] = r
        /\ UNCHANGED code
        /\ DOMAIN rooms' = DOMAIN rooms \ {code[r]}
        /\ \A c \in DOMAIN rooms' : rooms'[c] = rooms[c]
    BY <1>2 DEF ReapWhenDone, RegistryInv, Enrolled
  <2>2. /\ ~Enrolled(r)'
        /\ \A q \in Room \ {r} : Enrolled(q)' <=> Enrolled(q)
    BY <1>2 DEF ReapWhenDone, Enrolled, TypeOK
  <2>3. \A c \in DOMAIN rooms' : rooms[c] \in Room \ {r}
    BY <2>1 DEF RegistryInv, TypeOK
  <2> QED BY <2>1, <2>2, <2>3 DEF RegistryInv
<1>3. ASSUME NEW r \in Room,
             \/ HandleOther(r) \/ HandleLifetimeCheck(r) \/ RunExits(r) \/ CrashLoop(r)
             \/ RecordRoomClosed(r) \/ SubmitOther(r) \/ GrowsOld(r) \/ StaysEmpty(r)
      PROVE  RegistryInv'
  <2>1. UNCHANGED <<rooms, code>>
    BY <1>3 DEF HandleOther, HandleLifetimeCheck, RunExits, CrashLoop, RunEnds,
                RecordRoomClosed, SubmitOther, GrowsOld, StaysEmpty, managerVars, roomVars
  <2>2. \A q \in Room : Enrolled(q)' <=> Enrolled(q)
    BY <1>3 DEF HandleOther, HandleLifetimeCheck, RunExits, CrashLoop, RunEnds, Looping,
                RecordRoomClosed, SubmitOther, GrowsOld, StaysEmpty, Enrolled, TypeOK
  <2> QED BY <2>1, <2>2, RegistryKept DEF TypeOK
<1>4. CASE Sweeper \/ RequestArrives \/ RefuseRoom \/ Signal \/ Drained \/ Close \/ Snapshot
           \/ Exit \/ DeadlinePasses \/ \E r \in Room : AwaitRoom(r)
  <2>1. UNCHANGED <<rooms, code>>
    BY <1>4 DEF Sweeper, SweepOnce, Nudge, SkipNudge, RequestArrives, RefuseRoom, Signal,
                Drained, Close, Snapshot, Exit, DeadlinePasses, AwaitRoom,
                managerVars, roomVars
  <2>2. \A q \in Room : Enrolled(q)' <=> Enrolled(q)
    BY <1>4 DEF Sweeper, SweepOnce, Nudge, SkipNudge, RequestArrives, RefuseRoom, Signal,
                Drained, Close, Snapshot, Exit, DeadlinePasses, AwaitRoom, Enrolled,
                roomVars, TypeOK
  <2> QED BY <2>1, <2>2, RegistryKept DEF TypeOK
<1> QED BY <1>1, <1>2, <1>3, <1>4 DEF Next, Main, RoomStep

-------------------------------------------------------------------------------
(* Only CreateRoom adds a code, one and below the capacity; only           *)
(* reapWhenDone takes one away.                                            *)
LEMMA CapacityStep ==
  ASSUME CapacityInv, Next
  PROVE  CapacityInv'
<1>1. ASSUME NEW r \in Room, NEW k \in Code, CreateRoom(r, k)
      PROVE  CapacityInv'
  <2>1. /\ DOMAIN rooms' = DOMAIN rooms \cup {k}
        /\ k \notin DOMAIN rooms /\ Cardinality(DOMAIN rooms) < MaxRooms
    BY <1>1 DEF CreateRoom, FreeCodes
  <2>2. /\ IsFiniteSet(DOMAIN rooms')
        /\ Cardinality(DOMAIN rooms') = Cardinality(DOMAIN rooms) + 1
    BY <2>1, FS_AddElement DEF CapacityInv
  <2>3. Cardinality(DOMAIN rooms) \in Nat /\ MaxRooms \in Nat
    BY FS_CardinalityType, ManagerAssumption DEF CapacityInv
  <2> QED BY <2>1, <2>2, <2>3 DEF CapacityInv
<1>2. ASSUME NEW r \in Room, ReapWhenDone(r)
      PROVE  CapacityInv'
  <2>1. DOMAIN rooms' = DOMAIN rooms \ {code[r]}
    BY <1>2 DEF ReapWhenDone
  <2>2. /\ IsFiniteSet(DOMAIN rooms')
        /\ Cardinality(DOMAIN rooms') <= Cardinality(DOMAIN rooms)
    BY <2>1, FS_Subset DEF CapacityInv
  <2>3. /\ Cardinality(DOMAIN rooms) \in Nat /\ Cardinality(DOMAIN rooms') \in Nat
        /\ MaxRooms \in Nat
    BY <2>2, FS_CardinalityType, ManagerAssumption DEF CapacityInv
  <2> QED BY <2>2, <2>3 DEF CapacityInv
<1>3. ASSUME UNCHANGED rooms
      PROVE  CapacityInv'
  BY <1>3 DEF CapacityInv
<1>4. ASSUME NEW r \in Room,
             \/ HandleOther(r) \/ HandleLifetimeCheck(r) \/ RunExits(r) \/ CrashLoop(r)
             \/ RecordRoomClosed(r) \/ SubmitOther(r) \/ GrowsOld(r) \/ StaysEmpty(r)
      PROVE  UNCHANGED rooms
  BY <1>4 DEF HandleOther, HandleLifetimeCheck, RunExits, CrashLoop, RunEnds,
              RecordRoomClosed, SubmitOther, GrowsOld, StaysEmpty, managerVars
<1>5. ASSUME \/ Sweeper \/ RequestArrives \/ RefuseRoom \/ Signal \/ Drained \/ Close
             \/ Snapshot \/ Exit \/ DeadlinePasses \/ \E r \in Room : AwaitRoom(r)
      PROVE  UNCHANGED rooms
  BY <1>5 DEF Sweeper, SweepOnce, Nudge, SkipNudge, RequestArrives, RefuseRoom, Signal,
              Drained, Close, Snapshot, Exit, DeadlinePasses, AwaitRoom, managerVars
<1> QED BY <1>1, <1>2, <1>3, <1>4, <1>5 DEF Next, Main, RoomStep

(* A room is counted from its creation until it is counted out. *)
LEMMA CountedFinite == IsFiniteSet(Counted) /\ Cardinality(Counted) \in Nat
<1>1. Counted \subseteq Room
  BY DEF Counted
<1> QED BY <1>1, FS_Subset, FS_CardinalityType, ManagerAssumption

LEMMA GaugeStep ==
  ASSUME TypeOK, GaugeInv, Next
  PROVE  GaugeInv'
<1>1. ASSUME NEW r \in Room, NEW k \in Code, CreateRoom(r, k)
      PROVE  GaugeInv'
  <2>1. r \notin Counted /\ Counted' = Counted \cup {r} /\ active' = active + 1
    BY <1>1 DEF CreateRoom, Counted, TypeOK
  <2>2. Cardinality(Counted') = Cardinality(Counted) + 1
    BY <2>1, CountedFinite, FS_AddElement
  <2> QED BY <2>1, <2>2 DEF GaugeInv
<1>2. ASSUME NEW r \in Room, RecordRoomClosed(r)
      PROVE  GaugeInv'
  <2>1. r \in Counted /\ Counted' = Counted \ {r} /\ active' = active - 1
    BY <1>2 DEF RecordRoomClosed, Counted, TypeOK
  <2>2. Cardinality(Counted') = Cardinality(Counted) - 1
    BY <2>1, CountedFinite, FS_RemoveElement
  <2> QED BY <2>1, <2>2 DEF GaugeInv
<1>3. ASSUME active' = active, Counted' = Counted
      PROVE  GaugeInv'
  BY <1>3 DEF GaugeInv
<1>4. ASSUME NEW r \in Room,
             \/ HandleOther(r) \/ HandleLifetimeCheck(r) \/ RunExits(r) \/ CrashLoop(r)
             \/ ReapWhenDone(r) \/ SubmitOther(r) \/ GrowsOld(r) \/ StaysEmpty(r)
      PROVE  active' = active /\ Counted' = Counted
  BY <1>4 DEF HandleOther, HandleLifetimeCheck, RunExits, CrashLoop, RunEnds, Looping,
              ReapWhenDone, SubmitOther, GrowsOld, StaysEmpty, managerVars, Counted, TypeOK
<1>5. ASSUME \/ Sweeper \/ RequestArrives \/ RefuseRoom \/ Signal \/ Drained \/ Close
             \/ Snapshot \/ Exit \/ DeadlinePasses \/ \E r \in Room : AwaitRoom(r)
      PROVE  active' = active /\ Counted' = Counted
  BY <1>5 DEF Sweeper, SweepOnce, Nudge, SkipNudge, RequestArrives, RefuseRoom, Signal,
              Drained, Close, Snapshot, Exit, DeadlinePasses, AwaitRoom, managerVars,
              roomVars, Counted, TypeOK
<1> QED BY <1>1, <1>2, <1>3, <1>4, <1>5 DEF Next, Main, RoomStep

-------------------------------------------------------------------------------
(* A step after which nobody loops who did not before, and nobody is       *)
(* struck off main's list who does.                                        *)
LEMMA ShutdownKept ==
  ASSUME ShutdownInv, UNCHANGED <<process, waiting>>,
         process # "serving" => requests' <= requests,
         requests \in Nat, requests' \in Nat,
         \A r \in Room : Looping(r)' => Looping(r)
  PROVE  ShutdownInv'
  BY DEF ShutdownInv, CleanShutdown

LEMMA ShutdownStep ==
  ASSUME TypeOK, TypeOK', RegistryInv, ShutdownInv, Next
  PROVE  ShutdownInv'
<1>0. requests \in Nat /\ requests' \in Nat
  BY ManagerAssumption DEF TypeOK
<1>1. ASSUME NEW r \in Room, RoomStep(r)
      PROVE  ShutdownInv'
  <2>1. UNCHANGED mainVars /\ \A q \in Room : Looping(q)' => Looping(q)
    BY <1>1 DEF RoomStep, HandleOther, HandleLifetimeCheck, RunExits, CrashLoop, RunEnds,
                RecordRoomClosed, ReapWhenDone, SubmitOther, GrowsOld, StaysEmpty,
                Looping, TypeOK
  <2> QED BY <1>0, <2>1, ShutdownKept DEF mainVars
<1>2. CASE Sweeper
  <2>1. UNCHANGED <<mainVars, stage>>
    BY <1>2 DEF Sweeper, SweepOnce, Nudge, SkipNudge, roomVars
  <2> QED BY <1>0, <2>1, ShutdownKept DEF mainVars, Looping
<1>3. ASSUME NEW r \in Room, NEW k \in Code, CreateRoom(r, k)
      PROVE  ShutdownInv'
  <2>1. process \in {"serving", "draining"} /\ UNCHANGED process
    BY <1>3 DEF CreateRoom, Up, ShutdownInv, TypeOK
  <2> QED BY <2>1 DEF ShutdownInv, CleanShutdown
<1>4. CASE RequestArrives \/ Signal
  BY <1>4 DEF RequestArrives, Signal, ShutdownInv, CleanShutdown
<1>5. CASE RefuseRoom
  <2>1. requests' <= requests /\ UNCHANGED <<process, waiting, stage>>
    BY <1>0, <1>5 DEF RefuseRoom, roomVars
  <2> QED BY <1>0, <2>1, ShutdownKept DEF Looping
<1>6. CASE Drained
  BY <1>6 DEF Drained, ShutdownInv, CleanShutdown
<1>7. CASE Close
  <2>1. UNCHANGED mainVars /\ \A q \in Room : Looping(q)' => Looping(q)
    BY <1>7 DEF Close, Looping, TypeOK
  <2> QED BY <1>0, <2>1, ShutdownKept DEF mainVars
<1>8. ASSUME waiting' = Registered, UNCHANGED stage
      PROVE  \A r \in Room : Looping(r)' => r \in waiting'
  BY <1>8 DEF Registered, RegistryInv, Enrolled, Looping
<1>9. CASE Snapshot
  <2>1. waiting' = Registered /\ UNCHANGED <<stage, requests>> /\ process' = "waiting"
    BY <1>9 DEF Snapshot, roomVars
  <2>2. requests' = 0
    BY <1>9, <2>1 DEF Snapshot, ShutdownInv
  <2> QED BY <1>8, <2>1, <2>2 DEF ShutdownInv, CleanShutdown
<1>10. ASSUME NEW r \in Room, AwaitRoom(r)
       PROVE  ShutdownInv'
  BY <1>10 DEF AwaitRoom, ShutdownInv, CleanShutdown, Looping, roomVars
<1>11. CASE Exit
  BY <1>11 DEF Exit, ShutdownInv, CleanShutdown, Looping, roomVars
<1>12. CASE DeadlinePasses
  <2>1. process' = "exited" /\ UNCHANGED stage
    BY <1>12 DEF DeadlinePasses, roomVars
  <2>2. \/ waiting' = Registered
        \/ waiting' # {}
    BY <1>12 DEF DeadlinePasses
  <2> QED BY <1>8, <2>1, <2>2 DEF ShutdownInv, CleanShutdown
<1> QED BY <1>1, <1>2, <1>3, <1>4, <1>5, <1>6, <1>7, <1>9, <1>10, <1>11, <1>12
        DEF Next, Main

-------------------------------------------------------------------------------
(* The invariant holds at the start. *)
LEMMA ManagerInit == Init => ManagerInv
<1> SUFFICES ASSUME Init PROVE ManagerInv
  OBVIOUS
<1>1. DOMAIN rooms = {} /\ \A r \in Room : stage[r] = "unused"
  BY DEF Init
<1>2. RegistryInv
  BY <1>1 DEF RegistryInv, Enrolled
<1>3. CapacityInv
  BY <1>1, FS_EmptySet, ManagerAssumption DEF CapacityInv
<1>4. GaugeInv
  <2>1. Counted = {} /\ active = 0
    BY <1>1 DEF Counted, Init
  <2> QED BY <2>1, FS_EmptySet DEF GaugeInv
<1>5. ShutdownInv
  BY DEF Init, ShutdownInv, CleanShutdown
<1> QED BY <1>2, <1>3, <1>4, <1>5, TypeInit DEF ManagerInv

LEMMA ManagerStep == ManagerInv /\ [Next]_vars => ManagerInv'
<1>1. ASSUME ManagerInv, UNCHANGED vars
      PROVE  ManagerInv'
  <2>1. TypeOK'
    BY <1>1, TypeStep DEF ManagerInv
  <2>2. RegistryInv' /\ CapacityInv' /\ GaugeInv'
    BY <1>1 DEF ManagerInv, RegistryInv, Enrolled, CapacityInv, GaugeInv, Counted,
                vars, managerVars, roomVars
  <2>3. ShutdownInv'
    BY <1>1 DEF ManagerInv, ShutdownInv, CleanShutdown, Looping, vars, roomVars, mainVars
  <2> QED BY <2>1, <2>2, <2>3 DEF ManagerInv
<1>2. ASSUME ManagerInv, Next
      PROVE  ManagerInv'
  BY <1>2, TypeStep, RegistryStep, CapacityStep, GaugeStep, ShutdownStep DEF ManagerInv
<1> QED BY <1>1, <1>2

(* Every room that runs holds an entry of its own. *)
LEMMA LoopingFitsCapacity ==
  ManagerInv => Cardinality({r \in Room : Looping(r)}) <= MaxRooms
<1> SUFFICES ASSUME ManagerInv
             PROVE  Cardinality({r \in Room : Looping(r)}) <= MaxRooms
  OBVIOUS
<1> DEFINE Running == {r \in Room : Looping(r)}
           entry   == [r \in Running |-> code[r]]
<1>1. \A r \in Running : code[r] \in DOMAIN rooms /\ rooms[code[r]] = r
  BY DEF ManagerInv, RegistryInv, Enrolled, Looping
<1>2. entry \in Injection(Running, DOMAIN rooms)
  <2> HIDE DEF Running
  <2>1. entry \in [Running -> DOMAIN rooms]
    BY <1>1
  <2>2. \A a, b \in Running : entry[a] = entry[b] => a = b
    BY <1>1
  <2> QED BY <2>1, <2>2 DEF Injection, IsInjective
<1>3. IsFiniteSet(Running) /\ Cardinality(Running) <= Cardinality(DOMAIN rooms)
  <2> HIDE DEF Running, entry
  <2> QED BY <1>2, FS_Injection DEF ManagerInv, CapacityInv
<1>4. /\ Cardinality(Running) \in Nat /\ Cardinality(DOMAIN rooms) \in Nat
      /\ MaxRooms \in Nat
  <2> HIDE DEF Running
  <2> QED BY <1>3, FS_CardinalityType, ManagerAssumption DEF ManagerInv, CapacityInv
<1> HIDE DEF Running
<1>5. Cardinality(Running) <= MaxRooms
  BY <1>3, <1>4 DEF ManagerInv, CapacityInv
<1> QED BY <1>5 DEF Running

(* The invariant holds at every moment of the process. *)
LEMMA ManagerInvariant == Spec => []ManagerInv
  BY ManagerInit, ManagerStep, PTL DEF Spec

(* Every variable keeps its type, and no inbox outgrows its capacity.      *)
THEOREM ManagerTypeCorrect == Spec => []TypeOK
<1>1. ManagerInv => TypeOK
  BY DEF ManagerInv
<1> QED BY <1>1, ManagerInvariant, PTL

(* A room is registered, under its own code, exactly while it may still do *)
(* something; at most MaxRooms rooms run, and the gauge counts them, in    *)
(* every interleaving of creations, crashes, removals and sweeps           *)
(* (manager.go:133, :217).                                                 *)
THEOREM RoomsAreRegistered == Spec => []LiveRoomsAreRegistered
<1>1. ManagerInv => LiveRoomsAreRegistered
  BY LoopingFitsCapacity
     DEF ManagerInv, LiveRoomsAreRegistered, RegistryInv, Enrolled, GaugeInv
<1> QED BY <1>1, ManagerInvariant, PTL

(* Once main has seen every room it waited for, no room runs, whenever     *)
(* requests and rooms came and went before (main.go:135, manager.go:173).  *)
THEOREM ShutdownIsClean == Spec => []CleanShutdown
<1>1. ManagerInv => CleanShutdown
  BY DEF ManagerInv, ShutdownInv
<1> QED BY <1>1, ManagerInvariant, PTL
===============================================================================
