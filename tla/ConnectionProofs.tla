---------------------------- MODULE ConnectionProofs ---------------------------
(***************************************************************************)
(* Theorems about a room's connections when clients send one join each:    *)
(* the gauge, the leave, and the seats, which implement Seating.  They     *)
(* hold for any number of connections and any size of the inbox.           *)
(***************************************************************************)
EXTENDS ConnectionProps, FiniteSetTheorems, TLAPS

(* Messages that attach their connection. *)
Opening(m) == m.kind \in {"join", "rejoin"}

Message == {Join, Command, Leave} \cup {Rejoin(p) : p \in 0 .. MaxSeats}

WireTypes ==
  /\ at = [c \in Conn |-> at[c]]
  /\ sending \in [Conn -> Message \cup {Nothing}]
  /\ inbox \in Seq([msg : Message, from : Conn])
  /\ playerID \in [Conn -> Nat]
  /\ slot \in Seq(Conn \cup {NoConn})
  /\ subs \subseteq Conn /\ closed \subseteq Conn

(* Where a connection stands: it says nothing before it has begun, its     *)
(* leave last, and nothing after that.                                     *)
Talk ==
  \A c \in Conn :
    /\ at[c] \in {"new", "rejoining"} =>
         c \notin fresh /\ playerID[c] = 0 /\ \A i \in DOMAIN inbox : inbox[i].from # c
    /\ sending[c] # Nothing => at[c] \in {"rejoining", "pumping", "leaving"}
    /\ at[c] = "leaving" => sending[c] = Leave
    /\ sending[c] = Leave => at[c] = "leaving"
    /\ at[c] = "pumping" /\ sending[c] # Nothing => c \in reading
    /\ c \in reading => at[c] = "pumping"
    /\ c \in fresh =>
         /\ sending[c].kind # "rejoin"
         /\ \A i \in DOMAIN inbox : inbox[i].from = c => inbox[i].msg.kind # "rejoin"

(* One opening message of a connection is under way at most, and only      *)
(* until it has been answered.                                             *)
OneOpening ==
  /\ \A c \in Conn : Opening(sending[c]) =>
       /\ playerID[c] = 0
       /\ \A i \in DOMAIN inbox : inbox[i].from = c => ~Opening(inbox[i].msg)
  /\ \A i \in DOMAIN inbox : Opening(inbox[i].msg) =>
       /\ playerID[inbox[i].from] = 0
       /\ \A j \in DOMAIN inbox :
            inbox[j].from = inbox[i].from /\ Opening(inbox[j].msg) => j = i

(* Who sits is attached, under the id of the seat. *)
Seats ==
  /\ subs \cap closed = {}
  /\ \A c \in subs : playerID[c] # 0
  /\ \A p \in DOMAIN slot : slot[p] # NoConn => playerID[slot[p]] = p
  /\ running => \A p \in DOMAIN slot : slot[p] # NoConn => slot[p] \in subs

Gauge == IsFiniteSet(subs) /\ GaugeCountsSubscribers

WireInv == WireTypes /\ Talk /\ OneOpening
ConnInv == WireInv /\ Seats /\ Gauge

-------------------------------------------------------------------------------
LEMMA Kinds ==
  /\ Join \in Message /\ Command \in Message /\ Leave \in Message
  /\ \A p \in 0 .. MaxSeats : Rejoin(p) \in Message /\ Rejoin(p).kind = "rejoin"
  /\ Join.kind = "join" /\ Command.kind = "command" /\ Leave.kind = "leave"
  /\ Nothing.kind = "nothing"
  /\ Nothing \notin Message
  /\ \A m \in Message : m.kind = "join" => m = Join
<1>1. \A m \in Message : m.kind = "join" => m = Join
  BY DEF Message, Join, Command, Leave, Rejoin
<1>2. \A p \in 0 .. MaxSeats : Rejoin(p) \in Message /\ Rejoin(p).kind = "rejoin"
  BY DEF Message, Rejoin
<1>3. /\ Join.kind = "join" /\ Command.kind = "command" /\ Leave.kind = "leave"
      /\ Nothing.kind = "nothing"
  BY DEF Join, Command, Leave, Nothing
<1>4. Nothing \notin Message
  BY <1>2, <1>3 DEF Message
<1> QED BY <1>1, <1>2, <1>3, <1>4 DEF Message

(* The room takes the message at the head of its inbox. *)
LEMMA WireTake ==
  ASSUME WireInv, inbox # <<>>, inbox' = Tail(inbox),
         UNCHANGED <<at, sending, fresh, reading>>,
         playerID' \in [Conn -> Nat], slot' \in Seq(Conn \cup {NoConn}),
         subs' \subseteq Conn, closed' \subseteq Conn,
         \A d \in Conn :
           playerID'[d] = playerID[d] \/ (d = Head(inbox).from /\ Opening(Head(inbox).msg))
  PROVE  WireInv'
<1>1. inbox' \in Seq([msg : Message, from : Conn])
  <2> DEFINE Envelope == [msg : Message, from : Conn]
  <2>1. inbox \in Seq(Envelope)
    BY DEF WireInv, WireTypes
  <2> HIDE DEF Envelope
  <2>2. Tail(inbox) \in Seq(Envelope)
    BY <2>1
  <2> QED BY <2>2 DEF Envelope
<1>2. /\ 1 \in DOMAIN inbox /\ Head(inbox) = inbox[1]
      /\ \A i \in DOMAIN inbox' : i \in Int /\ i + 1 \in DOMAIN inbox /\ i + 1 # 1
      /\ \A i \in DOMAIN inbox' : inbox'[i] = inbox[i + 1]
      /\ \A i \in DOMAIN inbox : inbox[i].from \in Conn
  <2> DEFINE Envelope == [msg : Message, from : Conn]
  <2>1. inbox \in Seq(Envelope) /\ \A m \in Envelope : m.from \in Conn
    BY DEF WireInv, WireTypes
  <2> HIDE DEF Envelope
  <2> QED BY <2>1
<1>3. WireTypes'
  BY <1>1 DEF WireInv, WireTypes
<1>4. Talk'
  BY <1>2 DEF WireInv, Talk
<1>5. OneOpening'
  <2>1. \A c \in Conn : Opening(sending[c]) =>
          /\ playerID'[c] = 0
          /\ \A i \in DOMAIN inbox' : inbox'[i].from = c => ~Opening(inbox'[i].msg)
    BY <1>2 DEF WireInv, OneOpening
  <2>2. \A i \in DOMAIN inbox' : Opening(inbox'[i].msg) =>
          /\ playerID'[inbox'[i].from] = 0
          /\ \A j \in DOMAIN inbox' :
               inbox'[j].from = inbox'[i].from /\ Opening(inbox'[j].msg) => j = i
    BY <1>2 DEF WireInv, OneOpening
  <2> QED BY <2>1, <2>2 DEF OneOpening, Opening
<1> QED BY <1>3, <1>4, <1>5 DEF WireInv

(* A handler or a pump that says nothing new. *)
LEMMA WireKept ==
  ASSUME WireInv, UNCHANGED <<at, sending, fresh, inbox, playerID, slot, subs, closed>>,
         reading' \subseteq reading,
         \A c \in Conn : sending[c] # Nothing => (c \in reading => c \in reading')
  PROVE  WireInv'
  BY DEF WireInv, WireTypes, Talk, OneOpening, Opening

(* A connection says something. *)
LEMMA WireSubmit ==
  ASSUME WireInv, NEW c \in Conn, NEW msg \in Message, NEW stage,
         sending[c] = Nothing,
         sending' = [sending EXCEPT ![c] = msg],
         at' = [at EXCEPT ![c] = stage],
         UNCHANGED <<reading, fresh, inbox, playerID, slot, subs, closed>>,
         \/ /\ at[c] = "new" /\ stage = "rejoining" /\ msg.kind = "rejoin"
         \/ /\ at[c] = "pumping" /\ stage = "pumping" /\ c \in reading
            /\ \/ msg = Command
               \/ /\ msg = Join /\ playerID[c] = 0
                  /\ \A i \in DOMAIN inbox : inbox[i].from = c => inbox[i].msg.kind # "join"
                  /\ c \in fresh
         \/ at[c] = "pumping" /\ stage = "leaving" /\ msg = Leave /\ c \notin reading
  PROVE  WireInv'
<1>1. WireTypes'
  BY DEF WireInv, WireTypes
<1>2. sending'[c] = msg /\ at'[c] = stage /\ msg # Nothing
  BY Kinds DEF WireInv, WireTypes
<1>3. \A d \in Conn \ {c} : sending'[d] = sending[d] /\ at'[d] = at[d]
  BY DEF WireInv, WireTypes
<1>4. Talk'
  BY <1>2, <1>3, Kinds DEF WireInv, Talk
<1>5. Opening(msg) =>
        /\ playerID[c] = 0
        /\ \A i \in DOMAIN inbox : inbox[i].from = c => ~Opening(inbox[i].msg)
  BY Kinds DEF WireInv, Talk, Opening
<1>6. OneOpening'
  BY <1>2, <1>3, <1>5 DEF WireInv, OneOpening, Opening
<1> QED BY <1>1, <1>4, <1>6 DEF WireInv

LEMMA WireEnqueue ==
  ASSUME WireInv, NEW c \in Conn, Enqueue(c)
  PROVE  WireInv'
<1>1. /\ sending[c] # Nothing /\ sending[c] \in Message
      /\ inbox' = Append(inbox, [msg |-> sending[c], from |-> c])
      /\ sending' = [sending EXCEPT ![c] = Nothing]
      /\ UNCHANGED <<fresh, playerID, slot, subs, closed>>
      /\ reading' = IF at[c] = "rejoining" THEN reading \cup {c} ELSE reading
  BY DEF Enqueue, subVars, WireInv, WireTypes
<1>2. /\ at'[c] = CASE at[c] = "rejoining" -> "pumping" [] at[c] = "leaving" -> "done" [] OTHER -> at[c]
      /\ \A d \in Conn \ {c} : at'[d] = at[d]
      /\ at' = [d \in Conn |-> at'[d]]
  BY DEF Enqueue, WireInv, WireTypes
<1>3. /\ sending'[c] = Nothing /\ \A d \in Conn \ {c} : sending'[d] = sending[d]
      /\ sending' \in [Conn -> Message \cup {Nothing}]
  BY <1>1 DEF WireInv, WireTypes
<1>4. /\ inbox' \in Seq([msg : Message, from : Conn])
      /\ DOMAIN inbox' = DOMAIN inbox \cup {Len(inbox) + 1}
      /\ Len(inbox) + 1 \notin DOMAIN inbox
      /\ \A i \in DOMAIN inbox : inbox'[i] = inbox[i]
      /\ inbox'[Len(inbox) + 1].msg = sending[c] /\ inbox'[Len(inbox) + 1].from = c
  BY <1>1 DEF WireInv, WireTypes
<1>5. at[c] \notin {"new", "done"}
  BY <1>1 DEF WireInv, Talk
<1>6. WireTypes'
  BY <1>1, <1>2, <1>3, <1>4 DEF WireInv, WireTypes
<1>7. Talk'
  <2>1. \A d \in Conn \ {c} :
          (\A i \in DOMAIN inbox : inbox[i].from # d) => (\A i \in DOMAIN inbox' : inbox'[i].from # d)
    BY <1>4
  <2>2. at'[c] \notin {"new", "rejoining", "leaving"}
    BY <1>2, <1>5
  <2> QED BY <1>1, <1>2, <1>3, <1>4, <2>1, <2>2, Kinds DEF WireInv, Talk
<1>8. OneOpening'
  BY <1>1, <1>3, <1>4, Kinds DEF WireInv, OneOpening, Opening
<1> QED BY <1>6, <1>7, <1>8 DEF WireInv

(* A submit that fails, a room found closed: nothing is left to say. *)
LEMMA WireGivesUp ==
  ASSUME WireInv, NEW c \in Conn,
         SubmitFails(c) \/ TurnAway(c) \/ PumpsEnded(c)
  PROVE  WireInv'
<1>1. CASE SubmitFails(c)
  <2>1. /\ sending'[c] = Nothing /\ \A d \in Conn \ {c} : sending'[d] = sending[d]
        /\ sending' \in [Conn -> Message \cup {Nothing}]
        /\ at'[c] = (IF at[c] = "pumping" THEN "pumping" ELSE "done")
        /\ \A d \in Conn \ {c} : at'[d] = at[d]
        /\ at' = [d \in Conn |-> at'[d]]
        /\ reading' = reading \ {c}
        /\ UNCHANGED <<fresh, inbox, playerID, slot, subs, closed>>
    BY <1>1 DEF SubmitFails, subVars, roomVars, WireInv, WireTypes
  <2>2. WireTypes'
    BY <2>1 DEF WireInv, WireTypes
  <2>3. Talk'
    BY <2>1, Kinds DEF WireInv, Talk
  <2>4. OneOpening'
    BY <2>1, Kinds DEF WireInv, OneOpening, Opening
  <2> QED BY <2>2, <2>3, <2>4 DEF WireInv
<1>2. ASSUME sending[c] = Nothing, c \notin reading, at' = [at EXCEPT ![c] = "done"],
             UNCHANGED <<sending, reading, fresh, inbox, playerID, slot, subs, closed>>
      PROVE  WireInv'
  <2>1. WireTypes'
    BY <1>2 DEF WireInv, WireTypes
  <2>2. Talk'
    BY <1>2, Kinds DEF WireInv, WireTypes, Talk
  <2>3. OneOpening'
    BY <1>2 DEF WireInv, OneOpening, Opening
  <2> QED BY <2>1, <2>2, <2>3 DEF WireInv
<1>3. CASE TurnAway(c)
  BY <1>2, <1>3 DEF TurnAway, subVars, roomVars, WireInv, Talk
<1>4. CASE PumpsEnded(c)
  <2>1. at[c] = "pumping" /\ sending[c] = Nothing /\ c \notin reading
    BY <1>4 DEF PumpsEnded, WireInv, Talk
  <2>2. \/ /\ sending' = [sending EXCEPT ![c] = Leave] /\ at' = [at EXCEPT ![c] = "leaving"]
        \/ /\ at' = [at EXCEPT ![c] = "done"] /\ UNCHANGED sending
    BY <1>4 DEF PumpsEnded, Submit
  <2>3. UNCHANGED <<reading, fresh, inbox, playerID, slot, subs, closed>>
    BY <1>4 DEF PumpsEnded, subVars, roomVars
  <2> QED BY <1>2, <2>1, <2>2, <2>3, WireSubmit, Kinds
<1> QED BY <1>1, <1>3, <1>4

LEMMA WireClient ==
  ASSUME WireInv, ~JoinsAgain, NEW c \in Conn, Client(c)
  PROVE  WireInv'
<1> USE DEF subVars, roomVars, pumpVars
<1>1. CASE ConnectFresh(c)
  <2>1. /\ at[c] = "new" /\ at' = [at EXCEPT ![c] = "pumping"]
        /\ fresh' = fresh \cup {c} /\ reading' = reading \cup {c}
        /\ UNCHANGED <<sending, inbox, playerID, slot, subs, closed>>
    BY <1>1 DEF ConnectFresh
  <2>2. WireTypes'
    BY <2>1 DEF WireInv, WireTypes
  <2>3. /\ at'[c] = "pumping" /\ \A d \in Conn \ {c} : at'[d] = at[d]
        /\ sending[c] = Nothing /\ \A i \in DOMAIN inbox : inbox[i].from # c
    BY <2>1 DEF WireInv, WireTypes, Talk
  <2>4. Talk'
    BY <2>1, <2>3, Kinds DEF WireInv, Talk
  <2>5. OneOpening'
    BY <2>1 DEF WireInv, OneOpening, Opening
  <2> QED BY <2>2, <2>4, <2>5 DEF WireInv
<1>2. ASSUME NEW p \in 0 .. MaxSeats, ConnectRejoin(c, p)
      PROVE  WireInv'
  <2>1. /\ at[c] = "new" /\ sending[c] = Nothing
        /\ at' = [at EXCEPT ![c] = "rejoining"]
        /\ sending' = [sending EXCEPT ![c] = Rejoin(p)]
        /\ UNCHANGED <<reading, fresh, inbox, playerID, slot, subs, closed>>
    BY <1>2 DEF ConnectRejoin, Submit, WireInv, Talk
  <2> QED BY <2>1, WireSubmit, Kinds
<1>3. CASE TurnAway(c)
  BY <1>3, WireGivesUp
<1>4. ASSUME NEW msg \in Message, MayRead(c), Dispatch(c, msg),
             UNCHANGED <<at, fresh, inbox, playerID, slot, subs, closed>>,
             \/ msg = Command
             \/ /\ msg = Join /\ playerID[c] = 0 /\ c \in fresh
                /\ \A i \in DOMAIN inbox : inbox[i].from = c => inbox[i].msg.kind # "join"
      PROVE  WireInv'
  <2>1. c \in reading /\ sending[c] = Nothing
    BY <1>4 DEF MayRead
  <2>2. CASE Submit(c, msg) /\ UNCHANGED reading
    <3>1. at[c] = "pumping" /\ at' = [at EXCEPT ![c] = "pumping"]
      BY <1>4, <2>1 DEF WireInv, WireTypes, Talk
    <3> QED BY <1>4, <2>1, <2>2, <3>1, WireSubmit DEF Submit
  <2>3. CASE reading' = reading \ {c} /\ UNCHANGED sending
    BY <1>4, <2>1, <2>3, WireKept
  <2> QED BY <1>4, <2>2, <2>3 DEF Dispatch, ReadPumpExits
<1>5. CASE ReadJoin(c)
  <2>1. /\ playerID[c] = 0 /\ c \in fresh
        /\ \A i \in DOMAIN inbox : inbox[i].from = c => inbox[i].msg.kind # "join"
    <3>1. /\ playerID[c] = 0 /\ c \in fresh
          /\ \A i \in DOMAIN inbox : inbox[i] # [msg |-> Join, from |-> c]
      BY <1>5 DEF ReadJoin, JoinedOrJoining
    <3>2. \A i \in DOMAIN inbox :
            /\ inbox[i] = [msg |-> inbox[i].msg, from |-> inbox[i].from]
            /\ inbox[i].msg \in Message
      <4>1. \A i \in DOMAIN inbox : inbox[i] \in [msg : Message, from : Conn]
        <5> DEFINE Envelope == [msg : Message, from : Conn]
        <5>1. inbox \in Seq(Envelope)
          BY DEF WireInv, WireTypes
        <5> HIDE DEF Envelope
        <5>2. \A i \in DOMAIN inbox : inbox[i] \in Envelope
          BY <5>1
        <5> QED BY <5>2 DEF Envelope
      <4> QED BY <4>1
    <3> QED BY <3>1, <3>2, Kinds
  <2> QED BY <1>4, <1>5, <2>1, Kinds DEF ReadJoin, HasFrame
<1>6. CASE ReadCommand(c)
  BY <1>4, <1>6, Kinds DEF ReadCommand, HasFrame
<1>7. CASE ReadBadFrame(c) \/ ClientGoes(c)
  BY <1>7, WireKept DEF ReadBadFrame, ClientGoes
<1> QED BY <1>1, <1>2, <1>3, <1>5, <1>6, <1>7 DEF Client

(* The pumps, but for their submits: they say nothing. *)
LEMMA WirePumps ==
  ASSUME WireInv, NEW c \in Conn, Pumps(c)
  PROVE  WireInv'
<1>1. CASE ReadFails(c)
  BY <1>1, WireKept DEF ReadFails, MayRead, ReadPumpExits, subVars, roomVars
<1>2. CASE Write(c)
  BY <1>2, WireKept DEF Write, pumpVars, roomVars
<1>3. CASE WriteEnds(c)
  BY <1>3, WireKept DEF WriteEnds, WritePumpExits, roomVars
<1>4. CASE ReaperFires(c)
  BY <1>4, WireKept DEF ReaperFires, subVars, roomVars
<1> QED BY <1>1, <1>2, <1>3, <1>4, WireEnqueue, WireGivesUp DEF Pumps

-------------------------------------------------------------------------------
(* Only attaching raises the gauge and only detaching lowers it, by those  *)
(* who were attached.                                                      *)
LEMMA DetachGauge ==
  ASSUME NEW attached, IsFiniteSet(attached), NEW leaving,
         Detach(attached, Cardinality(attached), leaving)
  PROVE  Gauge'
<1>1. /\ subs' = attached \ leaving
      /\ connected' = Cardinality(attached) - Cardinality(leaving \cap attached)
  BY DEF Detach, GaugeAfter
<1>2. attached \cap leaving = leaving \cap attached
  OBVIOUS
<1>3. /\ IsFiniteSet(attached \ leaving)
      /\ Cardinality(attached \ leaving)
           = Cardinality(attached) - Cardinality(leaving \cap attached)
  BY <1>2, FS_Difference
<1> QED BY <1>1, <1>3 DEF Gauge, GaugeCountsSubscribers

LEMMA AttachGauge ==
  ASSUME Gauge, NEW c, c \notin subs
  PROVE  IsFiniteSet(subs \cup {c}) /\ connected + 1 = Cardinality(subs \cup {c})
  BY FS_AddElement DEF Gauge, GaugeCountsSubscribers

LEMMA VacateType ==
  ASSUME NEW seats \in Seq(Conn \cup {NoConn}), NEW ids, NEW leaving
  PROVE  /\ Vacate(seats, ids, leaving) \in Seq(Conn \cup {NoConn})
         /\ DOMAIN Vacate(seats, ids, leaving) = DOMAIN seats
         /\ \A p \in DOMAIN seats :
              Vacate(seats, ids, leaving)[p] =
                IF \E c \in leaving : ids[c] = p /\ seats[p] = c THEN NoConn ELSE seats[p]
  BY DEF Vacate

(* Who leaves vacates the seat it holds. *)
LEMMA DetachSeats ==
  ASSUME NEW attached \in SUBSET Conn, IsFiniteSet(attached), NEW ids \in [Conn -> Nat],
         NEW seats \in Seq(Conn \cup {NoConn}), NEW leaving \in SUBSET Conn,
         closed \subseteq Conn, attached \cap closed = {},
         \A c \in attached : ids[c] # 0,
         \A p \in DOMAIN seats : seats[p] # NoConn => seats[p] \in attached /\ ids[seats[p]] = p,
         Detach(attached, Cardinality(attached), leaving),
         slot' = Vacate(seats, ids, leaving), playerID' = ids
  PROVE  /\ Seats' /\ Gauge'
         /\ slot' \in Seq(Conn \cup {NoConn}) /\ subs' \subseteq Conn /\ closed' \subseteq Conn
<1>1. subs' = attached \ leaving /\ closed' = closed \cup leaving
  BY DEF Detach
<1>2. /\ slot' \in Seq(Conn \cup {NoConn}) /\ DOMAIN slot' = DOMAIN seats
      /\ \A p \in DOMAIN seats :
           slot'[p] = IF \E c \in leaving : ids[c] = p /\ seats[p] = c THEN NoConn ELSE seats[p]
  BY VacateType
<1>3. \A p \in DOMAIN slot' :
        slot'[p] # NoConn => slot'[p] = seats[p] /\ slot'[p] \in subs' /\ ids[slot'[p]] = p
  BY <1>1, <1>2
<1> QED BY <1>1, <1>2, <1>3, DetachGauge DEF Seats

(* A recovery empties every seat. *)
LEMMA CutOffSeats ==
  ASSUME NEW seats \in Seq(Conn \cup {NoConn}), NEW attached \in SUBSET Conn,
         IsFiniteSet(attached), closed \subseteq Conn,
         CutEveryoneOff(seats, attached, Cardinality(attached))
  PROVE  /\ Seats' /\ Gauge'
         /\ slot' \in Seq(Conn \cup {NoConn}) /\ subs' \subseteq Conn /\ closed' \subseteq Conn
<1>1. /\ slot' = [p \in DOMAIN seats |-> NoConn]
      /\ Detach(attached, Cardinality(attached), attached)
  BY DEF CutEveryoneOff
<1>2. subs' = {} /\ closed' = closed \cup attached
  BY <1>1 DEF Detach
<1>3. slot' \in Seq(Conn \cup {NoConn}) /\ \A p \in DOMAIN slot' : slot'[p] = NoConn
  BY <1>1
<1> QED BY <1>1, <1>2, <1>3, DetachGauge DEF Seats

-------------------------------------------------------------------------------
(* What taking a message tells of its sender. *)
LEMMA Taken ==
  ASSUME ConnInv, NEW c \in Conn, NEW msg, Takes(c, msg)
  PROVE  /\ running /\ c \notin closed
         /\ inbox # <<>> /\ inbox' = Tail(inbox)
         /\ Head(inbox).from = c /\ Head(inbox).msg = msg
         /\ Opening(msg) =>
              /\ playerID[c] = 0 /\ c \notin subs
              /\ \A p \in DOMAIN slot : slot[p] # c
<1>1. /\ running /\ c \notin closed
      /\ inbox # <<>> /\ inbox' = Tail(inbox)
      /\ Head(inbox) = [msg |-> msg, from |-> c]
  BY DEF Takes
<1>2. 1 \in DOMAIN inbox /\ Head(inbox) = inbox[1]
  BY <1>1 DEF ConnInv, WireInv, WireTypes
<1>3. Head(inbox).from = c /\ Head(inbox).msg = msg
  BY <1>1
<1>4. Opening(msg) => playerID[c] = 0
  BY <1>2, <1>3 DEF ConnInv, WireInv, OneOpening
<1>5. playerID[c] = 0 => c \notin subs /\ \A p \in DOMAIN slot : slot[p] # c
  BY ConnectionAssumption DEF ConnInv, Seats, WireInv, WireTypes
<1> QED BY <1>1, <1>3, <1>4, <1>5

LEMMA HandleJoinStep ==
  ASSUME ConnInv, NEW c \in Conn, HandleJoin(c)
  PROVE  ConnInv'
<1>1. /\ Takes(c, Join)
      /\ playerID' = [playerID EXCEPT ![c] = Len(slot) + 1]
      /\ Broadcast(subs \cup {c}, connected + 1, Append(slot, c), playerID')
      /\ UNCHANGED <<at, sending, fresh, reading, running>>
  BY DEF HandleJoin, Untouched, pumpVars
<1>2. /\ c \notin subs /\ c \notin closed /\ \A p \in DOMAIN slot : slot[p] # c
      /\ running /\ inbox # <<>> /\ inbox' = Tail(inbox)
      /\ Head(inbox).from = c /\ Opening(Head(inbox).msg)
  BY <1>1, Taken, Kinds DEF Opening
<1> DEFINE attached == subs \cup {c}
           seats    == Append(slot, c)
<1>3. PICK slow \in SUBSET attached :
        Detach(attached, connected + 1, slow) /\ slot' = Vacate(seats, playerID', slow)
  BY <1>1 DEF Broadcast
<1>4. /\ playerID' \in [Conn -> Nat] /\ playerID'[c] = Len(slot) + 1
      /\ \A d \in Conn \ {c} : playerID'[d] = playerID[d]
      /\ Len(slot) + 1 # 0
  BY <1>1 DEF ConnInv, WireInv, WireTypes
<1>5. /\ seats \in Seq(Conn \cup {NoConn})
      /\ DOMAIN seats = DOMAIN slot \cup {Len(slot) + 1} /\ Len(slot) + 1 \notin DOMAIN slot
      /\ seats[Len(slot) + 1] = c /\ \A p \in DOMAIN slot : seats[p] = slot[p]
  BY DEF ConnInv, WireInv, WireTypes
<1>6. /\ attached \in SUBSET Conn /\ IsFiniteSet(attached)
      /\ connected + 1 = Cardinality(attached)
      /\ attached \cap closed = {} /\ closed \subseteq Conn
  BY <1>2, AttachGauge DEF ConnInv, WireInv, WireTypes, Seats
<1>7. /\ \A d \in attached : playerID'[d] # 0
      /\ \A p \in DOMAIN seats : seats[p] # NoConn => seats[p] \in attached /\ playerID'[seats[p]] = p
  BY <1>2, <1>4, <1>5 DEF ConnInv, WireInv, WireTypes, Seats
<1> HIDE DEF attached, seats
<1>8. /\ Seats' /\ Gauge'
      /\ slot' \in Seq(Conn \cup {NoConn}) /\ subs' \subseteq Conn /\ closed' \subseteq Conn
  BY <1>3, <1>4, <1>5, <1>6, <1>7, DetachSeats
<1>9. WireInv'
  BY <1>1, <1>2, <1>4, <1>8, WireTake DEF ConnInv
<1> QED BY <1>8, <1>9 DEF ConnInv

LEMMA HandleRejoinStep ==
  ASSUME ConnInv, NEW c \in Conn, HandleRejoin(c)
  PROVE  ConnInv'
<1>1. PICK p \in DOMAIN slot :
        /\ Takes(c, Rejoin(p))
        /\ playerID' = [playerID EXCEPT ![c] = p]
        /\ slot' = [slot EXCEPT ![p] = c]
        /\ Detach(subs \cup {c}, connected + 1, Evicted(p))
        /\ UNCHANGED <<at, sending, fresh, reading, running>>
  BY DEF HandleRejoin, Untouched, pumpVars
<1>2. /\ c \notin subs /\ c \notin closed /\ \A q \in DOMAIN slot : slot[q] # c
      /\ running /\ inbox # <<>> /\ inbox' = Tail(inbox)
      /\ Head(inbox).from = c /\ Opening(Head(inbox).msg)
  BY <1>1, Taken DEF Opening, Rejoin
<1>3. /\ p \in Nat /\ p # 0
      /\ playerID' \in [Conn -> Nat] /\ playerID'[c] = p
      /\ \A d \in Conn \ {c} : playerID'[d] = playerID[d]
  BY <1>1 DEF ConnInv, WireInv, WireTypes
<1>4. /\ slot' \in Seq(Conn \cup {NoConn}) /\ DOMAIN slot' = DOMAIN slot /\ slot'[p] = c
      /\ \A q \in DOMAIN slot \ {p} : slot'[q] = slot[q]
  BY <1>1 DEF ConnInv, WireInv, WireTypes
<1>5. /\ subs' = (subs \cup {c}) \ Evicted(p) /\ closed' = closed \cup Evicted(p)
      /\ Evicted(p) \subseteq subs /\ c \notin Evicted(p)
      /\ \A d \in Conn : d = slot[p] <=> d \in Evicted(p)
  BY <1>1, <1>2, ConnectionAssumption DEF Detach, Evicted, ConnInv, Seats
<1>6. Gauge'
  <2> DEFINE attached == subs \cup {c}
  <2>1. IsFiniteSet(attached) /\ Detach(attached, Cardinality(attached), Evicted(p))
    BY <1>1, <1>2, AttachGauge DEF ConnInv
  <2> HIDE DEF attached
  <2> QED BY <2>1, DetachGauge
<1>7. \A q \in DOMAIN slot' : slot'[q] # NoConn => slot'[q] \in subs' /\ playerID'[slot'[q]] = q
  <2> SUFFICES ASSUME NEW q \in DOMAIN slot, slot'[q] # NoConn
               PROVE  slot'[q] \in subs' /\ playerID'[slot'[q]] = q
    BY <1>4
  <2>1. CASE q = p
    BY <1>3, <1>4, <1>5, <2>1
  <2>2. CASE q # p
    <3>1. slot'[q] = slot[q] /\ slot[q] \in subs /\ playerID[slot[q]] = q
      BY <1>2, <1>4, <2>2 DEF ConnInv, Seats
    <3>2. slot[q] \in Conn /\ slot[q] # c /\ slot[q] # slot[p]
      BY <1>1, <1>2, <2>2, <3>1, ConnectionAssumption DEF ConnInv, Seats, WireInv, WireTypes
    <3> QED BY <1>3, <1>5, <3>1, <3>2
  <2> QED BY <2>1, <2>2
<1>8. /\ subs' \subseteq Conn /\ closed' \subseteq Conn
      /\ subs' \cap closed' = {}
      /\ \A d \in subs' : playerID'[d] # 0
  BY <1>2, <1>3, <1>5 DEF ConnInv, WireInv, WireTypes, Seats
<1>9. WireInv'
  BY <1>1, <1>2, <1>3, <1>4, <1>8, WireTake DEF ConnInv
<1> QED BY <1>6, <1>7, <1>8, <1>9 DEF ConnInv, Seats

(* Whoever is detached with the seats as they are, attached or not. *)
LEMMA LeavingStep ==
  ASSUME ConnInv, running, NEW leaving \in SUBSET Conn,
         Detach(subs, connected, leaving), slot' = Vacate(slot, playerID, leaving),
         inbox # <<>>, inbox' = Tail(inbox),
         UNCHANGED <<at, sending, fresh, reading, playerID>>
  PROVE  ConnInv'
<1>1. /\ subs \in SUBSET Conn /\ IsFiniteSet(subs) /\ playerID \in [Conn -> Nat]
      /\ slot \in Seq(Conn \cup {NoConn}) /\ closed \subseteq Conn /\ subs \cap closed = {}
      /\ connected = Cardinality(subs)
      /\ \A c \in subs : playerID[c] # 0
      /\ \A p \in DOMAIN slot : slot[p] # NoConn => slot[p] \in subs /\ playerID[slot[p]] = p
  BY DEF ConnInv, WireInv, WireTypes, Seats, Gauge, GaugeCountsSubscribers
<1>2. /\ Seats' /\ Gauge'
      /\ slot' \in Seq(Conn \cup {NoConn}) /\ subs' \subseteq Conn /\ closed' \subseteq Conn
  BY <1>1, DetachSeats
<1>3. WireInv'
  BY <1>1, <1>2, WireTake DEF ConnInv
<1> QED BY <1>2, <1>3 DEF ConnInv

(* A message that changes no seat. *)
LEMMA TakenOnly ==
  ASSUME ConnInv, inbox # <<>>, inbox' = Tail(inbox),
         UNCHANGED <<at, sending, fresh, reading, playerID, slot, subs, closed, connected, running>>
  PROVE  ConnInv'
<1>1. WireInv'
  BY WireTake DEF ConnInv, WireInv, WireTypes
<1> QED BY <1>1 DEF ConnInv, Seats, Gauge, GaugeCountsSubscribers

(* Nobody who is not attached holds a seat. *)
LEMMA NothingToVacate ==
  ASSUME ConnInv, running, NEW c, c \notin subs, c # NoConn
  PROVE  slot = Vacate(slot, playerID, {c})
  BY DEF ConnInv, WireInv, WireTypes, Seats, Vacate

LEMMA HandleRestStep ==
  ASSUME ConnInv, NEW c \in Conn, Reject(c) \/ HandleLeave(c) \/ HandleCommand(c)
  PROVE  ConnInv'
<1>1. UNCHANGED <<at, sending, fresh, reading, running, playerID>>
  BY DEF Reject, HandleLeave, HandleCommand, Untouched, pumpVars
<1>2. CASE Reject(c)
  <2>1. /\ \E msg : Takes(c, msg) /\ Opening(msg)
        /\ Detach(subs, connected, {c}) /\ UNCHANGED slot
    BY <1>2, Kinds DEF Reject, Opening
  <2>2. running /\ c \notin subs /\ inbox # <<>> /\ inbox' = Tail(inbox)
    BY <2>1, Taken
  <2>3. slot' = Vacate(slot, playerID, {c})
    BY <2>1, <2>2, NothingToVacate, ConnectionAssumption
  <2> QED BY <1>1, <2>1, <2>2, <2>3, LeavingStep
<1>3. CASE HandleLeave(c)
  <2>1. /\ Takes(c, Leave) /\ slot' = Vacate(slot, playerID, {c})
        /\ Detach(subs, connected, {c})
    BY <1>3 DEF HandleLeave
  <2>2. running /\ inbox # <<>> /\ inbox' = Tail(inbox)
    BY <2>1, Taken
  <2> QED BY <1>1, <2>1, <2>2, LeavingStep
<1>4. CASE HandleCommand(c)
  <2>1. /\ Takes(c, Command)
        /\ \/ UNCHANGED <<slot, subs, closed, connected>>
           \/ Broadcast(subs, connected, slot, playerID)
    BY <1>4 DEF HandleCommand
  <2>2. running /\ inbox # <<>> /\ inbox' = Tail(inbox)
    BY <2>1, Taken
  <2>3. ASSUME NEW slow \in SUBSET (subs \cap unread),
               slot' = Vacate(slot, playerID, slow), Detach(subs, connected, slow)
        PROVE  ConnInv'
    <3>1. slow \in SUBSET Conn
      BY DEF ConnInv, WireInv, WireTypes
    <3> QED BY <1>1, <2>2, <2>3, <3>1, LeavingStep
  <2>4. CASE UNCHANGED <<slot, subs, closed, connected>>
    BY <1>1, <2>2, <2>4, TakenOnly
  <2> QED BY <2>1, <2>3, <2>4 DEF Broadcast
<1> QED BY <1>2, <1>3, <1>4

(* A recovery. *)
LEMMA CutOffStep ==
  ASSUME ConnInv, inbox # <<>>, inbox' = Tail(inbox),
         NEW seats \in Seq(Conn \cup {NoConn}), NEW attached \in SUBSET Conn,
         IsFiniteSet(attached), CutEveryoneOff(seats, attached, Cardinality(attached)),
         playerID' \in [Conn -> Nat],
         \A d \in Conn :
           playerID'[d] = playerID[d] \/ (d = Head(inbox).from /\ Opening(Head(inbox).msg))
  PROVE  ConnInv'
<1>1. closed \subseteq Conn /\ UNCHANGED <<at, sending, fresh, reading>>
  BY DEF ConnInv, WireInv, WireTypes, CutEveryoneOff, Untouched, pumpVars
<1>2. /\ Seats' /\ Gauge'
      /\ slot' \in Seq(Conn \cup {NoConn}) /\ subs' \subseteq Conn /\ closed' \subseteq Conn
  BY <1>1, CutOffSeats
<1>3. WireInv'
  BY <1>1, <1>2, WireTake DEF ConnInv
<1> QED BY <1>2, <1>3 DEF ConnInv

LEMMA RecoverStep ==
  ASSUME ConnInv, NEW c \in Conn, Recover(c)
  PROVE  ConnInv'
<1>0. /\ slot \in Seq(Conn \cup {NoConn}) /\ subs \in SUBSET Conn /\ IsFiniteSet(subs)
      /\ connected = Cardinality(subs) /\ playerID \in [Conn -> Nat]
  BY DEF ConnInv, WireInv, WireTypes, Gauge, GaugeCountsSubscribers
<1>1. ASSUME NEW msg, Takes(c, msg), UNCHANGED playerID, CutEveryoneOff(slot, subs, connected)
      PROVE  ConnInv'
  BY <1>0, <1>1, Taken, CutOffStep
<1>2. ASSUME NEW msg, Takes(c, msg), Opening(msg), NEW p \in Nat,
             NEW seats \in Seq(Conn \cup {NoConn}),
             playerID' = [playerID EXCEPT ![c] = p],
             CutEveryoneOff(seats, subs \cup {c}, connected + 1)
      PROVE  ConnInv'
  <2>1. c \notin subs /\ inbox # <<>> /\ inbox' = Tail(inbox)
        /\ Head(inbox).from = c /\ Opening(Head(inbox).msg)
    BY <1>2, Taken
  <2> DEFINE attached == subs \cup {c}
  <2>2. /\ attached \in SUBSET Conn /\ IsFiniteSet(attached)
        /\ CutEveryoneOff(seats, attached, Cardinality(attached))
    BY <1>0, <1>2, <2>1, AttachGauge DEF ConnInv
  <2>3. /\ playerID' \in [Conn -> Nat]
        /\ \A d \in Conn : playerID'[d] = playerID[d] \/ d = c
    BY <1>0, <1>2
  <2> HIDE DEF attached
  <2> QED BY <2>1, <2>2, <2>3, CutOffStep
<1>3. /\ Append(slot, c) \in Seq(Conn \cup {NoConn}) /\ Len(slot) + 1 \in Nat
      /\ DOMAIN slot \subseteq Nat
  BY <1>0
<1>4. Opening(Join) /\ \A p : Opening(Rejoin(p))
  BY Kinds DEF Opening, Rejoin
<1> QED BY <1>0, <1>1, <1>2, <1>3, <1>4 DEF Recover

LEMMA HandleStep ==
  ASSUME ConnInv, Handle
  PROVE  ConnInv'
<1>1. CASE DropStray
  BY <1>1, TakenOnly DEF DropStray, subVars, Untouched, pumpVars
<1> QED BY <1>1, HandleJoinStep, HandleRejoinStep, HandleRestStep, RecoverStep DEF Handle

(* The room's end closes the channels of all who are attached. *)
LEMMA RunExitsStep ==
  ASSUME ConnInv, RunExits
  PROVE  ConnInv'
<1>1. /\ subs' = {} /\ closed' = closed \cup subs /\ inbox' = <<>> /\ running' = FALSE
      /\ UNCHANGED <<at, reading, sending, fresh, playerID, slot>>
      /\ Detach(subs, connected, subs)
  BY DEF RunExits, Detach, pumpVars
<1>2. Gauge'
  BY <1>1, DetachGauge DEF ConnInv, Gauge, GaugeCountsSubscribers
<1>3. inbox' \in Seq([msg : Message, from : Conn]) /\ DOMAIN inbox' = {}
  BY <1>1
<1>4. WireInv'
  BY <1>1, <1>3 DEF ConnInv, WireInv, WireTypes, Talk, OneOpening, Opening
<1> QED BY <1>1, <1>2, <1>4 DEF ConnInv, Seats

(* Clients and pumps take no part in the seating. *)
LEMMA SeatsKept ==
  ASSUME ConnInv, UNCHANGED <<subs, closed, playerID, slot, running, connected>>
  PROVE  Seats' /\ Gauge'
  BY DEF ConnInv, Seats, Gauge, GaugeCountsSubscribers

LEMMA ClientAndPumpsStep ==
  ASSUME ConnInv, ~JoinsAgain, NEW c \in Conn, Client(c) \/ Pumps(c)
  PROVE  ConnInv' /\ UNCHANGED <<subs, closed, slot>>
<1>1. UNCHANGED <<subs, closed, playerID, slot, running, connected>>
  <2>1. CASE Client(c)
    BY <2>1 DEF Client, ConnectFresh, TurnAway, ConnectRejoin, ReadJoin, ReadCommand,
                ReadBadFrame, ClientGoes, subVars, roomVars
  <2>2. CASE Pumps(c)
    BY <2>2 DEF Pumps, Enqueue, SubmitFails, PumpsEnded, ReadFails, Write, WriteEnds,
                WritePumpExits, ReaperFires, subVars, roomVars
  <2> QED BY <2>1, <2>2
<1>2. WireInv'
  BY WireClient, WirePumps DEF ConnInv
<1> QED BY <1>1, <1>2, SeatsKept DEF ConnInv

LEMMA ConnInit == Init => ConnInv
<1> SUFFICES ASSUME Init PROVE ConnInv
  OBVIOUS
<1>1. /\ at = [c \in Conn |-> "new"] /\ sending = [c \in Conn |-> Nothing]
      /\ playerID = [c \in Conn |-> 0] /\ inbox = <<>> /\ slot = <<>>
      /\ subs = {} /\ closed = {} /\ connected = 0 /\ fresh = {} /\ reading = {}
  BY DEF Init
<1>2. /\ inbox \in Seq([msg : Message, from : Conn]) /\ DOMAIN inbox = {}
      /\ slot \in Seq(Conn \cup {NoConn}) /\ DOMAIN slot = {}
  BY <1>1
<1>3. WireTypes
  BY <1>1, <1>2 DEF WireTypes
<1>4. Talk /\ OneOpening
  BY <1>1, <1>2, Kinds DEF Talk, OneOpening, Opening
<1>5. Seats /\ Gauge
  BY <1>1, <1>2, FS_EmptySet DEF Seats, Gauge, GaugeCountsSubscribers
<1> QED BY <1>3, <1>4, <1>5 DEF ConnInv, WireInv

LEMMA ConnStep ==
  ASSUME ~JoinsAgain
  PROVE  ConnInv /\ [Next]_vars => ConnInv'
<1>1. ASSUME ConnInv, UNCHANGED vars \/ Cancel
      PROVE  ConnInv'
  <2>1. /\ UNCHANGED <<subs, closed, playerID, slot, running, connected>>
        /\ UNCHANGED <<at, sending, fresh, inbox, reading>>
    BY <1>1 DEF vars, Cancel, pumpVars, subVars, roomVars
  <2> QED BY <1>1, <2>1, SeatsKept, WireKept DEF ConnInv
<1> QED BY <1>1, HandleStep, RunExitsStep, ClientAndPumpsStep DEF Next

-------------------------------------------------------------------------------
(* The leave. *)

(* The room takes a message: whoever it attaches has sent it, and a leave  *)
(* detaches its sender.                                                    *)
LEMMA LeaveTake ==
  ASSUME ConnInv, LeaveComesLast, inbox # <<>>, inbox' = Tail(inbox),
         UNCHANGED <<at, cancelled>>,
         subs' \subseteq subs \cup {Head(inbox).from},
         Head(inbox).msg = Leave => Head(inbox).from \notin subs'
  PROVE  LeaveComesLast'
<1>1. /\ 1 \in DOMAIN inbox /\ Head(inbox) = inbox[1] /\ Len(inbox) \in Nat
      /\ Len(inbox') = Len(inbox) - 1 /\ DOMAIN inbox = 1 .. Len(inbox)
      /\ DOMAIN inbox' = 1 .. Len(inbox')
      /\ \A i \in DOMAIN inbox' : i \in Int /\ i + 1 \in DOMAIN inbox
      /\ \A i \in DOMAIN inbox' : inbox'[i] = inbox[i + 1]
  <2> DEFINE Envelope == [msg : Message, from : Conn]
  <2>1. inbox \in Seq(Envelope)
    BY DEF ConnInv, WireInv, WireTypes
  <2> HIDE DEF Envelope
  <2> QED BY <2>1
<1> SUFFICES ASSUME NEW c \in Conn, Over(c), ~cancelled
             PROVE  \/ LeaveQueued(c)'
                    \/ c \notin subs' /\ \A i \in DOMAIN inbox' : inbox'[i].from # c
  BY DEF LeaveComesLast, Over
<1>2. CASE c \notin subs /\ \A i \in DOMAIN inbox : inbox[i].from # c
  BY <1>1, <1>2
<1>3. CASE LeaveQueued(c)
  <2>1. PICK i \in DOMAIN inbox :
          /\ inbox[i] = [msg |-> Leave, from |-> c]
          /\ \A j \in i + 1 .. Len(inbox) : inbox[j].from # c
    BY <1>3 DEF LeaveQueued
  <2>2. CASE i = 1
    <3>1. Head(inbox).msg = Leave /\ Head(inbox).from = c
      BY <1>1, <2>1, <2>2
    <3>2. \A j \in DOMAIN inbox' : inbox'[j].from # c
      BY <1>1, <2>1, <2>2
    <3> QED BY <3>1, <3>2
  <2>3. CASE i # 1
    <3>1. i - 1 \in DOMAIN inbox' /\ inbox'[i - 1] = [msg |-> Leave, from |-> c]
      BY <1>1, <2>1, <2>3
    <3>2. \A j \in (i - 1) + 1 .. Len(inbox') : inbox'[j].from # c
      BY <1>1, <2>1, <2>3
    <3> QED BY <3>1, <3>2 DEF LeaveQueued
  <2> QED BY <2>2, <2>3
<1> QED BY <1>2, <1>3 DEF LeaveComesLast

LEMMA LeaveHandle ==
  ASSUME ConnInv, LeaveComesLast, Handle
  PROVE  LeaveComesLast'
<1>1. UNCHANGED <<at, cancelled>>
  BY DEF Handle, DropStray, HandleJoin, Reject, HandleRejoin, HandleLeave, HandleCommand,
         Recover, CutEveryoneOff, Untouched, pumpVars
<1>2. CASE DropStray
  <2>1. /\ inbox # <<>> /\ inbox' = Tail(inbox) /\ subs' = subs
        /\ Head(inbox).from \notin subs
    BY <1>2 DEF DropStray, subVars, ConnInv, Seats
  <2> QED BY <1>1, <2>1, LeaveTake
<1>3. ASSUME NEW c \in Conn, NEW msg, Takes(c, msg), msg # Leave, subs' \subseteq subs \cup {c}
      PROVE  LeaveComesLast'
  BY <1>1, <1>3, Taken, LeaveTake
<1>4. /\ Join # Leave /\ Command # Leave /\ \A p : Rejoin(p) # Leave
  BY DEF Join, Command, Leave, Rejoin
<1>5. ASSUME NEW c \in Conn, HandleJoin(c)
      PROVE  LeaveComesLast'
  BY <1>3, <1>4, <1>5 DEF HandleJoin, Broadcast, Detach
<1>6. ASSUME NEW c \in Conn, Reject(c)
      PROVE  LeaveComesLast'
  BY <1>3, <1>4, <1>6 DEF Reject, Detach
<1>7. ASSUME NEW c \in Conn, HandleRejoin(c)
      PROVE  LeaveComesLast'
  BY <1>3, <1>4, <1>7 DEF HandleRejoin, Detach
<1>8. ASSUME NEW c \in Conn, HandleCommand(c)
      PROVE  LeaveComesLast'
  BY <1>3, <1>4, <1>8 DEF HandleCommand, Broadcast, Detach
<1>9. ASSUME NEW c \in Conn, Recover(c)
      PROVE  LeaveComesLast'
  <2>1. /\ subs' \subseteq subs
        /\ \/ \E msg \in {Join, Command} \cup {Rejoin(p) : p \in 0 .. MaxSeats} : Takes(c, msg)
           \/ Takes(c, Join)
           \/ \E p \in DOMAIN slot : Takes(c, Rejoin(p))
    BY <1>9 DEF Recover, CutEveryoneOff, Detach
  <2> QED BY <1>3, <1>4, <2>1
<1>10. ASSUME NEW c \in Conn, HandleLeave(c)
       PROVE  LeaveComesLast'
  <2>1. Takes(c, Leave) /\ subs' = subs \ {c}
    BY <1>10 DEF HandleLeave, Detach
  <2> QED BY <1>1, <2>1, Taken, LeaveTake
<1> QED BY <1>2, <1>5, <1>6, <1>7, <1>8, <1>9, <1>10 DEF Handle

(* Of the pumps, only a leave that enters the inbox ends a handler while   *)
(* the room is open, or a rejoin that never reaches it.                    *)
LEMMA LeavePumps ==
  ASSUME ConnInv, LeaveComesLast, NEW c \in Conn, Client(c) \/ Pumps(c),
         UNCHANGED <<subs, closed, slot>>
  PROVE  LeaveComesLast'
<1>0. UNCHANGED cancelled
  BY DEF Client, ConnectFresh, TurnAway, ConnectRejoin, ReadJoin, ReadCommand,
         ReadBadFrame, ClientGoes, Pumps, Enqueue, SubmitFails, PumpsEnded, ReadFails,
         Write, WriteEnds, WritePumpExits, ReaperFires, roomVars
<1>1. CASE Enqueue(c)
  <2>1. /\ sending[c] # Nothing
        /\ inbox' = Append(inbox, [msg |-> sending[c], from |-> c])
        /\ \A d \in Conn \ {c} : at'[d] = at[d]
        /\ Over(c)' => sending[c] = Leave
    BY <1>1, Kinds DEF Enqueue, ConnInv, WireInv, WireTypes, Talk, Over
  <2>2. /\ Len(inbox) \in Nat /\ Len(inbox') = Len(inbox) + 1
        /\ DOMAIN inbox = 1 .. Len(inbox) /\ DOMAIN inbox' = 1 .. Len(inbox')
        /\ \A i \in DOMAIN inbox : inbox'[i] = inbox[i]
        /\ inbox'[Len(inbox')] = [msg |-> sending[c], from |-> c]
    BY <2>1 DEF ConnInv, WireInv, WireTypes
  <2> SUFFICES ASSUME NEW d \in Conn, Over(d)', ~cancelled
               PROVE  \/ LeaveQueued(d)'
                      \/ d \notin subs /\ \A i \in DOMAIN inbox' : inbox'[i].from # d
    BY <1>0 DEF LeaveComesLast
  <2>3. CASE d = c
    <3>1. inbox'[Len(inbox')] = [msg |-> Leave, from |-> c]
      BY <2>1, <2>2, <2>3
    <3>2. Len(inbox') \in DOMAIN inbox'
      BY <2>2
    <3>3. Len(inbox') + 1 .. Len(inbox') = {}
      BY <2>2
    <3> QED BY <2>3, <3>1, <3>2, <3>3 DEF LeaveQueued
  <2>4. CASE d # c
    <3>1. Over(d)
      BY <2>1, <2>4 DEF Over
    <3>2. CASE LeaveQueued(d)
      <4>1. PICK i \in DOMAIN inbox :
              /\ inbox[i] = [msg |-> Leave, from |-> d]
              /\ \A j \in i + 1 .. Len(inbox) : inbox[j].from # d
        BY <3>2 DEF LeaveQueued
      <4>2. i \in DOMAIN inbox' /\ inbox'[i] = [msg |-> Leave, from |-> d]
        BY <2>2, <4>1
      <4>3. \A j \in i + 1 .. Len(inbox') : inbox'[j].from # d
        BY <2>2, <2>4, <4>1
      <4> QED BY <4>2, <4>3 DEF LeaveQueued
    <3>3. CASE d \notin subs /\ \A i \in DOMAIN inbox : inbox[i].from # d
      BY <2>2, <2>4, <3>3
    <3> QED BY <3>1, <3>2, <3>3 DEF LeaveComesLast
  <2> QED BY <2>3, <2>4
<1>2. CASE ~Enqueue(c)
  <2>1. UNCHANGED inbox /\ \A d \in Conn \ {c} : at'[d] = at[d]
    BY <1>2 DEF Client, ConnectFresh, TurnAway, ConnectRejoin, ReadJoin, ReadCommand,
                ReadBadFrame, ClientGoes, Pumps, SubmitFails, PumpsEnded, ReadFails, Write,
                WriteEnds, WritePumpExits, ReaperFires, roomVars, pumpVars, ConnInv,
                WireInv, WireTypes
  <2>2. Over(c)' =>
          \/ cancelled \/ Over(c)
          \/ c \notin subs /\ \A i \in DOMAIN inbox : inbox[i].from # c
    <3>1. CASE SubmitFails(c)
      <4>1. at'[c] = IF at[c] = "pumping" THEN at[c] ELSE "done"
        BY <3>1 DEF SubmitFails, ConnInv, WireInv, WireTypes
      <4>2. at[c] \in {"rejoining", "pumping", "leaving"}
        BY <3>1 DEF SubmitFails, ConnInv, WireInv, Talk
      <4>3. at[c] = "leaving" => cancelled
        BY <3>1 DEF SubmitFails
      <4>4. at[c] = "rejoining" =>
              c \notin subs /\ \A i \in DOMAIN inbox : inbox[i].from # c
        BY DEF ConnInv, WireInv, Talk, Seats
      <4> QED BY <4>1, <4>2, <4>3, <4>4 DEF Over
    <3>2. CASE ~SubmitFails(c)
      BY <1>2, <3>2 DEF Client, ConnectFresh, TurnAway, ConnectRejoin, ReadJoin, ReadCommand,
                  ReadBadFrame, ClientGoes, Pumps, PumpsEnded, ReadFails, Write,
                  WriteEnds, WritePumpExits, ReaperFires, pumpVars, Over, ConnInv,
                  WireInv, WireTypes
    <3> QED BY <3>1, <3>2
  <2> SUFFICES ASSUME NEW d \in Conn, Over(d)', ~cancelled
               PROVE  \/ LeaveQueued(d)'
                      \/ d \notin subs /\ \A i \in DOMAIN inbox' : inbox'[i].from # d
    BY <1>0 DEF LeaveComesLast
  <2>3. LeaveQueued(d) => LeaveQueued(d)'
    BY <2>1 DEF LeaveQueued
  <2> QED BY <2>1, <2>2, <2>3 DEF LeaveComesLast, Over
<1> QED BY <1>1, <1>2

LEMMA LeaveStep ==
  ASSUME ~JoinsAgain
  PROVE  ConnInv /\ LeaveComesLast /\ [Next]_vars => LeaveComesLast'
<1>1. ASSUME LeaveComesLast, UNCHANGED vars
      PROVE  LeaveComesLast'
  BY <1>1 DEF LeaveComesLast, LeaveQueued, Over, vars, pumpVars, subVars, roomVars
<1>2. ASSUME Cancel \/ RunExits
      PROVE  LeaveComesLast'
  BY <1>2 DEF Cancel, RunExits, LeaveComesLast
<1> QED BY <1>1, <1>2, LeaveHandle, LeavePumps, ClientAndPumpsStep DEF Next

LEMMA LeaveInit == Init => LeaveComesLast
  BY DEF Init, LeaveComesLast, Over

-------------------------------------------------------------------------------
(* What ConnInv leaves of the types, with the bound on the seats. *)
Bounds ==
  /\ Len(inbox) <= InboxCap
  /\ Len(slot) <= MaxSeats
  /\ playerID \in [Conn -> 0 .. MaxSeats]

Stages ==
  /\ at \in [Conn -> {"new", "rejoining", "pumping", "leaving", "done"}]
  /\ reading \subseteq Conn /\ writing \subseteq Conn /\ live \subseteq Conn
  /\ fresh \subseteq Conn /\ present \subseteq Conn /\ unread \subseteq Conn

TypeInv == Bounds /\ Stages /\ cancelled \in BOOLEAN /\ running \in BOOLEAN

LEMMA TypeInit == Init => TypeInv
<1> SUFFICES ASSUME Init PROVE TypeInv
  OBVIOUS
<1>1. Len(<<>>) = 0 /\ 0 <= InboxCap /\ 0 <= MaxSeats /\ 0 \in 0 .. MaxSeats
  BY ConnectionAssumption
<1>2. Bounds
  BY <1>1 DEF Init, Bounds
<1>3. Stages
  BY DEF Init, Stages
<1> QED BY <1>2, <1>3 DEF Init, TypeInv

LEMMA BoundsStep ==
  ASSUME ConnInv, Bounds, [Next]_vars
  PROVE  Bounds'
<1>0. inbox \in Seq([msg : Message, from : Conn]) /\ slot \in Seq(Conn \cup {NoConn})
      /\ MaxSeats \in Nat /\ InboxCap \in Nat
  BY ConnectionAssumption DEF ConnInv, WireInv, WireTypes
<1>1. Len(inbox') <= InboxCap
  <2>1. CASE UNCHANGED inbox
    BY <2>1 DEF Bounds
  <2>2. CASE inbox # <<>> /\ inbox' = Tail(inbox)
    BY <1>0, <2>2 DEF Bounds
  <2>3. ASSUME NEW c \in Conn, Enqueue(c)
        PROVE  Len(inbox') <= InboxCap
    BY <1>0, <2>3 DEF Enqueue
  <2>4. CASE RunExits
    BY <1>0, <2>4 DEF RunExits
  <2>5. Handle => inbox # <<>> /\ inbox' = Tail(inbox)
    BY DEF Handle, DropStray, HandleJoin, Reject, HandleRejoin, HandleLeave, HandleCommand,
           Recover, Takes
  <2>6. ASSUME NEW c \in Conn, Client(c) \/ Pumps(c), ~Enqueue(c)
        PROVE  UNCHANGED inbox
    BY <2>6 DEF Client, ConnectFresh, TurnAway, ConnectRejoin, ReadJoin, ReadCommand,
                ReadBadFrame, ClientGoes, Pumps, SubmitFails, PumpsEnded, ReadFails,
                Write, WriteEnds, WritePumpExits, ReaperFires, roomVars
  <2>7. UNCHANGED vars \/ Cancel => UNCHANGED inbox
    BY DEF vars, Cancel, roomVars
  <2> QED BY <2>1, <2>2, <2>3, <2>4, <2>5, <2>6, <2>7 DEF Next
<1>2. Len(slot') <= MaxSeats /\ playerID' \in [Conn -> 0 .. MaxSeats]
  <2>1. CASE UNCHANGED <<slot, playerID>>
    BY <2>1 DEF Bounds
  <2>2. ASSUME NEW seats \in Seq(Conn \cup {NoConn}), NEW ids, NEW leaving,
               Len(seats) <= MaxSeats, slot' = Vacate(seats, ids, leaving)
        PROVE  Len(slot') <= MaxSeats
    <3>1. slot' \in Seq(Conn \cup {NoConn}) /\ DOMAIN slot' = DOMAIN seats
      BY <2>2, VacateType
    <3> QED BY <2>2, <3>1
  <2>3. /\ \A c \in Conn : /\ Append(slot, c) \in Seq(Conn \cup {NoConn})
                           /\ Len(Append(slot, c)) = Len(slot) + 1
        /\ Len(slot) \in Nat
    BY <1>0
  <2>4. ASSUME NEW seats \in Seq(Conn \cup {NoConn}), NEW attached, NEW gauge,
               Len(seats) <= MaxSeats, CutEveryoneOff(seats, attached, gauge)
        PROVE  Len(slot') <= MaxSeats
    <3>1. slot' = [p \in 1 .. Len(seats) |-> NoConn]
      BY <2>4 DEF CutEveryoneOff
    <3>2. Len(slot') = Len(seats)
      BY <3>1
    <3> QED BY <2>4, <3>2
  <2>5. ASSUME NEW c \in Conn, HandleJoin(c)
        PROVE  Len(slot') <= MaxSeats /\ playerID' \in [Conn -> 0 .. MaxSeats]
    <3>1. /\ Len(slot) < MaxSeats /\ playerID' = [playerID EXCEPT ![c] = Len(slot) + 1]
          /\ \E slow : slot' = Vacate(Append(slot, c), playerID', slow)
      BY <2>5 DEF HandleJoin, Broadcast
    <3> DEFINE seats == Append(slot, c)
    <3>2. seats \in Seq(Conn \cup {NoConn}) /\ Len(seats) <= MaxSeats
      BY <1>0, <2>3, <3>1
    <3>3. \E slow : slot' = Vacate(seats, playerID', slow)
      BY <3>1
    <3> HIDE DEF seats
    <3>4. Len(slot') <= MaxSeats
      BY <2>2, <3>2, <3>3
    <3>5. Len(slot) + 1 \in 0 .. MaxSeats
      BY <1>0, <2>3, <3>1
    <3> QED BY <3>1, <3>4, <3>5 DEF Bounds
  <2>6. ASSUME NEW c \in Conn, HandleRejoin(c)
        PROVE  Len(slot') <= MaxSeats /\ playerID' \in [Conn -> 0 .. MaxSeats]
    <3>1. PICK p \in DOMAIN slot :
            playerID' = [playerID EXCEPT ![c] = p] /\ slot' = [slot EXCEPT ![p] = c]
      BY <2>6 DEF HandleRejoin
    <3>2. p \in 0 .. MaxSeats
      BY <1>0, <3>1 DEF Bounds
    <3> QED BY <1>0, <3>1, <3>2 DEF Bounds
  <2>7. ASSUME NEW c \in Conn, Reject(c) \/ HandleLeave(c) \/ HandleCommand(c)
        PROVE  Len(slot') <= MaxSeats /\ playerID' \in [Conn -> 0 .. MaxSeats]
    <3>1. /\ UNCHANGED playerID
          /\ UNCHANGED slot \/ \E leaving : slot' = Vacate(slot, playerID, leaving)
      BY <2>7 DEF Reject, HandleLeave, HandleCommand, Broadcast
    <3> QED BY <1>0, <2>2, <3>1 DEF Bounds
  <2>8. ASSUME NEW c \in Conn, Recover(c)
        PROVE  Len(slot') <= MaxSeats /\ playerID' \in [Conn -> 0 .. MaxSeats]
    <3>1. CASE UNCHANGED playerID /\ CutEveryoneOff(slot, subs, connected)
      BY <1>0, <2>4, <3>1 DEF Bounds
    <3>2. CASE /\ Len(slot) < MaxSeats
               /\ playerID' = [playerID EXCEPT ![c] = Len(slot) + 1]
               /\ CutEveryoneOff(Append(slot, c), subs \cup {c}, connected + 1)
      <4> DEFINE seats == Append(slot, c)
      <4>1. seats \in Seq(Conn \cup {NoConn}) /\ Len(seats) <= MaxSeats
        BY <1>0, <2>3, <3>2
      <4>2. CutEveryoneOff(seats, subs \cup {c}, connected + 1)
        BY <3>2
      <4> HIDE DEF seats
      <4>3. Len(slot') <= MaxSeats
        BY <2>4, <4>1, <4>2
      <4>4. Len(slot) + 1 \in 0 .. MaxSeats
        BY <1>0, <2>3, <3>2
      <4> QED BY <3>2, <4>3, <4>4 DEF Bounds
    <3>3. ASSUME NEW p \in DOMAIN slot, playerID' = [playerID EXCEPT ![c] = p],
                 CutEveryoneOff(slot, subs \cup {c}, connected + 1)
          PROVE  Len(slot') <= MaxSeats /\ playerID' \in [Conn -> 0 .. MaxSeats]
      <4>1. Len(slot') <= MaxSeats
        BY <1>0, <2>4, <3>3 DEF Bounds
      <4>2. p \in 0 .. MaxSeats
        BY <1>0, <3>3 DEF Bounds
      <4> QED BY <3>3, <4>1, <4>2 DEF Bounds
    <3> QED BY <2>8, <3>1, <3>2, <3>3 DEF Recover
  <2>9. ASSUME NEW c \in Conn, Client(c) \/ Pumps(c)
        PROVE  UNCHANGED <<slot, playerID>>
    BY <2>9 DEF Client, ConnectFresh, TurnAway, ConnectRejoin, ReadJoin, ReadCommand,
                ReadBadFrame, ClientGoes, Pumps, Enqueue, SubmitFails, PumpsEnded, ReadFails,
                Write, WriteEnds, WritePumpExits, ReaperFires, subVars
  <2>10. UNCHANGED vars \/ Cancel \/ RunExits \/ DropStray => UNCHANGED <<slot, playerID>>
    BY DEF vars, Cancel, RunExits, DropStray, subVars
  <2> QED BY <2>1, <2>5, <2>6, <2>7, <2>8, <2>9, <2>10 DEF Next, Handle
<1> QED BY <1>1, <1>2 DEF Bounds

LEMMA StagesStep ==
  ASSUME ConnInv, Stages, [Next]_vars
  PROVE  Stages'
<1>1. ASSUME NEW c \in Conn, Client(c)
      PROVE  Stages'
  BY <1>1 DEF Client, ConnectFresh, TurnAway, ConnectRejoin, ReadJoin, ReadCommand,
              ReadBadFrame, ClientGoes, Dispatch, ReadPumpExits, SendOne, Submit, Stages,
              pumpVars, subVars, roomVars
<1>2. ASSUME NEW c \in Conn, Pumps(c)
      PROVE  Stages'
  BY <1>2 DEF Pumps, Enqueue, SubmitFails, PumpsEnded, ReadFails, ReadPumpExits, Write,
              WriteEnds, WritePumpExits, ReaperFires, Submit, Stages, pumpVars, subVars,
              roomVars
<1>3. subs \subseteq Conn
  BY DEF ConnInv, WireInv, WireTypes
<1>4. ASSUME Handle
      PROVE  Stages'
  <2>1. UNCHANGED <<at, reading, writing, live, fresh, present>>
    BY <1>4 DEF Handle, DropStray, HandleJoin, Reject, HandleRejoin, HandleLeave,
                HandleCommand, Recover, CutEveryoneOff, Untouched, pumpVars
  <2>2. unread' \subseteq Conn
    BY <1>3, <1>4 DEF Handle, DropStray, HandleJoin, Reject, HandleRejoin, HandleLeave,
                HandleCommand, Recover, CutEveryoneOff, Broadcast, SendOne, Stages, subVars
  <2> QED BY <2>1, <2>2 DEF Stages
<1>5. UNCHANGED vars \/ Cancel \/ RunExits => Stages'
  BY DEF vars, Cancel, RunExits, Stages, pumpVars, subVars
<1> QED BY <1>1, <1>2, <1>4, <1>5 DEF Next

LEMMA FlagsStep ==
  ASSUME cancelled \in BOOLEAN, running \in BOOLEAN, [Next]_vars
  PROVE  cancelled' \in BOOLEAN /\ running' \in BOOLEAN
<1>1. ASSUME NEW c \in Conn, Client(c) \/ Pumps(c)
      PROVE  UNCHANGED <<cancelled, running>>
  BY <1>1 DEF Client, ConnectFresh, TurnAway, ConnectRejoin, ReadJoin, ReadCommand,
              ReadBadFrame, ClientGoes, Pumps, Enqueue, SubmitFails, PumpsEnded, ReadFails,
              Write, WriteEnds, WritePumpExits, ReaperFires, roomVars
<1>2. Handle => UNCHANGED <<cancelled, running>>
  BY DEF Handle, DropStray, HandleJoin, Reject, HandleRejoin, HandleLeave, HandleCommand,
         Recover, CutEveryoneOff, Untouched
<1>3. Cancel => cancelled' = TRUE /\ UNCHANGED running
  BY DEF Cancel
<1>4. RunExits => running' = FALSE /\ UNCHANGED cancelled
  BY DEF RunExits
<1>5. UNCHANGED vars => UNCHANGED <<cancelled, running>>
  BY DEF vars, roomVars
<1> QED BY <1>1, <1>2, <1>3, <1>4, <1>5 DEF Next

LEMMA TypesHold == ConnInv /\ TypeInv => TypeOK
<1> SUFFICES ASSUME ConnInv, TypeInv PROVE TypeOK
  OBVIOUS
<1>1. connected \in Int
  BY FS_CardinalityType DEF ConnInv, Gauge, GaugeCountsSubscribers
<1>2. subs \subseteq Conn /\ closed \subseteq Conn
      /\ \A p \in DOMAIN slot : slot[p] \in Conn \cup {NoConn}
  BY DEF ConnInv, WireInv, WireTypes
<1>3. {cancelled, running} \subseteq BOOLEAN
  BY DEF TypeInv
<1>4. {reading, writing, live, fresh, present, closed, subs, unread} \subseteq SUBSET Conn
  BY <1>2 DEF TypeInv, Stages
<1> QED BY <1>1, <1>2, <1>3, <1>4 DEF TypeOK, TypeInv, Bounds, Stages

-------------------------------------------------------------------------------
LEMMA ConnInvariant ==
  ASSUME ~JoinsAgain
  PROVE  Spec => [](ConnInv /\ LeaveComesLast)
<1>1. Init => ConnInv /\ LeaveComesLast
  BY ConnInit, LeaveInit
<1>2. ConnInv /\ LeaveComesLast /\ [Next]_vars => (ConnInv /\ LeaveComesLast)'
  BY ConnStep, LeaveStep
<1> QED BY <1>1, <1>2, PTL DEF Spec

(* The players.connected gauge counts the attached subscribers, through    *)
(* refused joins, evictions, slow disconnects, recoveries and the room's   *)
(* end, as long as no connection joins twice (broadcast.go:227, :247).     *)
THEOREM GaugeIsExact ==
  ASSUME ~JoinsAgain
  PROVE  Spec => []GaugeCountsSubscribers
<1>1. ConnInv => GaugeCountsSubscribers
  BY DEF ConnInv, Gauge
<1> QED BY <1>1, ConnInvariant, PTL

(* A connection that is over has told an open room so, after everything    *)
(* else it said, or was never heard of there (handler.go:248, room.go:534).*)
THEOREM LeavesAreLast ==
  ASSUME ~JoinsAgain
  PROVE  Spec => []LeaveComesLast
<1> QED BY ConnInvariant, PTL

(* Every variable keeps its type, and the inbox its bound (room.go:18). *)
THEOREM ConnectionTypeCorrect ==
  ASSUME ~JoinsAgain
  PROVE  Spec => []TypeOK
<1>1. ConnInv /\ TypeInv /\ [Next]_vars => TypeInv'
  BY BoundsStep, StagesStep, FlagsStep DEF TypeInv
<1>2. ConnInv /\ TypeInv => TypeOK
  BY TypesHold
<1> QED BY <1>1, <1>2, TypeInit, ConnInvariant, PTL DEF Spec

-------------------------------------------------------------------------------
(***************************************************************************)
(* The room's handlers keep its seats as Seating says, whatever the        *)
(* goroutines of its connections do: Connection implements Seating when    *)
(* clients send one join each.  ConnInv says who may ask for a seat and    *)
(* that who holds one is attached.                                         *)
(***************************************************************************)

(* The seats and the connections as Seating sees them. *)
SeatOf == [p \in DOMAIN slot |-> IF slot[p] \in subs THEN slot[p] ELSE NoConn]
StatusOf == [c \in Conn |-> IF c \in subs THEN "seated"
                            ELSE IF c \in closed THEN "over" ELSE "new"]

(* While the room runs, who holds a seat sits in it. *)
LEMMA SeatsAreSlots ==
  ASSUME ConnInv, running
  PROVE  SeatOf = slot
<1>1. slot \in Seq(Conn \cup {NoConn})
  BY DEF ConnInv, WireInv, WireTypes
<1>2. slot = [p \in DOMAIN slot |-> slot[p]]
  BY <1>1
<1>3. \A p \in DOMAIN slot : slot[p] = IF slot[p] \in subs THEN slot[p] ELSE NoConn
  BY DEF ConnInv, Seats
<1> QED BY <1>2, <1>3 DEF SeatOf

LEMMA SeatsAreSlotsNext ==
  ASSUME ConnInv', running'
  PROVE  SeatOf' = slot'
<1>1. slot' \in Seq(Conn \cup {NoConn})
  BY DEF ConnInv, WireInv, WireTypes
<1>2. slot' = [p \in DOMAIN slot' |-> slot'[p]]
  BY <1>1
<1>3. \A p \in DOMAIN slot' : slot'[p] = IF slot'[p] \in subs' THEN slot'[p] ELSE NoConn
  BY DEF ConnInv, Seats
<1> QED BY <1>2, <1>3 DEF SeatOf

LEMMA StatusIs ==
  ASSUME ConnInv, NEW c \in Conn
  PROVE  /\ c \in subs => StatusOf[c] = "seated"
         /\ c \notin closed => StatusOf[c] # "over"
         /\ c \notin closed /\ c \notin subs => StatusOf[c] = "new"
  BY DEF StatusOf

(* Some sit down, some leave. *)
LEMMA StatusAfter ==
  ASSUME NEW seated, NEW leaving,
         subs' = (subs \cup seated) \ leaving, closed' = closed \cup leaving
  PROVE  StatusOf' = [c \in Conn |-> IF c \in leaving THEN "over"
                                     ELSE IF c \in seated THEN "seated" ELSE StatusOf[c]]
  BY DEF StatusOf

(* To vacate, seat by seat, is to empty the seats of those who leave. *)
LEMMA VacateIsWithout ==
  ASSUME NEW seats, NEW ids, NEW leaving,
         \A p \in DOMAIN seats : seats[p] \in leaving => ids[seats[p]] = p
  PROVE  Vacate(seats, ids, leaving) = S!Without(seats, leaving)
  BY DEF Vacate, S!Without

-------------------------------------------------------------------------------
(* One step of the room each. *)
LEMMA SitImplemented ==
  ASSUME ConnInv, NEW c \in Conn, c \notin subs, c \notin closed, running,
         NEW slow \in SUBSET (subs \cup {c}),
         subs' = (subs \cup {c}) \ slow, closed' = closed \cup slow,
         SeatOf' = S!Without(Append(slot, c), slow)
  PROVE  S!Next
<1>1. SeatOf = slot
  BY SeatsAreSlots
<1>2. StatusOf' = S!Status({c}, slow)
  BY StatusAfter DEF S!Status, StatusOf
<1>3. slow \subseteq S!Seated \cup {c}
  BY StatusIs DEF S!Seated, StatusOf, ConnInv, WireInv, WireTypes
<1>4. StatusOf[c] = "new"
  BY StatusIs
<1>5. slow \in SUBSET Conn
  BY DEF ConnInv, WireInv, WireTypes
<1> QED BY <1>1, <1>2, <1>3, <1>4, <1>5 DEF S!Next, S!Sit, SeatOf, StatusOf

LEMMA LeaveImplemented ==
  ASSUME ConnInv, NEW leaving \in SUBSET Conn, leaving \cap closed = {},
         subs' = subs \ leaving, closed' = closed \cup leaving,
         SeatOf' = S!Without(SeatOf, leaving)
  PROVE  S!Next
<1>1. StatusOf' = S!Status({}, leaving)
  BY StatusAfter DEF S!Status, StatusOf
<1>2. \A c \in leaving : StatusOf[c] # "over"
  BY StatusIs
<1> QED BY <1>1, <1>2 DEF S!Next, S!Leave, SeatOf, StatusOf

LEMMA JoinImplemented ==
  ASSUME ConnInv, ConnInv', NEW c \in Conn, HandleJoin(c)
  PROVE  S!Next
<1>1. /\ Takes(c, Join)
      /\ playerID' = [playerID EXCEPT ![c] = Len(slot) + 1]
      /\ Broadcast(subs \cup {c}, connected + 1, Append(slot, c), playerID')
      /\ running' = running
  BY DEF HandleJoin, Untouched
<1>2. /\ c \notin subs /\ c \notin closed /\ \A p \in DOMAIN slot : slot[p] # c
      /\ running
  BY <1>1, Taken, Kinds DEF Opening
<1>3. PICK slow \in SUBSET (subs \cup {c}) :
        /\ slot' = Vacate(Append(slot, c), playerID', slow)
        /\ subs' = (subs \cup {c}) \ slow /\ closed' = closed \cup slow
  BY <1>1 DEF Broadcast, Detach
<1>4. SeatOf' = slot'
  BY <1>1, <1>2, SeatsAreSlotsNext
<1>5. \A p \in DOMAIN Append(slot, c) :
        Append(slot, c)[p] \in slow => playerID'[Append(slot, c)[p]] = p
  BY <1>1, <1>2, ConnectionAssumption DEF ConnInv, Seats, WireInv, WireTypes
<1> QED BY <1>2, <1>3, <1>4, <1>5, VacateIsWithout, SitImplemented

LEMMA RejoinImplemented ==
  ASSUME ConnInv, ConnInv', NEW c \in Conn, HandleRejoin(c)
  PROVE  S!Next
<1>1. PICK p \in DOMAIN slot :
        /\ Takes(c, Rejoin(p))
        /\ slot' = [slot EXCEPT ![p] = c]
        /\ Detach(subs \cup {c}, connected + 1, Evicted(p))
        /\ running' = running
  BY DEF HandleRejoin, Untouched
<1>2. /\ c \notin subs /\ c \notin closed /\ running
  BY <1>1, Taken DEF Opening, Rejoin
<1>3. SeatOf = slot /\ SeatOf' = slot'
  BY <1>1, <1>2, SeatsAreSlots, SeatsAreSlotsNext
<1>4. subs' = (subs \cup {c}) \ Evicted(p) /\ closed' = closed \cup Evicted(p)
  BY <1>1 DEF Detach
<1>5. StatusOf' = S!Status({c}, Evicted(p))
  BY <1>4, StatusAfter DEF S!Status, StatusOf
<1>6. StatusOf[c] = "new"
  BY <1>2, StatusIs
<1> QED BY <1>1, <1>3, <1>5, <1>6 DEF S!Next, S!Take, SeatOf, StatusOf, Evicted

(* Whoever is detached with the seats as they are. *)
LEMMA DetachImplemented ==
  ASSUME ConnInv, ConnInv', running, running' = running, NEW leaving \in SUBSET Conn,
         leaving \cap closed = {},
         Detach(subs, connected, leaving), slot' = Vacate(slot, playerID, leaving)
  PROVE  S!Next
<1>1. SeatOf = slot /\ SeatOf' = slot'
  BY SeatsAreSlots, SeatsAreSlotsNext
<1>2. \A p \in DOMAIN slot : slot[p] \in leaving => playerID[slot[p]] = p
  BY ConnectionAssumption DEF ConnInv, Seats
<1>3. SeatOf' = S!Without(SeatOf, leaving)
  BY <1>1, <1>2, VacateIsWithout
<1>4. subs' = subs \ leaving /\ closed' = closed \cup leaving
  BY DEF Detach
<1> QED BY <1>3, <1>4, LeaveImplemented

LEMMA RestImplemented ==
  ASSUME ConnInv, ConnInv', NEW c \in Conn, Reject(c) \/ HandleLeave(c) \/ HandleCommand(c)
  PROVE  S!Next \/ UNCHANGED <<subs, closed, slot>>
<1>1. running' = running
  BY DEF Reject, HandleLeave, HandleCommand, Untouched
<1>2. CASE Reject(c)
  <2>1. /\ \E msg : Takes(c, msg) /\ Opening(msg)
        /\ Detach(subs, connected, {c}) /\ UNCHANGED slot
    BY <1>2, Kinds DEF Reject, Opening
  <2>2. running /\ c \notin subs /\ c \notin closed
    BY <2>1, Taken
  <2>3. slot' = Vacate(slot, playerID, {c})
    BY <2>1, <2>2, NothingToVacate, ConnectionAssumption
  <2> QED BY <1>1, <2>1, <2>2, <2>3, DetachImplemented
<1>3. CASE HandleLeave(c)
  <2>1. /\ Takes(c, Leave) /\ slot' = Vacate(slot, playerID, {c})
        /\ Detach(subs, connected, {c})
    BY <1>3 DEF HandleLeave
  <2>2. running /\ c \notin closed
    BY <2>1, Taken
  <2> QED BY <1>1, <2>1, <2>2, DetachImplemented
<1>4. CASE HandleCommand(c)
  <2>1. /\ Takes(c, Command)
        /\ \/ UNCHANGED <<slot, subs, closed, connected>>
           \/ Broadcast(subs, connected, slot, playerID)
    BY <1>4 DEF HandleCommand
  <2>2. running
    BY <2>1, Taken
  <2>3. ASSUME NEW slow \in SUBSET (subs \cap unread),
               slot' = Vacate(slot, playerID, slow), Detach(subs, connected, slow)
        PROVE  S!Next
    <3>1. slow \in SUBSET Conn /\ slow \cap closed = {}
      BY DEF ConnInv, WireInv, WireTypes, Seats
    <3> QED BY <1>1, <2>2, <2>3, <3>1, DetachImplemented
  <2> QED BY <2>1, <2>3 DEF Broadcast
<1> QED BY <1>2, <1>3, <1>4

(* A recovery empties the seats of all who are attached, so all of them. *)
LEMMA RecoverImplemented ==
  ASSUME ConnInv, ConnInv', NEW c \in Conn, Recover(c)
  PROVE  S!Next
<1>0. running' = running /\ slot \in Seq(Conn \cup {NoConn}) /\ subs \in SUBSET Conn
      /\ subs \cap closed = {}
  BY DEF Recover, CutEveryoneOff, Untouched, ConnInv, WireInv, WireTypes, Seats
<1>1. ASSUME NEW seats, NEW attached, NEW gauge, running,
             CutEveryoneOff(seats, attached, gauge),
             \A p \in DOMAIN seats : seats[p] # NoConn => seats[p] \in attached
      PROVE  /\ SeatOf' = S!Without(seats, attached)
             /\ subs' = {} /\ closed' = closed \cup attached
  <2>1. /\ slot' = [p \in DOMAIN seats |-> NoConn]
        /\ subs' = attached \ attached /\ closed' = closed \cup attached
    BY <1>1 DEF CutEveryoneOff, Detach
  <2>2. SeatOf' = slot'
    BY <1>0, <1>1, SeatsAreSlotsNext
  <2> QED BY <1>1, <2>1, <2>2 DEF S!Without
<1>2. ASSUME NEW msg, Takes(c, msg)
      PROVE  /\ running /\ c \notin closed /\ SeatOf = slot
             /\ \A p \in DOMAIN slot : slot[p] # NoConn => slot[p] \in subs
             /\ Opening(msg) => c \notin subs /\ \A p \in DOMAIN slot : slot[p] # c
  BY <1>2, Taken, SeatsAreSlots DEF ConnInv, Seats
<1>3. ASSUME NEW msg, Takes(c, msg), CutEveryoneOff(slot, subs, connected)
      PROVE  S!Next
  <2>1. /\ SeatOf' = S!Without(SeatOf, subs)
        /\ subs' = subs \ subs /\ closed' = closed \cup subs
    BY <1>1, <1>2, <1>3
  <2> QED BY <1>0, <2>1, LeaveImplemented
<1>4. CASE Takes(c, Join) /\ CutEveryoneOff(Append(slot, c), subs \cup {c}, connected + 1)
  <2> DEFINE attached == subs \cup {c}
             seats    == Append(slot, c)
  <2>1. running /\ c \notin closed /\ c \notin subs /\ SeatOf = slot
    BY <1>2, <1>4, Kinds DEF Opening
  <2>2. \A p \in DOMAIN seats : seats[p] # NoConn => seats[p] \in attached
    BY <1>0, <1>2, <1>4
  <2>3. /\ SeatOf' = S!Without(seats, attached)
        /\ subs' = attached \ attached /\ closed' = closed \cup attached
    BY <1>1, <1>4, <2>1, <2>2
  <2> QED BY <2>1, <2>3, SitImplemented
<1>5. ASSUME NEW p \in DOMAIN slot, Takes(c, Rejoin(p)),
             CutEveryoneOff(slot, subs \cup {c}, connected + 1)
      PROVE  S!Next
  <2> DEFINE attached == subs \cup {c}
  <2>1. /\ running /\ c \notin closed /\ c \notin subs /\ SeatOf = slot
        /\ \A q \in DOMAIN slot : slot[q] # NoConn => slot[q] \in subs
        /\ \A q \in DOMAIN slot : slot[q] # c
    BY <1>2, <1>5 DEF Opening, Rejoin
  <2>2. /\ SeatOf' = S!Without(slot, attached)
        /\ subs' = {} /\ closed' = closed \cup attached
    BY <1>1, <1>5, <2>1
  <2>3. /\ StatusOf' = S!Status({}, attached)
    BY <2>2 DEF S!Status, StatusOf
  <2>4. \A d \in attached : StatusOf[d] # "over"
    BY <1>0, <2>1, StatusIs
  <2>5. attached \in SUBSET Conn
    BY <1>0
  <2> QED BY <2>1, <2>2, <2>3, <2>4, <2>5 DEF S!Next, S!Leave, SeatOf, StatusOf
<1> QED BY <1>3, <1>4, <1>5 DEF Recover

LEMMA RunExitsImplemented ==
  ASSUME ConnInv, RunExits
  PROVE  S!Next
<1>1. /\ subs' = subs \ subs /\ closed' = closed \cup subs /\ slot' = slot
      /\ subs \in SUBSET Conn /\ subs \cap closed = {}
  BY DEF RunExits, Detach, ConnInv, WireInv, WireTypes, Seats
<1>2. SeatOf' = S!Without(SeatOf, subs)
  BY <1>1 DEF SeatOf, S!Without
<1> QED BY <1>1, <1>2, LeaveImplemented

LEMMA InitImplemented == Init => S!Init
  BY DEF Init, S!Init

LEMMA StepImplemented ==
  ASSUME ~JoinsAgain, ConnInv, ConnInv', [Next]_vars
  PROVE  [S!Next]_(S!vars)
<1>1. ASSUME UNCHANGED <<subs, closed, slot>>
      PROVE  UNCHANGED S!vars
  BY <1>1 DEF S!vars
<1>2. UNCHANGED vars \/ Cancel \/ DropStray => UNCHANGED <<subs, closed, slot>>
  BY DEF vars, Cancel, DropStray, subVars
<1> QED BY <1>1, <1>2, JoinImplemented, RejoinImplemented, RestImplemented,
           RecoverImplemented, RunExitsImplemented, ClientAndPumpsStep DEF Next, Handle

(* A seat is taken, handed over and given up only as Seating allows: by a  *)
(* connection that never sat before, from the one that holds it still,     *)
(* and never by the late leave of a connection it was taken from           *)
(* (room.go:495, :534).                                                    *)
THEOREM SeatsAreKept ==
  ASSUME ~JoinsAgain
  PROVE  Spec => ImplementsSeating
<1>1. ConnInv /\ ConnInv' /\ [Next]_vars => [S!Next]_(S!vars)
  BY StepImplemented
<1> QED BY <1>1, InitImplemented, ConnInvariant, PTL DEF Spec, ImplementsSeating, S!Spec

===============================================================================
