------------------------------- MODULE RoomProofs ------------------------------
(***************************************************************************)
(* Theorems about a room: who is connected, what its journal rebuilds, the *)
(* timer of its nights, its variables' types and the channels it closes.   *)
(* They hold for any number of tabs, connections and players, any buffer   *)
(* and any recovery budget.                                                *)
(***************************************************************************)
EXTENDS RoomProps, FoldLemmas, SequenceTheorems, TLAPS

-------------------------------------------------------------------------------
(* The two places in which a room keeps who is connected: the players'     *)
(* slots and the set of subscribers.                                       *)

(* What the argument needs of the variables' types. *)
SeatTypes ==
  /\ subs \subseteq Conn /\ closed \subseteq Conn
  /\ playerID \in [Conn -> Nat]
  /\ request = [c \in Conn |-> request[c]] /\ stage = [c \in Conn |-> stage[c]]
  /\ nextSeq \in Nat
  /\ slot = [p \in DOMAIN slot |-> slot[p]]

(* Who is attached is not closed, has its answer, and sits, under the id   *)
(* it acts as, in the slot of that id; who sits in a slot is attached and  *)
(* acts for it.                                                            *)
Attached(attached, torn, ids, seats) ==
  /\ attached \cap torn = {}
  /\ \A c \in attached : ids[c] \in DOMAIN seats /\ seats[ids[c]] = c
  /\ \A p \in DOMAIN seats :
       seats[p] # NoConn => seats[p] \in attached /\ ids[seats[p]] = p

(* A player id is minted once, so a join never takes a slot there is; and  *)
(* a connection that is new, or waits for its join or rejoin, is not       *)
(* attached, so it is attached once.                                       *)
SeatInv ==
  /\ SeatTypes
  /\ emptySince = (subs = {})
  /\ \A p \in DOMAIN slot : p \in 1 .. nextSeq
  /\ \A c \in subs : request[c] = NoRequest
  /\ \A c \in Conn : stage[c] = "unused" => c \notin subs /\ request[c] = NoRequest
  /\ running => Attached(subs, closed, playerID, slot)

-------------------------------------------------------------------------------
(* A broadcast takes out, of both places, the viewers it found too slow.   *)
LEMMA BroadcastSeats ==
  ASSUME NEW attached \in SUBSET Conn, NEW ids, NEW seats, NEW queues, NEW emptied,
         NEW base, NEW batch,
         closed \subseteq Conn,
         Attached(attached, closed, ids, seats),
         emptied = (attached = {}),
         BroadcastToSubs(attached, ids, seats, queues, emptied, base, batch)
  PROVE  /\ Attached(subs', closed', ids, slot')
         /\ emptySince' = (subs' = {})
         /\ subs' \subseteq attached /\ closed' \subseteq Conn
         /\ DOMAIN slot' = DOMAIN seats
         /\ slot' = [p \in DOMAIN slot' |-> slot'[p]]
<1>1. PICK slow \in SUBSET attached :
        /\ subs' = attached \ slow
        /\ slot' = [p \in DOMAIN seats |-> IF seats[p] \in slow THEN NoConn ELSE seats[p]]
        /\ emptySince' = (IF slow = {} THEN emptied ELSE ClockAfterDetach(emptied, subs'))
        /\ closed' = closed \cup slow
  BY DEF BroadcastToSubs
<1>2. /\ DOMAIN slot' = DOMAIN seats
      /\ \A p \in DOMAIN seats : slot'[p] = IF seats[p] \in slow THEN NoConn ELSE seats[p]
  BY <1>1
<1>3. Attached(subs', closed', ids, slot')
  BY <1>1, <1>2 DEF Attached
<1>4. emptySince' = (subs' = {})
  <2>1. CASE slow = {}
    BY <1>1, <2>1
  <2>2. CASE slow # {}
    BY <1>1, <2>2 DEF ClockAfterDetach
  <2> QED BY <2>1, <2>2
<1> QED BY <1>1, <1>2, <1>3, <1>4

(* A recovery empties both. *)
LEMMA RecoverSeats ==
  ASSUME NEW entries, NEW attached \in SUBSET Conn, NEW seats, NEW queues, NEW ids,
         subs \subseteq Conn, closed \subseteq Conn,
         seats = [p \in DOMAIN seats |-> seats[p]],
         RecoverFromPanic(entries, attached, seats, queues)
  PROVE  /\ running' => Attached(subs', closed', ids, slot')
         /\ emptySince' = (subs' = {})
         /\ subs' = {} /\ closed' \subseteq Conn
         /\ DOMAIN slot' = DOMAIN seats
         /\ slot' = [p \in DOMAIN slot' |-> slot'[p]]
<1>1. /\ subs' = {} /\ emptySince' = TRUE
      /\ closed' = closed \cup attached \cup subs
      /\ slot' = Vacated(seats) \/ (slot' = seats /\ running' = FALSE)
  BY DEF RecoverFromPanic
<1>2. CASE slot' = Vacated(seats)
  BY <1>1, <1>2 DEF Vacated, Attached
<1>3. CASE slot' = seats /\ running' = FALSE
  BY <1>1, <1>3
<1> QED BY <1>1, <1>2, <1>3

(* So does what the invariant says of the seats, if the requests have      *)
(* their types.                                                            *)
LEMMA SeatRecovered ==
  ASSUME SeatTypes, \A p \in DOMAIN slot : p \in 1 .. nextSeq,
         NEW entries, NEW attached \in SUBSET Conn, NEW seats, NEW queues,
         DOMAIN seats = DOMAIN slot, seats = [p \in DOMAIN seats |-> seats[p]],
         RecoverFromPanic(entries, attached, seats, queues),
         playerID' \in [Conn -> Nat], nextSeq' = nextSeq,
         request' = [c \in Conn |-> request'[c]], UNCHANGED stage,
         \A c \in Conn : stage[c] = "unused" => request'[c] = NoRequest
  PROVE  SeatInv'
<1>1. subs \subseteq Conn /\ closed \subseteq Conn
  BY DEF SeatTypes
<1>2. /\ running' => Attached(subs', closed', playerID', slot')
      /\ emptySince' = (subs' = {})
      /\ subs' = {} /\ closed' \subseteq Conn
      /\ DOMAIN slot' = DOMAIN seats
      /\ slot' = [p \in DOMAIN slot' |-> slot'[p]]
  BY <1>1, RecoverSeats
<1> QED BY <1>2 DEF SeatInv, SeatTypes

-------------------------------------------------------------------------------
(* The seats when a join broadcasts: the new id's slot is a new one. *)
LEMMA JoinSeats ==
  ASSUME SeatInv, NEW c \in Conn, NEW p \in 1 .. MaxIds, MintsId(c, p)
  PROVE  LET ids == [playerID EXCEPT ![c] = p] IN
         /\ running /\ Attached(subs \cup {c}, closed, ids, SeatsWith(p, c))
         /\ subs \cup {c} \in SUBSET Conn
         /\ DOMAIN SeatsWith(p, c) = DOMAIN slot \cup {p}
         /\ SeatsWith(p, c) = [q \in DOMAIN SeatsWith(p, c) |-> SeatsWith(p, c)[q]]
<1>1. /\ running /\ c \notin closed /\ c \notin subs
      /\ p = nextSeq + 1 /\ nextSeq \in Nat
  BY DEF MintsId, Live, SeatInv, SeatTypes, Join, NoRequest
<1>2. p \notin DOMAIN slot
  BY <1>1 DEF SeatInv
<1> DEFINE ids == [playerID EXCEPT ![c] = p]
           seats == SeatsWith(p, c)
<1>3. /\ DOMAIN seats = DOMAIN slot \cup {p} /\ seats[p] = c
      /\ \A q \in DOMAIN slot : seats[q] = slot[q]
      /\ seats = [q \in DOMAIN seats |-> seats[q]]
  BY <1>2 DEF SeatsWith
<1>4. ids[c] = p /\ \A d \in Conn \ {c} : ids[d] = playerID[d]
  BY DEF SeatInv, SeatTypes
<1> HIDE DEF ids, seats
<1>5. Attached(subs \cup {c}, closed, ids, seats)
  BY <1>1, <1>2, <1>3, <1>4 DEF SeatInv, SeatTypes, Attached
<1> QED BY <1>1, <1>3, <1>5 DEF ids, seats, SeatInv, SeatTypes

(* What a mint does to the counter and the request. *)
LEMMA MintedTypes ==
  ASSUME SeatInv, NEW c \in Conn, NEW p \in 1 .. MaxIds, MintsId(c, p)
  PROVE  /\ nextSeq' \in Nat /\ p \in Nat
         /\ \A q \in DOMAIN slot \cup {p} : q \in 1 .. nextSeq'
         /\ request' = [d \in Conn |-> request'[d]]
         /\ \A d \in subs \cup {c} : request'[d] = NoRequest
         /\ \A d \in Conn : stage[d] = "unused" => d \notin subs \cup {c} /\ request'[d] = NoRequest
         /\ [playerID EXCEPT ![c] = p] \in [Conn -> Nat]
  BY DEF MintsId, Served, SeatInv, SeatTypes, Join, NoRequest

LEMMA SeatJoin ==
  ASSUME SeatInv, NEW c \in Conn, HandleJoin(c) \/ RefuseJoin(c) \/ PanicInJoin(c)
  PROVE  SeatInv'
<1>0. UNCHANGED stage
  BY DEF HandleJoin, RefuseJoin, PanicInJoin
<1>1. CASE HandleJoin(c)
  <2>1. PICK p \in 1 .. MaxIds :
          /\ MintsId(c, p)
          /\ playerID' = [playerID EXCEPT ![c] = p]
          /\ Commit(Command("add_player", p), JoinBatch(p), timer, subs \cup {c},
                    playerID', SeatsWith(p, c), [out EXCEPT ![c] = Send(@, Welcome(p))], FALSE)
    BY <1>1 DEF HandleJoin
  <2>2. BroadcastToSubs(subs \cup {c}, playerID', SeatsWith(p, c),
                        [out EXCEPT ![c] = Send(@, Welcome(p))], FALSE, Len(log), JoinBatch(p))
    BY <2>1 DEF Commit
  <2>3. FALSE = (subs \cup {c} = {})
    OBVIOUS
  <2>4. /\ Attached(subs', closed', playerID', slot')
        /\ emptySince' = (subs' = {})
        /\ subs' \subseteq subs \cup {c} /\ closed' \subseteq Conn
        /\ DOMAIN slot' = DOMAIN slot \cup {p}
        /\ slot' = [q \in DOMAIN slot' |-> slot'[q]]
    <3>1. /\ Attached(subs \cup {c}, closed, playerID', SeatsWith(p, c))
          /\ subs \cup {c} \in SUBSET Conn /\ closed \subseteq Conn
          /\ DOMAIN SeatsWith(p, c) = DOMAIN slot \cup {p}
      BY <2>1, JoinSeats DEF SeatInv, SeatTypes
    <3>2. /\ Attached(subs', closed', playerID', slot')
          /\ emptySince' = (subs' = {})
          /\ subs' \subseteq subs \cup {c} /\ closed' \subseteq Conn
          /\ DOMAIN slot' = DOMAIN SeatsWith(p, c)
          /\ slot' = [q \in DOMAIN slot' |-> slot'[q]]
      BY <2>2, <2>3, <3>1, BroadcastSeats
    <3> QED BY <3>1, <3>2
  <2> QED BY <1>0, <2>1, <2>4, MintedTypes DEF SeatInv, SeatTypes
<1>2. CASE RefuseJoin(c)
  <2>1. PICK p \in 1 .. MaxIds :
          /\ MintsId(c, p)
          /\ closed' = closed \cup {c}
          /\ emptySince' = ClockAfterDetach(emptySince, subs)
          /\ UNCHANGED <<slot, subs, playerID, running>>
    BY <1>2 DEF RefuseJoin, loopVars
  <2>2. c \notin subs
    BY <2>1 DEF MintsId, SeatInv, Join, NoRequest
  <2>3. Attached(subs, closed, playerID, slot)
    BY <2>1 DEF MintsId, Live, SeatInv
  <2>4. emptySince' = (subs' = {})
    BY <2>1 DEF ClockAfterDetach, SeatInv
  <2> QED BY <1>0, <2>1, <2>2, <2>3, <2>4, MintedTypes DEF SeatInv, SeatTypes, Attached
<1>3. CASE PanicInJoin(c)
  <2>1. PICK p \in 1 .. MaxIds :
          /\ MintsId(c, p)
          /\ \/ /\ RecoverFromPanic(journal, subs, slot, out)
                /\ UNCHANGED playerID
             \/ /\ playerID' = [playerID EXCEPT ![c] = p]
                /\ \E queues :
                     RecoverFromPanic(journal, subs \cup {c}, SeatsWith(p, c), queues)
    BY <1>3 DEF PanicInJoin
  <2>2. CASE RecoverFromPanic(journal, subs, slot, out) /\ UNCHANGED playerID
    <3>1. subs \in SUBSET Conn /\ closed \subseteq Conn /\ slot = [q \in DOMAIN slot |-> slot[q]]
      BY DEF SeatInv, SeatTypes
    <3>2. /\ running' => Attached(subs', closed', playerID', slot')
          /\ emptySince' = (subs' = {})
          /\ subs' = {} /\ closed' \subseteq Conn
          /\ DOMAIN slot' = DOMAIN slot
          /\ slot' = [q \in DOMAIN slot' |-> slot'[q]]
      BY <2>2, <3>1, RecoverSeats
    <3> QED BY <1>0, <2>1, <2>2, <3>2, MintedTypes DEF SeatInv, SeatTypes
  <2>3. ASSUME playerID' = [playerID EXCEPT ![c] = p],
               NEW queues, RecoverFromPanic(journal, subs \cup {c}, SeatsWith(p, c), queues)
        PROVE  SeatInv'
    <3>1. /\ running' => Attached(subs', closed', playerID', slot')
          /\ emptySince' = (subs' = {})
          /\ subs' = {} /\ closed' \subseteq Conn
          /\ DOMAIN slot' = DOMAIN slot \cup {p}
          /\ slot' = [q \in DOMAIN slot' |-> slot'[q]]
      <4>1. /\ subs \cup {c} \in SUBSET Conn /\ closed \subseteq Conn /\ subs \subseteq Conn
            /\ DOMAIN SeatsWith(p, c) = DOMAIN slot \cup {p}
            /\ SeatsWith(p, c) = [q \in DOMAIN SeatsWith(p, c) |-> SeatsWith(p, c)[q]]
        BY <2>1, JoinSeats DEF SeatInv, SeatTypes
      <4> DEFINE seats == SeatsWith(p, c)
                 who   == subs \cup {c}
      <4>2. /\ RecoverFromPanic(journal, who, seats, queues) /\ who \in SUBSET Conn
            /\ subs \subseteq Conn /\ closed \subseteq Conn
            /\ DOMAIN seats = DOMAIN slot \cup {p}
            /\ seats = [q \in DOMAIN seats |-> seats[q]]
        BY <2>3, <4>1
      <4> HIDE DEF seats, who
      <4> QED BY <4>2, RecoverSeats
    <3> QED BY <1>0, <2>1, <2>3, <3>1, MintedTypes DEF SeatInv, SeatTypes
  <2> QED BY <2>1, <2>2, <2>3
<1> QED BY <1>1, <1>2, <1>3

LEMMA SeatRejoin ==
  ASSUME SeatInv, NEW c \in Conn, HandleRejoin(c) \/ PanicInRejoin(c)
  PROVE  SeatInv'
<1>1. /\ running /\ c \notin closed /\ c \notin subs
      /\ Attached(subs, closed, playerID, slot)
      /\ request[c].kind = "rejoin"
      /\ request' = [request EXCEPT ![c] = NoRequest]
      /\ UNCHANGED <<nextSeq, stage>>
  BY DEF HandleRejoin, PanicInRejoin, Live, Served, SeatInv, NoRequest
<1>2. PICK p : p = request[c].player
  OBVIOUS
<1>3. ASSUME p \in DOMAIN slot
      PROVE  /\ [playerID EXCEPT ![c] = p] \in [Conn -> Nat]
             /\ p \in 1 .. nextSeq
  BY <1>3 DEF SeatInv, SeatTypes
<1>4. /\ request' = [d \in Conn |-> request'[d]]
      /\ \A d \in subs \cup {c} : request'[d] = NoRequest
      /\ \A d \in Conn : stage'[d] = "unused" => d \notin subs \cup {c} /\ request'[d] = NoRequest
  BY <1>1 DEF SeatInv, SeatTypes, NoRequest
<1>5. CASE HandleRejoin(c)
  <2>1. /\ p \in DOMAIN slot
        /\ closed' = closed \cup Evicted(p, c)
        /\ subs' = (subs \ Evicted(p, c)) \cup {c}
        /\ slot' = [slot EXCEPT ![p] = c]
        /\ playerID' = [playerID EXCEPT ![c] = p]
        /\ emptySince' = FALSE
    BY <1>2, <1>5 DEF HandleRejoin
  <2>2. /\ Evicted(p, c) \subseteq {slot[p]} \ {c} /\ Evicted(p, c) \subseteq subs
        /\ slot[p] \in subs => slot[p] \in Evicted(p, c)
    BY <1>1, <2>1, RoomAssumption DEF Evicted, Attached, SeatInv, SeatTypes
  <2>3. /\ DOMAIN slot' = DOMAIN slot /\ slot'[p] = c
        /\ \A q \in DOMAIN slot \ {p} : slot'[q] = slot[q]
        /\ slot' = [q \in DOMAIN slot' |-> slot'[q]]
    BY <2>1 DEF SeatInv, SeatTypes
  <2>4. playerID'[c] = p /\ \A d \in Conn \ {c} : playerID'[d] = playerID[d]
    BY <2>1 DEF SeatInv, SeatTypes
  <2>5. subs' \subseteq Conn /\ closed' \subseteq Conn
    BY <2>1, <2>2 DEF SeatInv, SeatTypes
  <2>6. subs' \cap closed' = {}
    BY <1>1, <2>1, <2>2 DEF Attached
  <2>7. \A d \in subs' : playerID'[d] \in DOMAIN slot' /\ slot'[playerID'[d]] = d
    <3> SUFFICES ASSUME NEW d \in subs'
                 PROVE  playerID'[d] \in DOMAIN slot' /\ slot'[playerID'[d]] = d
      OBVIOUS
    <3>1. CASE d = c
      BY <2>1, <2>3, <2>4, <3>1
    <3>2. CASE d # c
      <4>1. d \in subs /\ d \notin Evicted(p, c)
        BY <2>1, <3>2
      <4>2. playerID[d] \in DOMAIN slot /\ slot[playerID[d]] = d /\ playerID'[d] = playerID[d]
        BY <1>1, <2>4, <2>5, <3>2, <4>1 DEF Attached
      <4>3. playerID[d] # p
        BY <2>2, <4>1, <4>2
      <4> QED BY <2>3, <4>2, <4>3
    <3> QED BY <3>1, <3>2
  <2>8. \A q \in DOMAIN slot' :
          slot'[q] # NoConn => slot'[q] \in subs' /\ playerID'[slot'[q]] = q
    <3> SUFFICES ASSUME NEW q \in DOMAIN slot, slot'[q] # NoConn
                 PROVE  slot'[q] \in subs' /\ playerID'[slot'[q]] = q
      BY <2>3
    <3>1. CASE q = p
      BY <2>1, <2>3, <2>4, <3>1
    <3>2. CASE q # p
      <4>1. slot'[q] = slot[q] /\ slot[q] \in subs /\ playerID[slot[q]] = q
        BY <1>1, <2>3, <3>2 DEF Attached
      <4>2. slot[q] # slot[p] /\ slot[q] # c /\ slot[q] \in Conn
        BY <1>1, <2>1, <3>2, <4>1, RoomAssumption DEF Attached, SeatInv, SeatTypes
      <4> QED BY <2>1, <2>2, <2>4, <4>1, <4>2
    <3> QED BY <3>1, <3>2
  <2>9. Attached(subs', closed', playerID', slot') /\ emptySince' = (subs' = {})
    BY <2>1, <2>6, <2>7, <2>8 DEF Attached
  <2> QED BY <1>1, <1>3, <1>4, <2>1, <2>3, <2>5, <2>9 DEF SeatInv, SeatTypes
<1>6. CASE PanicInRejoin(c)
  <2>1. \/ /\ RecoverFromPanic(journal, subs, slot, out)
           /\ UNCHANGED playerID
        \/ /\ p \in DOMAIN slot
           /\ playerID' = [playerID EXCEPT ![c] = p]
           /\ RecoverFromPanic(journal, subs \cup {c}, [slot EXCEPT ![p] = c], out)
    BY <1>2, <1>6 DEF PanicInRejoin
  <2>2. CASE RecoverFromPanic(journal, subs, slot, out) /\ UNCHANGED playerID
    BY <1>1, <1>4, <2>2, SeatRecovered DEF SeatInv, SeatTypes
  <2>3. CASE /\ p \in DOMAIN slot
             /\ playerID' = [playerID EXCEPT ![c] = p]
             /\ RecoverFromPanic(journal, subs \cup {c}, [slot EXCEPT ![p] = c], out)
    <3> DEFINE seats == [slot EXCEPT ![p] = c]
               who   == subs \cup {c}
    <3>1. /\ RecoverFromPanic(journal, who, seats, out) /\ who \in SUBSET Conn
          /\ DOMAIN seats = DOMAIN slot
          /\ seats = [q \in DOMAIN seats |-> seats[q]]
          /\ playerID' \in [Conn -> Nat]
      BY <1>3, <2>3 DEF SeatInv, SeatTypes
    <3> HIDE DEF seats, who
    <3> QED BY <1>1, <1>4, <3>1, SeatRecovered DEF SeatInv, SeatTypes
  <2> QED BY <2>1, <2>2, <2>3
<1> QED BY <1>5, <1>6

LEMMA SeatLeave ==
  ASSUME SeatInv, NEW c \in Conn, HandleLeave(c)
  PROVE  SeatInv'
<1>1. /\ running /\ UNCHANGED <<nextSeq, playerID, request, running>>
      /\ stage[c] = "left" /\ stage' = [stage EXCEPT ![c] = "gone"]
  BY DEF HandleLeave, loopVars
<1>2. CASE c \in closed
  <2>1. UNCHANGED <<slot, subs, closed, emptySince>>
    BY <1>2 DEF HandleLeave
  <2> QED BY <1>1, <2>1 DEF SeatInv, SeatTypes
<1>3. CASE c \notin closed
  <2>1. /\ slot' = SlotAfterLeave(c) /\ subs' = subs \ {c} /\ closed' = closed \cup {c}
        /\ emptySince' = ClockAfterDetach(emptySince, subs')
    BY <1>3 DEF HandleLeave
  <2>2. /\ DOMAIN slot' = DOMAIN slot
        /\ slot' = [p \in DOMAIN slot' |-> slot'[p]]
        /\ \A p \in DOMAIN slot :
             slot'[p] = IF p = playerID[c] /\ slot[p] = c THEN NoConn ELSE slot[p]
    BY <2>1 DEF SlotAfterLeave
  <2>3. Attached(subs', closed', playerID', slot')
    BY <1>1, <2>1, <2>2 DEF Attached, SeatInv, SeatTypes
  <2>4. emptySince' = (subs' = {})
    BY <2>1 DEF ClockAfterDetach, SeatInv
  <2> QED BY <1>1, <2>1, <2>2, <2>3, <2>4 DEF SeatInv, SeatTypes
<1> QED BY <1>2, <1>3

(* What broadcasts to the seats as they are keeps the invariant. *)
LEMMA SeatBroadcast ==
  ASSUME SeatInv, running, NEW base, NEW batch,
         BroadcastToSubs(subs, playerID, slot, out, emptySince, base, batch),
         UNCHANGED <<nextSeq, playerID, request, stage>>
  PROVE  SeatInv'
<1>1. /\ subs \in SUBSET Conn /\ closed \subseteq Conn
      /\ Attached(subs, closed, playerID, slot) /\ emptySince = (subs = {})
  BY DEF SeatInv, SeatTypes
<1>2. /\ Attached(subs', closed', playerID, slot')
      /\ emptySince' = (subs' = {})
      /\ subs' \subseteq subs /\ closed' \subseteq Conn
      /\ DOMAIN slot' = DOMAIN slot
      /\ slot' = [p \in DOMAIN slot' |-> slot'[p]]
  BY <1>1, BroadcastSeats
<1> QED BY <1>1, <1>2 DEF SeatInv, SeatTypes

(* So does what panics with the seats as they are. *)
LEMMA SeatPanic ==
  ASSUME SeatInv, NEW entries, NEW queues, RecoverFromPanic(entries, subs, slot, queues),
         UNCHANGED <<nextSeq, playerID, request, stage>>
  PROVE  SeatInv'
<1>1. subs \in SUBSET Conn /\ slot = [p \in DOMAIN slot |-> slot[p]]
  BY DEF SeatInv, SeatTypes
<1> QED BY <1>1, SeatRecovered DEF SeatInv, SeatTypes

LEMMA SeatPanicWhile ==
  ASSUME SeatInv, NEW cmd, PanicWhile(cmd)
  PROVE  SeatInv'
  BY SeatPanic DEF PanicWhile, connVars

LEMMA SeatCommand ==
  ASSUME SeatInv, NEW c \in Conn, NEW kind,
         HandleCommand(c, kind) \/ PanicInCommand(c, kind)
  PROVE  SeatInv'
<1>1. CASE HandleCommand(c, kind)
  <2>1. /\ running /\ UNCHANGED <<nextSeq, playerID, request, stage>>
        /\ BroadcastToSubs(subs, playerID, slot, out, emptySince, Len(log),
                           Emits(game, Command(kind, playerID[c])))
    BY <1>1 DEF HandleCommand, HasSender, Live, CommitHere, Commit, connVars
  <2> QED BY <2>1, SeatBroadcast
<1>2. CASE PanicInCommand(c, kind)
  BY <1>2, SeatPanicWhile DEF PanicInCommand
<1> QED BY <1>1, <1>2

LEMMA SeatReset ==
  ASSUME SeatInv, NEW c \in Conn, HandleReset(c) \/ RefuseCommand(c) \/ PanicInReset(c)
  PROVE  SeatInv'
<1>1. CASE HandleReset(c)
  <2>1. /\ running /\ UNCHANGED <<nextSeq, playerID, request, stage>>
        /\ BroadcastToSubs(subs, playerID, slot, out, emptySince, 0, ResetBatch)
    BY <1>1 DEF HandleReset, MayReset, HasSender, Live, connVars
  <2> QED BY <2>1, SeatBroadcast
<1>2. CASE RefuseCommand(c)
  BY <1>2 DEF RefuseCommand, seatVars, loopVars, connVars, SeatInv, SeatTypes
<1>3. CASE PanicInReset(c)
  BY <1>3, SeatPanic DEF PanicInReset, connVars
<1> QED BY <1>1, <1>2, <1>3

LEMMA SeatTimer ==
  ASSUME SeatInv, NEW kind, HandlePhaseTimer(kind) \/ PanicInTimer(kind)
  PROVE  SeatInv'
<1>1. CASE HandlePhaseTimer(kind)
  <2>1. running /\ UNCHANGED <<nextSeq, playerID, request, stage, running>>
    BY <1>1 DEF HandlePhaseTimer, connVars, loopVars
  <2>2. CASE Accepts(game, Command(kind, NoOne))
    <3>1. BroadcastToSubs(subs, playerID, slot, out, emptySince, Len(log),
                          Emits(game, Command(kind, NoOne)))
      BY <1>1, <2>2 DEF HandlePhaseTimer, CommitHere, Commit
    <3> QED BY <2>1, <3>1, SeatBroadcast
  <2>3. CASE ~Accepts(game, Command(kind, NoOne))
    <3>1. UNCHANGED <<slot, subs, closed, emptySince>>
      BY <1>1, <2>3 DEF HandlePhaseTimer
    <3> QED BY <2>1, <3>1 DEF SeatInv, SeatTypes
  <2> QED BY <2>2, <2>3
<1>2. CASE PanicInTimer(kind)
  BY <1>2, SeatPanicWhile DEF PanicInTimer
<1> QED BY <1>1, <1>2

LEMMA SeatClosing ==
  ASSUME SeatInv, Closing
  PROVE  SeatInv'
<1>1. CASE Cancel
  BY <1>1 DEF Cancel, seatVars, subVars, connVars, SeatInv, SeatTypes
<1>2. CASE RunExits
  BY <1>2 DEF RunExits, seatVars, connVars, SeatInv, SeatTypes
<1> QED BY <1>1, <1>2 DEF Closing

(* Tabs and pumps touch no seat; a connection is unused until it has one   *)
(* request.                                                                *)
LEMMA SeatTransport ==
  ASSUME SeatInv, Transport
  PROVE  SeatInv'
<1>1. ASSUME NEW g \in Page, NEW c \in Conn, OpenJoin(g, c) \/ Reconnect(g, c)
      PROVE  SeatInv'
  <2>1. PICK msg : Connect(g, c, msg)
    BY <1>1 DEF OpenJoin, Reconnect
  <2>2. /\ c \notin subs /\ stage' = [stage EXCEPT ![c] = "up"]
        /\ request' = [request EXCEPT ![c] = msg]
        /\ UNCHANGED <<slot, subs, closed, emptySince, nextSeq, playerID, running>>
    BY <2>1 DEF Connect, roomVars, engineVars, seatVars, subVars, loopVars, SeatInv
  <2> QED BY <2>2 DEF SeatInv, SeatTypes
<1>2. ASSUME NEW g \in Page, Deliver(g)
      PROVE  SeatInv'
  BY <1>2 DEF Deliver, seatVars, loopVars, connVars, SeatInv, SeatTypes
<1>3. ASSUME NEW c \in Conn, PumpsExit(c)
      PROVE  SeatInv'
  BY <1>3 DEF PumpsExit, roomVars, seatVars, subVars, loopVars, SeatInv, SeatTypes
<1> QED BY <1>1, <1>2, <1>3 DEF Transport

-------------------------------------------------------------------------------
LEMMA SeatInit == Init => SeatInv
<1> SUFFICES ASSUME Init PROVE SeatInv
  OBVIOUS
<1>1. /\ subs = {} /\ closed = {} /\ nextSeq = 0 /\ emptySince = TRUE
      /\ slot = [p \in {} |-> NoConn] /\ playerID = [c \in Conn |-> NoOne]
      /\ request = [c \in Conn |-> NoRequest] /\ stage = [c \in Conn |-> "unused"]
  BY DEF Init
<1>2. DOMAIN slot = {} /\ slot = [p \in DOMAIN slot |-> slot[p]]
  BY <1>1
<1>3. Attached(subs, closed, playerID, slot)
  BY <1>1, <1>2 DEF Attached
<1>4. SeatTypes
  BY <1>1, <1>2 DEF SeatTypes, NoOne
<1>5. emptySince = (subs = {})
  BY <1>1
<1> QED BY <1>1, <1>2, <1>3, <1>4, <1>5 DEF SeatInv

LEMMA SeatStep == SeatInv /\ [Next]_vars => SeatInv'
<1>1. ASSUME SeatInv, UNCHANGED vars
      PROVE  SeatInv'
  BY <1>1 DEF vars, seatVars, subVars, loopVars, connVars, SeatInv, SeatTypes
<1>2. ASSUME SeatInv, Next
      PROVE  SeatInv'
  <2>1. ASSUME NEW kind \in AdvancePhase, HandlePhaseTimer(kind) \/ PanicInTimer(kind)
        PROVE  SeatInv'
    BY <1>2, <2>1, SeatTimer
  <2>2. ASSUME NEW c \in Conn, NEW kind \in PlayerCommands,
               HandleCommand(c, kind) \/ PanicInCommand(c, kind)
        PROVE  SeatInv'
    BY <1>2, <2>2, SeatCommand
  <2>3. ASSUME NEW c \in Conn, HandleReset(c) \/ RefuseCommand(c) \/ PanicInReset(c)
        PROVE  SeatInv'
    BY <1>2, <2>3, SeatReset
  <2> QED BY <1>2, <2>1, <2>2, <2>3, SeatJoin, SeatRejoin, SeatLeave, SeatClosing,
             SeatTransport
          DEF Next, RoomStep, Panic
<1> QED BY <1>1, <1>2

(* A player has one live connection at most, the one its slot names, and   *)
(* the empty-room clock runs exactly while nobody is attached, through     *)
(* every order of joins, evictions, slow disconnects, leaves and           *)
(* recoveries (room.go:495, broadcast.go:213, :227).                       *)
THEOREM SlotsAreTheSubscribers == Spec => []SlotsMatchSubscribers
<1>1. SeatInv => SlotsMatchSubscribers
  BY DEF SeatInv, Attached, SlotsMatchSubscribers
<1> QED BY <1>1, SeatInit, SeatStep, PTL DEF Spec

-------------------------------------------------------------------------------
(* The values that pass through a room: engine commands and events, games, *)
(* journal entries, tabs' models, messages.                                *)
CommandKinds == {"create_game", "add_player", "reset_game"} \cup PlayerCommands \cup AdvancePhase
Cmd == {cmd \in [kind : CommandKinds, by : Player \cup {NoOne}] :
          cmd.kind = "add_player" => cmd.by \in Player}
EventKinds == {"game_created", "player_joined", "host_changed", "game_started", "sub_phase",
               "private_result", "game_reset"} \cup PhaseKinds
Ev == [kind : EventKinds, of : Nat]
Phases == {"none", "lobby", "dealt", "night", "day", "ended"}
Games == [roster : SUBSET Player, phase : Phases, step : Nat]
Entries == [cmd : Cmd, logged : Seq(Ev), rebaseline : BOOLEAN]
Rooms == [game : Games, log : Seq(Ev)]
Models == [view : Seq(Ev), cursor : Nat]
FrameMsg == [kind : {"event"}, seq : Nat, event : Ev]
SnapshotMsg == [kind : {"snapshot"}, player : Player, from : Nat, last : Nat, events : Seq(Ev)]
Msg == FrameMsg \cup SnapshotMsg \cup {Refusal}

-------------------------------------------------------------------------------
(* What the recursive operators compute, one element at a time. *)

LEMMA AppendParts ==
  ASSUME NEW E, NEW s \in Seq(E), NEW e \in E
  PROVE  /\ Append(s, e) \in Seq(E) /\ Len(Append(s, e)) = Len(s) + 1
         /\ Len(s) \in Nat /\ Len(s) + 1 \in 1 .. Len(Append(s, e))
         /\ \A i \in 1 .. Len(s) : i \in 1 .. Len(Append(s, e)) /\ Append(s, e)[i] = s[i]
         /\ Append(s, e)[Len(s) + 1] = e
  OBVIOUS

ProjectsTo(f, v, s) ==
  /\ f \in [0 .. Len(s) -> Seq(Ev)]
  /\ f[0] = <<>>
  /\ Project(v, s) = f[Len(s)]
  /\ \A i \in 1 .. Len(s) :
       f[i] = IF Visible(v, s[i]) THEN Append(f[i - 1], s[i]) ELSE f[i - 1]

LEMMA ProjectFold ==
  ASSUME NEW v, NEW s \in Seq(Ev)
  PROVE  \E f : ProjectsTo(f, v, s)
<1> DEFINE N == Len(s)
           T == Seq(Ev)
           step == [x \in T \X (1 .. N) |->
                      IF Visible(v, s[x[2]]) THEN Append(x[1], s[x[2]]) ELSE x[1]]
           IsFold(f) == f = [n \in 0 .. N |->
                               IF n = 0 THEN <<>>
                               ELSE IF Visible(v, s[n]) THEN Append(f[n - 1], s[n])
                               ELSE f[n - 1]]
<1>1. N \in Nat /\ <<>> \in T /\ \A i \in 1 .. N : s[i] \in Ev
  OBVIOUS
<1>2. step \in [T \X (1 .. N) -> T]
  <2>1. \A x \in T \X (1 .. N) : x[1] \in T /\ s[x[2]] \in Ev
    BY <1>1
  <2> QED BY <2>1
<1>3. PICK f : IsFoldOf(f, T, <<>>, N, step)
  <2> HIDE DEF N, T, step
  <2> QED BY <1>1, <1>2, FoldExists
<1>4. \A i \in 1 .. N :
        f[i] = IF Visible(v, s[i]) THEN Append(f[i - 1], s[i]) ELSE f[i - 1]
  <2> TAKE i \in 1 .. N
  <2>1. PICK x \in T : x = f[i - 1]
    BY <1>3 DEF IsFoldOf
  <2>2. f[i] = step[<<x, i>>]
    <3> HIDE DEF step
    <3> QED BY <1>3, <2>1 DEF IsFoldOf
  <2>3. step[<<x, i>>] = IF Visible(v, s[i]) THEN Append(x, s[i]) ELSE x
    OBVIOUS
  <2> QED BY <2>1, <2>2, <2>3
<1> HIDE DEF step
<1>5. f \in [0 .. N -> T] /\ f[0] = <<>> /\ IsFold(f)
  <2>1. f = [i \in 0 .. N |-> f[i]] /\ \A i \in 0 .. N : i = 0 \/ i \in 1 .. N
    BY <1>1, <1>3 DEF IsFoldOf
  <2> QED BY <1>3, <1>4, <2>1 DEF IsFoldOf
<1>6. PICK g : IsFold(g) /\ Project(v, s) = g[N]
  <2>1. IsFold(CHOOSE g : IsFold(g))
    <3> HIDE DEF IsFold
    <3> QED BY <1>5
  <2>2. Project(v, s) = (CHOOSE g : IsFold(g))[N]
    BY DEF Project
  <2> QED BY <2>1, <2>2
<1>7. SameUpTo(f, g, N)
  <2>1. f[0] = g[0]
    BY <1>1, <1>5, <1>6
  <2>2. \A i \in 1 .. N :
          g[i] = IF Visible(v, s[i]) THEN Append(g[i - 1], s[i]) ELSE g[i - 1]
    <3> TAKE i \in 1 .. N
    <3>1. i \in 0 .. N /\ i # 0
      BY <1>1
    <3> HIDE DEF N
    <3> QED BY <1>6, <3>1
  <2>3. SameSteps(f, g, N)
    BY <1>4, <2>2 DEF SameSteps
  <2> HIDE DEF N, IsFold
  <2> QED BY <1>1, <2>1, <2>3, FoldsAgree
<1>8. f[N] = g[N]
  BY <1>1, <1>7 DEF SameUpTo
<1> HIDE DEF IsFold
<1>9. ProjectsTo(f, v, s)
  BY <1>4, <1>5, <1>6, <1>8 DEF ProjectsTo
<1> QED BY <1>9

LEMMA ProjectEmpty ==
  ASSUME NEW v
  PROVE  Project(v, <<>>) = <<>>
<1>1. <<>> \in Seq(Ev) /\ Len(<<>>) = 0
  OBVIOUS
<1>2. PICK f : ProjectsTo(f, v, <<>>)
  BY <1>1, ProjectFold
<1> QED BY <1>1, <1>2 DEF ProjectsTo

LEMMA ProjectAppend ==
  ASSUME NEW v, NEW s \in Seq(Ev), NEW e \in Ev
  PROVE  Project(v, Append(s, e)) =
           IF Visible(v, e) THEN Append(Project(v, s), e) ELSE Project(v, s)
<1> DEFINE N == Len(s)
           t == Append(s, e)
<1>1. /\ N \in Nat /\ t \in Seq(Ev) /\ Len(t) = N + 1 /\ N + 1 \in 1 .. Len(t)
      /\ \A i \in 1 .. N : i \in 1 .. Len(t) /\ t[i] = s[i]
      /\ t[N + 1] = e
  BY AppendParts
<1>2. PICK f : ProjectsTo(f, v, s)
  BY ProjectFold
<1> HIDE DEF t
<1>3. PICK g : ProjectsTo(g, v, t)
  BY <1>1, ProjectFold
<1> USE DEF ProjectsTo
<1> HIDE DEF N
<1>4. SameUpTo(f, g, N)
  <2>1. f[0] = g[0]
    BY <1>2, <1>3
  <2>2. ASSUME NEW i \in 1 .. N, f[i - 1] = g[i - 1] PROVE f[i] = g[i]
    <3>1. i \in 1 .. Len(s) /\ i \in 1 .. Len(t) /\ t[i] = s[i]
      BY <1>1 DEF N
    <3> QED BY <1>2, <1>3, <2>2, <3>1
  <2>3. SameSteps(f, g, N)
    BY <2>2 DEF SameSteps
  <2> QED BY <1>1, <2>1, <2>3, FoldsAgree
<1>5. g[N + 1] = IF Visible(v, e) THEN Append(g[N], e) ELSE g[N]
  <2>1. (N + 1) - 1 = N
    BY <1>1
  <2> QED BY <1>1, <1>3, <2>1
<1>6. f[N] = g[N]
  BY <1>1, <1>4 DEF SameUpTo
<1> QED BY <1>1, <1>2, <1>3, <1>5, <1>6 DEF t

LEMMA ProjectType ==
  ASSUME NEW v, NEW s \in Seq(Ev)
  PROVE  Project(v, s) \in Seq(Ev)
  BY ProjectFold DEF ProjectsTo

(* Projecting a sequence is projecting its parts. *)
LEMMA ProjectConcat ==
  ASSUME NEW v, NEW s \in Seq(Ev), NEW t \in Seq(Ev)
  PROVE  Project(v, s \o t) = Project(v, s) \o Project(v, t)
<1> DEFINE S == {u \in Seq(Ev) : Project(v, s \o u) = Project(v, s) \o Project(v, u)}
<1>1. <<>> \in S
  BY ProjectEmpty, ProjectType, ConcatEmptySeq, EmptySeq
<1>2. ASSUME NEW u \in Seq(Ev), NEW e \in Ev, u \in S PROVE Append(u, e) \in S
  <2>1. s \o u \in Seq(Ev) /\ Append(u, e) \in Seq(Ev) /\ s \o Append(u, e) = Append(s \o u, e)
    BY AppendConcat, AppendProperties, ConcatProperties
  <2>2. Project(v, s) \in Seq(Ev) /\ Project(v, u) \in Seq(Ev)
    BY ProjectType
  <2>3. Project(v, s \o u) = Project(v, s) \o Project(v, u)
    BY <1>2
  <2>4. Project(v, Append(u, e)) = IF Visible(v, e) THEN Append(Project(v, u), e) ELSE Project(v, u)
    BY ProjectAppend
  <2>5. Project(v, Append(s \o u, e)) = IF Visible(v, e) THEN Append(Project(v, s \o u), e)
                                        ELSE Project(v, s \o u)
    BY <2>1, ProjectAppend
  <2>6. Project(v, s) \o Append(Project(v, u), e) = Append(Project(v, s) \o Project(v, u), e)
    BY <2>2, AppendConcat
  <2> QED BY <2>1, <2>3, <2>4, <2>5, <2>6
<1> HIDE DEF S
<1>3. \A u \in Seq(Ev) : u \in S
  BY <1>1, <1>2, SeqSetInduction
<1> QED BY <1>3 DEF S

-------------------------------------------------------------------------------
FramesTo(f, p, base, s) ==
  /\ f \in [0 .. Len(s) -> Seq(FrameMsg)]
  /\ f[0] = <<>>
  /\ Frames(p, base, s) = f[Len(s)]
  /\ \A i \in 1 .. Len(s) :
       f[i] = IF Visible(p, s[i]) THEN Append(f[i - 1], Frame(base + i, s[i])) ELSE f[i - 1]

LEMMA FramesFold ==
  ASSUME NEW p, NEW base \in Nat, NEW s \in Seq(Ev)
  PROVE  \E f : FramesTo(f, p, base, s)
<1> DEFINE N == Len(s)
           T == Seq(FrameMsg)
           step == [x \in T \X (1 .. N) |->
                      IF Visible(p, s[x[2]]) THEN Append(x[1], Frame(base + x[2], s[x[2]]))
                      ELSE x[1]]
           IsFold(f) == f = [n \in 0 .. N |->
                               IF n = 0 THEN <<>>
                               ELSE IF Visible(p, s[n])
                               THEN Append(f[n - 1], Frame(base + n, s[n]))
                               ELSE f[n - 1]]
<1>1. N \in Nat /\ <<>> \in T /\ \A i \in 1 .. N : Frame(base + i, s[i]) \in FrameMsg
  BY DEF Frame, FrameMsg
<1>2. step \in [T \X (1 .. N) -> T]
  <2>1. \A x \in T \X (1 .. N) : x[1] \in T /\ Frame(base + x[2], s[x[2]]) \in FrameMsg
    BY <1>1
  <2> QED BY <2>1
<1>3. PICK f : IsFoldOf(f, T, <<>>, N, step)
  <2> HIDE DEF N, T, step
  <2> QED BY <1>1, <1>2, FoldExists
<1>4. \A i \in 1 .. N :
        f[i] = IF Visible(p, s[i]) THEN Append(f[i - 1], Frame(base + i, s[i])) ELSE f[i - 1]
  <2> TAKE i \in 1 .. N
  <2>1. PICK x \in T : x = f[i - 1]
    BY <1>3 DEF IsFoldOf
  <2>2. f[i] = step[<<x, i>>]
    <3> HIDE DEF step
    <3> QED BY <1>3, <2>1 DEF IsFoldOf
  <2>3. step[<<x, i>>] = IF Visible(p, s[i]) THEN Append(x, Frame(base + i, s[i])) ELSE x
    OBVIOUS
  <2> QED BY <2>1, <2>2, <2>3
<1> HIDE DEF step
<1>5. f \in [0 .. N -> T] /\ f[0] = <<>> /\ IsFold(f)
  <2>1. f = [i \in 0 .. N |-> f[i]] /\ \A i \in 0 .. N : i = 0 \/ i \in 1 .. N
    BY <1>1, <1>3 DEF IsFoldOf
  <2> QED BY <1>3, <1>4, <2>1 DEF IsFoldOf
<1>6. PICK g : IsFold(g) /\ Frames(p, base, s) = g[N]
  <2>1. IsFold(CHOOSE g : IsFold(g))
    <3> HIDE DEF IsFold
    <3> QED BY <1>5
  <2>2. Frames(p, base, s) = (CHOOSE g : IsFold(g))[N]
    BY DEF Frames
  <2> QED BY <2>1, <2>2
<1>7. SameUpTo(f, g, N)
  <2>1. f[0] = g[0]
    BY <1>1, <1>5, <1>6
  <2>2. \A i \in 1 .. N :
          g[i] = IF Visible(p, s[i]) THEN Append(g[i - 1], Frame(base + i, s[i])) ELSE g[i - 1]
    <3> TAKE i \in 1 .. N
    <3>1. i \in 0 .. N /\ i # 0
      BY <1>1
    <3> HIDE DEF N
    <3> QED BY <1>6, <3>1
  <2>3. SameSteps(f, g, N)
    BY <1>4, <2>2 DEF SameSteps
  <2> HIDE DEF N, IsFold
  <2> QED BY <1>1, <2>1, <2>3, FoldsAgree
<1>8. f[N] = g[N]
  BY <1>1, <1>7 DEF SameUpTo
<1> HIDE DEF IsFold
<1>9. FramesTo(f, p, base, s)
  BY <1>4, <1>5, <1>6, <1>8 DEF FramesTo
<1> QED BY <1>9

LEMMA FramesEmpty ==
  ASSUME NEW p, NEW base \in Nat
  PROVE  Frames(p, base, <<>>) = <<>>
<1>1. <<>> \in Seq(Ev) /\ Len(<<>>) = 0
  OBVIOUS
<1>2. PICK f : FramesTo(f, p, base, <<>>)
  BY <1>1, FramesFold
<1> QED BY <1>1, <1>2 DEF FramesTo

LEMMA FramesType ==
  ASSUME NEW p, NEW base \in Nat, NEW s \in Seq(Ev)
  PROVE  Frames(p, base, s) \in Seq(FrameMsg)
<1>1. PICK f : FramesTo(f, p, base, s)
  BY FramesFold
<1> QED BY <1>1, LenProperties DEF FramesTo

LEMMA FramesAppend ==
  ASSUME NEW p, NEW base \in Nat, NEW s \in Seq(Ev), NEW e \in Ev
  PROVE  Frames(p, base, Append(s, e)) =
           IF Visible(p, e) THEN Append(Frames(p, base, s), Frame(base + (Len(s) + 1), e))
           ELSE Frames(p, base, s)
<1> DEFINE N == Len(s)
           t == Append(s, e)
<1>1. /\ N \in Nat /\ t \in Seq(Ev) /\ Len(t) = N + 1 /\ N + 1 \in 1 .. Len(t)
      /\ \A i \in 1 .. N : i \in 1 .. Len(t) /\ t[i] = s[i]
      /\ t[N + 1] = e
  BY AppendParts
<1>2. PICK f : FramesTo(f, p, base, s)
  BY FramesFold
<1> HIDE DEF t
<1>3. PICK g : FramesTo(g, p, base, t)
  BY <1>1, FramesFold
<1> USE DEF FramesTo
<1> HIDE DEF N
<1>4. SameUpTo(f, g, N)
  <2>1. f[0] = g[0]
    BY <1>2, <1>3
  <2>2. ASSUME NEW i \in 1 .. N, f[i - 1] = g[i - 1] PROVE f[i] = g[i]
    <3>1. i \in 1 .. Len(s) /\ i \in 1 .. Len(t) /\ t[i] = s[i]
      BY <1>1 DEF N
    <3> QED BY <1>2, <1>3, <2>2, <3>1
  <2>3. SameSteps(f, g, N)
    BY <2>2 DEF SameSteps
  <2> QED BY <1>1, <2>1, <2>3, FoldsAgree
<1>5. g[N + 1] = IF Visible(p, e) THEN Append(g[N], Frame(base + (N + 1), e)) ELSE g[N]
  <2>1. (N + 1) - 1 = N
    BY <1>1
  <2> QED BY <1>1, <1>3, <2>1
<1>6. f[N] = g[N]
  BY <1>1, <1>4 DEF SameUpTo
<1> QED BY <1>1, <1>2, <1>3, <1>5, <1>6 DEF t, N

-------------------------------------------------------------------------------
LEMMA AppliedType ==
  ASSUME NEW m \in Models, NEW msg \in Msg
  PROVE  Applied(m, msg) \in Models
<1>1. CASE msg \in FrameMsg
  BY <1>1 DEF Applied, Models, FrameMsg
<1>2. CASE msg \in SnapshotMsg
  <2>1. (IF msg.from > 0 THEN m.view ELSE <<>>) \in Seq(Ev) /\ msg.events \in Seq(Ev)
    BY <1>2 DEF Models, SnapshotMsg
  <2> QED BY <1>2, <2>1, ConcatProperties DEF Applied, Models, SnapshotMsg
<1>3. CASE msg = Refusal
  BY <1>3 DEF Applied, Refusal
<1> QED BY <1>1, <1>2, <1>3 DEF Msg

ReadsTo(f, m, s) ==
  /\ f \in [0 .. Len(s) -> Models]
  /\ f[0] = m
  /\ ReadEmpty(m, s) = f[Len(s)]
  /\ \A i \in 1 .. Len(s) : f[i] = Applied(f[i - 1], s[i])

LEMMA ReadEmptyFold ==
  ASSUME NEW m \in Models, NEW s \in Seq(Msg)
  PROVE  \E f : ReadsTo(f, m, s)
<1> DEFINE N == Len(s)
           step == [x \in Models \X (1 .. N) |-> Applied(x[1], s[x[2]])]
           IsFold(f) == f = [n \in 0 .. N |-> IF n = 0 THEN m ELSE Applied(f[n - 1], s[n])]
<1>1. N \in Nat /\ \A i \in 1 .. N : s[i] \in Msg
  OBVIOUS
<1>2. step \in [Models \X (1 .. N) -> Models]
  <2>1. \A x \in Models \X (1 .. N) : Applied(x[1], s[x[2]]) \in Models
    BY <1>1, AppliedType
  <2> QED BY <2>1
<1>3. PICK f : IsFoldOf(f, Models, m, N, step)
  <2> HIDE DEF N, step
  <2> QED BY <1>1, <1>2, FoldExists
<1>4. \A i \in 1 .. N : f[i] = Applied(f[i - 1], s[i])
  <2> TAKE i \in 1 .. N
  <2>1. i - 1 \in 0 .. N /\ f[i - 1] \in Models
    BY <1>3 DEF IsFoldOf
  <2> QED BY <1>3, <2>1 DEF IsFoldOf
<1> HIDE DEF step
<1>5. f \in [0 .. N -> Models] /\ f[0] = m /\ IsFold(f)
  <2>1. f = [i \in 0 .. N |-> f[i]] /\ \A i \in 0 .. N : i = 0 \/ i \in 1 .. N
    BY <1>1, <1>3 DEF IsFoldOf
  <2> QED BY <1>3, <1>4, <2>1 DEF IsFoldOf
<1>6. PICK g : IsFold(g) /\ ReadEmpty(m, s) = g[N]
  <2>1. IsFold(CHOOSE g : IsFold(g))
    <3> HIDE DEF IsFold
    <3> QED BY <1>5
  <2>2. ReadEmpty(m, s) = (CHOOSE g : IsFold(g))[N]
    BY DEF ReadEmpty
  <2> QED BY <2>1, <2>2
<1>7. SameUpTo(f, g, N)
  <2>1. f[0] = g[0]
    BY <1>1, <1>5, <1>6
  <2>2. \A i \in 1 .. N :
          g[i] = Applied(g[i - 1], s[i])
    <3> TAKE i \in 1 .. N
    <3>1. i \in 0 .. N /\ i # 0
      BY <1>1
    <3> HIDE DEF N
    <3> QED BY <1>6, <3>1
  <2>3. SameSteps(f, g, N)
    BY <1>4, <2>2 DEF SameSteps
  <2> HIDE DEF N, IsFold
  <2> QED BY <1>1, <2>1, <2>3, FoldsAgree
<1>8. f[N] = g[N]
  BY <1>1, <1>7 DEF SameUpTo
<1> HIDE DEF IsFold
<1>9. ReadsTo(f, m, s)
  BY <1>4, <1>5, <1>6, <1>8 DEF ReadsTo
<1> QED BY <1>9

LEMMA ReadEmptyEmpty ==
  ASSUME NEW m \in Models
  PROVE  ReadEmpty(m, <<>>) = m
<1>1. <<>> \in Seq(Msg) /\ Len(<<>>) = 0
  OBVIOUS
<1>2. PICK f : ReadsTo(f, m, <<>>)
  BY <1>1, ReadEmptyFold
<1> QED BY <1>1, <1>2 DEF ReadsTo

LEMMA ReadEmptyType ==
  ASSUME NEW m \in Models, NEW s \in Seq(Msg)
  PROVE  ReadEmpty(m, s) \in Models
  BY ReadEmptyFold DEF ReadsTo

LEMMA ReadEmptyAppend ==
  ASSUME NEW m \in Models, NEW s \in Seq(Msg), NEW e \in Msg
  PROVE  ReadEmpty(m, Append(s, e)) = Applied(ReadEmpty(m, s), e)
<1> DEFINE N == Len(s)
           t == Append(s, e)
<1>1. /\ N \in Nat /\ t \in Seq(Msg) /\ Len(t) = N + 1 /\ N + 1 \in 1 .. Len(t)
      /\ \A i \in 1 .. N : i \in 1 .. Len(t) /\ t[i] = s[i]
      /\ t[N + 1] = e
  BY AppendParts
<1>2. PICK f : ReadsTo(f, m, s)
  BY ReadEmptyFold
<1> HIDE DEF t
<1>3. PICK g : ReadsTo(g, m, t)
  BY <1>1, ReadEmptyFold
<1> USE DEF ReadsTo
<1> HIDE DEF N
<1>4. SameUpTo(f, g, N)
  <2>1. f[0] = g[0]
    BY <1>2, <1>3
  <2>2. ASSUME NEW i \in 1 .. N, f[i - 1] = g[i - 1] PROVE f[i] = g[i]
    <3>1. i \in 1 .. Len(s) /\ i \in 1 .. Len(t) /\ t[i] = s[i]
      BY <1>1 DEF N
    <3> QED BY <1>2, <1>3, <2>2, <3>1
  <2>3. SameSteps(f, g, N)
    BY <2>2 DEF SameSteps
  <2> QED BY <1>1, <2>1, <2>3, FoldsAgree
<1>5. g[N + 1] = Applied(g[N], e)
  <2>1. (N + 1) - 1 = N
    BY <1>1
  <2> QED BY <1>1, <1>3, <2>1
<1>6. f[N] = g[N]
  BY <1>1, <1>4 DEF SameUpTo
<1> QED BY <1>1, <1>2, <1>3, <1>5, <1>6 DEF t

(* Reading a queue is reading its parts. *)
LEMMA ReadEmptyConcat ==
  ASSUME NEW m \in Models, NEW s \in Seq(Msg), NEW t \in Seq(Msg)
  PROVE  ReadEmpty(m, s \o t) = ReadEmpty(ReadEmpty(m, s), t)
<1> DEFINE S == {u \in Seq(Msg) : ReadEmpty(m, s \o u) = ReadEmpty(ReadEmpty(m, s), u)}
<1>0. ReadEmpty(m, s) \in Models
  BY ReadEmptyType
<1>1. <<>> \in S
  BY <1>0, ReadEmptyEmpty, ConcatEmptySeq, EmptySeq
<1>2. ASSUME NEW u \in Seq(Msg), NEW e \in Msg, u \in S PROVE Append(u, e) \in S
  <2>1. s \o u \in Seq(Msg) /\ Append(u, e) \in Seq(Msg) /\ s \o Append(u, e) = Append(s \o u, e)
    BY AppendConcat, AppendProperties, ConcatProperties
  <2>2. ReadEmpty(m, s \o u) = ReadEmpty(ReadEmpty(m, s), u)
    BY <1>2
  <2>3. ReadEmpty(ReadEmpty(m, s), Append(u, e)) = Applied(ReadEmpty(ReadEmpty(m, s), u), e)
    BY <1>0, ReadEmptyAppend
  <2>4. ReadEmpty(m, Append(s \o u, e)) = Applied(ReadEmpty(m, s \o u), e)
    BY <2>1, ReadEmptyAppend
  <2> QED BY <2>1, <2>2, <2>3, <2>4
<1> HIDE DEF S
<1>3. \A u \in Seq(Msg) : u \in S
  BY <1>1, <1>2, SeqSetInduction
<1> QED BY <1>3 DEF S

LEMMA ReadEmptyOne ==
  ASSUME NEW m \in Models, NEW msg \in Msg
  PROVE  ReadEmpty(m, <<msg>>) = Applied(m, msg)
<1>1. <<>> \in Seq(Msg) /\ Append(<<>>, msg) = <<msg>>
  OBVIOUS
<1> QED BY <1>1, ReadEmptyAppend, ReadEmptyEmpty

(* Reading the next message first. *)
LEMMA ReadEmptyNext ==
  ASSUME NEW m \in Models, NEW s \in Seq(Msg), s # <<>>
  PROVE  ReadEmpty(m, s) = ReadEmpty(Applied(m, Head(s)), Tail(s))
<1>1. Head(s) \in Msg /\ Tail(s) \in Seq(Msg) /\ <<Head(s)>> \in Seq(Msg)
  BY HeadTailProperties
<1>2. s = <<Head(s)>> \o Tail(s)
  OBVIOUS
<1>3. ReadEmpty(m, <<Head(s)>> \o Tail(s)) = ReadEmpty(ReadEmpty(m, <<Head(s)>>), Tail(s))
  BY <1>1, ReadEmptyConcat
<1> QED BY <1>1, <1>2, <1>3, ReadEmptyOne

-------------------------------------------------------------------------------
(* What one journal entry makes of a replay. *)
EntryReplayed(room, entry) ==
  Replayed(room, entry, IF entry.rebaseline THEN entry.logged ELSE room.log \o entry.logged)

LEMMA ApplyType ==
  ASSUME NEW g \in Games, NEW cmd \in Cmd
  PROVE  Apply(g, cmd) \in Games
<1>1. (IF cmd.kind = "add_player" THEN g.roster \cup {cmd.by} ELSE g.roster) \in SUBSET Player
  BY DEF Games, Cmd
<1>2. NextPhase(cmd.kind) \in Phases
  BY DEF NextPhase, Phases, Cmd, CommandKinds, PlayerCommands, HostOnly, AdvancePhase
<1>3. (IF EntersSubPhase(cmd.kind) THEN g.step + 1 ELSE g.step) \in Nat
  BY DEF Games
<1> QED BY <1>1, <1>2, <1>3 DEF Apply, Games

LEMMA EntryReplayedType ==
  ASSUME NEW room \in Rooms, NEW entry \in Entries
  PROVE  EntryReplayed(room, entry) \in Rooms
<1>1. Apply(room.game, entry.cmd) \in Games
  BY ApplyType DEF Rooms, Entries
<1>2. (IF entry.rebaseline THEN entry.logged ELSE room.log \o entry.logged) \in Seq(Ev)
  BY ConcatProperties DEF Rooms, Entries
<1> QED BY <1>1, <1>2 DEF EntryReplayed, Replayed, Rooms

LEMMA EmptyRoomType == EmptyRoom \in Rooms
  BY EmptySeq DEF EmptyRoom, Rooms, Game0, Games, Phases

ReplaysTo(f, s) ==
  /\ f \in [0 .. Len(s) -> Rooms]
  /\ f[0] = EmptyRoom
  /\ Replay(s) = f[Len(s)]
  /\ \A i \in 1 .. Len(s) : f[i] = EntryReplayed(f[i - 1], s[i])

LEMMA ReplayFold ==
  ASSUME NEW s \in Seq(Entries)
  PROVE  \E f : ReplaysTo(f, s)
<1> DEFINE N == Len(s)
           step == [x \in Rooms \X (1 .. N) |-> EntryReplayed(x[1], s[x[2]])]
           IsFold(f) == f = [n \in 0 .. N |->
                               IF n = 0 THEN EmptyRoom
                               ELSE Replayed(f[n - 1], s[n],
                                             IF s[n].rebaseline THEN s[n].logged
                                             ELSE f[n - 1].log \o s[n].logged)]
<1>1. N \in Nat /\ EmptyRoom \in Rooms /\ \A i \in 1 .. N : s[i] \in Entries
  BY EmptyRoomType
<1>2. step \in [Rooms \X (1 .. N) -> Rooms]
  <2>1. \A x \in Rooms \X (1 .. N) : EntryReplayed(x[1], s[x[2]]) \in Rooms
    BY <1>1, EntryReplayedType
  <2> QED BY <2>1
<1>3. PICK f : IsFoldOf(f, Rooms, EmptyRoom, N, step)
  <2> HIDE DEF N, step
  <2> QED BY <1>1, <1>2, FoldExists
<1>4. \A i \in 1 .. N : f[i] = EntryReplayed(f[i - 1], s[i])
  <2> TAKE i \in 1 .. N
  <2>1. i - 1 \in 0 .. N /\ f[i - 1] \in Rooms
    BY <1>3 DEF IsFoldOf
  <2> QED BY <1>3, <2>1 DEF IsFoldOf
<1> HIDE DEF step
<1>5. f \in [0 .. N -> Rooms] /\ f[0] = EmptyRoom /\ IsFold(f)
  <2>1. f = [i \in 0 .. N |-> f[i]] /\ \A i \in 0 .. N : i = 0 \/ i \in 1 .. N
    BY <1>1, <1>3 DEF IsFoldOf
  <2> QED BY <1>3, <1>4, <2>1 DEF IsFoldOf, EntryReplayed
<1>6. PICK g : IsFold(g) /\ Replay(s) = g[N]
  <2>1. IsFold(CHOOSE g : IsFold(g))
    <3> HIDE DEF IsFold
    <3> QED BY <1>5
  <2>2. Replay(s) = (CHOOSE g : IsFold(g))[N]
    BY DEF Replay
  <2> QED BY <2>1, <2>2
<1>7. SameUpTo(f, g, N)
  <2>1. f[0] = g[0]
    BY <1>1, <1>5, <1>6
  <2>2. \A i \in 1 .. N : g[i] = EntryReplayed(g[i - 1], s[i])
    <3> TAKE i \in 1 .. N
    <3>1. i \in 0 .. N /\ i # 0
      BY <1>1
    <3> HIDE DEF N
    <3> QED BY <1>6, <3>1 DEF EntryReplayed
  <2>3. SameSteps(f, g, N)
    BY <1>4, <2>2 DEF SameSteps
  <2> HIDE DEF N, IsFold
  <2> QED BY <1>1, <2>1, <2>3, FoldsAgree
<1>8. f[N] = g[N]
  BY <1>1, <1>7 DEF SameUpTo
<1> HIDE DEF IsFold
<1>9. ReplaysTo(f, s)
  BY <1>4, <1>5, <1>6, <1>8 DEF ReplaysTo
<1> QED BY <1>9

LEMMA ReplayEmpty == Replay(<<>>) = EmptyRoom
<1>1. <<>> \in Seq(Entries) /\ Len(<<>>) = 0
  OBVIOUS
<1>2. PICK f : ReplaysTo(f, <<>>)
  BY <1>1, ReplayFold
<1> QED BY <1>1, <1>2 DEF ReplaysTo

LEMMA ReplayAppend ==
  ASSUME NEW s \in Seq(Entries), NEW e \in Entries
  PROVE  Replay(Append(s, e)) = EntryReplayed(Replay(s), e)
<1> DEFINE N == Len(s)
           t == Append(s, e)
<1>1. /\ N \in Nat /\ t \in Seq(Entries) /\ Len(t) = N + 1 /\ N + 1 \in 1 .. Len(t)
      /\ \A i \in 1 .. N : i \in 1 .. Len(t) /\ t[i] = s[i]
      /\ t[N + 1] = e
  BY AppendParts
<1>2. PICK f : ReplaysTo(f, s)
  BY ReplayFold
<1> HIDE DEF t
<1>3. PICK g : ReplaysTo(g, t)
  BY <1>1, ReplayFold
<1> USE DEF ReplaysTo
<1> HIDE DEF N
<1>4. SameUpTo(f, g, N)
  <2>1. f[0] = g[0]
    BY <1>2, <1>3
  <2>2. ASSUME NEW i \in 1 .. N, f[i - 1] = g[i - 1] PROVE f[i] = g[i]
    <3>1. i \in 1 .. Len(s) /\ i \in 1 .. Len(t) /\ t[i] = s[i]
      BY <1>1 DEF N
    <3> QED BY <1>2, <1>3, <2>2, <3>1
  <2>3. SameSteps(f, g, N)
    BY <2>2 DEF SameSteps
  <2> QED BY <1>1, <2>1, <2>3, FoldsAgree
<1>5. g[N + 1] = EntryReplayed(g[N], e)
  <2>1. (N + 1) - 1 = N
    BY <1>1
  <2> QED BY <1>1, <1>3, <2>1
<1>6. f[N] = g[N]
  BY <1>1, <1>4 DEF SameUpTo
<1> QED BY <1>1, <1>2, <1>3, <1>5, <1>6 DEF t, N

-------------------------------------------------------------------------------
(* The timer a recovery arms, one event at a time. *)
LEMMA RearmEmpty == RearmTimer(<<>>) = NoTimer
<1>1. DOMAIN <<>> = {}
  OBVIOUS
<1> QED BY <1>1 DEF RearmTimer

(* The places at which a sub-phase began that nothing has ended. *)
Current(s) == {i \in DOMAIN s : /\ NightSubPhaseStarted(s[i])
                                /\ \A j \in i + 1 .. Len(s) : ~Decides(s[j])}

LEMMA RearmAppend ==
  ASSUME NEW s \in Seq(Ev), NEW e \in Ev
  PROVE  RearmTimer(Append(s, e)) =
           IF NightSubPhaseStarted(e) THEN e.of
           ELSE IF Decides(e) THEN NoTimer
           ELSE RearmTimer(s)
<1> DEFINE N == Len(s)
           t == Append(s, e)
           at(u) == CHOOSE i \in Current(u) : TRUE
<1>1. /\ N \in Nat /\ DOMAIN s = 1 .. N /\ DOMAIN t = 1 .. N + 1 /\ Len(t) = N + 1
      /\ \A i \in 1 .. N : t[i] = s[i]
      /\ t[N + 1] = e
  OBVIOUS
<1>2. ASSUME NEW u PROVE RearmTimer(u) = IF Current(u) = {} THEN NoTimer
                                         ELSE u[at(u)].of
  BY DEF RearmTimer, Current
<1> HIDE DEF N, t, at
<1>3. CASE NightSubPhaseStarted(e)
  <2>1. Decides(e)
    BY <1>3 DEF Decides
  <2>2. Current(t) = {N + 1}
    <3>1. N + 1 \in Current(t)
      BY <1>1, <1>3 DEF Current
    <3>2. ASSUME NEW i \in Current(t), i # N + 1 PROVE FALSE
      <4>1. i \in 1 .. N /\ N + 1 \in i + 1 .. Len(t)
        BY <1>1, <3>2 DEF Current
      <4> QED BY <1>1, <2>1, <3>2, <4>1 DEF Current
    <3> QED BY <3>1, <3>2
  <2>3. at(t) = N + 1
    BY <2>2 DEF at
  <2> QED BY <1>1, <1>2, <1>3, <2>2, <2>3 DEF t
<1>4. CASE ~NightSubPhaseStarted(e) /\ Decides(e)
  <2>1. ASSUME NEW i \in Current(t) PROVE FALSE
    <3>1. CASE i = N + 1
      BY <1>1, <1>4, <2>1, <3>1 DEF Current
    <3>2. CASE i # N + 1
      <4>1. i \in 1 .. N /\ N + 1 \in i + 1 .. Len(t)
        BY <1>1, <2>1, <3>2 DEF Current
      <4> QED BY <1>1, <1>4, <2>1, <4>1 DEF Current
    <3> QED BY <3>1, <3>2
  <2>2. Current(t) = {}
    BY <2>1
  <2> QED BY <1>2, <1>4, <2>2 DEF t
<1>5. CASE ~Decides(e)
  <2>0. ~NightSubPhaseStarted(e)
    BY <1>5 DEF Decides
  <2>1. ASSUME NEW i \in Current(t) PROVE i \in Current(s)
    <3>1. i \in 1 .. N
      BY <1>1, <2>0, <2>1 DEF Current
    <3>2. \A j \in i + 1 .. N : j \in i + 1 .. Len(t) /\ t[j] = s[j]
      BY <1>1, <3>1
    <3> QED BY <1>1, <2>1, <3>1, <3>2 DEF Current, N
  <2>2. ASSUME NEW i \in Current(s) PROVE i \in Current(t)
    <3>1. i \in 1 .. N /\ i \in 1 .. N + 1
      BY <1>1, <2>2 DEF Current
    <3>2. ASSUME NEW j \in i + 1 .. Len(t) PROVE ~Decides(t[j])
      <4>1. CASE j = N + 1
        BY <1>1, <1>5, <4>1
      <4>2. CASE j # N + 1
        <5>1. j \in i + 1 .. N /\ j \in 1 .. N
          BY <1>1, <3>1, <4>2
        <5> QED BY <1>1, <2>2, <5>1 DEF Current, N
      <4> QED BY <4>1, <4>2
    <3> QED BY <1>1, <2>2, <3>1, <3>2 DEF Current
  <2>3. Current(t) = Current(s) /\ \A i \in Current(s) : t[i] = s[i]
    BY <1>1, <2>1, <2>2 DEF Current
  <2>4. CASE Current(s) = {}
    BY <1>2, <1>5, <2>0, <2>3, <2>4 DEF t
  <2>5. CASE Current(s) # {}
    <3>1. at(s) \in Current(s) /\ at(t) = at(s)
      BY <2>3, <2>5 DEF at
    <3> QED BY <1>2, <1>5, <2>0, <2>3, <2>5, <3>1 DEF t
  <2> QED BY <2>4, <2>5
<1> QED BY <1>3, <1>4, <1>5

-------------------------------------------------------------------------------
(* The timer of a phase. *)
TimerOf(g) == IF g.phase = "night" THEN g.step ELSE NoTimer

LEMMA MaxOfOne ==
  ASSUME NEW n \in Nat
  PROVE  Max({n}) = n
  BY DEF Max

(* What a batch of one event, and of two, does to the timer. *)
LEMMA OneEvent ==
  ASSUME NEW s \in Seq(Ev), NEW a \in Ev, NEW armed
  PROVE  /\ <<a>> \in Seq(Ev) /\ s \o <<a>> \in Seq(Ev)
         /\ ScheduleTimers(armed, <<a>>) =
              IF NightSubPhaseStarted(a) THEN a.of
              ELSE IF PhaseChanged(a) THEN NoTimer ELSE armed
         /\ RearmTimer(s \o <<a>>) =
              IF NightSubPhaseStarted(a) THEN a.of
              ELSE IF Decides(a) THEN NoTimer ELSE RearmTimer(s)
<1> DEFINE batch == <<a>>
           started == {i \in DOMAIN batch : NightSubPhaseStarted(batch[i])}
<1>1. DOMAIN batch = {1} /\ batch[1] = a /\ batch \in Seq(Ev) /\ s \o batch \in Seq(Ev)
  OBVIOUS
<1>2. ScheduleTimers(armed, batch) =
        IF started # {} THEN batch[Max(started)].of
        ELSE IF \E i \in DOMAIN batch : PhaseChanged(batch[i]) THEN NoTimer ELSE armed
  BY DEF ScheduleTimers
<1>3. s \o batch = Append(s, a)
  BY AppendIsConcat
<1> HIDE DEF batch
<1>4. CASE NightSubPhaseStarted(a)
  <2>1. started = {1}
    BY <1>1, <1>4
  <2>2. Max(started) = 1
    BY <2>1, MaxOfOne
  <2> HIDE DEF started
  <2> QED BY <1>1, <1>2, <1>3, <1>4, <2>1, <2>2, RearmAppend DEF batch
<1>5. CASE ~NightSubPhaseStarted(a)
  <2>1. started = {}
    BY <1>1, <1>5
  <2>2. (\E i \in DOMAIN batch : PhaseChanged(batch[i])) <=> PhaseChanged(a)
    BY <1>1
  <2> HIDE DEF started
  <2> QED BY <1>1, <1>2, <1>3, <1>5, <2>1, <2>2, RearmAppend DEF batch
<1> QED BY <1>4, <1>5

LEMMA TwoEvents ==
  ASSUME NEW s \in Seq(Ev), NEW a \in Ev, NEW b \in Ev, NEW armed, ~NightSubPhaseStarted(a)
  PROVE  /\ <<a, b>> \in Seq(Ev) /\ s \o <<a, b>> \in Seq(Ev)
         /\ ScheduleTimers(armed, <<a, b>>) =
              IF NightSubPhaseStarted(b) THEN b.of
              ELSE IF PhaseChanged(a) \/ PhaseChanged(b) THEN NoTimer ELSE armed
         /\ RearmTimer(s \o <<a, b>>) =
              IF NightSubPhaseStarted(b) THEN b.of
              ELSE IF Decides(a) \/ Decides(b) THEN NoTimer ELSE RearmTimer(s)
<1> DEFINE batch == <<a, b>>
           started == {i \in DOMAIN batch : NightSubPhaseStarted(batch[i])}
<1>1. /\ DOMAIN batch = {1, 2} /\ batch[1] = a /\ batch[2] = b
      /\ batch \in Seq(Ev) /\ s \o batch \in Seq(Ev)
  OBVIOUS
<1>2. ScheduleTimers(armed, batch) =
        IF started # {} THEN batch[Max(started)].of
        ELSE IF \E i \in DOMAIN batch : PhaseChanged(batch[i]) THEN NoTimer ELSE armed
  BY DEF ScheduleTimers
<1>3. RearmTimer(s \o batch) =
        IF NightSubPhaseStarted(b) THEN b.of
        ELSE IF Decides(a) \/ Decides(b) THEN NoTimer ELSE RearmTimer(s)
  <2>1. <<a>> \in Seq(Ev) /\ s \o <<a>> \in Seq(Ev)
    BY ConcatProperties
  <2>2. s \o Append(<<a>>, b) = Append(s \o <<a>>, b)
    BY <2>1, AppendConcat
  <2>3. Append(<<a>>, b) = batch
    BY Pairs
  <2>4. RearmTimer(s \o <<a>>) = IF Decides(a) THEN NoTimer ELSE RearmTimer(s)
    BY OneEvent
  <2>5. RearmTimer(Append(s \o <<a>>, b)) =
          IF NightSubPhaseStarted(b) THEN b.of
          ELSE IF Decides(b) THEN NoTimer ELSE RearmTimer(s \o <<a>>)
    BY <2>1, RearmAppend
  <2> HIDE DEF batch
  <2> QED BY <2>2, <2>3, <2>4, <2>5
<1> HIDE DEF batch
<1>4. CASE NightSubPhaseStarted(b)
  <2>1. started = {2}
    BY <1>1, <1>4
  <2>2. Max(started) = 2
    BY <2>1, MaxOfOne
  <2> HIDE DEF started
  <2> QED BY <1>1, <1>2, <1>3, <1>4, <2>1, <2>2 DEF batch
<1>5. CASE ~NightSubPhaseStarted(b)
  <2>1. started = {}
    BY <1>1, <1>5
  <2>2. (\E i \in DOMAIN batch : PhaseChanged(batch[i])) <=> PhaseChanged(a) \/ PhaseChanged(b)
    BY <1>1
  <2> HIDE DEF started
  <2> QED BY <1>1, <1>2, <1>3, <1>5, <2>1, <2>2 DEF batch
<1> QED BY <1>4, <1>5

LEMMA EventIs ==
  ASSUME NEW kind \in EventKinds, NEW of \in Nat
  PROVE  LET e == Event(kind, of) IN
         /\ e \in Ev /\ e.of = of /\ e.kind = kind
         /\ NightSubPhaseStarted(e) <=> kind = "sub_phase"
         /\ PhaseChanged(e) <=> kind \in PhaseKinds
         /\ Decides(e) <=> kind \in {"sub_phase", "to_day", "to_ended"}
  BY DEF Event, Ev, EventKinds, NightSubPhaseStarted, PhaseChanged, PhaseKinds, Decides

(* The events of each command: one that the timer ignores, one that stops  *)
(* it, one that starts it, or one that does not start it and one that does.*)
Quiet(e) == e \in Ev /\ ~NightSubPhaseStarted(e) /\ ~PhaseChanged(e) /\ ~Decides(e)
Stops(e) == e \in Ev /\ ~NightSubPhaseStarted(e) /\ PhaseChanged(e) /\ Decides(e)
Starts(e, n) == e \in Ev /\ NightSubPhaseStarted(e) /\ e.of = n

LEMMA EmitsIs ==
  ASSUME NEW g \in Games, NEW cmd \in Cmd
  PROVE  /\ cmd.kind \in {"create_game", "add_player", "start_game", "reset_game"} =>
              \E a : Emits(g, cmd) = <<a>> /\ Quiet(a)
         /\ cmd.kind \in {"begin_night", "night_action"} =>
              \E a, b : /\ Emits(g, cmd) = <<a, b>> /\ a \in Ev /\ ~NightSubPhaseStarted(a)
                        /\ Starts(b, g.step + 1)
         /\ cmd.kind = "next_turn" => \E a : Emits(g, cmd) = <<a>> /\ Starts(a, g.step + 1)
         /\ cmd.kind \in {"dawn", "dawn_ends_game", "finalize_votes"} =>
              \E a : Emits(g, cmd) = <<a>> /\ Stops(a)
<1>0. NoOne \in Nat /\ cmd.by \in Nat /\ g.step + 1 \in Nat
  BY DEF Games, Cmd, Player, NoOne
<1> DEFINE e(kind, of) == Event(kind, of)
<1>1. ASSUME NEW of \in Nat
      PROVE  /\ Quiet(e("game_created", of)) /\ Quiet(e("player_joined", of))
             /\ Quiet(e("game_started", of)) /\ Quiet(e("game_reset", of))
             /\ e("to_night", of) \in Ev /\ ~NightSubPhaseStarted(e("to_night", of))
             /\ e("private_result", of) \in Ev /\ ~NightSubPhaseStarted(e("private_result", of))
             /\ Starts(e("sub_phase", of), of)
             /\ Stops(e("to_day", of)) /\ Stops(e("to_ended", of))
  BY EventIs DEF EventKinds, PhaseKinds, Quiet, Stops, Starts
<1>2. /\ cmd.kind = "create_game" => Emits(g, cmd) = <<e("game_created", NoOne)>>
      /\ cmd.kind = "add_player" => Emits(g, cmd) = <<e("player_joined", cmd.by)>>
      /\ cmd.kind = "start_game" => Emits(g, cmd) = <<e("game_started", NoOne)>>
      /\ cmd.kind = "reset_game" => Emits(g, cmd) = <<e("game_reset", NoOne)>>
  BY DEF Emits
<1>3. /\ cmd.kind = "begin_night" =>
           Emits(g, cmd) = <<e("to_night", NoOne), e("sub_phase", g.step + 1)>>
      /\ cmd.kind = "night_action" =>
           Emits(g, cmd) = <<e("private_result", cmd.by), e("sub_phase", g.step + 1)>>
      /\ cmd.kind = "next_turn" => Emits(g, cmd) = <<e("sub_phase", g.step + 1)>>
  BY DEF Emits
<1>4. /\ cmd.kind = "dawn" => Emits(g, cmd) = <<e("to_day", NoOne)>>
      /\ cmd.kind \in {"dawn_ends_game", "finalize_votes"} => Emits(g, cmd) = <<e("to_ended", NoOne)>>
  BY DEF Emits
<1> HIDE DEF e
<1>5. cmd.kind \in {"create_game", "add_player", "start_game", "reset_game"} =>
              \E a : Emits(g, cmd) = <<a>> /\ Quiet(a)
  BY <1>0, <1>1, <1>2
<1>6. cmd.kind \in {"begin_night", "night_action"} =>
              \E a, b : /\ Emits(g, cmd) = <<a, b>> /\ a \in Ev /\ ~NightSubPhaseStarted(a)
                        /\ Starts(b, g.step + 1)
  BY <1>0, <1>1, <1>3
<1>7. cmd.kind = "next_turn" => \E a : Emits(g, cmd) = <<a>> /\ Starts(a, g.step + 1)
  BY <1>0, <1>1, <1>3
<1>8. cmd.kind \in {"dawn", "dawn_ends_game", "finalize_votes"} =>
              \E a : Emits(g, cmd) = <<a>> /\ Stops(a)
  BY <1>0, <1>1, <1>4
<1> QED BY <1>5, <1>6, <1>7, <1>8

(* What a command adds to the log: a join may make its player the host.    *)
BatchOf(g, cmd, batch) ==
  \/ batch = Emits(g, cmd)
  \/ /\ cmd.kind = "add_player"
     /\ \E p \in Player : batch = Emits(g, cmd) \o <<Event("host_changed", p)>>

(* The timer a handler finds: the phase's, or the one that has just fired. *)
ArmedFor(g, cmd, armed) == armed = TimerOf(g) \/ cmd.kind \in AdvancePhase

(* Every accepted command but a reset moves the timer, and the timer that  *)
(* a recovery would arm, to the phase it leads to.                         *)
LEMMA CommandTimer ==
  ASSUME NEW g \in Games, NEW cmd \in Cmd, NEW s \in Seq(Ev), NEW armed, NEW batch,
         Accepts(g, cmd), cmd.kind # "reset_game",
         RearmTimer(s) = TimerOf(g),
         ArmedFor(g, cmd, armed), BatchOf(g, cmd, batch)
  PROVE  /\ batch \in Seq(Ev) /\ s \o batch \in Seq(Ev)
         /\ ScheduleTimers(armed, batch) = TimerOf(Apply(g, cmd))
         /\ RearmTimer(s \o batch) = TimerOf(Apply(g, cmd))
<1> DEFINE next == Apply(g, cmd)
<1>1. /\ next.phase = NextPhase(cmd.kind)
      /\ next.step = IF EntersSubPhase(cmd.kind) THEN g.step + 1 ELSE g.step
  BY DEF Apply
<1> HIDE DEF next
<1>2. CASE cmd.kind \in {"create_game", "add_player", "start_game"}
  <2>1. TimerOf(g) = NoTimer /\ TimerOf(next) = NoTimer /\ armed = NoTimer
    BY <1>1, <1>2 DEF TimerOf, Accepts, NextPhase, AdvancePhase, ArmedFor
  <2>2. PICK a : Emits(g, cmd) = <<a>> /\ Quiet(a)
    BY <1>2, EmitsIs
  <2>3. CASE batch = <<a>>
    BY <2>1, <2>2, <2>3, OneEvent DEF next, Quiet
  <2>4. ASSUME NEW p \in Player, batch = <<a>> \o <<Event("host_changed", p)>>
        PROVE  /\ batch \in Seq(Ev) /\ s \o batch \in Seq(Ev)
               /\ ScheduleTimers(armed, batch) = TimerOf(Apply(g, cmd))
               /\ RearmTimer(s \o batch) = TimerOf(Apply(g, cmd))
    <3>1. Quiet(Event("host_changed", p))
      BY EventIs DEF Player, EventKinds, PhaseKinds, Quiet
    <3>2. PICK b : b = Event("host_changed", p)
      OBVIOUS
    <3>3. batch = <<a, b>> /\ Quiet(b)
      BY <2>2, <2>4, <3>1, <3>2, Pairs DEF Quiet
    <3> QED BY <2>1, <2>2, <3>3, TwoEvents DEF next, Quiet
  <2> QED BY <2>2, <2>3, <2>4 DEF BatchOf
<1>3. CASE cmd.kind \in {"begin_night", "night_action"}
  <2>1. TimerOf(next) = g.step + 1
    BY <1>1, <1>3 DEF TimerOf, NextPhase, EntersSubPhase
  <2>2. PICK a, b : /\ Emits(g, cmd) = <<a, b>> /\ a \in Ev /\ ~NightSubPhaseStarted(a)
                    /\ Starts(b, g.step + 1)
    BY <1>3, EmitsIs
  <2>3. b \in Ev /\ NightSubPhaseStarted(b) /\ b.of = TimerOf(next)
    BY <2>1, <2>2 DEF Starts
  <2>4. /\ <<a, b>> \in Seq(Ev) /\ s \o <<a, b>> \in Seq(Ev)
        /\ ScheduleTimers(armed, <<a, b>>) = b.of
        /\ RearmTimer(s \o <<a, b>>) = b.of
    BY <2>2, <2>3, TwoEvents
  <2> QED BY <1>3, <2>2, <2>3, <2>4 DEF next, BatchOf
<1>4. CASE cmd.kind = "next_turn"
  <2>1. TimerOf(next) = g.step + 1
    BY <1>1, <1>4 DEF TimerOf, NextPhase, EntersSubPhase
  <2>2. PICK a : Emits(g, cmd) = <<a>> /\ Starts(a, g.step + 1)
    BY <1>4, EmitsIs
  <2> QED BY <1>4, <2>1, <2>2, OneEvent DEF next, Starts, BatchOf
<1>5. CASE cmd.kind \in {"dawn", "dawn_ends_game", "finalize_votes"}
  <2>1. TimerOf(next) = NoTimer
    BY <1>1, <1>5 DEF TimerOf, NextPhase
  <2>2. PICK a : Emits(g, cmd) = <<a>> /\ Stops(a)
    BY <1>5, EmitsIs
  <2> QED BY <1>5, <2>1, <2>2, OneEvent DEF next, Stops, BatchOf
<1> QED BY <1>2, <1>3, <1>4, <1>5
        DEF Cmd, CommandKinds, PlayerCommands, HostOnly, AdvancePhase

-------------------------------------------------------------------------------
(* The ids the room hands out. *)
IdsInv ==
  /\ nextSeq \in 0 .. MaxIds
  /\ host \in Player \cup {NoOne}
  /\ playerID \in [Conn -> Player \cup {NoOne}]

LEMMA SlotsOfPlayers ==
  ASSUME SeatInv, IdsInv
  PROVE  DOMAIN slot \subseteq Player
  BY RoomAssumption DEF SeatInv, SeatTypes, IdsInv, Player

LEMMA IdsInit == Init => IdsInv
  BY RoomAssumption DEF Init, IdsInv, NoOne

LEMMA IdsStep == SeatInv /\ IdsInv /\ [Next]_vars => IdsInv'
<1> SUFFICES ASSUME SeatInv, IdsInv, [Next]_vars PROVE IdsInv'
  OBVIOUS
<1>1. CASE UNCHANGED vars
  BY <1>1 DEF vars, seatVars, subVars, IdsInv
<1>2. ASSUME NEW c \in Conn, HandleJoin(c) \/ RefuseJoin(c) \/ PanicInJoin(c)
      PROVE  IdsInv'
  <2>1. PICK p \in 1 .. MaxIds :
          /\ MintsId(c, p)
          /\ host' = host \/ host' = HostWith(p)
          /\ playerID' = playerID \/ playerID' = [playerID EXCEPT ![c] = p]
    BY <1>2 DEF HandleJoin, RefuseJoin, PanicInJoin
  <2> QED BY <2>1, RoomAssumption DEF MintsId, HostWith, IdsInv, Player
<1>3. ASSUME NEW c \in Conn, HandleRejoin(c) \/ PanicInRejoin(c)
      PROVE  IdsInv'
  <2>1. /\ UNCHANGED <<host, nextSeq>>
        /\ playerID' = playerID \/ \E p \in DOMAIN slot : playerID' = [playerID EXCEPT ![c] = p]
    BY <1>3 DEF HandleRejoin, PanicInRejoin
  <2> QED BY <2>1, SlotsOfPlayers DEF IdsInv
<1>4. ASSUME UNCHANGED <<host, nextSeq, playerID>>
      PROVE  IdsInv'
  BY <1>4 DEF IdsInv
<1>5. ASSUME NEW c \in Conn, \/ HandleLeave(c) \/ HandleReset(c) \/ RefuseCommand(c)
                             \/ PumpsExit(c) \/ PanicInReset(c)
      PROVE  IdsInv'
  BY <1>4, <1>5 DEF HandleLeave, HandleReset, RefuseCommand, PumpsExit, PanicInReset, roomVars,
                    seatVars, subVars
<1>6. ASSUME NEW c \in Conn, NEW kind, HandleCommand(c, kind) \/ PanicInCommand(c, kind)
      PROVE  IdsInv'
  BY <1>4, <1>6 DEF HandleCommand, PanicInCommand, PanicWhile
<1>7. ASSUME NEW kind, HandlePhaseTimer(kind) \/ PanicInTimer(kind)
      PROVE  IdsInv'
  BY <1>4, <1>7 DEF HandlePhaseTimer, PanicInTimer, PanicWhile
<1>8. ASSUME Closing PROVE IdsInv'
  BY <1>4, <1>8 DEF Closing, Cancel, RunExits, seatVars, subVars
<1>9. ASSUME NEW g \in Page, NEW c \in Conn, OpenJoin(g, c) \/ Reconnect(g, c)
      PROVE  IdsInv'
  BY <1>4, <1>9 DEF OpenJoin, Reconnect, Connect, roomVars, seatVars, subVars
<1>10. ASSUME NEW g \in Page, Deliver(g) PROVE IdsInv'
  BY <1>4, <1>10 DEF Deliver, seatVars
<1> QED BY <1>1, <1>2, <1>3, <1>5, <1>6, <1>7, <1>8, <1>9, <1>10
        DEF Next, RoomStep, Panic, Transport

-------------------------------------------------------------------------------
(* A journal rebuilds an engine and a log, and with them the timer. *)
Rebuilds(entries, g, l) ==
  /\ entries \in Seq(Entries) /\ g \in Games /\ l \in Seq(Ev)
  /\ Replay(entries) = [game |-> g, log |-> l]
  /\ RearmTimer(l) = TimerOf(g)

EngineInv ==
  /\ game \in Games /\ log \in Seq(Ev) /\ journal \in Seq(Entries) /\ timer \in Nat
  /\ running => Rebuilds(journal, game, log) /\ timer = TimerOf(game)

LEMMA TimerOfType ==
  ASSUME NEW g \in Games
  PROVE  TimerOf(g) \in Nat
  BY DEF TimerOf, Games, NoTimer

(* A command the engine takes, the timer it finds, the batch it leaves.    *)
Takes(g, cmd, armed, batch) ==
  /\ cmd \in Cmd /\ cmd.kind # "reset_game" /\ Accepts(g, cmd)
  /\ ArmedFor(g, cmd, armed) /\ BatchOf(g, cmd, batch)

TimerMoves(g, cmd, armed, batch) == ScheduleTimers(armed, batch) = TimerOf(Apply(g, cmd))

LEMMA RebuildsCommit ==
  ASSUME NEW entries, NEW g, NEW l, NEW cmd, NEW armed, NEW batch,
         Rebuilds(entries, g, l), Takes(g, cmd, armed, batch)
  PROVE  /\ Rebuilds(Append(entries, JournalEntry(cmd, batch, FALSE)), Apply(g, cmd), l \o batch)
         /\ TimerMoves(g, cmd, armed, batch)
         /\ batch \in Seq(Ev)
<1>1. /\ entries \in Seq(Entries) /\ g \in Games /\ l \in Seq(Ev)
      /\ Replay(entries) = [game |-> g, log |-> l]
      /\ RearmTimer(l) = TimerOf(g)
  BY DEF Rebuilds
<1> USE DEF Takes
<1>2. /\ batch \in Seq(Ev) /\ l \o batch \in Seq(Ev)
      /\ ScheduleTimers(armed, batch) = TimerOf(Apply(g, cmd))
      /\ RearmTimer(l \o batch) = TimerOf(Apply(g, cmd))
  BY <1>1, CommandTimer
<1>3. Apply(g, cmd) \in Games
  BY <1>1, ApplyType
<1> DEFINE entry == JournalEntry(cmd, batch, FALSE)
<1>4. entry \in Entries /\ EntryReplayed([game |-> g, log |-> l], entry)
                             = [game |-> Apply(g, cmd), log |-> l \o batch]
  BY <1>2 DEF JournalEntry, Entries, EntryReplayed, Replayed
<1> HIDE DEF entry
<1>5. Replay(Append(entries, entry)) = [game |-> Apply(g, cmd), log |-> l \o batch]
  BY <1>1, <1>4, ReplayAppend
<1>6. Append(entries, entry) \in Seq(Entries)
  BY <1>1, <1>4, AppendProperties
<1> QED BY <1>2, <1>3, <1>5, <1>6 DEF Rebuilds, TimerMoves, entry

LEMMA ResetBatchIs ==
  ASSUME IdsInv, NEW g \in Games
  PROVE  /\ ResetBatch \in Seq(Ev)
         /\ \/ ResetBatch = <<Event("game_reset", NoOne)>>
            \/ /\ host \in Player
               /\ ResetBatch = <<Event("game_reset", NoOne), Event("host_changed", host)>>
<1>1. Emits(game, ResetGame) = <<Event("game_reset", NoOne)>>
  BY DEF Emits, ResetGame, Command
<1>2. Event("game_reset", NoOne) \in Ev
  BY EventIs DEF EventKinds, NoOne
<1>3. CASE host = NoOne
  <2>1. ResetBatch = <<Event("game_reset", NoOne)>> \o <<>>
    BY <1>1, <1>3 DEF ResetBatch
  <2>2. <<Event("game_reset", NoOne)>> \in Seq(Ev)
    BY <1>2
  <2>3. ResetBatch = <<Event("game_reset", NoOne)>>
    BY <2>1, <2>2, ConcatEmptySeq
  <2> QED BY <2>2, <2>3
<1>4. CASE host # NoOne
  <2>1. host \in Player /\ host \in Nat
    BY <1>4 DEF IdsInv, Player
  <2>2. Event("host_changed", host) \in Ev
    BY <2>1, EventIs DEF EventKinds
  <2>3. ResetBatch = <<Event("game_reset", NoOne)>> \o <<Event("host_changed", host)>>
    BY <1>1, <1>4 DEF ResetBatch
  <2>4. ResetBatch = <<Event("game_reset", NoOne), Event("host_changed", host)>>
    BY <1>2, <2>2, <2>3, Pairs
  <2> QED BY <1>2, <2>1, <2>2, <2>4
<1> QED BY <1>3, <1>4

LEMMA RebuildsReset ==
  ASSUME IdsInv, Rebuilds(journal, game, log), Accepts(game, ResetGame)
  PROVE  /\ Rebuilds(Append(journal, JournalEntry(ResetGame, ResetBatch, TRUE)),
                     Apply(game, ResetGame), ResetBatch)
         /\ TimerOf(Apply(game, ResetGame)) = NoTimer
<1>1. journal \in Seq(Entries) /\ game \in Games /\ Replay(journal) = [game |-> game, log |-> log]
  BY DEF Rebuilds
<1>2. ResetGame \in Cmd
  BY DEF ResetGame, Command, Cmd, CommandKinds
<1>3. Apply(game, ResetGame) \in Games
  BY <1>1, <1>2, ApplyType
<1>4. TimerOf(Apply(game, ResetGame)) = NoTimer
  BY DEF TimerOf, Apply, NextPhase, ResetGame, Command
<1> DEFINE entry == JournalEntry(ResetGame, ResetBatch, TRUE)
<1>5. entry \in Entries /\ EntryReplayed([game |-> game, log |-> log], entry)
                             = [game |-> Apply(game, ResetGame), log |-> ResetBatch]
  BY <1>1, <1>2, ResetBatchIs DEF JournalEntry, Entries, EntryReplayed, Replayed
<1>6. RearmTimer(ResetBatch) = NoTimer
  <2> DEFINE a == Event("game_reset", NoOne)
             b == Event("host_changed", host)
  <2>1. <<>> \in Seq(Ev)
    OBVIOUS
  <2>2. Quiet(a)
    BY EventIs DEF EventKinds, PhaseKinds, NoOne, Quiet
  <2>3. ASSUME host \in Player PROVE Quiet(b)
    BY <2>3, EventIs DEF EventKinds, PhaseKinds, Player, Quiet
  <2> HIDE DEF a, b
  <2>4. CASE ResetBatch = <<a>>
    <3>1. <<a>> \in Seq(Ev) /\ RearmTimer(<<>> \o <<a>>) = NoTimer
      BY <2>1, <2>2, OneEvent, RearmEmpty DEF Quiet
    <3> QED BY <2>4, <3>1, ConcatEmptySeq
  <2>5. CASE host \in Player /\ ResetBatch = <<a, b>>
    <3>1. <<a, b>> \in Seq(Ev) /\ RearmTimer(<<>> \o <<a, b>>) = NoTimer
      BY <2>1, <2>2, <2>3, <2>5, TwoEvents, RearmEmpty DEF Quiet
    <3> QED BY <2>5, <3>1, ConcatEmptySeq
  <2> QED BY <1>1, <2>4, <2>5, ResetBatchIs DEF a, b
<1> HIDE DEF entry
<1>7. Replay(Append(journal, entry)) = [game |-> Apply(game, ResetGame), log |-> ResetBatch]
  BY <1>1, <1>5, ReplayAppend
<1>8. Append(journal, entry) \in Seq(Entries)
  BY <1>1, <1>5, AppendProperties
<1> QED BY <1>1, <1>3, <1>4, <1>6, <1>7, <1>8, ResetBatchIs DEF Rebuilds, entry

(* A recovery puts the engine, the log and the timer back, or gives up.    *)
LEMMA EngineRecovered ==
  ASSUME EngineInv, NEW entries, NEW g, NEW l, Rebuilds(entries, g, l),
         NEW attached, NEW seats, NEW queues,
         RecoverFromPanic(entries, attached, seats, queues)
  PROVE  EngineInv'
<1>1. /\ journal' = entries /\ Replay(entries) = [game |-> g, log |-> l]
      /\ \/ /\ game' = Replay(entries).game /\ log' = Replay(entries).log
            /\ timer' = RearmTimer(Replay(entries).log)
         \/ running' = FALSE /\ timer' = NoTimer /\ UNCHANGED <<game, log>>
  BY DEF RecoverFromPanic, Rebuilds
<1>2. entries \in Seq(Entries) /\ g \in Games /\ RearmTimer(l) = TimerOf(g) /\ TimerOf(g) \in Nat
  BY TimerOfType DEF Rebuilds
<1>5. Replay(entries).game = g /\ Replay(entries).log = l
  BY <1>1
<1>3. CASE game' = g /\ log' = l /\ timer' = RearmTimer(l)
  BY <1>1, <1>2, <1>3 DEF EngineInv, Rebuilds
<1>4. CASE running' = FALSE /\ timer' = NoTimer /\ UNCHANGED <<game, log>>
  BY <1>1, <1>2, <1>4 DEF EngineInv, NoTimer
<1> QED BY <1>1, <1>3, <1>4, <1>5

(* A commit. *)
LEMMA EngineCommitted ==
  ASSUME EngineInv, running, NEW cmd \in Cmd, NEW armed, NEW batch,
         Accepts(game, cmd), cmd.kind # "reset_game",
         armed = timer \/ cmd.kind \in AdvancePhase, BatchOf(game, cmd, batch),
         NEW attached, NEW ids, NEW seats, NEW queues, NEW emptied,
         Commit(cmd, batch, armed, attached, ids, seats, queues, emptied)
  PROVE  EngineInv'
<1>1. /\ game' = Apply(game, cmd) /\ log' = log \o batch
      /\ timer' = ScheduleTimers(armed, batch)
      /\ journal' = Append(journal, JournalEntry(cmd, batch, FALSE))
  BY DEF Commit, Record
<1>2. Rebuilds(journal, game, log) /\ timer = TimerOf(game) /\ ArmedFor(game, cmd, armed)
  BY DEF EngineInv, ArmedFor
<1>4. /\ Rebuilds(Append(journal, JournalEntry(cmd, batch, FALSE)), Apply(game, cmd), log \o batch)
      /\ TimerMoves(game, cmd, armed, batch)
  <2>1. Takes(game, cmd, armed, batch)
    BY <1>2 DEF Takes
  <2> QED BY <1>2, <2>1, RebuildsCommit
<1>3. Rebuilds(journal', game', log') /\ timer' = TimerOf(game')
  BY <1>1, <1>4 DEF TimerMoves
<1> QED BY <1>3, TimerOfType DEF EngineInv, Rebuilds

LEMMA PlayerCommandType ==
  ASSUME IdsInv, NEW c \in Conn, NEW kind \in PlayerCommands
  PROVE  /\ Command(kind, playerID[c]) \in Cmd
         /\ Command(kind, playerID[c]).kind \notin {"reset_game", "add_player"}
  BY DEF IdsInv, Command, Cmd, CommandKinds, PlayerCommands, HostOnly

LEMMA AdvanceType ==
  ASSUME NEW kind \in AdvancePhase
  PROVE  /\ Command(kind, NoOne) \in Cmd
         /\ Command(kind, NoOne).kind = kind
         /\ kind \notin {"reset_game", "add_player"}
  BY DEF Command, Cmd, CommandKinds, AdvancePhase

LEMMA JoinBatchIs ==
  ASSUME NEW p \in Player
  PROVE  /\ Command("add_player", p) \in Cmd
         /\ Command("add_player", p).kind = "add_player"
         /\ BatchOf(game, Command("add_player", p), JoinBatch(p))
<1>1. Command("add_player", p) \in Cmd /\ Command("add_player", p).kind = "add_player"
  BY DEF Command, Cmd, CommandKinds
<1>2. Emits(game, Command("add_player", p)) = <<Event("player_joined", p)>>
  BY DEF Emits, Command
<1>3. CASE host = NoOne
  BY <1>1, <1>3 DEF JoinBatch, BatchOf
<1>4. CASE host # NoOne
  <2>1. <<Event("player_joined", p)>> \in Seq({Event("player_joined", p)})
    OBVIOUS
  <2>2. JoinBatch(p) = Emits(game, Command("add_player", p))
    BY <1>2, <1>4, <2>1, ConcatEmptySeq DEF JoinBatch
  <2> QED BY <1>1, <2>2 DEF BatchOf
<1> QED BY <1>1, <1>3, <1>4

LEMMA EngineJoin ==
  ASSUME EngineInv, IdsInv, NEW c \in Conn,
         HandleJoin(c) \/ RefuseJoin(c) \/ PanicInJoin(c)
  PROVE  EngineInv'
<1>1. running /\ Rebuilds(journal, game, log)
  BY DEF HandleJoin, RefuseJoin, PanicInJoin, MintsId, Live, EngineInv
<1>2. CASE HandleJoin(c)
  <2>0. PICK p \in Player : \E ids :
          /\ Accepts(game, Command("add_player", p))
          /\ Commit(Command("add_player", p), JoinBatch(p), timer, subs \cup {c},
                    ids, SeatsWith(p, c), [out EXCEPT ![c] = Send(@, Welcome(p))], FALSE)
    BY <1>2 DEF HandleJoin, Player
  <2>1. PICK ids :
          /\ Accepts(game, Command("add_player", p))
          /\ Commit(Command("add_player", p), JoinBatch(p), timer, subs \cup {c},
                    ids, SeatsWith(p, c), [out EXCEPT ![c] = Send(@, Welcome(p))], FALSE)
    BY <2>0
  <2>2. PICK cmd : cmd = Command("add_player", p)
    OBVIOUS
  <2>3. PICK attached, seats, queues :
          Commit(cmd, JoinBatch(p), timer, attached, ids, seats, queues, FALSE)
    BY <2>1, <2>2
  <2>4. cmd \in Cmd /\ cmd.kind # "reset_game" /\ BatchOf(game, cmd, JoinBatch(p))
    BY <2>2, JoinBatchIs
  <2> QED BY <1>1, <2>1, <2>2, <2>3, <2>4, EngineCommitted
<1>3. CASE RefuseJoin(c)
  BY <1>3 DEF RefuseJoin, engineVars, loopVars, EngineInv, Rebuilds
<1>4. CASE PanicInJoin(c)
  <2>1. \E attached, seats, queues : RecoverFromPanic(journal, attached, seats, queues)
    BY <1>4 DEF PanicInJoin
  <2> QED BY <1>1, <2>1, EngineRecovered
<1> QED BY <1>2, <1>3, <1>4

(* The rest of a room's steps take a command, roll one back, or leave the  *)
(* engine alone.                                                           *)
LEMMA EngineUnchanged ==
  ASSUME EngineInv, UNCHANGED <<game, log, journal, timer, running>>
  PROVE  EngineInv'
  BY DEF EngineInv, Rebuilds

LEMMA EngineCommand ==
  ASSUME EngineInv, IdsInv, NEW c \in Conn, NEW kind \in PlayerCommands,
         HandleCommand(c, kind) \/ PanicInCommand(c, kind)
  PROVE  EngineInv'
<1> DEFINE cmd == Command(kind, playerID[c])
<1>1. cmd \in Cmd /\ cmd.kind # "reset_game"
  BY PlayerCommandType
<1>2. CASE HandleCommand(c, kind)
  <2>1. /\ running /\ Accepts(game, cmd)
        /\ Commit(cmd, Emits(game, cmd), timer, subs, playerID, slot, out, emptySince)
    BY <1>2 DEF HandleCommand, CommitHere, HasSender, Live
  <2>2. BatchOf(game, cmd, Emits(game, cmd))
    BY DEF BatchOf
  <2> HIDE DEF cmd
  <2> QED BY <1>1, <2>1, <2>2, EngineCommitted
<1>3. CASE PanicInCommand(c, kind)
  <2>1. running /\ \E queues : RecoverFromPanic(journal, subs, slot, queues)
    BY <1>3 DEF PanicInCommand, PanicWhile, HasSender, Live
  <2>2. Rebuilds(journal, game, log)
    BY <2>1 DEF EngineInv
  <2> QED BY <2>1, <2>2, EngineRecovered
<1> QED BY <1>2, <1>3

LEMMA EngineTimer ==
  ASSUME EngineInv, IdsInv, NEW kind \in AdvancePhase,
         HandlePhaseTimer(kind) \/ PanicInTimer(kind)
  PROVE  EngineInv'
<1> DEFINE cmd == Command(kind, NoOne)
<1>1. cmd \in Cmd /\ cmd.kind = kind /\ kind # "reset_game"
  BY AdvanceType
<1>2. CASE HandlePhaseTimer(kind)
  <2>1. running /\ timer # NoTimer
    BY <1>2 DEF HandlePhaseTimer
  <2>2. Accepts(game, cmd)
    BY <2>1 DEF EngineInv, TimerOf, Accepts, Command, AdvancePhase
  <2>3. Commit(cmd, Emits(game, cmd), NoTimer, subs, playerID, slot, out, emptySince)
    BY <1>2, <2>2 DEF HandlePhaseTimer, CommitHere
  <2>4. BatchOf(game, cmd, Emits(game, cmd))
    BY DEF BatchOf
  <2> HIDE DEF cmd
  <2> QED BY <1>1, <2>1, <2>2, <2>3, <2>4, EngineCommitted
<1>3. CASE PanicInTimer(kind)
  <2>1. running /\ \E queues : RecoverFromPanic(journal, subs, slot, queues)
    BY <1>3 DEF PanicInTimer, PanicWhile
  <2>2. Rebuilds(journal, game, log)
    BY <2>1 DEF EngineInv
  <2> QED BY <2>1, <2>2, EngineRecovered
<1> QED BY <1>2, <1>3

LEMMA EngineReset ==
  ASSUME EngineInv, IdsInv, NEW c \in Conn, HandleReset(c) \/ PanicInReset(c)
  PROVE  EngineInv'
<1>1. running /\ Accepts(game, ResetGame)
  BY DEF HandleReset, PanicInReset, MayReset, HasSender, Live
<1>2. Rebuilds(journal, game, log)
  BY <1>1 DEF EngineInv
<1> DEFINE entries == Append(journal, JournalEntry(ResetGame, ResetBatch, TRUE))
<1>3. /\ Rebuilds(entries, Apply(game, ResetGame), ResetBatch)
      /\ TimerOf(Apply(game, ResetGame)) = NoTimer
  BY <1>1, <1>2, RebuildsReset
<1>4. CASE HandleReset(c)
  <2>1. /\ game' = Apply(game, ResetGame) /\ timer' = NoTimer /\ log' = ResetBatch
        /\ journal' = entries
    BY <1>4 DEF HandleReset, Record
  <2> HIDE DEF entries
  <2>2. Rebuilds(journal', game', log') /\ timer' = TimerOf(game') /\ timer' \in Nat
    BY <1>3, <2>1 DEF NoTimer
  <2> QED BY <2>2 DEF EngineInv, Rebuilds
<1>5. CASE PanicInReset(c)
  <2>1. \E queues : RecoverFromPanic(entries, subs, slot, queues)
    BY <1>5 DEF PanicInReset
  <2> HIDE DEF entries
  <2> QED BY <1>3, <2>1, EngineRecovered
<1> QED BY <1>4, <1>5

LEMMA EngineRejoin ==
  ASSUME EngineInv, NEW c \in Conn, HandleRejoin(c) \/ PanicInRejoin(c)
  PROVE  EngineInv'
<1>1. CASE HandleRejoin(c)
  BY <1>1, EngineUnchanged DEF HandleRejoin, engineVars, loopVars
<1>2. CASE PanicInRejoin(c)
  <2>1. running /\ \E attached, seats : RecoverFromPanic(journal, attached, seats, out)
    BY <1>2 DEF PanicInRejoin, Live
  <2>2. Rebuilds(journal, game, log)
    BY <2>1 DEF EngineInv
  <2> QED BY <2>1, <2>2, EngineRecovered
<1> QED BY <1>1, <1>2

LEMMA EngineInit == Init => EngineInv
<1> SUFFICES ASSUME Init PROVE EngineInv
  OBVIOUS
<1> DEFINE cmd == Command("create_game", NoOne)
<1>1. /\ game = Apply(Game0, cmd) /\ log = Emits(Game0, cmd)
      /\ journal = <<JournalEntry(cmd, Emits(Game0, cmd), FALSE)>> /\ timer = NoTimer
  BY DEF Init
<1>2. cmd \in Cmd /\ cmd.kind = "create_game" /\ Accepts(Game0, cmd)
  <2>1. cmd.kind = "create_game" /\ cmd \in Cmd
    BY DEF Command, Cmd, CommandKinds
  <2> HIDE DEF cmd
  <2>2. Game0.phase = "none"
    BY DEF Game0
  <2>3. Accepts(Game0, cmd)
    BY <2>1, <2>2 DEF Accepts, AdvancePhase
  <2> QED BY <2>1, <2>3
<1>3. Rebuilds(<<>>, Game0, <<>>)
  BY ReplayEmpty, RearmEmpty, EmptyRoomType, EmptySeq
     DEF Rebuilds, EmptyRoom, Rooms, TimerOf, Game0
<1>4. Takes(Game0, cmd, NoTimer, Emits(Game0, cmd))
  BY <1>2 DEF Takes, ArmedFor, BatchOf, TimerOf, Game0
<1> DEFINE batch == Emits(Game0, cmd)
           entry == JournalEntry(cmd, batch, FALSE)
<1> HIDE DEF cmd
<1>5. /\ Rebuilds(Append(<<>>, entry), Apply(Game0, cmd), <<>> \o batch)
      /\ batch \in Seq(Ev)
  BY <1>2, <1>3, <1>4, RebuildsCommit
<1>6. <<>> \o batch = batch /\ Append(<<>>, entry) = <<entry>>
  <2>1. <<>> \o batch = batch
    BY <1>5, ConcatEmptySeq
  <2>2. Append(<<>>, entry) = <<entry>>
    OBVIOUS
  <2> QED BY <2>1, <2>2
<1>7. TimerOf(game) = NoTimer
  BY <1>1, <1>2 DEF TimerOf, Apply, NextPhase
<1>8. Rebuilds(journal, game, log)
  BY <1>1, <1>5, <1>6
<1> QED BY <1>1, <1>7, <1>8 DEF EngineInv, Rebuilds, NoTimer

LEMMA EngineStep == IdsInv /\ EngineInv /\ [Next]_vars => EngineInv'
<1> SUFFICES ASSUME IdsInv, EngineInv, [Next]_vars PROVE EngineInv'
  OBVIOUS
<1>1. CASE UNCHANGED vars
  BY <1>1, EngineUnchanged DEF vars, engineVars, loopVars
<1>2. ASSUME NEW c \in Conn, HandleLeave(c) \/ RefuseCommand(c) \/ PumpsExit(c)
      PROVE  EngineInv'
  BY <1>2, EngineUnchanged DEF HandleLeave, RefuseCommand, PumpsExit, roomVars, engineVars, loopVars
<1>3. CASE Cancel
  BY <1>3, EngineUnchanged DEF Cancel
<1>4. CASE RunExits
  BY <1>4 DEF RunExits, EngineInv, NoTimer
<1>5. ASSUME NEW g \in Page, NEW c \in Conn, OpenJoin(g, c) \/ Reconnect(g, c)
      PROVE  EngineInv'
  BY <1>5, EngineUnchanged DEF OpenJoin, Reconnect, Connect, roomVars, engineVars, loopVars
<1>6. ASSUME NEW g \in Page, Deliver(g) PROVE EngineInv'
  BY <1>6, EngineUnchanged DEF Deliver, engineVars, loopVars
<1> QED BY <1>1, <1>2, <1>3, <1>4, <1>5, <1>6, EngineJoin, EngineCommand, EngineTimer,
           EngineReset, EngineRejoin
        DEF Next, RoomStep, Panic, Closing, Transport

-------------------------------------------------------------------------------
(* The buffers and the tabs. *)
Queues == {queue \in Seq(Msg) : Len(queue) <= QueueCap}
Requests == {NoRequest, Join} \cup [kind : {"rejoin"}, player : Player, since : Nat]

SlotTypes == \A p \in DOMAIN slot : slot[p] \in Conn \cup {NoConn}
LoopTypes == recoveries \in Nat /\ cancelled \in BOOLEAN /\ running \in BOOLEAN
ConnTypes ==
  /\ stage \in [Conn -> {"unused", "up", "left", "gone"}]
  /\ request \in [Conn -> Requests]
PageTypes ==
  /\ me \in [Page -> Player \cup {NoOne}]
  /\ socket \in [Page -> Conn \cup {NoConn}]
  /\ view \in [Page -> Seq(Ev)]
  /\ cursor \in [Page -> Nat]

(* A connection that waits for its answer, or is not used yet, has an      *)
(* empty buffer.                                                           *)
Waiting(c) == request[c] # NoRequest \/ stage[c] = "unused"

PipeInv ==
  /\ out \in [Conn -> Queues]
  /\ SlotTypes /\ LoopTypes /\ ConnTypes /\ PageTypes
  /\ \A c \in Conn : Waiting(c) => out[c] = <<>>

RoomInv == SeatInv /\ IdsInv /\ EngineInv /\ PipeInv

(* What a step may do to a buffer: nothing, drop it, deliver from it, or   *)
(* send on it, and then it is open and does not wait.                      *)
Sends(c) == c \notin closed /\ ~Waiting(c)'
BufferMoves(c) ==
  \/ out'[c] = out[c]
  \/ out'[c] = <<>>
  \/ out[c] # <<>> /\ out'[c] = Tail(out[c])
  \/ Sends(c)
OutMoves == out' \in [Conn -> Queues] /\ \A c \in Conn : BufferMoves(c)
(* No connection goes back to waiting. *)
NoneWaitsAgain == \A c \in Conn : Waiting(c)' => Waiting(c)

LEMMA SendType ==
  ASSUME NEW queue \in Queues, NEW msg \in Msg
  PROVE  Send(queue, msg) \in Queues
<1>1. queue \in Seq(Msg) /\ Len(queue) \in Nat /\ Len(queue) <= QueueCap
  BY DEF Queues
<1>2. Append(queue, msg) \in Seq(Msg) /\ Len(Append(queue, msg)) = Len(queue) + 1
  BY <1>1, AppendProperties
<1> QED BY <1>1, <1>2, RoomAssumption DEF Send, Queues

(* How many frames fit. *)
Fitting(queue, frames) ==
  LET room == QueueCap - Len(queue) IN IF Len(frames) < room THEN Len(frames) ELSE room

LEMMA PushParts ==
  ASSUME NEW queue \in Queues, NEW frames \in Seq(Msg)
  PROVE  /\ Fitting(queue, frames) \in 0 .. Len(frames)
         /\ Len(queue) + Fitting(queue, frames) <= QueueCap
         /\ SubSeq(frames, 1, Fitting(queue, frames)) \in Seq(Msg)
         /\ Len(SubSeq(frames, 1, Fitting(queue, frames))) = Fitting(queue, frames)
         /\ Push(queue, frames) = queue \o SubSeq(frames, 1, Fitting(queue, frames))
<1>1. /\ Len(queue) \in Nat /\ Len(queue) <= QueueCap /\ QueueCap \in Nat
      /\ Len(frames) \in Nat
  BY RoomAssumption DEF Queues
<1>2. /\ Fitting(queue, frames) \in 0 .. Len(frames)
      /\ Len(queue) + Fitting(queue, frames) <= QueueCap
  BY <1>1 DEF Fitting
<1>3. Push(queue, frames) = queue \o SubSeq(frames, 1, Fitting(queue, frames))
  BY DEF Push, Fitting
<1>4. PICK n \in 0 .. Len(frames) : n = Fitting(queue, frames)
  BY <1>2
<1>5. SubSeq(frames, 1, n) \in Seq(Msg) /\ Len(SubSeq(frames, 1, n)) = n
  <2>1. \A i \in 1 .. n : frames[i] \in Msg
    BY <1>1
  <2>2. n \in Int /\ 1 \in Int /\ (n < 1 => n = 0)
    BY <1>1
  <2> QED BY <1>1, <2>1, <2>2, SubSeqProperties
<1> QED BY <1>2, <1>3, <1>4, <1>5

LEMMA PushType ==
  ASSUME NEW queue \in Queues, NEW frames \in Seq(Msg)
  PROVE  Push(queue, frames) \in Queues
<1> DEFINE fits == SubSeq(frames, 1, Fitting(queue, frames))
<1>1. /\ queue \in Seq(Msg) /\ fits \in Seq(Msg) /\ Push(queue, frames) = queue \o fits
      /\ Len(queue) + Len(fits) <= QueueCap
  BY PushParts DEF Queues
<1> HIDE DEF fits
<1>2. queue \o fits \in Seq(Msg) /\ Len(queue \o fits) = Len(queue) + Len(fits)
  BY <1>1, ConcatProperties
<1> QED BY <1>1, <1>2 DEF Queues

(* A batch goes whole into a buffer that is not too slow; nothing goes into*)
(* the buffer of who is not attached.                                      *)
LEMMA PushFits ==
  ASSUME NEW queue \in Queues, NEW frames \in Seq(Msg), ~TooSlow(queue, frames)
  PROVE  Push(queue, frames) = queue \o frames
<1>1. Len(queue) \in Nat /\ Len(frames) \in Nat /\ QueueCap \in Nat
  BY RoomAssumption DEF Queues
<1>2. Fitting(queue, frames) = Len(frames)
  BY <1>1 DEF Fitting, TooSlow
<1> QED BY <1>2, PushParts, SubSeqFull

LEMMA PushNothing ==
  ASSUME NEW queue \in Queues
  PROVE  Push(queue, <<>>) = queue
<1>1. <<>> \in Seq(Msg) /\ Len(<<>>) = 0 /\ queue \in Seq(Msg)
  BY DEF Queues
<1>2. Len(queue) \in Nat /\ Len(queue) <= QueueCap /\ QueueCap \in Nat
  BY RoomAssumption DEF Queues
<1>3. ~TooSlow(queue, <<>>)
  BY <1>1, <1>2 DEF TooSlow
<1>4. Push(queue, <<>>) = queue \o <<>>
  BY <1>1, <1>3, PushFits
<1> QED BY <1>1, <1>4, ConcatEmptySeq

LEMMA FramesAreMessages ==
  ASSUME NEW p, NEW base \in Nat, NEW batch \in Seq(Ev)
  PROVE  Frames(p, base, batch) \in Seq(Msg)
<1>1. Frames(p, base, batch) \in Seq(FrameMsg) /\ FrameMsg \subseteq Msg
  BY FramesType DEF Msg
<1> QED BY <1>1, SeqMonotonic

LEMMA SnapshotType ==
  ASSUME NEW p \in Player, NEW from \in Nat, NEW last \in Nat, NEW events \in Seq(Ev)
  PROVE  Snapshot(p, from, last, events) \in Msg
  BY DEF Snapshot, SnapshotMsg, Msg

LEMMA RefusalType == Refusal \in Msg
  BY DEF Msg

-------------------------------------------------------------------------------
(* What a broadcast does to the buffers. *)
Buffered(attached, ids, seats, queues, base, batch) ==
  /\ out' \in [Conn -> Queues]
  /\ subs' \subseteq attached
  /\ \A c \in Conn \ attached : out'[c] = queues[c]
  /\ \A c \in subs' : out'[c] = queues[c] \o Frames(ids[c], base, batch)
  /\ DOMAIN slot' = DOMAIN seats
  /\ \A p \in DOMAIN seats : slot'[p] \in {seats[p], NoConn}

LEMMA BroadcastBuffers ==
  ASSUME NEW attached \in SUBSET Conn, NEW ids, NEW seats, NEW queues \in [Conn -> Queues],
         NEW emptied, NEW base \in Nat, NEW batch \in Seq(Ev),
         BroadcastToSubs(attached, ids, seats, queues, emptied, base, batch)
  PROVE  Buffered(attached, ids, seats, queues, base, batch)
<1> DEFINE frames == [c \in Conn |-> IF c \in attached THEN Frames(ids[c], base, batch) ELSE <<>>]
<1>1. /\ out' = [c \in Conn |-> Push(queues[c], frames[c])]
      /\ subs' = attached \ {c \in attached : TooSlow(queues[c], frames[c])}
      /\ DOMAIN slot' = DOMAIN seats
      /\ \A p \in DOMAIN seats : slot'[p] \in {seats[p], NoConn}
  BY DEF BroadcastToSubs
<1>2. ASSUME NEW c \in Conn
      PROVE  /\ queues[c] \in Queues /\ frames[c] \in Seq(Msg)
             /\ c \in attached => frames[c] = Frames(ids[c], base, batch)
             /\ c \notin attached => frames[c] = <<>>
  <2>1. <<>> \in Seq(Msg)
    OBVIOUS
  <2>2. Frames(ids[c], base, batch) \in Seq(Msg)
    BY FramesAreMessages
  <2> QED BY <2>1, <2>2
<1> HIDE DEF frames
<1>3. out' \in [Conn -> Queues]
  BY <1>1, <1>2, PushType
<1>4. ASSUME NEW c \in Conn \ attached PROVE out'[c] = queues[c]
  BY <1>1, <1>2, PushNothing
<1>5. ASSUME NEW c \in subs' PROVE out'[c] = queues[c] \o Frames(ids[c], base, batch)
  <2>1. c \in Conn /\ c \in attached /\ ~TooSlow(queues[c], frames[c])
    BY <1>1
  <2> QED BY <1>1, <1>2, <2>1, PushFits
<1> QED BY <1>1, <1>3, <1>4, <1>5 DEF Buffered

(* And one that is cut short. *)
PartlyBuffered(left, attached, queues) ==
  left \in [Conn -> Queues] /\ \A c \in Conn \ attached : left[c] = queues[c]

LEMMA CutShortBuffers ==
  ASSUME NEW attached \in SUBSET Conn, NEW ids, NEW queues \in [Conn -> Queues],
         NEW base \in Nat, NEW batch \in Seq(Ev),
         NEW left \in CutShort(attached, ids, queues, base, batch)
  PROVE  PartlyBuffered(left, attached, queues)
<1>1. PICK served \in SUBSET attached, last \in attached \cup {NoConn} :
        left = Interrupted(served, last, ids, queues, base, batch)
  BY DEF CutShort
<1>2. ASSUME NEW c \in Conn
      PROVE  /\ Push(queues[c], Frames(ids[c], base, batch)) \in Queues
             /\ Push(queues[c], Front(Frames(ids[c], base, batch))) \in Queues
             /\ queues[c] \in Queues
  <2>1. PICK frames \in Seq(Msg) : frames = Frames(ids[c], base, batch)
    BY FramesAreMessages
  <2>2. Front(frames) \in Seq(Msg)
    <3>1. /\ Len(frames) \in Nat /\ Len(frames) - 1 \in Int
          /\ \A i \in 1 .. Len(frames) - 1 : frames[i] \in Msg
      OBVIOUS
    <3> QED BY <3>1, SubSeqProperties DEF Front
  <2> QED BY <2>1, <2>2, PushType
<1>3. ASSUME NEW c \in Conn
      PROVE  left[c] \in Queues
  BY <1>1, <1>2 DEF Interrupted
<1>4. ASSUME NEW c \in Conn \ attached PROVE left[c] = queues[c]
  <2>1. c \notin served /\ c # last
    BY RoomAssumption
  <2> QED BY <1>1, <2>1 DEF Interrupted
<1>5. left = [c \in Conn |-> left[c]]
  BY <1>1 DEF Interrupted
<1> QED BY <1>2, <1>3, <1>4, <1>5 DEF PartlyBuffered

-------------------------------------------------------------------------------
(* A recovery leaves the buffers as the panic found them. *)
LEMMA RecoveredPipes ==
  ASSUME LoopTypes, NEW entries, NEW attached, NEW seats, NEW queues,
         \A p \in DOMAIN seats : seats[p] \in Conn \cup {NoConn},
         RecoverFromPanic(entries, attached, seats, queues)
  PROVE  out' = queues /\ SlotTypes' /\ LoopTypes' /\ subs' = {}
<1>1. /\ out' = queues /\ subs' = {} /\ recoveries' \in {1, recoveries + 1}
      /\ \/ slot' = Vacated(seats) /\ UNCHANGED <<cancelled, running>>
         \/ cancelled' = TRUE /\ running' = FALSE /\ slot' = seats
  BY DEF RecoverFromPanic
<1>2. SlotTypes'
  BY <1>1 DEF SlotTypes, Vacated
<1>3. recoveries' \in Nat
  <2>1. recoveries \in Nat
    BY DEF LoopTypes
  <2> QED BY <1>1, <2>1
<1>4. cancelled' \in BOOLEAN /\ running' \in BOOLEAN
  BY <1>1 DEF LoopTypes
<1>5. LoopTypes'
  BY <1>3, <1>4 DEF LoopTypes
<1> QED BY <1>1, <1>2, <1>5

(* A served connection waits no more. *)
LEMMA ServedTypes ==
  ASSUME ConnTypes, NEW c \in Conn, Served(c), UNCHANGED stage
  PROVE  /\ ConnTypes' /\ NoneWaitsAgain
         /\ stage[c] # "unused" => ~Waiting(c)'
  BY DEF ConnTypes, Served, Requests, NoneWaitsAgain, Waiting

LEMMA PagesUnchanged ==
  ASSUME PageTypes, UNCHANGED pageVars
  PROVE  PageTypes'
  BY DEF PageTypes, pageVars

LEMMA ConnsUnchanged ==
  ASSUME ConnTypes, UNCHANGED connVars
  PROVE  ConnTypes' /\ NoneWaitsAgain /\ \A c \in Conn : Waiting(c)' = Waiting(c)
  BY DEF ConnTypes, connVars, NoneWaitsAgain, Waiting

Moved == OutMoves /\ NoneWaitsAgain /\ SlotTypes' /\ LoopTypes' /\ ConnTypes' /\ PageTypes'

LEMMA LogLength ==
  ASSUME RoomInv
  PROVE  Len(log) \in Nat /\ log \in Seq(Ev)
  BY DEF RoomInv, EngineInv

(* What a join sends before it broadcasts. *)
LEMMA WelcomeType ==
  ASSUME RoomInv, NEW c \in Conn, NEW p \in Player
  PROVE  /\ Welcome(p) \in Msg
         /\ [out EXCEPT ![c] = Send(@, Welcome(p))] \in [Conn -> Queues]
<1>1. Welcome(p) \in Msg
  BY LogLength, ProjectType, SnapshotType DEF Welcome
<1>2. out \in [Conn -> Queues]
  BY DEF RoomInv, PipeInv
<1>3. Send(out[c], Welcome(p)) \in Queues
  BY <1>1, <1>2, SendType
<1> QED BY <1>1, <1>2, <1>3

LEMMA JoinBatchType ==
  ASSUME NEW p \in Player
  PROVE  JoinBatch(p) \in Seq(Ev)
<1> DEFINE a == Event("player_joined", p)
           b == Event("host_changed", p)
<1>1. a \in Ev /\ b \in Ev
  BY EventIs DEF EventKinds, Player
<1>2. Emits(game, Command("add_player", p)) = <<a>>
  BY DEF Emits, Command
<1>3. JoinBatch(p) = <<a>> \o (IF host = NoOne THEN <<b>> ELSE <<>>)
  BY <1>2 DEF JoinBatch
<1> HIDE DEF a, b
<1>4. <<a>> \in Seq(Ev) /\ (IF host = NoOne THEN <<b>> ELSE <<>>) \in Seq(Ev)
  BY <1>1
<1> QED BY <1>3, <1>4, ConcatProperties

LEMMA MovesOf ==
  ASSUME NEW attached \in SUBSET Conn, out' \in [Conn -> Queues],
         \A d \in Conn \ attached : out'[d] = out[d],
         \A d \in attached : d \notin closed /\ ~Waiting(d)'
  PROVE  OutMoves
<1>1. ASSUME NEW d \in Conn PROVE BufferMoves(d)
  <2>1. CASE d \in attached
    BY <2>1 DEF Sends, BufferMoves
  <2>2. CASE d \notin attached
    BY <2>2 DEF BufferMoves
  <2> QED BY <2>1, <2>2
<1> QED BY <1>1 DEF OutMoves

LEMMA NothingMoves ==
  ASSUME out \in [Conn -> Queues], UNCHANGED out
  PROVE  OutMoves
  BY DEF OutMoves, BufferMoves

LEMMA BroadcastMoves ==
  ASSUME NEW attached \in SUBSET Conn, NEW ids, NEW seats, NEW queues \in [Conn -> Queues],
         NEW emptied, NEW base \in Nat, NEW batch \in Seq(Ev),
         \A p \in DOMAIN seats : seats[p] \in Conn \cup {NoConn},
         \A d \in Conn \ attached : queues[d] = out[d],
         \A d \in attached : d \notin closed /\ ~Waiting(d)',
         BroadcastToSubs(attached, ids, seats, queues, emptied, base, batch)
  PROVE  OutMoves /\ SlotTypes'
<1>1. Buffered(attached, ids, seats, queues, base, batch)
  BY BroadcastBuffers
<1>2. SlotTypes'
  BY <1>1 DEF SlotTypes, Buffered
<1>3. OutMoves
  <2>1. out' \in [Conn -> Queues] /\ \A d \in Conn \ attached : out'[d] = out[d]
    BY <1>1 DEF Buffered
  <2> QED BY <2>1, MovesOf
<1> QED BY <1>2, <1>3

(* A panic that strikes a broadcast. *)
LEMMA PanicMoves ==
  ASSUME LoopTypes, NEW attached \in SUBSET Conn, NEW entries, NEW seats,
         NEW queues \in [Conn -> Queues],
         \A p \in DOMAIN seats : seats[p] \in Conn \cup {NoConn},
         \A d \in Conn \ attached : queues[d] = out[d],
         \A d \in attached : d \notin closed /\ ~Waiting(d)',
         RecoverFromPanic(entries, attached, seats, queues)
  PROVE  OutMoves /\ SlotTypes' /\ LoopTypes'
<1>1. out' = queues /\ SlotTypes' /\ LoopTypes'
  BY RecoveredPipes
<1> QED BY <1>1, MovesOf

LEMMA PipeJoin ==
  ASSUME RoomInv, NEW c \in Conn, HandleJoin(c) \/ RefuseJoin(c) \/ PanicInJoin(c)
  PROVE  Moved
<1> USE DEF RoomInv, PipeInv
<1> DEFINE who == subs \cup {c}
<1>1. PICK p \in Player :
        /\ MintsId(c, p)
        /\ \/ HandleJoin(c)!(p)
           \/ RefuseJoin(c)!(p)
           \/ PanicInJoin(c)!(p)
  BY DEF HandleJoin, RefuseJoin, PanicInJoin, Player
<1>2. PageTypes' /\ UNCHANGED stage
  BY <1>1, PagesUnchanged
<1>3. /\ ConnTypes' /\ NoneWaitsAgain
      /\ \A d \in who : d \in Conn /\ ~Waiting(d)'
      /\ c \notin closed /\ running
  <2>1. Served(c) /\ c \notin closed /\ running /\ request[c] # NoRequest
    BY <1>1 DEF MintsId, Live, Join, NoRequest
  <2>2. stage[c] # "unused" /\ \A d \in subs : d \in Conn /\ request[d] = NoRequest /\ stage[d] # "unused"
    BY <2>1 DEF SeatInv, SeatTypes
  <2> QED BY <1>2, <2>1, <2>2, ServedTypes DEF Served, Waiting, ConnTypes
<1>4. /\ who \in SUBSET Conn
      /\ \A d \in who : d \notin closed
      /\ \A q \in DOMAIN SeatsWith(p, c) : SeatsWith(p, c)[q] \in Conn \cup {NoConn}
  BY <1>3 DEF SeatInv, Attached, SeatsWith, SlotTypes
<1> DEFINE queued == [out EXCEPT ![c] = Send(@, Welcome(p))]
<1>5. queued \in [Conn -> Queues] /\ \A d \in Conn \ who : queued[d] = out[d]
  BY WelcomeType
<1>6. Len(log) \in Nat /\ JoinBatch(p) \in Seq(Ev)
  BY LogLength, JoinBatchType
<1>7. CASE HandleJoin(c)!(p)
  <2>1. BroadcastToSubs(who, playerID', SeatsWith(p, c), queued, FALSE, Len(log), JoinBatch(p))
    BY <1>7 DEF Commit
  <2>2. LoopTypes'
    BY <1>7 DEF LoopTypes, loopVars
  <2> HIDE DEF who, queued
  <2>3. OutMoves /\ SlotTypes'
    BY <1>3, <1>4, <1>5, <1>6, <2>1, BroadcastMoves
  <2> QED BY <1>2, <1>3, <2>2, <2>3 DEF Moved
<1>8. CASE RefuseJoin(c)!(p)
  <2>1. out' = [out EXCEPT ![c] = Send(@, Refusal)] /\ UNCHANGED slot /\ UNCHANGED loopVars
    BY <1>8
  <2>2. Send(out[c], Refusal) \in Queues
    BY SendType, RefusalType
  <2>3. out' \in [Conn -> Queues] /\ \A d \in Conn \ {c} : out'[d] = out[d]
    BY <2>1, <2>2
  <2>4. OutMoves
    BY <1>3, <2>3, MovesOf
  <2> QED BY <1>2, <1>3, <2>1, <2>4 DEF Moved, SlotTypes, LoopTypes, loopVars
<1>9. CASE PanicInJoin(c)!(p)
  <2>1. CASE RecoverFromPanic(journal, subs, slot, out)
    <3>1. /\ subs \in SUBSET Conn /\ \A d \in subs : d \notin closed /\ ~Waiting(d)'
          /\ \A q \in DOMAIN slot : slot[q] \in Conn \cup {NoConn}
      BY <1>3, <1>4 DEF SlotTypes
    <3>2. OutMoves /\ SlotTypes' /\ LoopTypes'
      BY <2>1, <3>1, PanicMoves
    <3> QED BY <1>2, <1>3, <3>2 DEF Moved
  <2>2. ASSUME NEW queues \in {out} \cup CutShort(who, playerID', queued, Len(log), JoinBatch(p)),
               RecoverFromPanic(journal, who, SeatsWith(p, c), queues)
        PROVE  Moved
    <3> HIDE DEF who, queued
    <3>1. queues \in [Conn -> Queues] /\ \A d \in Conn \ who : queues[d] = out[d]
      <4>1. CASE queues = out
        BY <1>5, <4>1
      <4>2. CASE queues \in CutShort(who, playerID', queued, Len(log), JoinBatch(p))
        <5>1. PartlyBuffered(queues, who, queued)
          BY <1>4, <1>5, <1>6, <4>2, CutShortBuffers
        <5> QED BY <1>5, <5>1 DEF PartlyBuffered
      <4> QED BY <2>2, <4>1, <4>2
    <3>2. OutMoves /\ SlotTypes' /\ LoopTypes'
      BY <1>3, <1>4, <2>2, <3>1, PanicMoves
    <3> QED BY <1>2, <1>3, <3>2 DEF Moved
  <2> QED BY <1>9, <2>1, <2>2
<1> QED BY <1>1, <1>7, <1>8, <1>9

LEMMA PipeRejoin ==
  ASSUME RoomInv, NEW c \in Conn, HandleRejoin(c) \/ PanicInRejoin(c)
  PROVE  Moved
<1> USE DEF RoomInv, PipeInv
<1>1. Live(c) /\ Served(c) /\ request[c].kind = "rejoin" /\ UNCHANGED stage /\ UNCHANGED pageVars
  BY DEF HandleRejoin, PanicInRejoin
<1>2. PageTypes'
  BY <1>1, PagesUnchanged
<1>3. /\ ConnTypes' /\ NoneWaitsAgain
      /\ c \notin closed /\ ~Waiting(c)'
      /\ \A d \in subs : d \in Conn /\ d \notin closed /\ ~Waiting(d)'
  <2>1. c \notin closed /\ running /\ request[c] # NoRequest
    BY <1>1 DEF Live, NoRequest
  <2>2. stage[c] # "unused" /\ \A d \in subs : d \in Conn /\ request[d] = NoRequest /\ stage[d] # "unused"
    BY <2>1 DEF SeatInv, SeatTypes
  <2>3. \A d \in subs : d \notin closed
    BY <2>1 DEF SeatInv, Attached
  <2> QED BY <1>1, <2>1, <2>2, <2>3, ServedTypes DEF Served, Waiting, ConnTypes
<1>4. PICK p, since : p = request[c].player /\ since = request[c].since
  OBVIOUS
<1>5. p \in Player /\ since \in Nat
  BY <1>1, <1>4 DEF ConnTypes, Requests, NoRequest, Join
<1>6. CASE HandleRejoin(c)
  <2> DEFINE from == ResumeFrom(since)
             msg == Snapshot(p, from, Len(log), Project(p, TailAfter(from)))
  <2>1. /\ out' = [out EXCEPT ![c] = Send(@, msg)]
        /\ slot' = [slot EXCEPT ![p] = c] /\ UNCHANGED loopVars
    BY <1>4, <1>6 DEF HandleRejoin
  <2>2. from \in 0 .. Len(log)
    BY <1>5, LogLength DEF ResumeFrom
  <2>3. TailAfter(from) \in Seq(Ev)
    <3>1. \A i \in from + 1 .. Len(log) : log[i] \in Ev
      BY <2>2, LogLength
    <3>2. from + 1 \in Int /\ Len(log) \in Int
      BY <2>2, LogLength
    <3> HIDE DEF from
    <3> QED BY <3>1, <3>2, SubSeqProperties DEF TailAfter
  <2>4. msg \in Msg
    BY <1>5, <2>2, <2>3, LogLength, ProjectType, SnapshotType
  <2> HIDE DEF msg
  <2>5. Send(out[c], msg) \in Queues
    BY <2>4, SendType
  <2>6. out' \in [Conn -> Queues] /\ \A d \in Conn \ {c} : out'[d] = out[d]
    BY <2>1, <2>5
  <2>7. OutMoves
    BY <1>3, <2>6, MovesOf
  <2> QED BY <1>2, <1>3, <2>1, <2>7 DEF Moved, SlotTypes, LoopTypes, loopVars
<1>7. CASE PanicInRejoin(c)
  <2>1. \/ RecoverFromPanic(journal, subs, slot, out)
        \/ RecoverFromPanic(journal, subs \cup {c}, [slot EXCEPT ![p] = c], out)
    BY <1>4, <1>7 DEF PanicInRejoin
  <2>2. /\ \A q \in DOMAIN slot : slot[q] \in Conn \cup {NoConn}
        /\ \A q \in DOMAIN [slot EXCEPT ![p] = c] :
             [slot EXCEPT ![p] = c][q] \in Conn \cup {NoConn}
    BY DEF SlotTypes
  <2>3. out' = out /\ SlotTypes' /\ LoopTypes'
    BY <2>1, <2>2, RecoveredPipes
  <2>4. OutMoves
    BY <2>3, NothingMoves
  <2> QED BY <1>2, <1>3, <2>3, <2>4 DEF Moved
<1> QED BY <1>6, <1>7

(* Who is attached is open and has had its answer. *)
LEMMA Subscribed ==
  ASSUME RoomInv, running
  PROVE  /\ subs \in SUBSET Conn
         /\ \A d \in subs : d \in Conn /\ d \notin closed /\ ~Waiting(d)
  BY DEF RoomInv, SeatInv, SeatTypes, Attached, Waiting

LEMMA SubscribedStays ==
  ASSUME RoomInv, running, UNCHANGED connVars
  PROVE  /\ subs \in SUBSET Conn
         /\ \A d \in subs : d \notin closed /\ ~Waiting(d)'
<1>1. \A d \in Conn : Waiting(d)' = Waiting(d)
  BY ConnsUnchanged DEF RoomInv, PipeInv
<1> QED BY <1>1, Subscribed

LEMMA EmitsType ==
  ASSUME RoomInv, NEW cmd \in Cmd
  PROVE  Emits(game, cmd) \in Seq(Ev)
<1>1. game \in Games
  BY DEF RoomInv, EngineInv
<1>2. \E a \in Ev, b \in Ev : Emits(game, cmd) \in {<<a>>, <<a, b>>}
  <2>1. CASE cmd.kind \in {"create_game", "add_player", "start_game", "reset_game"}
    BY <1>1, <2>1, EmitsIs DEF Quiet
  <2>2. CASE cmd.kind \in {"begin_night", "night_action"}
    BY <1>1, <2>2, EmitsIs DEF Starts
  <2>3. CASE cmd.kind = "next_turn"
    BY <1>1, <2>3, EmitsIs DEF Starts
  <2>4. CASE cmd.kind \in {"dawn", "dawn_ends_game", "finalize_votes"}
    BY <1>1, <2>4, EmitsIs DEF Stops
  <2> QED BY <2>1, <2>2, <2>3, <2>4
          DEF Cmd, CommandKinds, PlayerCommands, HostOnly, AdvancePhase
<1>3. PICK a \in Ev, b \in Ev : Emits(game, cmd) \in {<<a>>, <<a, b>>}
  BY <1>2
<1>4. <<a>> \in Seq(Ev) /\ <<a, b>> \in Seq(Ev)
  OBVIOUS
<1> QED BY <1>3, <1>4

(* A handler's batch reaches the subscribers, or a panic cuts it short. *)
LEMMA PipeCommit ==
  ASSUME RoomInv, running, NEW base \in Nat, NEW batch \in Seq(Ev),
         BroadcastToSubs(subs, playerID, slot, out, emptySince, base, batch),
         UNCHANGED <<loopVars, connVars, pageVars>>
  PROVE  Moved
<1>1. /\ subs \in SUBSET Conn /\ out \in [Conn -> Queues] /\ LoopTypes
      /\ \A d \in subs : d \notin closed /\ ~Waiting(d)'
      /\ \A p \in DOMAIN slot : slot[p] \in Conn \cup {NoConn}
  BY SubscribedStays DEF RoomInv, PipeInv, SlotTypes
<1>2. OutMoves /\ SlotTypes'
  BY <1>1, BroadcastMoves
<1>3. ConnTypes' /\ NoneWaitsAgain /\ PageTypes'
  BY ConnsUnchanged, PagesUnchanged DEF RoomInv, PipeInv
<1>4. LoopTypes'
  BY <1>1 DEF LoopTypes, loopVars
<1> QED BY <1>2, <1>3, <1>4 DEF Moved

LEMMA PipePanic ==
  ASSUME RoomInv, running, NEW base \in Nat, NEW batch \in Seq(Ev), NEW entries,
         NEW queues \in CutShort(subs, playerID, out, base, batch),
         RecoverFromPanic(entries, subs, slot, queues),
         UNCHANGED <<connVars, pageVars>>
  PROVE  Moved
<1>1. /\ subs \in SUBSET Conn /\ out \in [Conn -> Queues] /\ LoopTypes
      /\ \A d \in subs : d \notin closed /\ ~Waiting(d)'
      /\ \A p \in DOMAIN slot : slot[p] \in Conn \cup {NoConn}
  BY SubscribedStays DEF RoomInv, PipeInv, SlotTypes
<1>2. PartlyBuffered(queues, subs, out)
  BY <1>1, CutShortBuffers
<1>3. OutMoves /\ SlotTypes' /\ LoopTypes'
  <2>1. queues \in [Conn -> Queues] /\ \A d \in Conn \ subs : queues[d] = out[d]
    BY <1>2 DEF PartlyBuffered
  <2> QED BY <1>1, <2>1, PanicMoves
<1>4. ConnTypes' /\ NoneWaitsAgain /\ PageTypes'
  BY ConnsUnchanged, PagesUnchanged DEF RoomInv, PipeInv
<1> QED BY <1>3, <1>4 DEF Moved

LEMMA PipeCommand ==
  ASSUME RoomInv, NEW c \in Conn, NEW kind \in PlayerCommands,
         HandleCommand(c, kind) \/ PanicInCommand(c, kind)
  PROVE  Moved
<1> DEFINE cmd == Command(kind, playerID[c])
<1>1. Emits(game, cmd) \in Seq(Ev) /\ Len(log) \in Nat
  BY PlayerCommandType, EmitsType, LogLength DEF RoomInv
<1>2. running /\ UNCHANGED <<connVars, pageVars>>
  BY DEF HandleCommand, PanicInCommand, PanicWhile, HasSender, Live
<1>3. CASE HandleCommand(c, kind)
  <2>1. /\ BroadcastToSubs(subs, playerID, slot, out, emptySince, Len(log), Emits(game, cmd))
        /\ UNCHANGED <<loopVars, connVars, pageVars>>
    BY <1>3 DEF HandleCommand, CommitHere, Commit
  <2> QED BY <1>1, <1>2, <2>1, PipeCommit
<1>4. CASE PanicInCommand(c, kind)
  <2>1. PICK queues \in CutShort(subs, playerID, out, Len(log), Emits(game, cmd)) :
          RecoverFromPanic(journal, subs, slot, queues)
    BY <1>4 DEF PanicInCommand, PanicWhile
  <2> QED BY <1>1, <1>2, <2>1, PipePanic
<1> QED BY <1>3, <1>4

LEMMA PipeTimer ==
  ASSUME RoomInv, NEW kind \in AdvancePhase, HandlePhaseTimer(kind) \/ PanicInTimer(kind)
  PROVE  Moved
<1> DEFINE cmd == Command(kind, NoOne)
<1>1. Emits(game, cmd) \in Seq(Ev) /\ Len(log) \in Nat
  BY AdvanceType, EmitsType, LogLength
<1>2. running /\ UNCHANGED <<connVars, pageVars>>
  BY DEF HandlePhaseTimer, PanicInTimer, PanicWhile
<1>3. CASE HandlePhaseTimer(kind)
  <2>1. CASE /\ BroadcastToSubs(subs, playerID, slot, out, emptySince, Len(log), Emits(game, cmd))
             /\ UNCHANGED <<loopVars, connVars, pageVars>>
    BY <1>1, <1>2, <2>1, PipeCommit
  <2>2. CASE UNCHANGED <<out, slot, loopVars, connVars, pageVars>>
    <3>1. ConnTypes' /\ NoneWaitsAgain /\ PageTypes' /\ OutMoves
      BY <2>2, ConnsUnchanged, PagesUnchanged, NothingMoves DEF RoomInv, PipeInv
    <3>2. SlotTypes' /\ LoopTypes'
      BY <2>2 DEF SlotTypes, LoopTypes, loopVars, RoomInv, PipeInv
    <3> QED BY <3>1, <3>2 DEF Moved
  <2> QED BY <1>3, <2>1, <2>2 DEF HandlePhaseTimer, CommitHere, Commit
<1>4. CASE PanicInTimer(kind)
  <2>1. PICK queues \in CutShort(subs, playerID, out, Len(log), Emits(game, cmd)) :
          RecoverFromPanic(journal, subs, slot, queues)
    BY <1>4 DEF PanicInTimer, PanicWhile
  <2> QED BY <1>1, <1>2, <2>1, PipePanic
<1> QED BY <1>3, <1>4

LEMMA PipeReset ==
  ASSUME RoomInv, NEW c \in Conn, HandleReset(c) \/ PanicInReset(c)
  PROVE  Moved
<1>1. ResetBatch \in Seq(Ev) /\ 0 \in Nat
  BY ResetBatchIs DEF RoomInv, EngineInv
<1>2. running /\ UNCHANGED <<connVars, pageVars>>
  BY DEF HandleReset, PanicInReset, MayReset, HasSender, Live
<1>3. CASE HandleReset(c)
  <2>1. /\ BroadcastToSubs(subs, playerID, slot, out, emptySince, 0, ResetBatch)
        /\ UNCHANGED <<loopVars, connVars, pageVars>>
    BY <1>3 DEF HandleReset
  <2> QED BY <1>1, <1>2, <2>1, PipeCommit
<1>4. CASE PanicInReset(c)
  <2> DEFINE entries == Append(journal, JournalEntry(ResetGame, ResetBatch, TRUE))
  <2>1. PICK queues \in CutShort(subs, playerID, out, 0, ResetBatch) :
          RecoverFromPanic(entries, subs, slot, queues)
    BY <1>4 DEF PanicInReset
  <2> QED BY <1>1, <1>2, <2>1, PipePanic
<1> QED BY <1>3, <1>4

LEMMA PipeRefuse ==
  ASSUME RoomInv, NEW c \in Conn, RefuseCommand(c)
  PROVE  Moved
<1> USE DEF RoomInv, PipeInv
<1>1. /\ c \notin closed /\ ~Waiting(c) /\ UNCHANGED <<slot, loopVars, connVars, pageVars>>
      /\ out' = [out EXCEPT ![c] = Send(@, Refusal)]
  BY DEF RefuseCommand, HasSender, MayCommand, Live, Waiting, seatVars
<1>2. Send(out[c], Refusal) \in Queues
  BY SendType, RefusalType
<1>3. out' \in [Conn -> Queues] /\ \A d \in Conn \ {c} : out'[d] = out[d]
  BY <1>1, <1>2
<1>4. ConnTypes' /\ NoneWaitsAgain /\ PageTypes' /\ ~Waiting(c)'
  <2>1. UNCHANGED connVars /\ UNCHANGED pageVars
    BY <1>1
  <2>2. ConnTypes' /\ NoneWaitsAgain /\ Waiting(c)' = Waiting(c)
    BY <2>1, ConnsUnchanged
  <2>3. PageTypes'
    BY <2>1, PagesUnchanged
  <2>4. ~Waiting(c)'
    BY <1>1, <2>2
  <2> QED BY <2>2, <2>3, <2>4
<1>5. OutMoves
  <2>1. {c} \in SUBSET Conn /\ \A d \in {c} : d \notin closed /\ ~Waiting(d)'
    BY <1>1, <1>4
  <2> QED BY <1>3, <2>1, MovesOf
<1>6. SlotTypes' /\ LoopTypes'
  BY <1>1 DEF SlotTypes, LoopTypes, loopVars
<1> QED BY <1>4, <1>5, <1>6 DEF Moved

LEMMA PipeLeave ==
  ASSUME RoomInv, NEW c \in Conn, HandleLeave(c)
  PROVE  Moved
<1> USE DEF RoomInv, PipeInv
<1>1. /\ stage[c] = "left" /\ request[c] = NoRequest
      /\ stage' = [stage EXCEPT ![c] = "gone"] /\ request' = request
      /\ out' = [out EXCEPT ![c] = <<>>]
      /\ slot' = slot \/ slot' = SlotAfterLeave(c)
      /\ UNCHANGED loopVars /\ UNCHANGED pageVars
  BY DEF HandleLeave
<1>2. ConnTypes' /\ NoneWaitsAgain
  BY <1>1 DEF ConnTypes, NoneWaitsAgain, Waiting
<1>3. <<>> \in Queues
  BY RoomAssumption DEF Queues
<1>4. OutMoves
  <2>1. out' \in [Conn -> Queues]
    BY <1>1, <1>3
  <2>2. \A d \in Conn : out'[d] = out[d] \/ out'[d] = <<>>
    BY <1>1
  <2> QED BY <2>1, <2>2 DEF OutMoves, BufferMoves
<1>5. SlotTypes' /\ LoopTypes'
  BY <1>1 DEF SlotTypes, SlotAfterLeave, LoopTypes, loopVars
<1>6. PageTypes'
  BY <1>1, PagesUnchanged
<1> QED BY <1>2, <1>4, <1>5, <1>6 DEF Moved

LEMMA PipeClosing ==
  ASSUME RoomInv, Closing
  PROVE  Moved
<1> USE DEF RoomInv, PipeInv
<1>1. /\ UNCHANGED <<out, slot, connVars, pageVars, recoveries>>
      /\ cancelled' \in {TRUE, cancelled} /\ running' \in {FALSE, running}
  BY DEF Closing, Cancel, RunExits, seatVars, subVars
<1>2. ConnTypes' /\ NoneWaitsAgain /\ PageTypes' /\ OutMoves
  BY <1>1, ConnsUnchanged, PagesUnchanged, NothingMoves
<1>3. SlotTypes' /\ LoopTypes'
  BY <1>1 DEF SlotTypes, LoopTypes
<1> QED BY <1>2, <1>3 DEF Moved

LEMMA PipeConnect ==
  ASSUME RoomInv, NEW g \in Page, NEW c \in Conn, OpenJoin(g, c) \/ Reconnect(g, c)
  PROVE  Moved
<1> USE DEF RoomInv, PipeInv
<1>1. /\ stage[c] = "unused" /\ stage' = [stage EXCEPT ![c] = "up"]
      /\ \E r \in Requests : request' = [request EXCEPT ![c] = r] /\ r # NoRequest
      /\ socket' = [socket EXCEPT ![g] = c] /\ me' = me
      /\ view' = view \/ view' = [view EXCEPT ![g] = <<>>]
      /\ cursor' = cursor \/ cursor' = [cursor EXCEPT ![g] = 0]
      /\ UNCHANGED <<out, slot, loopVars>>
  <2>1. CASE OpenJoin(g, c)
    <3>1. Join \in Requests /\ Join # NoRequest
      BY DEF Requests, Join, NoRequest
    <3> QED BY <2>1, <3>1 DEF OpenJoin, Connect, roomVars, subVars, seatVars
  <2>2. CASE Reconnect(g, c)
    <3>1. me[g] \in Player /\ cursor[g] \in Nat
      BY <2>2 DEF Reconnect, PageTypes
    <3>2. ASSUME NEW since \in Nat
          PROVE  Rejoin(me[g], since) \in Requests /\ Rejoin(me[g], since) # NoRequest
      BY <3>1 DEF Requests, Rejoin, NoRequest
    <3> QED BY <2>2, <3>1, <3>2 DEF Reconnect, Connect, roomVars, subVars, seatVars
  <2> QED BY <2>1, <2>2
<1>2. ConnTypes' /\ NoneWaitsAgain
  BY <1>1 DEF ConnTypes, NoneWaitsAgain, Waiting
<1>3. PageTypes'
  <2>1. <<>> \in Seq(Ev)
    OBVIOUS
  <2>2. view' \in [Page -> Seq(Ev)]
    BY <1>1, <2>1 DEF PageTypes
  <2>3. cursor' \in [Page -> Nat]
    BY <1>1 DEF PageTypes
  <2>4. me' \in [Page -> Player \cup {NoOne}] /\ socket' \in [Page -> Conn \cup {NoConn}]
    BY <1>1 DEF PageTypes
  <2> QED BY <2>2, <2>3, <2>4 DEF PageTypes
<1>4. OutMoves
  BY <1>1, NothingMoves
<1>5. SlotTypes' /\ LoopTypes'
  BY <1>1 DEF SlotTypes, LoopTypes, loopVars
<1> QED BY <1>2, <1>3, <1>4, <1>5 DEF Moved

LEMMA PipeDeliver ==
  ASSUME RoomInv, NEW g \in Page, Deliver(g)
  PROVE  Moved
<1> USE DEF RoomInv, PipeInv
<1>1. PICK c \in Conn :
        /\ c = socket[g] /\ out[c] # <<>>
        /\ out' = [out EXCEPT ![c] = Tail(@)]
        /\ view' = [view EXCEPT ![g] = Applied(Model(g), Head(out[c])).view]
        /\ cursor' = [cursor EXCEPT ![g] = Applied(Model(g), Head(out[c])).cursor]
        /\ me' = [me EXCEPT ![g] =
                    IF Head(out[c]).kind = "snapshot" THEN Head(out[c]).player ELSE @]
        /\ \A h \in Page : socket'[h] \in {socket[h], NoConn}
        /\ socket' = [h \in Page |-> socket'[h]]
        /\ UNCHANGED <<slot, loopVars, connVars>>
  BY DEF Deliver, PageTypes, seatVars
<1>2. PICK msg \in Msg : msg = Head(out[c])
  BY <1>1 DEF Queues
<1>3. Tail(out[c]) \in Queues
  <2>1. PICK queue \in Seq(Msg) : queue = out[c] /\ queue # <<>> /\ Len(queue) <= QueueCap
    BY <1>1 DEF Queues
  <2>2. Tail(queue) \in Seq(Msg) /\ Len(Tail(queue)) <= Len(queue)
    BY <2>1
  <2>3. Len(Tail(queue)) \in Nat /\ Len(queue) \in Nat /\ QueueCap \in Nat
    BY <2>2, RoomAssumption
  <2> QED BY <2>1, <2>2, <2>3 DEF Queues
<1>4. OutMoves
  BY <1>1, <1>3 DEF OutMoves, BufferMoves
<1>5. Applied(Model(g), msg).view \in Seq(Ev) /\ Applied(Model(g), msg).cursor \in Nat
  <2>1. Model(g) \in Models
    BY DEF Model, Models, PageTypes
  <2>2. Applied(Model(g), msg) \in Models
    BY <2>1, AppliedType
  <2> QED BY <2>2 DEF Models
<1>6. msg.kind = "snapshot" => msg.player \in Player
  BY DEF Msg, FrameMsg, SnapshotMsg, Refusal
<1>7. PageTypes'
  BY <1>1, <1>2, <1>5, <1>6 DEF PageTypes
<1>8. ConnTypes' /\ NoneWaitsAgain
  BY <1>1, ConnsUnchanged
<1>9. SlotTypes' /\ LoopTypes'
  BY <1>1 DEF SlotTypes, LoopTypes, loopVars
<1> QED BY <1>4, <1>7, <1>8, <1>9 DEF Moved

LEMMA PipePumpsExit ==
  ASSUME RoomInv, NEW c \in Conn, PumpsExit(c)
  PROVE  Moved
<1> USE DEF RoomInv, PipeInv
<1>1. /\ stage[c] = "up" /\ stage' = [stage EXCEPT ![c] = "left"]
      /\ socket' = [g \in Page |-> IF socket[g] = c THEN NoConn ELSE socket[g]]
      /\ UNCHANGED <<out, slot, loopVars, request, me, view, cursor>>
  BY DEF PumpsExit, roomVars, subVars, seatVars
<1>2. ConnTypes' /\ NoneWaitsAgain /\ PageTypes'
  BY <1>1 DEF ConnTypes, NoneWaitsAgain, Waiting, PageTypes
<1>3. OutMoves
  BY <1>1, NothingMoves
<1>4. SlotTypes' /\ LoopTypes'
  BY <1>1 DEF SlotTypes, LoopTypes, loopVars
<1> QED BY <1>2, <1>3, <1>4 DEF Moved

LEMMA PipeIdle ==
  ASSUME RoomInv, UNCHANGED vars
  PROVE  Moved
<1> USE DEF RoomInv, PipeInv, vars
<1>1. ConnTypes' /\ NoneWaitsAgain /\ PageTypes' /\ OutMoves
  BY ConnsUnchanged, PagesUnchanged, NothingMoves DEF subVars
<1>2. SlotTypes' /\ LoopTypes'
  BY DEF SlotTypes, LoopTypes, loopVars, seatVars
<1> QED BY <1>1, <1>2 DEF Moved

(* Every step moves the buffers as OutMoves says. *)
LEMMA EveryStepMoves == RoomInv /\ [Next]_vars => Moved
<1> SUFFICES ASSUME RoomInv, [Next]_vars PROVE Moved
  OBVIOUS
<1>1. ASSUME NEW c \in Conn, NEW kind \in PlayerCommands,
             HandleCommand(c, kind) \/ PanicInCommand(c, kind)
      PROVE  Moved
  BY <1>1, PipeCommand
<1>2. ASSUME NEW kind \in AdvancePhase, HandlePhaseTimer(kind) \/ PanicInTimer(kind)
      PROVE  Moved
  BY <1>2, PipeTimer
<1>3. ASSUME NEW g \in Page, NEW c \in Conn, OpenJoin(g, c) \/ Reconnect(g, c)
      PROVE  Moved
  BY <1>3, PipeConnect
<1> QED BY <1>1, <1>2, <1>3, PipeJoin, PipeRejoin, PipeLeave, PipeReset, PipeRefuse,
           PipeClosing, PipeDeliver, PipePumpsExit, PipeIdle
        DEF Next, RoomStep, Panic, Transport

LEMMA PipeInit == Init => PipeInv
<1> SUFFICES ASSUME Init PROVE PipeInv
  OBVIOUS
<1>1. <<>> \in Queues /\ <<>> \in Seq(Ev)
  BY RoomAssumption DEF Queues
<1>2. out \in [Conn -> Queues] /\ \A c \in Conn : out[c] = <<>>
  BY <1>1 DEF Init
<1>3. SlotTypes /\ LoopTypes
  BY DEF Init, SlotTypes, LoopTypes
<1>4. NoRequest \in Requests
  BY DEF Requests
<1>5. ConnTypes
  BY <1>4 DEF Init, ConnTypes
<1>6. PageTypes
  BY <1>1 DEF Init, PageTypes
<1> QED BY <1>2, <1>3, <1>5, <1>6 DEF PipeInv

LEMMA PipeStep == RoomInv /\ [Next]_vars => PipeInv'
<1> SUFFICES ASSUME RoomInv, [Next]_vars PROVE PipeInv'
  OBVIOUS
<1>1. /\ out' \in [Conn -> Queues] /\ \A c \in Conn : BufferMoves(c)
      /\ \A c \in Conn : Waiting(c)' => Waiting(c)
      /\ SlotTypes' /\ LoopTypes' /\ ConnTypes' /\ PageTypes'
  BY EveryStepMoves DEF Moved, OutMoves, NoneWaitsAgain
<1>2. ASSUME NEW c \in Conn, Waiting(c)' PROVE out'[c] = <<>>
  <2>1. out[c] = <<>>
    BY <1>1, <1>2 DEF RoomInv, PipeInv
  <2> QED BY <1>1, <1>2, <2>1 DEF BufferMoves, Sends
<1> QED BY <1>1, <1>2 DEF PipeInv

LEMMA RoomInvariant == Spec => []RoomInv
<1>1. Init => RoomInv
  BY SeatInit, IdsInit, EngineInit, PipeInit DEF RoomInv
<1>2. RoomInv /\ [Next]_vars => RoomInv'
  BY SeatStep, IdsStep, EngineStep, PipeStep DEF RoomInv
<1> QED BY <1>1, <1>2, PTL DEF Spec

(* A panic, whatever it interrupts, leaves the room as its journal tells   *)
(* it: replaying the journal gives the engine and the log the room goes    *)
(* on with (recoverFromPanic, replayJournal).                              *)
THEOREM TheJournalRebuildsTheRoom == Spec => []JournalRebuildsRoom
<1>1. RoomInv => JournalRebuildsRoom
  BY DEF RoomInv, EngineInv, Rebuilds, JournalRebuildsRoom
<1> QED BY <1>1, RoomInvariant, PTL

(* A night always has its timer, and nothing else has one (scheduleTimers, *)
(* rearmTimerAfterRebuild, handleReset).                                   *)
THEOREM ANightIsTimed == Spec => []NightIsTimed
<1>1. RoomInv => NightIsTimed
  BY DEF RoomInv, EngineInv, TimerOf, NightIsTimed
<1> QED BY <1>1, RoomInvariant, PTL

(* Every variable keeps its type, and no buffer holds more than its        *)
(* channel does (newSubscriber, sendOne).                                  *)
THEOREM TypesAreKept == Spec => []TypeOK
<1>1. ASSUME RoomInv PROVE TypeOK
  <2> USE <1>1 DEF RoomInv
  <2>1. game.roster \subseteq Player /\ timer \in Nat
    BY DEF EngineInv, Games
  <2>2. host \in Player \cup {NoOne} /\ nextSeq \in 0 .. MaxIds
        /\ playerID \in [Conn -> Player \cup {NoOne}]
    BY DEF IdsInv
  <2>3. DOMAIN slot \subseteq Player /\ subs \subseteq Conn /\ closed \subseteq Conn
        /\ emptySince \in BOOLEAN
    BY SlotsOfPlayers DEF SeatInv, SeatTypes
  <2>4. \A p \in DOMAIN slot : slot[p] \in Conn \cup {NoConn}
    BY DEF PipeInv, SlotTypes
  <2>5. \A c \in Conn : Len(out[c]) <= QueueCap
    BY DEF PipeInv, Queues
  <2>6. recoveries \in Nat /\ {cancelled, running} \subseteq BOOLEAN
    BY DEF PipeInv, LoopTypes
  <2>7. \A c \in Conn : request[c].kind \in {"none", "join", "rejoin"}
    BY DEF PipeInv, ConnTypes, Requests, NoRequest, Join
  <2>8. /\ stage \in [Conn -> {"unused", "up", "left", "gone"}]
        /\ me \in [Page -> Player \cup {NoOne}]
        /\ socket \in [Page -> Conn \cup {NoConn}] /\ cursor \in [Page -> Nat]
    BY DEF PipeInv, ConnTypes, PageTypes
  <2> QED BY <2>1, <2>2, <2>3, <2>4, <2>5, <2>6, <2>7, <2>8 DEF TypeOK
<1> QED BY <1>1, RoomInvariant, PTL

(* The room never sends on a channel it has closed (sendOne, handleLeave,  *)
(* disconnectSlow).                                                        *)
THEOREM AClosedChannelGetsNothing == Spec => NoSendAfterClose
<1>1. ASSUME RoomInv, [Next]_vars PROVE \A c \in closed : Len(out'[c]) <= Len(out[c])
  <2>1. ASSUME NEW c \in closed PROVE Len(out'[c]) <= Len(out[c])
    <3>1. c \in Conn /\ out[c] \in Seq(Msg)
      BY <1>1 DEF RoomInv, SeatInv, SeatTypes, PipeInv, Queues
    <3>2. \/ out'[c] = out[c]
          \/ out'[c] = <<>>
          \/ out[c] # <<>> /\ out'[c] = Tail(out[c])
      <4>1. BufferMoves(c)
        BY <1>1, <3>1, EveryStepMoves DEF Moved, OutMoves
      <4> QED BY <2>1, <4>1 DEF BufferMoves, Sends
    <3>3. ASSUME NEW queue \in Seq(Msg)
          PROVE  Len(<<>>) <= Len(queue) /\ (queue # <<>> => Len(Tail(queue)) <= Len(queue))
                 /\ Len(queue) <= Len(queue)
      OBVIOUS
    <3> QED BY <3>1, <3>2, <3>3
  <2> QED BY <2>1
<1>2. [\A c \in closed : Len(out'[c]) <= Len(out[c])]_vars
      <=> (\A c \in closed : Len(out'[c]) <= Len(out[c])) \/ UNCHANGED vars
  OBVIOUS
<1> QED BY <1>1, <1>2, RoomInvariant, PTL DEF NoSendAfterClose, Spec

===============================================================================
