------------------------------- MODULE Connection ------------------------------
(***************************************************************************)
(* Connections and the room they talk to, as goroutines: for each one the  *)
(* handler of GET /ws/{code} (Connect), its read pump, its write pump and  *)
(* its join reaper (internal/transport/ws), and the room's run loop with   *)
(* its inbox (internal/room).  Room says what the handlers do to a game;   *)
(* this module says that the goroutines end and that seats are given back. *)
(*                                                                         *)
(* A submit is two steps, as it is in the code: a look at the room's       *)
(* context, then a select that blocks while the inbox is full.  In between *)
(* the room may be cancelled, stop, or fill up.                            *)
(***************************************************************************)
EXTENDS Integers, FiniteSets, Sequences

CONSTANTS
  Conn,          \* connections, each used once
  NoConn,        \* nil *Subscriber
  InboxCap,      \* inboxCapacity
  Newcomers,     \* bound: the connections that may come without credentials
  Returning,     \* bound: those that may come with some
  MaxSeats,      \* bound: player ids the room mints
  JoinsAgain     \* may a client send a second join on one connection

ASSUME ConnectionAssumption ==
  /\ NoConn \notin Conn
  /\ Newcomers \cup Returning = Conn
  /\ {InboxCap, MaxSeats} \subseteq Nat \ {0}
  /\ JoinsAgain \in BOOLEAN

VARIABLES
  (* the handlers and their pumps *)
  at,          \* Connect: "new", "rejoining", "pumping", "leaving" or "done"
  reading,     \* the connections whose read pump runs
  writing,     \* the connections whose write pump runs
  live,        \* the connections whose context is not cancelled
  sending,     \* what a connection is blocked submitting, or Nothing
  fresh,       \* the connections without credentials, which have a join reaper
  (* their clients *)
  present,     \* the clients that still hold their end of the socket
  (* the Subscribers *)
  playerID,    \* 0 until the room has joined them
  closed,      \* those whose outbound channel is closed
  unread,      \* those with messages waiting in it
  (* the Room *)
  inbox, subs, slot,
  connected,   \* the players.connected gauge
  cancelled,   \* is its context cancelled
  running      \* is Run still looping

pumpVars   == <<at, reading, writing, live, sending, fresh>>
subVars    == <<playerID, closed, unread, subs, slot, connected>>
roomVars   == <<inbox, cancelled, running>>
vars == <<present, pumpVars, subVars, roomVars>>

Nothing == [kind |-> "nothing"]
Join == [kind |-> "join"]
(* Seat 0 stands for credentials that match no seat. *)
Rejoin(p) == [kind |-> "rejoin", seat |-> p]
Command == [kind |-> "command"]
Leave == [kind |-> "leave"]

-------------------------------------------------------------------------------
(* Connect, and Room.submit in its two halves. *)

(* The look at the room's context: pass, and block in the select.          *)
Submit(c, msg) ==
  /\ ~cancelled
  /\ sending' = [sending EXCEPT ![c] = msg]

(* A fresh connection: the pumps start and the reaper is fresh.            *)
ConnectFresh(c) ==
  /\ c \in Newcomers
  /\ at[c] = "new"
  /\ at' = [at EXCEPT ![c] = "pumping"]
  /\ reading' = reading \cup {c}
  /\ writing' = writing \cup {c}
  /\ fresh' = fresh \cup {c}
  /\ UNCHANGED <<live, sending, present, subVars, roomVars>>

(* One with credentials submits its rejoin before it starts any pump.      *)
ConnectRejoin(c, p) ==
  /\ c \in Returning
  /\ at[c] = "new"
  /\ at' = [at EXCEPT ![c] = "rejoining"]
  /\ Submit(c, Rejoin(p))
  /\ UNCHANGED <<reading, writing, live, fresh, present, subVars, roomVars>>

(* If the room has closed that is the end of it. *)
TurnAway(c) ==
  /\ c \in Returning
  /\ at[c] = "new"
  /\ cancelled
  /\ at' = [at EXCEPT ![c] = "done"]
  /\ live' = live \ {c}
  /\ UNCHANGED <<reading, writing, sending, fresh, present, subVars, roomVars>>

(* Mutant: an unbounded inbox. *)
EnqueueUnbounded(c) ==
  /\ at[c] = "pumping"
  /\ sending[c] # Nothing
  /\ inbox' = Append(inbox, [msg |-> sending[c], from |-> c])
  /\ sending' = [sending EXCEPT ![c] = Nothing]
  /\ UNCHANGED <<at, reading, writing, live, fresh, present, subVars, cancelled, running>>

(* The message is in the inbox, and submit returns.  The select may do     *)
(* this even if the room has stopped meanwhile.                            *)
Enqueue(c) ==
  /\ sending[c] # Nothing
  /\ Len(inbox) < InboxCap
  /\ inbox' = Append(inbox, [msg |-> sending[c], from |-> c])
  /\ sending' = [sending EXCEPT ![c] = Nothing]
  /\ at' = [at EXCEPT ![c] = CASE @ = "rejoining" -> "pumping"
                               [] @ = "leaving"   -> "done"
                               [] OTHER           -> @]
  /\ IF at[c] = "rejoining"
     THEN reading' = reading \cup {c} /\ writing' = writing \cup {c}
     ELSE UNCHANGED <<reading, writing>>
  /\ UNCHANGED <<live, fresh, present, subVars, cancelled, running>>

(* Mutant: the leave uses the connection's own context. *)
SubmitFailsForLeave(c) ==
  /\ sending[c] # Nothing
  /\ cancelled \/ c \notin live
  /\ sending' = [sending EXCEPT ![c] = Nothing]
  /\ at' = [at EXCEPT ![c] = IF @ = "pumping" THEN @ ELSE "done"]
  /\ reading' = reading \ {c}
  /\ live' = live \ {c}
  /\ UNCHANGED <<writing, fresh, present, subVars, roomVars>>

(* Or the select sees the room closed, or the connection's own context,    *)
(* which the leave does not use.  The read pump and the connection end.    *)
SubmitFails(c) ==
  /\ sending[c] # Nothing
  /\ cancelled \/ (c \notin live /\ at[c] # "leaving")
  /\ sending' = [sending EXCEPT ![c] = Nothing]
  /\ at' = [at EXCEPT ![c] = IF @ = "pumping" THEN @ ELSE "done"]
  /\ reading' = reading \ {c}
  /\ live' = live \ {c}
  /\ UNCHANGED <<writing, fresh, present, subVars, roomVars>>

(* Mutant: the handler returns without telling the room. *)
ReturnsAtOnce(c) ==
  /\ at[c] = "pumping"
  /\ c \notin reading \cup writing
  /\ at' = [at EXCEPT ![c] = "done"]
  /\ UNCHANGED <<reading, writing, live, sending, fresh, present, subVars, roomVars>>

(* Both pumps have ended: tell the room, unless it has closed.             *)
PumpsEnded(c) ==
  /\ at[c] = "pumping"
  /\ c \notin reading \cup writing
  /\ \/ /\ Submit(c, Leave)
        /\ at' = [at EXCEPT ![c] = "leaving"]
     \/ /\ cancelled
        /\ at' = [at EXCEPT ![c] = "done"]
        /\ UNCHANGED sending
  /\ UNCHANGED <<reading, writing, live, fresh, present, subVars, roomVars>>

-------------------------------------------------------------------------------
(* The pumps (pumps.go). *)

MayRead(c) == c \in reading /\ sending[c] = Nothing

(* A frame to read; a cancelled context closes the socket. *)
HasFrame(c) == MayRead(c) /\ c \in present \cap live

ReadPumpExits(c) == reading' = reading \ {c} /\ live' = live \ {c}

(* A frame to submit; a closed room ends the pump. *)
Dispatch(c, msg) ==
  \/ /\ Submit(c, msg)
     /\ UNCHANGED <<reading, live>>
  \/ /\ cancelled
     /\ ReadPumpExits(c)
     /\ UNCHANGED sending

(* The client sends its join once: not while one is under way or granted. *)
JoinedOrJoining(c) ==
  \/ playerID[c] # 0
  \/ \E i \in DOMAIN inbox : inbox[i] = [msg |-> Join, from |-> c]

ReadJoin(c) ==
  /\ HasFrame(c)
  /\ c \in fresh
  /\ JoinsAgain \/ ~JoinedOrJoining(c)
  /\ Dispatch(c, Join)
  /\ UNCHANGED <<at, writing, fresh, present, subVars, roomVars>>

ReadCommand(c) ==
  /\ HasFrame(c)
  /\ Dispatch(c, Command)
  /\ UNCHANGED <<at, writing, fresh, present, subVars, roomVars>>

(* TrySend and sendOne; what does not fit is dropped. *)
SendOne(c) == unread' = unread \cup ({c} \cap writing)

(* A frame that does not parse: the pump itself answers, if the channel    *)
(* is open and has room.                                                   *)
ReadBadFrame(c) ==
  /\ HasFrame(c)
  /\ c \notin closed
  /\ SendOne(c)
  /\ UNCHANGED <<present, pumpVars, playerID, closed, subs, slot, connected, roomVars>>

(* A read fails when the client is gone or the context is cancelled.       *)
ReadFails(c) ==
  /\ MayRead(c)
  /\ c \notin present \/ c \notin live
  /\ ReadPumpExits(c)
  /\ UNCHANGED <<at, writing, sending, fresh, present, subVars, roomVars>>

(* The client gets what waits for it. *)
Write(c) ==
  /\ c \in writing
  /\ c \in unread
  /\ unread' = unread \ {c}
  /\ UNCHANGED <<present, pumpVars, playerID, closed, subs, slot, connected, roomVars>>

(* What is left in the channel is never read. *)
WritePumpExits(c) ==
  /\ writing' = writing \ {c}
  /\ live' = live \ {c}
  /\ unread' = unread \ {c}
  /\ UNCHANGED <<at, reading, sending, fresh, present, playerID, closed, subs, slot,
                 connected, roomVars>>

(* Mutant: the write pump parks on a channel that was closed. *)
WriteEndsOnError(c) ==
  /\ c \in writing
  /\ c \notin live \/ c \notin present
  /\ WritePumpExits(c)

(* The write pump ends on a cancelled context, when the peer fails a write *)
(* or a ping, and when it has read a closed channel empty.                 *)
WriteEnds(c) ==
  /\ c \in writing
  /\ \/ c \notin live
     \/ c \notin present
     \/ c \in closed \ unread
  /\ WritePumpExits(c)

(* Mutant: the deadline is forgotten once a join is on its way. *)
ReaperSparesJoining(c) ==
  /\ c \in fresh \cap live
  /\ ~JoinedOrJoining(c)
  /\ live' = live \ {c}
  /\ UNCHANGED <<at, reading, writing, sending, fresh, present, subVars, roomVars>>

(* The join deadline.  It does nothing to a connection that has joined, or *)
(* is closing already.                                                     *)
ReaperFires(c) ==
  /\ c \in fresh \cap live
  /\ playerID[c] = 0
  /\ live' = live \ {c}
  /\ UNCHANGED <<at, reading, writing, sending, fresh, present, subVars, roomVars>>

(* A client leaves, or its network does. *)
ClientGoes(c) ==
  /\ at[c] # "new"
  /\ c \in present
  /\ present' = present \ {c}
  /\ UNCHANGED <<pumpVars, subVars, roomVars>>

-------------------------------------------------------------------------------
(* The run loop (room.go, broadcast.go). *)

(* Mutant: the gauge falls for every channel closed. *)
GaugeForEach(attached, gauge, leaving) == gauge - Cardinality(leaving \ closed)

(* Only what was attached lowers the players.connected gauge. *)
GaugeAfter(attached, gauge, leaving) == gauge - Cardinality(leaving \cap attached)

(* detachSubscriber for a set of them, some of which may never have been   *)
(* attached; attached and gauge are what the handler has made of the room  *)
(* so far.                                                                 *)
Detach(attached, gauge, leaving) ==
  /\ subs' = attached \ leaving
  /\ closed' = closed \cup leaving
  /\ connected' = GaugeAfter(attached, gauge, leaving)

(* Each leaves the seat it acts for, if it is still its own. *)
Vacate(seats, ids, leaving) ==
  [p \in DOMAIN seats |-> IF \E c \in leaving : ids[c] = p /\ seats[p] = c
                          THEN NoConn ELSE seats[p]]

(* One event for everyone attached.  A buffer that holds something may be  *)
(* full, and its connection is then dropped; nothing is read from one      *)
(* whose write pump has ended.                                             *)
Broadcast(attached, gauge, seats, ids) == \E slow \in SUBSET (attached \cap unread) :
  /\ unread' = unread \cup (attached \cap writing)
  /\ slot' = Vacate(seats, ids, slow)
  /\ Detach(attached, gauge, slow)

Untouched == UNCHANGED <<present, pumpVars, cancelled, running>>

(* The next message, of a connection that is not torn down. *)
Takes(c, msg) ==
  /\ running
  /\ inbox # <<>>
  /\ Head(inbox) = [msg |-> msg, from |-> c]
  /\ c \notin closed
  /\ inbox' = Tail(inbox)

(* A stray message of one that is: dropped. *)
DropStray ==
  /\ running
  /\ inbox # <<>>
  /\ Head(inbox).from \in closed
  /\ inbox' = Tail(inbox)
  /\ UNCHANGED <<subVars>>
  /\ Untouched

(* handleJoin mints a seat, answers with OutJoined and tells everyone.  It *)
(* does not ask whether the connection has joined before.                  *)
HandleJoin(c) ==
  /\ Takes(c, Join)
  /\ Len(slot) < MaxSeats
  /\ playerID' = [playerID EXCEPT ![c] = Len(slot) + 1]
  /\ Broadcast(subs \cup {c}, connected + 1, Append(slot, c), playerID')
  /\ Untouched

(* rejectUnjoined: the game has begun or is full, or the credentials match *)
(* no seat.                                                                *)
Reject(c) ==
  /\ \/ Takes(c, Join)
     \/ \E p \in 0 .. MaxSeats : Takes(c, Rejoin(p)) /\ p \notin DOMAIN slot
  /\ SendOne(c)
  /\ Detach(subs, connected, {c})
  /\ UNCHANGED <<playerID, slot>>
  /\ Untouched

(* Mutant: the connection a rejoin replaces is not detached. *)
EvictsNobody(p) == {}

(* The connection that still holds the seat. *)
Evicted(p) == {slot[p]} \ {NoConn}

HandleRejoin(c) == \E p \in DOMAIN slot :
  /\ Takes(c, Rejoin(p))
  /\ playerID' = [playerID EXCEPT ![c] = p]
  /\ slot' = [slot EXCEPT ![p] = c]
  /\ SendOne(c)
  /\ Detach(subs \cup {c}, connected + 1, Evicted(p))
  /\ Untouched

HandleLeave(c) ==
  /\ Takes(c, Leave)
  /\ slot' = Vacate(slot, playerID, {c})
  /\ Detach(subs, connected, {c})
  /\ UNCHANGED <<playerID, unread>>
  /\ Untouched

(* handleCommand: refused to its sender, or broadcast to all.  A stranger  *)
(* is always refused.                                                      *)
HandleCommand(c) ==
  /\ Takes(c, Command)
  /\ \/ /\ SendOne(c)
        /\ UNCHANGED <<slot, subs, closed, connected>>
     \/ /\ playerID[c] # 0
        /\ Broadcast(subs, connected, slot, playerID)
  /\ UNCHANGED playerID
  /\ Untouched

(* recoverFromPanic, resyncSubscribers: a handler but the leave's panics,  *)
(* perhaps with its sender attached already; everyone attached is cut off. *)
CutEveryoneOff(seats, attached, gauge) ==
  /\ slot' = [p \in DOMAIN seats |-> NoConn]
  /\ Detach(attached, gauge, attached)
  /\ UNCHANGED unread
  /\ Untouched

Recover(c) ==
  \/ /\ \E msg \in {Join, Command} \cup {Rejoin(p) : p \in 0 .. MaxSeats} : Takes(c, msg)
     /\ UNCHANGED playerID
     /\ CutEveryoneOff(slot, subs, connected)
  \/ /\ Takes(c, Join)
     /\ Len(slot) < MaxSeats
     /\ playerID' = [playerID EXCEPT ![c] = Len(slot) + 1]
     /\ CutEveryoneOff(Append(slot, c), subs \cup {c}, connected + 1)
  \/ \E p \in DOMAIN slot :
       /\ Takes(c, Rejoin(p))
       /\ playerID' = [playerID EXCEPT ![c] = p]
       /\ CutEveryoneOff(slot, subs \cup {c}, connected + 1)

(* The room is to close: a reap, a shutdown, one panic too many. *)
Cancel ==
  /\ ~cancelled
  /\ cancelled' = TRUE
  /\ UNCHANGED <<present, pumpVars, subVars, inbox, running>>

(* Run returns: who is attached is disconnected, and what waits in the     *)
(* inbox is never read.                                                    *)
RunExits ==
  /\ running
  /\ cancelled
  /\ running' = FALSE
  /\ Detach(subs, connected, subs)
  /\ inbox' = <<>>
  /\ UNCHANGED <<present, pumpVars, playerID, unread, slot, cancelled>>

-------------------------------------------------------------------------------
Init ==
  /\ at = [c \in Conn |-> "new"]
  /\ reading = {} /\ writing = {}
  /\ live = Conn
  /\ sending = [c \in Conn |-> Nothing]
  /\ fresh = {}
  /\ present = Conn
  /\ playerID = [c \in Conn |-> 0]
  /\ closed = {} /\ subs = {}
  /\ unread = {}
  /\ inbox = <<>>
  /\ slot = <<>>
  /\ connected = 0
  /\ cancelled = FALSE
  /\ running = TRUE

Client(c) ==
  \/ ConnectFresh(c) \/ TurnAway(c)
  \/ \E p \in 0 .. MaxSeats : ConnectRejoin(c, p)
  \/ ReadJoin(c) \/ ReadCommand(c) \/ ReadBadFrame(c)
  \/ ClientGoes(c)

Pumps(c) ==
  \/ Enqueue(c) \/ SubmitFails(c) \/ PumpsEnded(c)
  \/ ReadFails(c) \/ Write(c) \/ WriteEnds(c) \/ ReaperFires(c)

(* One message, taken and handled. *)
Handle ==
  \/ DropStray
  \/ \E c \in Conn :
       \/ HandleJoin(c) \/ Reject(c) \/ HandleRejoin(c)
       \/ HandleLeave(c) \/ HandleCommand(c) \/ Recover(c)

Next ==
  \/ \E c \in Conn : Client(c) \/ Pumps(c)
  \/ Handle
  \/ Cancel
  \/ RunExits

Spec == Init /\ [][Next]_vars

(* The Go scheduler runs every goroutine that can run; a channel serves    *)
(* its blocked senders in turn, so a submit does not wait for ever on a    *)
(* room that keeps taking messages; timers fire; pings are sent.  Nothing  *)
(* is assumed of the clients, nor that a room ever closes.                 *)
Fairness ==
  /\ WF_vars(Handle)
  /\ WF_vars(RunExits)
  /\ \A c \in Conn :
       /\ SF_vars(Enqueue(c))
       /\ WF_vars(SubmitFails(c))
       /\ WF_vars(PumpsEnded(c))
       /\ WF_vars(ReadFails(c))
       /\ WF_vars(Write(c))
       /\ WF_vars(WriteEnds(c))
       /\ WF_vars(ReaperFires(c))

FairSpec == Spec /\ Fairness
===============================================================================
