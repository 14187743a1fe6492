---------------------------------- MODULE Room ---------------------------------
(***************************************************************************)
(* One room and the browser tabs connected to it: internal/room, the       *)
(* connection handler of internal/transport/ws, and the part of the web    *)
(* client that keeps the resume cursor.                                    *)
(*                                                                         *)
(* The room is one goroutine that handles a message at a time, so each     *)
(* handler is one action.  Its inbox keeps the order of one connection's   *)
(* messages and mixes connections arbitrarily; here every connection has   *)
(* its own pending request, and the room takes them in any order.  A       *)
(* command is chosen when it is handled: what it may do is decided by the  *)
(* room's state then, not by the state it was sent in.                     *)
(*                                                                         *)
(* A panic may strike a handler.  Each handler but the leave, which only   *)
(* clears what it finds, has a second action, the same handler cut short,  *)
(* which ends in recoverFromPanic.                                         *)
(***************************************************************************)
EXTENDS RoomEngine

CONSTANTS
  Page,            \* browser tabs, each with a game client
  Conn,            \* connections, each a Subscriber and its two pumps, used once
  NoConn,          \* nil *Subscriber
  QueueCap,        \* outboundChanCapacity
  MaxRecoveries,   \* maxRecoveriesPerWindow
  MaxIds,          \* bound: ids the room mints
  MaxCommands      \* bound: commands, panics and a close a run may spend

ASSUME RoomAssumption ==
  /\ NoConn \notin Conn
  /\ {QueueCap, MaxRecoveries, MaxIds, MaxCommands} \subseteq Nat \ {0}

VARIABLES
  (* the Room struct *)
  game, host, slot, subs, log, nextSeq, timer, journal, recoveries, emptySince,
  cancelled,       \* has ctx been cancelled
  running,         \* is Run still looping
  (* the Subscribers *)
  playerID, out, closed,
  (* the connections' pumps *)
  stage,           \* "unused", "up", "left" (pumps done, leave submitted), "gone"
  request,         \* the join or rejoin the room has not handled yet
  (* the browser tabs *)
  me,              \* the player id in the tab's stored credentials
  socket,          \* the connection the tab listens to
  view,            \* the events the tab has applied
  cursor,          \* lastSeq, the tab's resume cursor
  budget           \* bound: what is left of MaxCommands

engineVars == <<game, log, journal, timer, budget>>
seatVars   == <<host, slot, nextSeq>>
subVars    == <<subs, playerID, out, closed, emptySince>>
loopVars   == <<recoveries, cancelled, running>>
connVars   == <<stage, request>>
pageVars   == <<me, socket, view, cursor>>
vars == <<engineVars, seatVars, subVars, loopVars, connVars, pageVars>>

-------------------------------------------------------------------------------
(* What goes over the wire. *)

Frame(seq, e) == [kind |-> "event", seq |-> seq, event |-> e]
(* OutJoined and OutRejoined: a log, or its tail after "from".  *)
Snapshot(p, from, last, events) ==
  [kind |-> "snapshot", player |-> p, from |-> from, last |-> last, events |-> events]
Refusal == [kind |-> "error"]

NoRequest == [kind |-> "none"]
Join == [kind |-> "join"]
Rejoin(p, since) == [kind |-> "rejoin", player |-> p, since |-> since]

(* sendOne, whose only failure is a full buffer. *)
Send(queue, msg) == IF Len(queue) < QueueCap THEN Append(queue, msg) ELSE queue

(* Mutant: frames numbered by their place among the visible events. *)
FramesSkippingHidden(p, base, batch) ==
  LET seen == Project(p, batch) IN [k \in 1 .. Len(seen) |-> Frame(base + k, seen[k])]

(* The frames of a batch that follows "base" events, as one viewer sees it.*)
Frames(p, base, batch) ==
  LET sent[n \in 0 .. Len(batch)] ==
        IF n = 0 THEN <<>>
        ELSE IF Visible(p, batch[n]) THEN Append(sent[n - 1], Frame(base + n, batch[n]))
        ELSE sent[n - 1]
  IN  sent[Len(batch)]

(* Mutant: an unbounded buffer. *)
PushAll(queue, frames) == queue \o frames

(* What fits of them. *)
Push(queue, frames) ==
  LET room == QueueCap - Len(queue)
  IN  queue \o SubSeq(frames, 1, IF Len(frames) < room THEN Len(frames) ELSE room)

TooSlow(queue, frames) == Len(queue) + Len(frames) > QueueCap

-------------------------------------------------------------------------------
(* Fan-out and timer (broadcast.go, timers.go). *)

(* A subscriber map, slots and queues are parameters because some handlers *)
(* attach or detach before they broadcast.                                 *)

(* detach starts the empty-room clock with the last subscriber; attach     *)
(* stops it.                                                               *)
ClockAfterDetach(emptied, attached) == emptied \/ attached = {}

(* broadcastToSubs: every attached viewer gets the batch; one whose buffer *)
(* fills is disconnected and keeps what it got.                            *)
BroadcastToSubs(attached, ids, seats, queues, emptied, base, batch) ==
  LET frames == [c \in Conn |-> IF c \in attached THEN Frames(ids[c], base, batch) ELSE <<>>]
      slow   == {c \in attached : TooSlow(queues[c], frames[c])}
  IN  /\ out' = [c \in Conn |-> Push(queues[c], frames[c])]
      /\ subs' = attached \ slow
      /\ slot' = [p \in DOMAIN seats |-> IF seats[p] \in slow THEN NoConn ELSE seats[p]]
      /\ emptySince' = (IF slow = {} THEN emptied ELSE ClockAfterDetach(emptied, subs'))
      /\ closed' = closed \cup slow

NoTimer == 0

(* Mutant: a running timer is not replaced. *)
TimerNotReplaced(armed, batch) ==
  LET started == {i \in DOMAIN batch : NightSubPhaseStarted(batch[i])}
  IN  IF armed = NoTimer /\ started # {} THEN batch[Max(started)].of ELSE armed

(* scheduleTimers: the timer is named after the sub-phase it was armed for.*)
ScheduleTimers(armed, batch) ==
  LET started == {i \in DOMAIN batch : NightSubPhaseStarted(batch[i])} IN
  IF started # {} THEN batch[Max(started)].of
  ELSE IF \E i \in DOMAIN batch : PhaseChanged(batch[i]) THEN NoTimer
  ELSE armed

JournalEntry(cmd, logged, rebaseline) ==
  [cmd |-> cmd, logged |-> logged, rebaseline |-> rebaseline]

Spend == budget > 0 /\ budget' = budget - 1

Record(cmd, logged, rebaseline) ==
  /\ Spend
  /\ journal' = Append(journal, JournalEntry(cmd, logged, rebaseline))

(* Apply, appendAndBroadcast, record: how every accepted command but a     *)
(* reset is committed.                                                     *)
Commit(cmd, batch, armed, attached, ids, seats, queues, emptied) ==
  /\ game' = Apply(game, cmd)
  /\ log' = log \o batch
  /\ BroadcastToSubs(attached, ids, seats, queues, emptied, Len(log), batch)
  /\ timer' = ScheduleTimers(armed, batch)
  /\ Record(cmd, batch, FALSE)

CommitHere(cmd, armed) ==
  Commit(cmd, Emits(game, cmd), armed, subs, playerID, slot, out, emptySince)

-------------------------------------------------------------------------------
(* Recovery (recovery.go). *)

EmptyRoom == [game |-> Game0, log |-> <<>>]

(* One entry of a replay: the command rebuilds the engine, the logged      *)
(* events the log.                                                         *)
Replayed(room, entry, newLog) == [game |-> Apply(room.game, entry.cmd), log |-> newLog]

(* Mutant: a replay that appends a reset's snapshot to the old log. *)
ReplayAppending(entries) ==
  LET upTo[n \in 0 .. Len(entries)] ==
        IF n = 0 THEN EmptyRoom
        ELSE Replayed(upTo[n - 1], entries[n], upTo[n - 1].log \o entries[n].logged)
  IN  upTo[Len(entries)]

(* replayJournal *)
Replay(entries) ==
  LET upTo[n \in 0 .. Len(entries)] ==
        IF n = 0 THEN EmptyRoom
        ELSE Replayed(upTo[n - 1], entries[n],
                      IF entries[n].rebaseline THEN entries[n].logged
                      ELSE upTo[n - 1].log \o entries[n].logged)
  IN  upTo[Len(entries)]

(* rearmTimerAfterRebuild: the last event of the log that is a sub-phase   *)
(* or a step out of the night decides.                                     *)
Decides(e) == NightSubPhaseStarted(e) \/ (PhaseChanged(e) /\ e.kind # "to_night")

RearmTimer(events) ==
  LET current == {i \in DOMAIN events :
                    /\ NightSubPhaseStarted(events[i])
                    /\ \A j \in i + 1 .. Len(events) : ~Decides(events[j])}
  IN  IF current = {} THEN NoTimer ELSE events[CHOOSE i \in current : TRUE].of

(* resyncSubscribers: every slot loses its subscriber. *)
Vacated(seats) == [p \in DOMAIN seats |-> NoConn]

(* recoverFromPanic: "entries" is the journal, "attached" the subscribers  *)
(* and "queues" their buffers when the panic struck.  The window the       *)
(* recoveries are counted in may or may not have passed.                   *)
RecoverFromPanic(entries, attached, seats, queues) ==
  LET rebuilt == Replay(entries) IN
  /\ Spend
  /\ journal' = entries
  /\ closed' = closed \cup attached \cup subs
  /\ out' = queues
  /\ subs' = {}
  /\ emptySince' = TRUE
  /\ \E windowPassed \in BOOLEAN :
       recoveries' = IF recoveries = 0 \/ windowPassed THEN 1 ELSE recoveries + 1
  /\ \/ /\ recoveries' <= MaxRecoveries
        /\ game' = rebuilt.game
        /\ log' = rebuilt.log
        /\ timer' = RearmTimer(rebuilt.log)
        /\ slot' = Vacated(seats)
        /\ UNCHANGED <<cancelled, running>>
     \/ /\ recoveries' > MaxRecoveries
        /\ cancelled' = TRUE
        /\ running' = FALSE
        /\ timer' = NoTimer
        /\ slot' = seats
        /\ UNCHANGED <<game, log>>

(* The buffers a broadcast leaves when it is cut short: some viewers have  *)
(* the batch, at most one has a part of it.                                *)
Interrupted(served, last, ids, queues, base, batch) ==
  [c \in Conn |->
     LET frames == Frames(ids[c], base, batch) IN
     CASE c \in served -> Push(queues[c], frames)
       [] c = last     -> Push(queues[c], Front(frames))
       [] OTHER        -> queues[c]]

CutShort(attached, ids, queues, base, batch) ==
  { Interrupted(served, last, ids, queues, base, batch) :
    served \in SUBSET attached, last \in attached \cup {NoConn} }

-------------------------------------------------------------------------------
(* The room's handlers (room.go).  Each begins with live(): a closed       *)
(* subscriber's messages are dropped.                                      *)

Live(c) == running /\ c \notin closed

(* A connected client that has joined. *)
MayCommand(c) == stage[c] \in {"up", "left"} /\ request[c] = NoRequest /\ playerID[c] # NoOne

(* Mutant: any message is taken, also from a closed connection. *)
MayCommandClosed(c) == running /\ MayCommand(c)

HasSender(c) == Live(c) /\ MayCommand(c)

Served(c) == request' = [request EXCEPT ![c] = NoRequest]

(* What handleJoin has done to the seats when it broadcasts: a slot, and   *)
(* the host's place if nobody has it.                                      *)
SeatsWith(p, c) == [q \in DOMAIN slot \cup {p} |-> IF q = p THEN c ELSE slot[q]]
HostWith(p) == IF host = NoOne THEN p ELSE host
JoinBatch(p) ==
  Emits(game, Command("add_player", p))
    \o (IF host = NoOne THEN <<Event("host_changed", p)>> ELSE <<>>)
(* OutJoined carries the log before the join. *)
Welcome(p) == Snapshot(p, 0, Len(log), Project(p, log))

(* The id is minted before the engine is asked. *)
MintsId(c, p) ==
  /\ Live(c)
  /\ request[c] = Join
  /\ nextSeq < MaxIds
  /\ p = nextSeq + 1
  /\ nextSeq' = p
  /\ Served(c)

HandleJoin(c) == \E p \in 1 .. MaxIds :
  /\ MintsId(c, p)
  /\ Accepts(game, Command("add_player", p))
  /\ playerID' = [playerID EXCEPT ![c] = p]
  /\ host' = HostWith(p)
  /\ Commit(Command("add_player", p), JoinBatch(p), timer, subs \cup {c},
            playerID', SeatsWith(p, c), [out EXCEPT ![c] = Send(@, Welcome(p))], FALSE)
  /\ UNCHANGED <<loopVars, stage, pageVars>>

(* rejectUnjoined: the game has begun or is full. *)
RefuseJoin(c) == \E p \in 1 .. MaxIds :
  /\ MintsId(c, p)
  /\ ~Accepts(game, Command("add_player", p))
  /\ out' = [out EXCEPT ![c] = Send(@, Refusal)]
  /\ closed' = closed \cup {c}
  /\ emptySince' = ClockAfterDetach(emptySince, subs)
  /\ UNCHANGED <<engineVars, host, slot, subs, playerID, loopVars, stage, pageVars>>

(* A join that panics in the engine has changed nothing; one that panics   *)
(* later has a slot, perhaps the host's place, and an OutJoined under way. *)
PanicInJoin(c) == \E p \in 1 .. MaxIds :
  /\ MintsId(c, p)
  /\ \/ /\ RecoverFromPanic(journal, subs, slot, out)
        /\ UNCHANGED <<host, playerID>>
     \/ /\ Accepts(game, Command("add_player", p))
        /\ playerID' = [playerID EXCEPT ![c] = p]
        /\ host' = HostWith(p)
        /\ \E queues \in {out} \cup CutShort(subs \cup {c}, playerID',
                             [out EXCEPT ![c] = Send(@, Welcome(p))], Len(log), JoinBatch(p)) :
             RecoverFromPanic(journal, subs \cup {c}, SeatsWith(p, c), queues)
  /\ UNCHANGED <<stage, pageVars>>

(* Mutant: the connection it replaces is not detached. *)
EvictsNobody(p, c) == {}

(* The connection a rejoin evicts. *)
Evicted(p, c) == {slot[p]} \ {NoConn, c}

(* Where a resume starts: the client's cursor if the log reaches that far, *)
(* else the beginning.                                                     *)
ResumeFrom(since) == IF since > 0 /\ since <= Len(log) THEN since ELSE 0

TailAfter(from) == SubSeq(log, from + 1, Len(log))

HandleRejoin(c) ==
  /\ Live(c)
  /\ request[c].kind = "rejoin"
  /\ LET p    == request[c].player
         from == ResumeFrom(request[c].since)
     IN  /\ p \in DOMAIN slot
         /\ closed' = closed \cup Evicted(p, c)
         /\ subs' = (subs \ Evicted(p, c)) \cup {c}
         /\ slot' = [slot EXCEPT ![p] = c]
         /\ playerID' = [playerID EXCEPT ![c] = p]
         /\ emptySince' = FALSE
         /\ out' = [out EXCEPT ![c] =
                      Send(@, Snapshot(p, from, Len(log), Project(p, TailAfter(from))))]
  /\ Served(c)
  /\ UNCHANGED <<engineVars, host, nextSeq, loopVars, stage, pageVars>>

(* A rejoin that panics has attached its connection and evicted the old    *)
(* one, or done neither; then the new connection gets no answer at all.    *)
PanicInRejoin(c) ==
  /\ Live(c)
  /\ request[c].kind = "rejoin"
  /\ LET p == request[c].player IN
     \/ /\ RecoverFromPanic(journal, subs, slot, out)
        /\ UNCHANGED playerID
     \/ /\ p \in DOMAIN slot
        /\ playerID' = [playerID EXCEPT ![c] = p]
        /\ RecoverFromPanic(journal, subs \cup {c}, [slot EXCEPT ![p] = c], out)
  /\ Served(c)
  /\ UNCHANGED <<host, nextSeq, stage, pageVars>>

(* Only the slot's own subscriber leaves it. *)
SlotAfterLeave(c) ==
  [p \in DOMAIN slot |-> IF p = playerID[c] /\ slot[p] = c THEN NoConn ELSE slot[p]]

(* The last message of a connection; nobody reads its buffer any more.     *)
HandleLeave(c) ==
  /\ running
  /\ stage[c] = "left"
  /\ request[c] = NoRequest
  /\ IF c \in closed
     THEN UNCHANGED <<slot, subs, closed, emptySince>>
     ELSE /\ slot' = SlotAfterLeave(c)
          /\ subs' = subs \ {c}
          /\ closed' = closed \cup {c}
          /\ emptySince' = ClockAfterDetach(emptySince, subs')
  /\ stage' = [stage EXCEPT ![c] = "gone"]
  /\ out' = [out EXCEPT ![c] = <<>>]
  /\ UNCHANGED <<engineVars, host, nextSeq, playerID, loopVars, request, pageVars>>

(* handleCommand: AdvancePhase is no player's command and ResetGame has a  *)
(* handler of its own.                                                     *)
HandleCommand(c, kind) ==
  LET cmd == Command(kind, playerID[c]) IN
  /\ HasSender(c)
  /\ kind \in HostOnly => playerID[c] = host
  /\ Accepts(game, cmd)
  /\ CommitHere(cmd, timer)
  /\ UNCHANGED <<host, nextSeq, playerID, loopVars, connVars, pageVars>>

(* What it refuses costs the sender a place in its buffer.                 *)
Refused(c) ==
  {kind \in PlayerCommands : \/ kind \in HostOnly /\ playerID[c] # host
                             \/ ~Accepts(game, Command(kind, playerID[c]))}

RefuseCommand(c) ==
  /\ HasSender(c)
  /\ Refused(c) # {}
  /\ Spend
  /\ out' = [out EXCEPT ![c] = Send(@, Refusal)]
  /\ UNCHANGED <<game, log, journal, timer, seatVars, subs, playerID, closed, emptySince,
                 loopVars, connVars, pageVars>>

(* An interrupted fan-out of a command's batch, of any length.  Nothing is *)
(* journaled, so recovery takes it back.                                   *)
PanicWhile(cmd) ==
  /\ \E queues \in CutShort(subs, playerID, out, Len(log), Emits(game, cmd)) :
       RecoverFromPanic(journal, subs, slot, queues)
  /\ UNCHANGED <<host, nextSeq, playerID, connVars, pageVars>>

PanicInCommand(c, kind) ==
  /\ HasSender(c)
  /\ kind \in HostOnly => playerID[c] = host
  /\ Accepts(game, Command(kind, playerID[c]))
  /\ PanicWhile(Command(kind, playerID[c]))

-------------------------------------------------------------------------------
(* handleReset: the log is replaced by the snapshot and the host.          *)

ResetGame == Command("reset_game", NoOne)

ResetBatch ==
  Emits(game, ResetGame)
    \o (IF host # NoOne THEN <<Event("host_changed", host)>> ELSE <<>>)

MayReset(c) == HasSender(c) /\ playerID[c] = host /\ Accepts(game, ResetGame)

HandleReset(c) ==
  /\ MayReset(c)
  /\ game' = Apply(game, ResetGame)
  /\ timer' = NoTimer
  /\ log' = ResetBatch
  /\ Record(ResetGame, ResetBatch, TRUE)
  /\ BroadcastToSubs(subs, playerID, slot, out, emptySince, 0, ResetBatch)
  /\ UNCHANGED <<host, nextSeq, playerID, loopVars, connVars, pageVars>>

(* A reset is journaled before it is broadcast, so it survives a panic in  *)
(* the broadcast.                                                          *)
PanicInReset(c) ==
  /\ MayReset(c)
  /\ LET entries == Append(journal, JournalEntry(ResetGame, ResetBatch, TRUE)) IN
     \E queues \in CutShort(subs, playerID, out, 0, ResetBatch) :
       RecoverFromPanic(entries, subs, slot, queues)
  /\ UNCHANGED <<host, nextSeq, playerID, connVars, pageVars>>

-------------------------------------------------------------------------------
(* The timer (timers.go) and the end of the room.                          *)

(* An AdvancePhase the engine rejects would only be logged; no timer runs  *)
(* in a phase that rejects it (NightIsTimed).                              *)
HandlePhaseTimer(kind) ==
  /\ running
  /\ timer # NoTimer
  /\ IF Accepts(game, Command(kind, NoOne))
     THEN CommitHere(Command(kind, NoOne), NoTimer)
     ELSE /\ timer' = NoTimer
          /\ UNCHANGED <<game, log, journal, budget, slot, subs, out, closed, emptySince>>
  /\ UNCHANGED <<host, nextSeq, playerID, loopVars, connVars, pageVars>>

PanicInTimer(kind) ==
  /\ running
  /\ timer # NoTimer
  /\ Accepts(game, Command(kind, NoOne))
  /\ PanicWhile(Command(kind, NoOne))

(* Manager.Close, MaxLifetime, or an empty room's EmptyTTL. *)
Cancel ==
  /\ running
  /\ ~cancelled
  /\ Spend
  /\ cancelled' = TRUE
  /\ UNCHANGED <<game, log, journal, timer, seatVars, subVars, recoveries, running,
                 connVars, pageVars>>

(* Run sees ctx.Done; until it does it may still take messages.            *)
RunExits ==
  /\ running
  /\ cancelled
  /\ running' = FALSE
  /\ timer' = NoTimer
  /\ closed' = closed \cup subs
  /\ subs' = {}
  /\ emptySince' = TRUE
  /\ UNCHANGED <<game, log, journal, budget, seatVars, playerID, out, recoveries, cancelled,
                 connVars, pageVars>>

-------------------------------------------------------------------------------
(* The connections and the tabs (transport/ws, web/events.js).  Bound:     *)
(* their story ends with the room's.                                       *)

roomVars == <<engineVars, seatVars, subVars, loopVars>>

(* A new connection for a tab; it forgets the old one, which the server    *)
(* may still believe in.  submit refuses once the room is cancelled.       *)
Connect(g, c, msg) ==
  /\ ~cancelled
  /\ stage[c] = "unused"
  /\ stage' = [stage EXCEPT ![c] = "up"]
  /\ request' = [request EXCEPT ![c] = msg]
  /\ socket' = [socket EXCEPT ![g] = c]
  /\ UNCHANGED <<roomVars, me>>

OpenJoin(g, c) ==
  /\ me[g] = NoOne
  /\ socket[g] = NoConn
  /\ Connect(g, c, Join)
  /\ UNCHANGED <<view, cursor>>

(* An in-session reconnect carries the cursor; a page load has kept the    *)
(* credentials and forgotten the game.                                     *)
Reconnect(g, c) ==
  /\ me[g] # NoOne
  /\ \/ /\ Connect(g, c, Rejoin(me[g], cursor[g]))
        /\ UNCHANGED <<view, cursor>>
     \/ /\ Connect(g, c, Rejoin(me[g], 0))
        /\ view' = [view EXCEPT ![g] = <<>>]
        /\ cursor' = [cursor EXCEPT ![g] = 0]

(* Both pumps end, on a failed read, write or ping or a closed channel;    *)
(* the tab sees the close and Connect submits the leave.                   *)
PumpsExit(c) ==
  /\ running
  /\ stage[c] = "up"
  /\ stage' = [stage EXCEPT ![c] = "left"]
  /\ socket' = [g \in Page |-> IF socket[g] = c THEN NoConn ELSE socket[g]]
  /\ UNCHANGED <<roomVars, request, me, view, cursor>>

(* A tab's model, [view, cursor], after one message: a snapshot from 0     *)
(* rebuilds it, a tail extends it, and the event of a reset empties it.    *)
(* The cursor adopts every sequence number, a lower one after a reset too. *)
Applied(model, msg) ==
  CASE msg.kind = "snapshot" ->
         [view |-> (IF msg.from > 0 THEN model.view ELSE <<>>) \o msg.events,
          cursor |-> msg.last]
    [] msg.kind = "event" ->
         [view |-> IF msg.event.kind = "game_reset" THEN <<msg.event>>
                   ELSE Append(model.view, msg.event),
          cursor |-> msg.seq]
    [] OTHER -> model

Model(g) == [view |-> view[g], cursor |-> cursor[g]]

(* The write pump hands the tab the next message.  A tab that is refused   *)
(* its join gives the socket up.                                           *)
Deliver(g) ==
  LET c == socket[g] IN
  /\ running
  /\ c # NoConn
  /\ stage[c] = "up"
  /\ out[c] # <<>>
  /\ LET msg == Head(out[c])
         new == Applied(Model(g), msg)
     IN  /\ out' = [out EXCEPT ![c] = Tail(@)]
         /\ view' = [view EXCEPT ![g] = new.view]
         /\ cursor' = [cursor EXCEPT ![g] = new.cursor]
         /\ me' = [me EXCEPT ![g] = IF msg.kind = "snapshot" THEN msg.player ELSE @]
         /\ socket' = [socket EXCEPT ![g] =
                         IF msg.kind = "error" /\ me[g] = NoOne THEN NoConn ELSE @]
  /\ UNCHANGED <<engineVars, seatVars, subs, playerID, closed, emptySince, loopVars, connVars>>

-------------------------------------------------------------------------------
(* newRoom: the engine has applied CreateGame. *)
Init ==
  LET create == Command("create_game", NoOne)
      batch  == Emits(Game0, create)
  IN  /\ game = Apply(Game0, create)
      /\ log = batch
      /\ journal = <<JournalEntry(create, batch, FALSE)>>
      /\ timer = NoTimer
      /\ host = NoOne
      /\ slot = [p \in {} |-> NoConn]
      /\ nextSeq = 0
      /\ subs = {}
      /\ playerID = [c \in Conn |-> NoOne]
      /\ out = [c \in Conn |-> <<>>]
      /\ closed = {}
      /\ emptySince = TRUE
      /\ recoveries = 0
      /\ cancelled = FALSE
      /\ running = TRUE
      /\ stage = [c \in Conn |-> "unused"]
      /\ request = [c \in Conn |-> NoRequest]
      /\ me = [g \in Page |-> NoOne]
      /\ socket = [g \in Page |-> NoConn]
      /\ view = [g \in Page |-> <<>>]
      /\ cursor = [g \in Page |-> 0]
      /\ budget = MaxCommands

RoomStep ==
  \/ \E c \in Conn :
       \/ HandleJoin(c) \/ RefuseJoin(c) \/ HandleRejoin(c) \/ HandleLeave(c)
       \/ HandleReset(c) \/ RefuseCommand(c)
       \/ \E kind \in PlayerCommands : HandleCommand(c, kind)
  \/ \E kind \in AdvancePhase : HandlePhaseTimer(kind)

Panic ==
  \/ \E c \in Conn :
       \/ PanicInJoin(c) \/ PanicInRejoin(c) \/ PanicInReset(c)
       \/ \E kind \in PlayerCommands : PanicInCommand(c, kind)
  \/ \E kind \in AdvancePhase : PanicInTimer(kind)

Closing == Cancel \/ RunExits

Transport ==
  \/ \E g \in Page :
       \/ \E c \in Conn : OpenJoin(g, c) \/ Reconnect(g, c)
       \/ Deliver(g)
  \/ \E c \in Conn : PumpsExit(c)

Next == RoomStep \/ Panic \/ Closing \/ Transport

Spec == Init /\ [][Next]_vars
===============================================================================
