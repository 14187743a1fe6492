------------------------------- MODULE TabProofs -------------------------------
(***************************************************************************)
(* A browser tab's view of the game.  Every message of a room brings the   *)
(* model of the tab that reads it to all its player may see of the log as  *)
(* it was when the message was made, whatever the tab had seen before,     *)
(* which connection it reads on, and whatever was lost on the way.         *)
(***************************************************************************)
EXTENDS RoomProofs

(* A log up to a cursor and the rest of it. *)
Upto(l, n) == SubSeq(l, 1, n)
Rest(l, n) == SubSeq(l, n + 1, Len(l))

(* A tab's model is level with a log: it holds all the player may see of   *)
(* it, and what follows its cursor is hidden from the player.              *)
Level(model, p, l) ==
  /\ model \in Models
  /\ model.cursor <= Len(l)
  /\ model.view = Project(p, l)
  /\ Project(p, Rest(l, model.cursor)) = <<>>

LEMMA Parts ==
  ASSUME NEW l \in Seq(Ev), NEW n \in 0 .. Len(l)
  PROVE  /\ Upto(l, n) \in Seq(Ev) /\ Rest(l, n) \in Seq(Ev)
         /\ l = Upto(l, n) \o Rest(l, n)
<1>1. Len(l) \in Nat /\ n \in Int /\ n + 1 \in Int /\ Len(l) \in Int /\ 1 \in Int
  OBVIOUS
<1>2. (\A i \in 1 .. n : l[i] \in Ev) /\ (\A i \in n + 1 .. Len(l) : l[i] \in Ev)
  OBVIOUS
<1>3. Upto(l, n) \in Seq(Ev) /\ Rest(l, n) \in Seq(Ev)
  BY <1>1, <1>2, SubSeqProperties DEF Upto, Rest
<1>4. /\ 1 \in 1 .. Len(l) + 1 /\ n \in 1 - 1 .. Len(l) /\ Len(l) \in n .. Len(l)
  BY <1>1
<1>5. SubSeq(l, 1, n) \o SubSeq(l, n + 1, Len(l)) = SubSeq(l, 1, Len(l))
  BY <1>4, ConcatAdjacentSubSeq
<1> QED BY <1>3, <1>5, SubSeqFull DEF Upto, Rest

LEMMA RestAt ==
  ASSUME NEW l \in Seq(Ev), NEW n \in 0 .. Len(l)
  PROVE  /\ Len(Rest(l, n)) = Len(l) - n
         /\ \A i \in 1 .. Len(l) - n : Rest(l, n)[i] = l[n + i]
<1>1. Len(l) \in Nat /\ n + 1 \in Int /\ Len(l) \in Int /\ \A i \in n + 1 .. Len(l) : l[i] \in Ev
  OBVIOUS
<1>2. /\ Len(Rest(l, n)) = IF n + 1 <= Len(l) THEN Len(l) - (n + 1) + 1 ELSE 0
      /\ \A i \in 1 .. Len(l) - (n + 1) + 1 : Rest(l, n)[i] = l[n + 1 + i - 1]
  BY <1>1, SubSeqProperties DEF Rest
<1>3. Len(Rest(l, n)) = Len(l) - n
  BY <1>1, <1>2
<1>4. ASSUME NEW i \in 1 .. Len(l) - n PROVE Rest(l, n)[i] = l[n + i]
  <2>1. i \in 1 .. Len(l) - (n + 1) + 1 /\ n + 1 + i - 1 = n + i
    BY <1>1
  <2> QED BY <1>2, <2>1
<1> QED BY <1>3, <1>4

LEMMA NothingLeft ==
  ASSUME NEW l \in Seq(Ev)
  PROVE  Rest(l, Len(l)) = <<>>
<1>1. Len(l) \in Nat /\ Len(l) + 1 \in Int /\ Len(l) \in Int /\ Len(l) < Len(l) + 1
  OBVIOUS
<1> QED BY <1>1, SubSeqEmpty DEF Rest

(* Level is what InSync says. *)
LEMMA LevelIsInSync ==
  ASSUME NEW model \in Models, NEW p, NEW l \in Seq(Ev), model.cursor <= Len(l),
         Project(p, Rest(l, model.cursor)) = <<>>
  PROVE  model.view = Project(p, Upto(l, model.cursor)) <=> model.view = Project(p, l)
<1>1. model.cursor \in 0 .. Len(l)
  BY DEF Models
<1> DEFINE a == Upto(l, model.cursor)
           b == Rest(l, model.cursor)
<1>2. a \in Seq(Ev) /\ b \in Seq(Ev) /\ l = a \o b
  BY <1>1, Parts
<1> HIDE DEF a, b
<1>3. Project(p, l) = Project(p, a) \o Project(p, b) /\ Project(p, a) \in Seq(Ev)
  BY <1>2, ProjectConcat, ProjectType
<1>4. Project(p, a) \o <<>> = Project(p, a)
  BY <1>3, ConcatEmptySeq
<1> QED BY <1>3, <1>4 DEF a, b

(* A model that has the whole log is level with it. *)
LEMMA WholeLogIsLevel ==
  ASSUME NEW model \in Models, NEW p, NEW l \in Seq(Ev),
         model.cursor = Len(l), model.view = Project(p, l)
  PROVE  Level(model, p, l)
<1>1. Project(p, Rest(l, Len(l))) = <<>>
  BY NothingLeft, ProjectEmpty
<1> QED BY <1>1, LenProperties DEF Level

LEMMA SmallerRest ==
  ASSUME NEW l \in Seq(Ev), NEW e \in Ev, NEW n \in 0 .. Len(l)
  PROVE  Rest(Append(l, e), n) = Append(Rest(l, n), e)
<1>1. /\ l = Upto(l, n) \o Rest(l, n) /\ Upto(l, n) \in Seq(Ev) /\ Rest(l, n) \in Seq(Ev)
      /\ Append(l, e) \in Seq(Ev) /\ n \in 0 .. Len(Append(l, e)) /\ Len(Append(l, e)) = Len(l) + 1
  BY Parts, AppendParts
<1>2. Rest(Append(l, e), n) \in Seq(Ev) /\ Append(Rest(l, n), e) \in Seq(Ev)
  BY <1>1, Parts, AppendParts
<1>3. /\ Len(Rest(Append(l, e), n)) = Len(l) + 1 - n
      /\ Len(Rest(l, n)) = Len(l) - n
      /\ Len(Append(Rest(l, n), e)) = Len(l) + 1 - n
  BY <1>1 DEF Rest
<1>4. ASSUME NEW i \in 1 .. Len(l) + 1 - n
      PROVE  Rest(Append(l, e), n)[i] = Append(Rest(l, n), e)[i]
  <2>1. Rest(Append(l, e), n)[i] = Append(l, e)[n + i]
    <3>1. i \in 1 .. Len(Append(l, e)) - n
      BY <1>1
    <3> QED BY <1>1, <3>1, RestAt
  <2>2. CASE i = Len(l) + 1 - n
    <3>1. n + i = Len(l) + 1
      BY <2>2
    <3> QED BY <1>2, <1>3, <2>1, <2>2, <3>1
  <2>3. CASE i # Len(l) + 1 - n
    <3>1. i \in 1 .. Len(l) - n /\ n + i \in 1 .. Len(l)
      BY <2>3
    <3>2. Rest(l, n)[i] = l[n + i]
      BY <3>1, RestAt
    <3>3. Append(l, e)[n + i] = l[n + i]
      BY <3>1, AppendParts
    <3>4. Append(Rest(l, n), e)[i] = Rest(l, n)[i]
      BY <1>1, <1>3, <3>1, AppendParts
    <3> QED BY <2>1, <3>2, <3>3, <3>4
  <2> QED BY <2>2, <2>3
<1> QED BY <1>2, <1>3, <1>4, SeqEqual

(* One event more in the log, and in the buffer if the player sees it.     *)
LEMMA LevelAppend ==
  ASSUME NEW model, NEW p, NEW l \in Seq(Ev), NEW e \in Ev, Level(model, p, l),
         e.kind # "game_reset"
  PROVE  /\ Visible(p, e) => Level(Applied(model, Frame(Len(l) + 1, e)), p, Append(l, e))
         /\ ~Visible(p, e) => Level(model, p, Append(l, e))
<1>1. /\ Append(l, e) \in Seq(Ev) /\ Len(Append(l, e)) = Len(l) + 1 /\ Len(l) \in Nat
      /\ model \in Models /\ model.cursor \in 0 .. Len(l)
  BY AppendParts DEF Level, Models
<1>2. Project(p, Append(l, e)) = IF Visible(p, e) THEN Append(Project(p, l), e) ELSE Project(p, l)
  BY ProjectAppend
<1>3. CASE Visible(p, e)
  <2>1. Applied(model, Frame(Len(l) + 1, e)) =
          [view |-> Append(model.view, e), cursor |-> Len(l) + 1]
    BY DEF Applied, Frame
  <2>2. Append(model.view, e) \in Seq(Ev) /\ Append(model.view, e) = Project(p, Append(l, e))
    BY <1>1, <1>2, <1>3, AppendParts DEF Level, Models
  <2>3. [view |-> Append(model.view, e), cursor |-> Len(l) + 1] \in Models
    BY <1>1, <2>2 DEF Models
  <2> QED BY <1>1, <1>3, <2>1, <2>2, <2>3, WholeLogIsLevel
<1>4. CASE ~Visible(p, e)
  <2>1. PICK rest \in Seq(Ev) : rest = Rest(l, model.cursor) /\ Project(p, rest) = <<>>
    BY <1>1, Parts DEF Level
  <2>2. Rest(Append(l, e), model.cursor) = Append(rest, e)
    BY <1>1, <2>1, SmallerRest
  <2>3. Project(p, Append(rest, e)) = <<>>
    BY <1>4, <2>1, ProjectAppend
  <2> QED BY <1>1, <1>2, <1>4, <2>2, <2>3 DEF Level
<1> QED BY <1>3, <1>4

(* A whole batch more. *)
PlainEv == {e \in Ev : e.kind # "game_reset"}

LEMMA LevelConcat ==
  ASSUME NEW model, NEW p, NEW l \in Seq(Ev), Level(model, p, l), NEW batch \in Seq(PlainEv)
  PROVE  Level(ReadEmpty(model, Frames(p, Len(l), batch)), p, l \o batch)
<1> DEFINE After(b) == ReadEmpty(model, Frames(p, Len(l), b))
           S == {b \in Seq(PlainEv) : Level(After(b), p, l \o b)}
<1>0. PlainEv \subseteq Ev /\ Len(l) \in Nat /\ model \in Models
  BY DEF PlainEv, Level
<1>1. <<>> \in S
  BY <1>0, FramesEmpty, ReadEmptyEmpty, ConcatEmptySeq, EmptySeq
<1>2. ASSUME NEW b \in Seq(PlainEv), NEW e \in PlainEv, b \in S
      PROVE  Append(b, e) \in S
  <2>1. /\ b \in Seq(Ev) /\ e \in Ev /\ e.kind # "game_reset" /\ Append(b, e) \in Seq(PlainEv)
    BY <1>0, AppendParts, SeqMonotonic DEF PlainEv
  <2>2. l \o b \in Seq(Ev) /\ Len(l \o b) = Len(l) + Len(b) /\ Len(b) \in Nat
    BY <2>1, ConcatProperties, LenProperties
  <2>3. l \o Append(b, e) = Append(l \o b, e)
    BY <2>1, AppendConcat
  <2>4. PICK frames \in Seq(Msg) : frames = Frames(p, Len(l), b)
    BY <1>0, <2>1, FramesAreMessages
  <2> DEFINE f == Frame(Len(l \o b) + 1, e)
  <2>5. f \in Msg /\ f = Frame(Len(l) + (Len(b) + 1), e)
    BY <1>0, <2>1, <2>2 DEF Frame, FrameMsg, Msg
  <2>6. Frames(p, Len(l), Append(b, e)) = IF Visible(p, e) THEN Append(frames, f) ELSE frames
    BY <1>0, <2>1, <2>4, <2>5, FramesAppend
  <2>7. Level(After(b), p, l \o b)
    BY <1>2
  <2> HIDE DEF f
  <2>8. CASE Visible(p, e)
    <3>1. After(Append(b, e)) = Applied(After(b), f)
      BY <1>0, <2>4, <2>5, <2>6, <2>8, ReadEmptyAppend
    <3> HIDE DEF After
    <3>2. Level(Applied(After(b), f), p, Append(l \o b, e))
      BY <2>1, <2>2, <2>7, <2>8, LevelAppend DEF f
    <3> QED BY <2>1, <2>3, <3>1, <3>2
  <2>9. CASE ~Visible(p, e)
    <3>1. After(Append(b, e)) = After(b)
      BY <2>4, <2>6, <2>9
    <3> HIDE DEF After
    <3>2. Level(After(b), p, Append(l \o b, e))
      BY <2>1, <2>2, <2>7, <2>9, LevelAppend
    <3> QED BY <2>1, <2>3, <3>1, <3>2
  <2> QED BY <2>8, <2>9
<1> HIDE DEF S
<1>3. batch \in S
  BY <1>1, <1>2, SeqSetInduction
<1> QED BY <1>3 DEF S

(* No command but a reset emits the event that empties a model. *)
LEMMA EmitsPlain ==
  ASSUME NEW g \in Games, NEW cmd \in Cmd, cmd.kind # "reset_game"
  PROVE  Emits(g, cmd) \in Seq(PlainEv)
<1>1. NoOne \in Nat /\ cmd.by \in Nat /\ g.step + 1 \in Nat
  BY DEF Games, Cmd, Player, NoOne
<1> DEFINE e(kind, of) == Event(kind, of)
<1>2. ASSUME NEW kind \in EventKinds, NEW of \in Nat, kind # "game_reset"
      PROVE  e(kind, of) \in PlainEv
  BY <1>2, EventIs DEF PlainEv
<1>3. \E a \in PlainEv, b \in PlainEv : Emits(g, cmd) \in {<<a>>, <<a, b>>}
  <2>1. CASE cmd.kind \in {"create_game", "add_player", "start_game"}
    <3>1. Emits(g, cmd) \in {<<e("game_created", NoOne)>>, <<e("player_joined", cmd.by)>>,
                             <<e("game_started", NoOne)>>}
      BY <2>1 DEF Emits
    <3> HIDE DEF e
    <3> QED BY <1>1, <1>2, <3>1 DEF EventKinds
  <2>2. CASE cmd.kind \in {"begin_night", "night_action", "next_turn"}
    <3>1. Emits(g, cmd) \in {<<e("to_night", NoOne), e("sub_phase", g.step + 1)>>,
                             <<e("private_result", cmd.by), e("sub_phase", g.step + 1)>>,
                             <<e("sub_phase", g.step + 1)>>}
      BY <2>2 DEF Emits
    <3> HIDE DEF e
    <3> QED BY <1>1, <1>2, <3>1 DEF EventKinds, PhaseKinds
  <2>3. CASE cmd.kind \in {"dawn", "dawn_ends_game", "finalize_votes"}
    <3>1. Emits(g, cmd) \in {<<e("to_day", NoOne)>>, <<e("to_ended", NoOne)>>}
      BY <2>3 DEF Emits
    <3> HIDE DEF e
    <3> QED BY <1>1, <1>2, <3>1 DEF EventKinds, PhaseKinds
  <2> QED BY <2>1, <2>2, <2>3
          DEF Cmd, CommandKinds, PlayerCommands, HostOnly, AdvancePhase
<1>4. PICK a \in PlainEv, b \in PlainEv : Emits(g, cmd) \in {<<a>>, <<a, b>>}
  BY <1>3
<1>5. <<a>> \in Seq(PlainEv) /\ <<a, b>> \in Seq(PlainEv)
  OBVIOUS
<1> QED BY <1>4, <1>5

LEMMA JoinPlain ==
  ASSUME RoomInv, NEW p \in Player
  PROVE  JoinBatch(p) \in Seq(PlainEv)
<1>1. Emits(game, Command("add_player", p)) \in Seq(PlainEv)
  BY JoinBatchIs, EmitsPlain DEF RoomInv, EngineInv
<1>2. Event("host_changed", p) \in PlainEv
  BY EventIs DEF PlainEv, EventKinds, Player
<1>3. (IF host = NoOne THEN <<Event("host_changed", p)>> ELSE <<>>) \in Seq(PlainEv)
  BY <1>2
<1> QED BY <1>1, <1>3, ConcatProperties DEF JoinBatch

-------------------------------------------------------------------------------
(* A tab listens to a connection that is in use, no two tabs to the same,  *)
(* and a rejoin that is under way asks for the tab's player from its cursor.*)
Listens(g) ==
  socket[g] # NoConn =>
    /\ stage[socket[g]] # "unused"
    /\ request[socket[g]].kind = "rejoin" =>
         request[socket[g]].player = me[g] /\ request[socket[g]].since = cursor[g]
SyncInv ==
  /\ \A g \in Page : Listens(g)
  /\ \A g, h \in Page : socket[g] = socket[h] /\ socket[g] # NoConn => g = h

LEMMA SyncInit == Init => SyncInv
  BY DEF Init, SyncInv, Listens

(* The room's handlers serve requests, and end connections. *)
LEMMA SyncServed ==
  ASSUME RoomInv, SyncInv, UNCHANGED pageVars,
         \/ stage' = stage
         \/ \E c \in Conn : stage' = [stage EXCEPT ![c] = "gone"],
         \/ request' = request
         \/ \E c \in Conn : Served(c)
  PROVE  SyncInv'
<1>1. /\ socket \in [Page -> Conn \cup {NoConn}]
      /\ stage \in [Conn -> {"unused", "up", "left", "gone"}]
      /\ request \in [Conn -> Requests]
  BY DEF RoomInv, PipeInv, PageTypes, ConnTypes
<1>2. /\ \A c \in Conn : stage[c] # "unused" => stage'[c] # "unused"
      /\ \A c \in Conn : request'[c] = request[c] \/ request'[c] = NoRequest
      /\ UNCHANGED <<me, socket, view, cursor>>
  BY <1>1 DEF Served, pageVars
<1>3. NoRequest.kind # "rejoin"
  BY DEF NoRequest
<1>4. ASSUME NEW g \in Page PROVE Listens(g)'
  BY <1>1, <1>2, <1>3 DEF SyncInv, Listens
<1> QED BY <1>2, <1>4 DEF SyncInv

LEMMA SyncConnect ==
  ASSUME RoomInv, SyncInv, NEW g \in Page, NEW c \in Conn, OpenJoin(g, c) \/ Reconnect(g, c)
  PROVE  SyncInv'
<1>1. /\ socket \in [Page -> Conn \cup {NoConn}] /\ cursor \in [Page -> Nat]
      /\ stage \in [Conn -> {"unused", "up", "left", "gone"}]
      /\ request \in [Conn -> Requests]
  BY DEF RoomInv, PipeInv, PageTypes, ConnTypes
<1>2. /\ stage[c] = "unused" /\ stage' = [stage EXCEPT ![c] = "up"]
      /\ socket' = [socket EXCEPT ![g] = c] /\ me' = me
      /\ \A h \in Page : h # g => cursor'[h] = cursor[h]
      /\ \A d \in Conn : d # c => request'[d] = request[d]
      /\ request'[c] = Join \/ request'[c] = Rejoin(me[g], cursor'[g])
  BY <1>1 DEF OpenJoin, Reconnect, Connect
<1>3. \A h \in Page : socket[h] # c
  BY <1>2, RoomAssumption DEF SyncInv, Listens
<1>4. ASSUME NEW h \in Page PROVE Listens(h)'
  <2>1. CASE h = g
    <3>1. socket'[g] = c /\ stage'[c] = "up" /\ me'[g] = me[g]
      BY <1>1, <1>2
    <3>2. request'[c].kind = "rejoin" => request'[c] = Rejoin(me[g], cursor'[g])
      BY <1>2 DEF Join
    <3>3. Listens(g)'
      BY <3>1, <3>2 DEF Listens, Rejoin
    <3> QED BY <2>1, <3>3
  <2>2. CASE h # g
    <3>1. socket'[h] = socket[h] /\ cursor'[h] = cursor[h] /\ me'[h] = me[h] /\ socket[h] # c
      BY <1>1, <1>2, <1>3, <2>2
    <3>2. CASE socket[h] = NoConn
      BY <3>1, <3>2 DEF Listens
    <3>3. CASE socket[h] # NoConn
      <4>1. PICK d \in Conn : d = socket[h] /\ d # c
        BY <1>1, <3>1, <3>3
      <4>2. stage'[d] = stage[d] /\ request'[d] = request[d]
        BY <1>1, <1>2, <4>1
      <4>3. Listens(h)
        BY DEF SyncInv
      <4> QED BY <3>1, <3>3, <4>1, <4>2, <4>3 DEF Listens
    <3> QED BY <3>2, <3>3
  <2> QED BY <2>1, <2>2
<1>5. ASSUME NEW h \in Page, NEW k \in Page, socket'[h] = socket'[k], socket'[h] # NoConn
      PROVE  h = k
  BY <1>1, <1>2, <1>3, <1>5 DEF SyncInv
<1> QED BY <1>4, <1>5 DEF SyncInv

LEMMA SyncDeliver ==
  ASSUME RoomInv, SyncInv, NEW g \in Page, Deliver(g)
  PROVE  SyncInv'
<1>1. /\ socket \in [Page -> Conn \cup {NoConn}] /\ cursor \in [Page -> Nat]
      /\ me \in [Page -> Player \cup {NoOne}]
  BY DEF RoomInv, PipeInv, PageTypes
<1>2. PICK c \in Conn : c = socket[g] /\ out[c] # <<>>
  BY <1>1 DEF Deliver
<1>3. /\ \A h \in Page : h # g => cursor'[h] = cursor[h] /\ me'[h] = me[h]
      /\ socket' = [h \in Page |-> socket'[h]]
      /\ \A h \in Page : socket'[h] = socket[h] \/ socket'[h] = NoConn
      /\ UNCHANGED <<stage, request>>
  BY <1>1 DEF Deliver, connVars
<1>4. request[c] = NoRequest
  BY <1>2 DEF RoomInv, PipeInv, Waiting
<1>5. ASSUME NEW h \in Page PROVE Listens(h)'
  <2>1. CASE h = g
    BY <1>2, <1>3, <1>4, <2>1 DEF SyncInv, Listens, NoRequest
  <2>2. CASE h # g
    BY <1>3, <2>2 DEF SyncInv, Listens
  <2> QED BY <2>1, <2>2
<1> QED BY <1>3, <1>5 DEF SyncInv

LEMMA SyncPumpsExit ==
  ASSUME RoomInv, SyncInv, NEW c \in Conn, PumpsExit(c)
  PROVE  SyncInv'
<1>1. /\ socket \in [Page -> Conn \cup {NoConn}]
      /\ stage \in [Conn -> {"unused", "up", "left", "gone"}]
  BY DEF RoomInv, PipeInv, PageTypes, ConnTypes
<1>2. /\ \A d \in Conn : stage[d] # "unused" => stage'[d] # "unused"
      /\ \A h \in Page : socket'[h] = socket[h] \/ socket'[h] = NoConn
      /\ UNCHANGED <<request, me, cursor>>
  BY <1>1 DEF PumpsExit
<1>3. ASSUME NEW h \in Page PROVE Listens(h)'
  BY <1>1, <1>2 DEF SyncInv, Listens
<1> QED BY <1>2, <1>3 DEF SyncInv

LEMMA SyncStep == RoomInv /\ SyncInv /\ [Next]_vars => SyncInv'
<1> SUFFICES ASSUME RoomInv, SyncInv, [Next]_vars PROVE SyncInv'
  OBVIOUS
<1>1. ASSUME NEW c \in Conn,
             \/ HandleJoin(c) \/ RefuseJoin(c) \/ PanicInJoin(c) \/ HandleRejoin(c)
             \/ PanicInRejoin(c)
      PROVE  SyncInv'
  <2>1. UNCHANGED <<stage, pageVars>> /\ Served(c)
    BY <1>1 DEF HandleJoin, RefuseJoin, PanicInJoin, HandleRejoin, PanicInRejoin, MintsId
  <2> QED BY <2>1, SyncServed
<1>2. ASSUME NEW c \in Conn, HandleLeave(c) PROVE SyncInv'
  BY <1>2, SyncServed DEF HandleLeave
<1>3. ASSUME UNCHANGED <<connVars, pageVars>> PROVE SyncInv'
  BY <1>3, SyncServed DEF connVars
<1>4. ASSUME NEW c \in Conn, HandleReset(c) \/ PanicInReset(c) \/ RefuseCommand(c)
      PROVE  SyncInv'
  BY <1>3, <1>4 DEF HandleReset, PanicInReset, RefuseCommand
<1>5. ASSUME NEW c \in Conn, NEW kind, HandleCommand(c, kind) \/ PanicInCommand(c, kind)
      PROVE  SyncInv'
  BY <1>3, <1>5 DEF HandleCommand, PanicInCommand, PanicWhile
<1>6. ASSUME NEW kind, HandlePhaseTimer(kind) \/ PanicInTimer(kind)
      PROVE  SyncInv'
  BY <1>3, <1>6 DEF HandlePhaseTimer, PanicInTimer, PanicWhile
<1>7. ASSUME Closing PROVE SyncInv'
  BY <1>3, <1>7 DEF Closing, Cancel, RunExits
<1>8. CASE UNCHANGED vars
  BY <1>3, <1>8 DEF vars
<1> QED BY <1>1, <1>2, <1>4, <1>5, <1>6, <1>7, <1>8, SyncConnect, SyncDeliver, SyncPumpsExit
        DEF Next, RoomStep, Panic, Transport

-------------------------------------------------------------------------------
(* What a tab holds when it has read its buffer empty, before a step and   *)
(* after it.                                                               *)
LEMMA CaughtType ==
  ASSUME RoomInv, NEW g \in Page, Connected(g)
  PROVE  /\ socket[g] \in Conn /\ socket[g] \in subs /\ out[socket[g]] \in Seq(Msg)
         /\ Model(g) \in Models
         /\ Caught(g) \in Models
<1>1. socket[g] \in Conn /\ socket[g] \in subs
  BY DEF RoomInv, SeatInv, SeatTypes, Connected
<1>2. out[socket[g]] \in Seq(Msg)
  BY <1>1 DEF RoomInv, PipeInv, Queues
<1>3. Model(g) \in Models
  BY DEF RoomInv, PipeInv, PageTypes, Model, Models
<1> QED BY <1>1, <1>2, <1>3, ReadEmptyType DEF Caught

LEMMA LevelBefore ==
  ASSUME RoomInv, NEW g \in Page, Connected(g), InSync(g)
  PROVE  Level(Caught(g), playerID[socket[g]], log)
<1>1. PICK model \in Models : model = Caught(g)
  BY CaughtType
<1>2. PICK p : p = playerID[socket[g]]
  OBVIOUS
<1>3. /\ model.cursor <= Len(log) /\ model.view = Project(p, Upto(log, model.cursor))
      /\ Project(p, Rest(log, model.cursor)) = <<>>
  BY <1>1, <1>2 DEF InSync, Agrees, Upto, Rest, TailAfter
<1>4. model.view = Project(p, log)
  BY <1>3, LogLength, LevelIsInSync
<1> QED BY <1>1, <1>2, <1>3, <1>4 DEF Level

LEMMA LevelAfter ==
  ASSUME NEW g \in Page, log' \in Seq(Ev),
         Level(Caught(g)', playerID'[socket'[g]], log')
  PROVE  InSync(g)'
<1>1. PICK model : model = Caught(g)'
  OBVIOUS
<1>p. PICK p : p = playerID'[socket'[g]]
  OBVIOUS
<1>l. PICK l \in Seq(Ev) : l = log'
  OBVIOUS
<1>2. /\ model \in Models /\ model.cursor <= Len(l)
      /\ model.view = Project(p, l) /\ Project(p, Rest(l, model.cursor)) = <<>>
  BY <1>1, <1>p, <1>l DEF Level
<1>3. model.view = Project(p, Upto(l, model.cursor))
  BY <1>2, LevelIsInSync
<1> QED BY <1>1, <1>p, <1>l, <1>2, <1>3 DEF InSync, Agrees, Upto, Rest, TailAfter

(* The page and the connection of a tab that a step leaves alone. *)
Idle(g) ==
  /\ socket'[g] = socket[g] /\ view'[g] = view[g] /\ cursor'[g] = cursor[g]
  /\ playerID'[socket[g]] = playerID[socket[g]]

LEMMA SyncSame ==
  ASSUME RoomInv, NEW g \in Page, Connected(g), InSync(g), Idle(g),
         log' = log, out'[socket[g]] = out[socket[g]]
  PROVE  InSync(g)'
<1>1. Caught(g)' = Caught(g) /\ playerID'[socket'[g]] = playerID[socket[g]]
  BY DEF Idle, Caught, Model
<1> QED BY <1>1, LevelBefore, LevelAfter, LogLength

(* A batch after the log. *)
LEMMA SyncBatch ==
  ASSUME RoomInv, NEW g \in Page, Connected(g), InSync(g), Idle(g),
         NEW batch \in Seq(PlainEv), log' = log \o batch,
         out'[socket[g]] = out[socket[g]] \o Frames(playerID[socket[g]], Len(log), batch)
  PROVE  InSync(g)'
<1>0. PICK p : p = playerID[socket[g]]
  OBVIOUS
<1>1. PICK queue \in Seq(Msg) : queue = out[socket[g]] /\ p = playerID[socket[g]]
  BY <1>0, CaughtType
<1>2. /\ batch \in Seq(Ev) /\ Len(log) \in Nat /\ log \in Seq(Ev)
      /\ Model(g) \in Models /\ Caught(g) \in Models
  BY LogLength, CaughtType, SeqMonotonic DEF PlainEv
<1>3. PICK frames \in Seq(Msg) : frames = Frames(p, Len(log), batch)
  BY <1>2, FramesAreMessages
<1>4. Caught(g)' = ReadEmpty(Model(g), queue \o frames) /\ playerID'[socket'[g]] = p
  BY <1>1, <1>3 DEF Idle, Caught, Model
<1>5. ReadEmpty(Model(g), queue \o frames) = ReadEmpty(Caught(g), frames)
  BY <1>1, <1>2, ReadEmptyConcat DEF Caught
<1>6. Level(ReadEmpty(Caught(g), frames), p, log \o batch)
  BY <1>1, <1>2, <1>3, LevelBefore, LevelConcat
<1>7. log \o batch \in Seq(Ev)
  BY <1>2, ConcatProperties
<1> QED BY <1>4, <1>5, <1>6, <1>7, LevelAfter

(* A reset's batch in the log's place. *)
LEMMA SyncReset ==
  ASSUME RoomInv, NEW g \in Page, Connected(g), Idle(g), log' = ResetBatch,
         out'[socket[g]] = out[socket[g]] \o Frames(playerID[socket[g]], 0, ResetBatch)
  PROVE  InSync(g)'
<1> DEFINE reset == Event("game_reset", NoOne)
           told == Event("host_changed", host)
<1>0. PICK p : p = playerID[socket[g]]
  OBVIOUS
<1>1. PICK queue \in Seq(Msg) : queue = out[socket[g]] /\ p = playerID[socket[g]]
  BY <1>0, CaughtType
<1>2. Model(g) \in Models /\ Caught(g) \in Models
  BY CaughtType
<1>3. /\ ResetBatch \in Seq(Ev)
      /\ \/ ResetBatch = <<reset>>
         \/ host \in Player /\ ResetBatch = <<reset, told>>
  BY ResetBatchIs DEF RoomInv, EngineInv
<1>4. PICK frames \in Seq(Msg) : frames = Frames(p, 0, ResetBatch)
  BY <1>3, FramesAreMessages
<1>5. Caught(g)' = ReadEmpty(Model(g), queue \o frames) /\ playerID'[socket'[g]] = p
  BY <1>1, <1>4 DEF Idle, Caught, Model
<1>6. ReadEmpty(Model(g), queue \o frames) = ReadEmpty(Caught(g), frames)
  BY <1>1, <1>2, ReadEmptyConcat DEF Caught
<1>7. /\ reset \in Ev /\ Visible(p, reset) /\ reset.kind = "game_reset"
      /\ host \in Player => told \in Ev /\ Visible(p, told) /\ told.kind # "game_reset"
  BY EventIs DEF EventKinds, Visible, NoOne, Player, Event
<1> HIDE DEF reset, told
<1> DEFINE f1 == Frame(1, reset)
           f2 == Frame(2, told)
           m1 == [view |-> <<reset>>, cursor |-> 1]
<1>8. /\ <<reset>> \in Seq(Ev) /\ Len(<<reset>>) = 1 /\ Append(<<>>, reset) = <<reset>>
      /\ <<>> \in Seq(Ev) /\ Len(<<>>) = 0
  BY <1>7
<1>9. f1 \in Msg /\ (host \in Player => f2 \in Msg) /\ m1 \in Models
  BY <1>7, <1>8 DEF Frame, FrameMsg, Msg, Models
<1>10. Frames(p, 0, <<reset>>) = <<f1>>
  <2>1. Frames(p, 0, <<>>) = <<>>
    BY FramesEmpty
  <2>2. Frames(p, 0, Append(<<>>, reset)) = Append(<<>>, f1)
    <3>1. 0 \in Nat /\ 0 + (Len(<<>>) + 1) = 1
      BY <1>8
    <3> QED BY <1>7, <1>8, <2>1, <3>1, FramesAppend
  <2>3. Append(<<>>, f1) = <<f1>>
    OBVIOUS
  <2> QED BY <1>8, <2>2, <2>3
<1>11. Applied(Caught(g), f1) = m1
  BY <1>7 DEF Applied, Frame
<1>12. Level(m1, p, <<reset>>)
  <2>1. Project(p, <<reset>>) = <<reset>>
    BY <1>7, <1>8, ProjectEmpty, ProjectAppend
  <2> QED BY <1>8, <1>9, <2>1, WholeLogIsLevel
<1> HIDE DEF f1, f2, m1
<1>13. Level(ReadEmpty(Caught(g), frames), p, ResetBatch)
  <2>1. CASE ResetBatch = <<reset>>
    BY <1>2, <1>4, <1>9, <1>10, <1>11, <1>12, <2>1, ReadEmptyOne
  <2>2. CASE host \in Player /\ ResetBatch = <<reset, told>>
    <3>1. Append(<<reset>>, told) = <<reset, told>>
      BY <1>7, <2>2, Pairs
    <3>2. Frames(p, 0, Append(<<reset>>, told)) = Append(<<f1>>, f2)
      <4>1. 0 \in Nat /\ 0 + (Len(<<reset>>) + 1) = 2
        BY <1>8
      <4> QED BY <1>7, <1>8, <1>10, <2>2, <4>1, FramesAppend DEF f2
    <3>3. ReadEmpty(Caught(g), Append(<<f1>>, f2)) = Applied(m1, f2)
      <4>1. <<f1>> \in Seq(Msg)
        BY <1>9
      <4>2. ReadEmpty(Caught(g), <<f1>>) = m1
        BY <1>2, <1>9, <1>11, ReadEmptyOne
      <4> QED BY <1>2, <1>9, <2>2, <4>1, <4>2, ReadEmptyAppend
    <3>4. Level(Applied(m1, Frame(Len(<<reset>>) + 1, told)), p, Append(<<reset>>, told))
      BY <1>7, <1>8, <1>12, <2>2, LevelAppend
    <3>5. Frame(Len(<<reset>>) + 1, told) = f2
      BY <1>8 DEF f2
    <3>6. ReadEmpty(Caught(g), frames) = Applied(m1, f2)
      BY <1>4, <2>2, <3>1, <3>2, <3>3
    <3> QED BY <2>2, <3>1, <3>4, <3>5, <3>6
  <2> QED BY <1>3, <2>1, <2>2
<1> QED BY <1>3, <1>5, <1>6, <1>13, LevelAfter

-------------------------------------------------------------------------------
(* What TabsStayInSync assumes of a step.                                  *)
Resumes(g) == IF Connected(g) THEN InSync(g) ELSE cursor[g] = 0 \/ Agrees(Model(g), me[g])
Holds(g) == Connected(g)' /\ socket'[g] = socket[g] /\ Resumes(g)

(* A broadcast, seen by a tab that was attached before it.                 *)
LEMMA SyncBroadcast ==
  ASSUME RoomInv, NEW g \in Page, Connected(g), InSync(g), Connected(g)', Idle(g),
         NEW attached \in SUBSET Conn, NEW ids, NEW seats, NEW queues \in [Conn -> Queues],
         NEW emptied, NEW batch \in Seq(PlainEv),
         ids[socket[g]] = playerID[socket[g]], queues[socket[g]] = out[socket[g]],
         log' = log \o batch,
         BroadcastToSubs(attached, ids, seats, queues, emptied, Len(log), batch)
  PROVE  InSync(g)'
<1>1. batch \in Seq(Ev) /\ Len(log) \in Nat
  BY LogLength, SeqMonotonic DEF PlainEv
<1>2. Buffered(attached, ids, seats, queues, Len(log), batch)
  BY <1>1, BroadcastBuffers
<1>3. out'[socket[g]] = out[socket[g]] \o Frames(playerID[socket[g]], Len(log), batch)
  BY <1>2 DEF Buffered, Connected, Idle
<1> QED BY <1>3, SyncBatch

(* What a new or returning player is sent. *)
LEMMA SyncWelcome ==
  ASSUME RoomInv, NEW model \in Models, NEW p \in Player
  PROVE  /\ Applied(model, Welcome(p)) \in Models
         /\ Level(Applied(model, Welcome(p)), p, log)
<1>1. log \in Seq(Ev) /\ Len(log) \in Nat /\ Project(p, log) \in Seq(Ev) /\ Welcome(p) \in Msg
  BY LogLength, ProjectType, SnapshotType DEF Welcome
<1>2. <<>> \o Project(p, log) = Project(p, log)
  BY <1>1, ConcatEmptySeq
<1>3. Applied(model, Welcome(p)) = [view |-> Project(p, log), cursor |-> Len(log)]
  BY <1>2 DEF Applied, Welcome, Snapshot
<1>4. Applied(model, Welcome(p)) \in Models
  BY <1>1, AppliedType
<1> QED BY <1>1, <1>3, <1>4, WholeLogIsLevel

LEMMA ResumeType ==
  ASSUME RoomInv, NEW since \in Nat
  PROVE  /\ ResumeFrom(since) \in 0 .. Len(log)
         /\ TailAfter(ResumeFrom(since)) \in Seq(Ev)
         /\ TailAfter(ResumeFrom(since)) = Rest(log, ResumeFrom(since))
<1>1. ResumeFrom(since) \in 0 .. Len(log)
  BY LogLength DEF ResumeFrom
<1>2. TailAfter(ResumeFrom(since)) = Rest(log, ResumeFrom(since))
  BY DEF TailAfter, Rest
<1> QED BY <1>1, <1>2, LogLength, Parts

LEMMA SyncResume ==
  ASSUME RoomInv, NEW model \in Models, NEW p \in Player,
         model.cursor = 0 \/ Agrees(model, p),
         NEW since \in {0, model.cursor}
  PROVE  LET from == ResumeFrom(since)
             msg  == Snapshot(p, from, Len(log), Project(p, TailAfter(from)))
         IN  msg \in Msg /\ Level(Applied(model, msg), p, log)
<1>1. PICK from : from = ResumeFrom(since)
  OBVIOUS
<1>2. since \in Nat /\ log \in Seq(Ev) /\ Len(log) \in Nat
  BY LogLength DEF Models
<1>3. /\ from \in 0 .. Len(log) /\ TailAfter(from) = Rest(log, from)
      /\ Rest(log, from) \in Seq(Ev) /\ Upto(log, from) \in Seq(Ev)
      /\ log = Upto(log, from) \o Rest(log, from)
      /\ from > 0 => from = model.cursor
  <2>1. from \in 0 .. Len(log) /\ TailAfter(from) = Rest(log, from)
    BY <1>1, <1>2, ResumeType
  <2>2. from > 0 => from = model.cursor
    BY <1>1 DEF ResumeFrom
  <2> QED BY <1>2, <2>1, <2>2, Parts
<1> DEFINE tail == Project(p, Rest(log, from))
           msg  == Snapshot(p, from, Len(log), tail)
<1>4. tail \in Seq(Ev) /\ Project(p, log) = Project(p, Upto(log, from)) \o tail
  BY <1>3, ProjectType, ProjectConcat
<1>5. msg \in Msg /\ Applied(model, msg) \in Models
  BY <1>2, <1>3, <1>4, SnapshotType, AppliedType
<1>6. /\ Applied(model, msg).cursor = Len(log)
      /\ Applied(model, msg).view = (IF from > 0 THEN model.view ELSE <<>>) \o tail
  BY DEF Applied, Snapshot
<1>7. (IF from > 0 THEN model.view ELSE <<>>) = Project(p, Upto(log, from))
  <2>1. CASE from > 0
    <3>1. model.cursor # 0 /\ from = model.cursor
      BY <1>3, <2>1
    <3> QED BY <2>1, <3>1 DEF Agrees, Upto
  <2>2. CASE ~(from > 0)
    <3>1. from = 0 /\ 1 \in Int /\ 0 \in Int /\ 0 < 1
      BY <1>3, <2>2
    <3>2. Upto(log, from) = <<>>
      BY <3>1, SubSeqEmpty DEF Upto
    <3> QED BY <2>2, <3>2, ProjectEmpty
  <2> QED BY <2>1, <2>2
<1>8. Level(Applied(model, msg), p, log)
  BY <1>2, <1>4, <1>5, <1>6, <1>7, WholeLogIsLevel
<1> QED BY <1>1, <1>3, <1>5, <1>8

(* The connection a handler attaches is new to the room and has an empty   *)
(* buffer.                                                                 *)
LEMMA Fresh ==
  ASSUME RoomInv, NEW c \in Conn, request[c] # NoRequest, NEW msg
  PROVE  c \notin subs /\ out[c] = <<>> /\ Send(out[c], msg) = <<msg>>
<1>1. c \notin subs /\ out[c] = <<>>
  BY DEF RoomInv, SeatInv, PipeInv, Waiting
<1>2. Send(<<>>, msg) = <<msg>>
  BY RoomAssumption DEF Send
<1> QED BY <1>1, <1>2

LEMMA SyncJoin ==
  ASSUME RoomInv, SyncInv, NEW g \in Page, Holds(g), NEW c \in Conn, HandleJoin(c)
  PROVE  InSync(g)'
<1> DEFINE who == subs \cup {c}
           queued(p) == [out EXCEPT ![c] = Send(@, Welcome(p))]
<1>1. PICK p \in Player :
        /\ request[c] = Join
        /\ playerID' = [playerID EXCEPT ![c] = p]
        /\ log' = log \o JoinBatch(p)
        /\ BroadcastToSubs(who, playerID', SeatsWith(p, c), queued(p), FALSE, Len(log), JoinBatch(p))
        /\ UNCHANGED pageVars
  BY DEF HandleJoin, MintsId, Commit, Player
<1>2. /\ JoinBatch(p) \in Seq(PlainEv) /\ JoinBatch(p) \in Seq(Ev)
      /\ Len(log) \in Nat /\ log \in Seq(Ev) /\ queued(p) \in [Conn -> Queues]
      /\ who \in SUBSET Conn /\ Welcome(p) \in Msg
  BY JoinPlain, JoinBatchType, LogLength, WelcomeType DEF RoomInv, SeatInv, SeatTypes
<1>3. /\ c \notin subs /\ queued(p)[c] = <<Welcome(p)>>
      /\ \A d \in Conn \ {c} : queued(p)[d] = out[d]
  <2>1. request[c] # NoRequest
    BY <1>1 DEF Join, NoRequest
  <2>2. out \in [Conn -> Queues]
    BY DEF RoomInv, PipeInv
  <2> QED BY <2>1, <2>2, Fresh
<1> DEFINE queues == queued(p)
           batch == JoinBatch(p)
           seats == SeatsWith(p, c)
<1> HIDE DEF who, queued, queues, batch, seats
<1>4. Buffered(who, playerID', seats, queues, Len(log), batch)
  BY <1>1, <1>2, BroadcastBuffers DEF queues, batch, seats
<1>5. playerID \in [Conn -> Player \cup {NoOne}]
  BY DEF RoomInv, IdsInv
<1>6. CASE socket[g] # c
  <2>1. socket[g] \in Conn \ {c} /\ socket[g] \in subs
    BY <1>2, <1>4, <1>6 DEF Holds, Connected, Buffered, who
  <2>2. Idle(g) /\ playerID'[socket[g]] = playerID[socket[g]] /\ queues[socket[g]] = out[socket[g]]
    BY <1>1, <1>3, <1>5, <2>1 DEF Idle, pageVars, queues
  <2>3. Connected(g) /\ InSync(g) /\ Connected(g)'
    BY <2>1 DEF Holds, Connected, Resumes
  <2> QED BY <1>1, <1>2, <2>2, <2>3, SyncBroadcast DEF queues, batch
<1>7. CASE socket[g] = c
  <2>1. PICK frames \in Seq(Msg) : frames = Frames(p, Len(log), batch)
    BY <1>2, FramesAreMessages DEF batch
  <2>2. PICK w \in Msg : w = Welcome(p)
    BY <1>2
  <2>3. playerID'[socket'[g]] = p /\ socket'[g] = c
    BY <1>1, <1>5, <1>7 DEF Holds
  <2>4. out'[c] = <<w>> \o frames
    <3>1. c \in subs' /\ playerID'[c] = p /\ queues[c] = <<w>>
      BY <1>3, <2>2, <2>3 DEF Holds, Connected, queues
    <3> QED BY <1>4, <2>1, <3>1 DEF Buffered
  <2>5. Model(g) \in Models
    BY DEF RoomInv, PipeInv, PageTypes, Model, Models
  <2>6. Caught(g)' = ReadEmpty(Model(g), <<w>> \o frames)
    BY <1>1, <2>3, <2>4 DEF Caught, Model, pageVars
  <2>7. ReadEmpty(Model(g), <<w>> \o frames) = ReadEmpty(Applied(Model(g), w), frames)
    <3>1. <<w>> \in Seq(Msg)
      OBVIOUS
    <3>2. ReadEmpty(Model(g), <<w>>) = Applied(Model(g), w)
      BY <2>5, ReadEmptyOne
    <3> QED BY <2>5, <3>1, <3>2, ReadEmptyConcat
  <2>8. Level(Applied(Model(g), w), p, log)
    BY <2>2, <2>5, SyncWelcome
  <2>9. Level(ReadEmpty(Applied(Model(g), w), frames), p, log \o batch)
    BY <1>2, <2>1, <2>8, LevelConcat DEF batch
  <2>10. log' = log \o batch /\ log' \in Seq(Ev)
    BY <1>1, <1>2, ConcatProperties DEF batch
  <2> QED BY <2>3, <2>6, <2>7, <2>9, <2>10, LevelAfter
<1> QED BY <1>6, <1>7

LEMMA SyncRejoin ==
  ASSUME RoomInv, SyncInv, NEW g \in Page, Holds(g), NEW c \in Conn, HandleRejoin(c)
  PROVE  InSync(g)'
<1>1. PICK p \in Player, since \in Nat :
        p = request[c].player /\ since = request[c].since /\ request[c].kind = "rejoin"
  BY DEF HandleRejoin, RoomInv, PipeInv, ConnTypes, Requests, NoRequest, Join
<1> DEFINE msg == Snapshot(p, ResumeFrom(since), Len(log), Project(p, TailAfter(ResumeFrom(since))))
<1>2. /\ playerID' = [playerID EXCEPT ![c] = p]
      /\ out' = [out EXCEPT ![c] = Send(@, msg)]
      /\ subs' \subseteq subs \cup {c} /\ log' = log /\ UNCHANGED pageVars
  BY <1>1 DEF HandleRejoin, engineVars
<1>3. c \notin subs /\ Send(out[c], msg) = <<msg>>
  <2>1. request[c] # NoRequest
    BY <1>1 DEF NoRequest
  <2> HIDE DEF msg
  <2> QED BY <2>1, Fresh
<1>4. /\ playerID \in [Conn -> Player \cup {NoOne}] /\ out \in [Conn -> Queues] /\ subs \subseteq Conn
  BY DEF RoomInv, IdsInv, PipeInv, SeatInv, SeatTypes
<1> HIDE DEF msg
<1>5. CASE socket[g] # c
  <2>1. socket[g] \in Conn \ {c} /\ socket[g] \in subs
    BY <1>2, <1>4, <1>5 DEF Holds, Connected
  <2>2. Idle(g) /\ out'[socket[g]] = out[socket[g]]
    BY <1>2, <1>4, <2>1 DEF Idle, pageVars
  <2>3. Connected(g) /\ InSync(g)
    BY <2>1 DEF Holds, Connected, Resumes
  <2> QED BY <1>2, <2>2, <2>3, SyncSame
<1>6. CASE socket[g] = c
  <2>1. p = me[g] /\ since = cursor[g]
    BY <1>1, <1>6, RoomAssumption DEF SyncInv, Listens
  <2>2. Model(g) \in Models /\ Model(g).cursor = cursor[g]
    BY DEF RoomInv, PipeInv, PageTypes, Model, Models
  <2>3. Model(g).cursor = 0 \/ Agrees(Model(g), p)
    BY <1>3, <1>6, <2>1, <2>2 DEF Holds, Resumes, Connected
  <2>4. msg \in Msg /\ Level(Applied(Model(g), msg), p, log)
    BY <2>1, <2>2, <2>3, SyncResume DEF msg
  <2>5. Caught(g)' = ReadEmpty(Model(g), <<msg>>) /\ playerID'[socket'[g]] = p
    BY <1>2, <1>3, <1>4, <1>6 DEF Caught, Model, pageVars
  <2>6. ReadEmpty(Model(g), <<msg>>) = Applied(Model(g), msg)
    BY <2>2, <2>4, ReadEmptyOne
  <2> QED BY <1>2, <2>4, <2>5, <2>6, LogLength, LevelAfter
<1> QED BY <1>5, <1>6

LEMMA SyncCommand ==
  ASSUME RoomInv, NEW g \in Page, Holds(g), NEW cmd \in Cmd, cmd.kind # "reset_game",
         NEW armed, CommitHere(cmd, armed), UNCHANGED playerID, UNCHANGED pageVars
  PROVE  InSync(g)'
<1> DEFINE batch == Emits(game, cmd)
<1>1. /\ log' = log \o batch
      /\ BroadcastToSubs(subs, playerID, slot, out, emptySince, Len(log), batch)
  BY DEF CommitHere, Commit
<1>2. batch \in Seq(PlainEv)
  BY EmitsPlain DEF RoomInv, EngineInv
<1>3. subs' \subseteq subs /\ subs \in SUBSET Conn /\ out \in [Conn -> Queues]
  BY <1>1 DEF BroadcastToSubs, RoomInv, PipeInv, SeatInv, SeatTypes
<1>4. Connected(g) /\ InSync(g) /\ Connected(g)' /\ Idle(g)
  BY <1>3 DEF Holds, Connected, Resumes, Idle, pageVars
<1> HIDE DEF batch
<1> QED BY <1>1, <1>2, <1>3, <1>4, SyncBroadcast

LEMMA SyncOfReset ==
  ASSUME RoomInv, NEW g \in Page, Holds(g), NEW c \in Conn, HandleReset(c)
  PROVE  InSync(g)'
<1>1. /\ log' = ResetBatch /\ UNCHANGED <<playerID, pageVars>>
      /\ BroadcastToSubs(subs, playerID, slot, out, emptySince, 0, ResetBatch)
  BY DEF HandleReset
<1>2. /\ subs' \subseteq subs /\ subs \in SUBSET Conn /\ out \in [Conn -> Queues]
      /\ ResetBatch \in Seq(Ev) /\ 0 \in Nat
  BY <1>1, ResetBatchIs DEF BroadcastToSubs, RoomInv, EngineInv, PipeInv, SeatInv, SeatTypes
<1>3. Connected(g) /\ Connected(g)' /\ Idle(g)
  BY <1>1, <1>2 DEF Holds, Connected, Idle, pageVars
<1>4. Buffered(subs, playerID, slot, out, 0, ResetBatch)
  BY <1>1, <1>2, BroadcastBuffers
<1>5. out'[socket[g]] = out[socket[g]] \o Frames(playerID[socket[g]], 0, ResetBatch)
  BY <1>3, <1>4 DEF Buffered, Connected, Idle
<1> QED BY <1>1, <1>3, <1>5, SyncReset

(* A refusal tells a tab nothing about the game. *)
LEMMA SyncRefuse ==
  ASSUME RoomInv, NEW g \in Page, Holds(g), NEW c \in Conn, RefuseCommand(c)
  PROVE  InSync(g)'
<1>1. /\ out' = [out EXCEPT ![c] = Send(@, Refusal)]
      /\ UNCHANGED <<log, subs, playerID>> /\ UNCHANGED pageVars
  BY DEF RefuseCommand
<1>2. Connected(g) /\ InSync(g) /\ Idle(g)
  BY <1>1 DEF Holds, Connected, Resumes, Idle, pageVars
<1>3. out \in [Conn -> Queues] /\ socket[g] \in Conn
  BY <1>2, CaughtType DEF RoomInv, PipeInv
<1>4. CASE out'[socket[g]] = out[socket[g]]
  BY <1>1, <1>2, <1>4, SyncSame
<1>5. CASE out'[socket[g]] # out[socket[g]]
  <2>1. out'[socket[g]] = Append(out[socket[g]], Refusal)
    BY <1>1, <1>3, <1>5 DEF Send
  <2>2. PICK queue \in Seq(Msg) : queue = out[socket[g]]
    BY <1>2, CaughtType
  <2>3. Model(g) \in Models /\ Model(g)' = Model(g) /\ log \in Seq(Ev)
    BY <1>2, CaughtType, LogLength DEF Idle, Model
  <2>4. ReadEmpty(Model(g), Append(queue, Refusal)) = Applied(ReadEmpty(Model(g), queue), Refusal)
    BY <2>3, RefusalType, ReadEmptyAppend
  <2>5. \A model : Applied(model, Refusal) = model
    BY DEF Applied, Refusal
  <2>6. Caught(g)' = Caught(g) /\ playerID'[socket'[g]] = playerID[socket[g]]
    BY <1>2, <2>1, <2>2, <2>3, <2>4, <2>5 DEF Caught, Idle
  <2> QED BY <1>1, <1>2, <2>3, <2>6, LevelBefore, LevelAfter
<1> QED BY <1>4, <1>5

(* A delivery takes from the buffer what it adds to the model. *)
LEMMA SyncDelivery ==
  ASSUME RoomInv, SyncInv, NEW g \in Page, Holds(g), NEW h \in Page, Deliver(h)
  PROVE  InSync(g)'
<1>1. /\ UNCHANGED <<log, subs, playerID>>
      /\ socket[h] # NoConn /\ out[socket[h]] # <<>>
      /\ out' = [out EXCEPT ![socket[h]] = Tail(@)]
      /\ view' = [view EXCEPT ![h] = Applied(Model(h), Head(out[socket[h]])).view]
      /\ cursor' = [cursor EXCEPT ![h] = Applied(Model(h), Head(out[socket[h]])).cursor]
  BY DEF Deliver, engineVars
<1>2. Connected(g) /\ InSync(g) /\ socket'[g] = socket[g]
  BY <1>1 DEF Holds, Connected, Resumes
<1>3. /\ out \in [Conn -> Queues] /\ view \in [Page -> Seq(Ev)] /\ cursor \in [Page -> Nat]
      /\ socket[h] \in Conn
  BY <1>1 DEF RoomInv, PipeInv, PageTypes
<1>4. CASE g # h
  <2>1. socket[g] # socket[h]
    BY <1>1, <1>4 DEF SyncInv
  <2>2. socket[g] \in Conn
    BY <1>2, CaughtType
  <2>3. Idle(g) /\ out'[socket[g]] = out[socket[g]]
    BY <1>1, <1>2, <1>3, <1>4, <2>1, <2>2 DEF Idle
  <2> QED BY <1>1, <1>2, <2>3, SyncSame
<1>5. CASE g = h
  <2>1. PICK queue \in Seq(Msg) : queue = out[socket[g]] /\ queue # <<>>
    BY <1>1, <1>2, <1>5, CaughtType
  <2>2. Model(g) \in Models /\ Head(queue) \in Msg /\ log \in Seq(Ev)
    BY <1>2, <2>1, CaughtType, LogLength
  <2>3. Applied(Model(g), Head(queue)) \in Models
    BY <2>2, AppliedType
  <2>4. Model(g)' = Applied(Model(g), Head(queue))
    BY <1>1, <1>3, <1>5, <2>1, <2>3 DEF Model, Models
  <2>5. out'[socket'[g]] = Tail(queue)
    BY <1>1, <1>2, <1>3, <1>5, <2>1
  <2>6. Caught(g)' = Caught(g)
    BY <2>1, <2>2, <2>4, <2>5, ReadEmptyNext DEF Caught
  <2>7. playerID'[socket'[g]] = playerID[socket[g]]
    BY <1>1, <1>2
  <2> QED BY <1>1, <1>2, <2>2, <2>6, <2>7, LevelBefore, LevelAfter
<1> QED BY <1>4, <1>5

(* Nothing else reaches the buffer of a subscriber. *)
LEMMA SyncElsewhere ==
  ASSUME RoomInv, NEW g \in Page, Holds(g), subs' \subseteq subs, log' = log,
         UNCHANGED <<playerID, view, cursor>>,
         \A c \in subs' : out'[c] = out[c]
  PROVE  InSync(g)'
<1>1. Connected(g) /\ InSync(g) /\ Idle(g) /\ socket[g] \in subs'
  BY DEF Holds, Connected, Resumes, Idle
<1> QED BY <1>1, SyncSame

LEMMA SyncOthers ==
  ASSUME RoomInv, NEW g \in Page, Holds(g),
         NEW c \in Conn, RefuseJoin(c) \/ HandleLeave(c)
  PROVE  InSync(g)'
<1>1. CASE RefuseJoin(c)
  <2>1. /\ request[c] # NoRequest /\ out' = [out EXCEPT ![c] = Send(@, Refusal)]
        /\ UNCHANGED <<log, subs, playerID, view, cursor>>
    BY <1>1 DEF RefuseJoin, MintsId, Join, NoRequest, engineVars, pageVars
  <2>2. c \notin subs /\ subs \subseteq Conn /\ out \in [Conn -> Queues]
    BY <2>1 DEF RoomInv, SeatInv, SeatTypes, PipeInv
  <2>3. \A d \in subs' : out'[d] = out[d]
    BY <2>1, <2>2
  <2> QED BY <2>1, <2>3, SyncElsewhere
<1>2. CASE HandleLeave(c)
  <2>1. /\ running /\ out' = [out EXCEPT ![c] = <<>>]
        /\ UNCHANGED <<log, playerID, view, cursor>>
        /\ (subs' = subs /\ c \in closed) \/ subs' = subs \ {c}
    BY <1>2 DEF HandleLeave, engineVars, pageVars
  <2>2. subs \subseteq Conn /\ out \in [Conn -> Queues] /\ subs \cap closed = {}
    BY <2>1 DEF RoomInv, SeatInv, SeatTypes, Attached, PipeInv
  <2>3. subs' \subseteq subs /\ \A d \in subs' : out'[d] = out[d]
    BY <2>1, <2>2
  <2> QED BY <2>1, <2>3, SyncElsewhere
<1> QED BY <1>1, <1>2

LEMMA SyncTransport ==
  ASSUME RoomInv, NEW g \in Page, Holds(g),
         \/ \E h \in Page, c \in Conn : OpenJoin(h, c) \/ Reconnect(h, c)
         \/ \E c \in Conn : PumpsExit(c)
         \/ Cancel
         \/ UNCHANGED vars
  PROVE  InSync(g)'
<1>1. ASSUME NEW h \in Page, NEW c \in Conn, OpenJoin(h, c) \/ Reconnect(h, c)
      PROVE  InSync(g)'
  <2>1. /\ stage[c] = "unused" /\ socket' = [socket EXCEPT ![h] = c]
        /\ UNCHANGED <<log, subs, playerID, out>>
        /\ \A k \in Page : k # h => view'[k] = view[k] /\ cursor'[k] = cursor[k]
    BY <1>1 DEF OpenJoin, Reconnect, Connect, roomVars, engineVars, subVars, RoomInv,
         PipeInv, PageTypes
  <2>2. c \notin subs
    BY <2>1 DEF RoomInv, SeatInv
  <2>3. socket[g] \in subs /\ socket'[g] = socket[g]
    BY <2>1 DEF Holds, Connected
  <2>4. g # h
    BY <2>1, <2>2, <2>3 DEF RoomInv, PipeInv, PageTypes
  <2>5. Connected(g) /\ InSync(g) /\ Idle(g)
    BY <2>1, <2>3, <2>4 DEF Holds, Connected, Resumes, Idle
  <2> QED BY <2>1, <2>5, SyncSame
<1>2. ASSUME UNCHANGED <<log, subs, playerID, out, view, cursor>>
      PROVE  InSync(g)'
  BY <1>2, SyncElsewhere
<1>3. ASSUME NEW c \in Conn, PumpsExit(c) PROVE InSync(g)'
  BY <1>2, <1>3 DEF PumpsExit, roomVars, engineVars, subVars
<1>4. CASE Cancel
  BY <1>2, <1>4 DEF Cancel, subVars, pageVars
<1>5. CASE UNCHANGED vars
  BY <1>2, <1>5 DEF vars, engineVars, subVars, pageVars
<1> QED BY <1>1, <1>3, <1>4, <1>5

(* When the room gives up its subscribers no tab is attached. *)
LEMMA NobodyAttached ==
  ASSUME NEW g \in Page, Holds(g), subs' = {}
  PROVE  FALSE
  BY DEF Holds, Connected

LEMMA PanicDetaches ==
  ASSUME Panic
  PROVE  subs' = {}
<1>1. ASSUME NEW entries, NEW attached, NEW seats, NEW queues,
             RecoverFromPanic(entries, attached, seats, queues)
      PROVE  subs' = {}
  BY <1>1 DEF RecoverFromPanic
<1>2. ASSUME NEW cmd, PanicWhile(cmd) PROVE subs' = {}
  BY <1>1, <1>2 DEF PanicWhile
<1>3. ASSUME NEW c \in Conn, PanicInJoin(c) PROVE subs' = {}
  BY <1>1, <1>3 DEF PanicInJoin
<1>4. ASSUME NEW c \in Conn, PanicInRejoin(c) PROVE subs' = {}
  BY <1>1, <1>4 DEF PanicInRejoin
<1>5. ASSUME NEW c \in Conn, PanicInReset(c) PROVE subs' = {}
  BY <1>1, <1>5 DEF PanicInReset
<1> QED BY <1>2, <1>3, <1>4, <1>5 DEF Panic, PanicInCommand, PanicInTimer

LEMMA SyncKept ==
  ASSUME RoomInv, SyncInv, [Next]_vars, NEW g \in Page, Holds(g)
  PROVE  InSync(g)'
<1>1. ASSUME NEW c \in Conn, NEW kind \in PlayerCommands, HandleCommand(c, kind)
      PROVE  InSync(g)'
  <2>1. PICK cmd \in Cmd : cmd = Command(kind, playerID[c]) /\ cmd.kind # "reset_game"
    BY PlayerCommandType DEF RoomInv
  <2> QED BY <1>1, <2>1, SyncCommand DEF HandleCommand
<1>2. ASSUME NEW kind \in AdvancePhase, HandlePhaseTimer(kind)
      PROVE  InSync(g)'
  <2>1. PICK cmd \in Cmd : cmd = Command(kind, NoOne) /\ cmd.kind # "reset_game"
    BY AdvanceType
  <2>2. UNCHANGED playerID /\ UNCHANGED pageVars
    BY <1>2 DEF HandlePhaseTimer
  <2>3. CASE CommitHere(cmd, NoTimer)
    BY <2>1, <2>2, <2>3, SyncCommand
  <2>4. CASE UNCHANGED <<log, subs, out>>
    BY <2>2, <2>4, SyncElsewhere DEF pageVars
  <2> QED BY <1>2, <2>1, <2>3, <2>4 DEF HandlePhaseTimer
<1>3. ASSUME RunExits PROVE InSync(g)'
  BY <1>3, NobodyAttached DEF RunExits
<1>4. ASSUME Panic PROVE InSync(g)'
  BY <1>4, PanicDetaches, NobodyAttached
<1>5. ASSUME RoomStep PROVE InSync(g)'
  BY <1>1, <1>2, <1>5, SyncJoin, SyncRejoin, SyncOthers, SyncOfReset, SyncRefuse DEF RoomStep
<1>6. ASSUME Transport PROVE InSync(g)'
  BY <1>6, SyncTransport, SyncDelivery DEF Transport
<1> QED BY <1>3, <1>4, <1>5, <1>6, SyncTransport DEF Next, Closing

(* Whatever the buffers, evictions, slow disconnects, resets and           *)
(* recoveries, no event is lost, repeated or reordered on the way to a tab *)
(* that stays attached (broadcastToSubs, handleRejoin, events.js).         *)
THEOREM ATabStaysInSync == Spec => TabsStayInSync
<1> DEFINE Kept == \A g \in Page :
       Connected(g)' =>
         LET before == IF Connected(g) THEN InSync(g)
                       ELSE cursor[g] = 0 \/ Agrees(Model(g), me[g])
         IN  (socket'[g] = socket[g] /\ before) => InSync(g)'
<1>1. Init => SyncInv
  BY SyncInit
<1>2. RoomInv /\ SyncInv /\ [Next]_vars => SyncInv'
  BY SyncStep
<1>3. RoomInv /\ SyncInv /\ [Next]_vars => [Kept]_vars
  <2> SUFFICES ASSUME RoomInv, SyncInv, [Next]_vars, NEW g \in Page, Holds(g)
               PROVE  InSync(g)'
    BY DEF Holds, Resumes
  <2> QED BY SyncKept
<1> QED BY <1>1, <1>2, <1>3, RoomInvariant, PTL DEF TabsStayInSync, Spec
===============================================================================
