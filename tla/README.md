# Mafia: a TLA+ development of the game server

This directory models the server of the party game Mafia (`src/`, Go) in TLA+,
model-checks it with TLC and proves part of it with TLAPS. Five layers are modelled:
the **game engine**, a pure state machine; the **projection**, which decides who sees
what of a game; the **room**, the goroutine that runs one engine for a set of browser
tabs that come and go; the **connections**, the goroutines that feed it; and the
**manager**, which creates rooms and reaps them.

## 1. The system

```
 browser tab ──ws──▶ readPump ──submit──▶ inbox ─▶ Room.Run ──Apply──▶ Game (engine)
      ▲                join reaper                   │   ▲ phase timer     │ events
      └────────── writePump ◀── Subscriber.out ◀─────┘   └─ AdvancePhase   ▼
                                  projection      log, journal ◀── broadcast
 Manager: code → Room;  sweeper nudges rooms, shutdown cancels them
```

| Component | State | Operations | What makes it correct |
|---|---|---|---|
| Role registry (`game/role.go`, `rolespec.go`) | none | faction, who acts, whom | tables agree with the rules that read them |
| Engine (`game/rules*.go`, `state.go`, `guards.go`) | roster, roles, the living, night turns and deeds, votes | 20 commands, each atomic: error or state change and events | one faction deed a night, blocks bind, deaths and role changes explained, sound ballots, promotion before the win check, nothing survives a night or a reset that must not |
| Projection (`game/projection.go`) | none | filter of the log per viewer | nobody sees more, or later less, than their role and life allow |
| Room actor (`room/room.go`, `broadcast.go`, `subscriber.go`) | engine, event log, player slots, subscribers with bounded buffers, host, clocks | join, rejoin, leave, command, reset, lifetime check, close | every attached tab can reconstruct the log as its player may see it; one live connection per player; no send on a closed channel |
| Timer and recovery (`room/timers.go`, `recovery.go`) | phase timer, journal, recovery count | arm, stop, fire; replay after a panic | a night has a timer for its sub-phase; the journal always rebuilds the live room |
| Connection (`transport/ws/handler.go`, `pumps.go`) | two pumps, a context, a join deadline | connect, read, write, ping, reap | an abandoned connection ends and tells the room, last of all; a seat that has passed on is not emptied by a late leave |
| Manager (`room/manager.go`, `cmd/server/main.go`) | code → room, capacity, a sweeper, the shutdown | create, get, sweep, reap, close | a room is registered as long as it may do something; the cap holds; unwanted rooms go; nothing runs after a clean shutdown |
| Client (`web/events.js`) | last sequence number, a model of the game | apply a snapshot, a tail, an event; reconnect | the cursor never skips or repeats an event; the roles it shows are those its player may know |
| Metrics gauges | two counters | up, down | they agree with the registry and the subscribers |
| Codec and wire types, HTTP routing, configuration | none a decision reads | — | not modelled: a mapping and plumbing |

What is hard: submissions race the night's timer and each other; blocks, recruits,
shots, saves and promotions of one night interact; the reset drops state field by
field; visibility is asked anew each time an event is sent, of players who have died
or changed sides since; buffers fill in the middle of a batch; a tab comes back on a
new connection while the old one's messages are queued; a panic interrupts a handler
half-way and the room rolls back to its journal; cursors outlive the log they point
into; a submit looks at a context and then blocks on a channel nobody may be reading;
rooms are created at the cap while others remove themselves. Each is listed under
`hazards` in `PROJECT.json` with the properties that watch it.

## 2. The modules

| Module | Models |
|---|---|
| `MafiaRoles` | roles, factions, what a role may do at night |
| `GameState` | the engine's state, its guards and counters |
| `MafiaGame` | every engine command as one action; night resolution, dawn, lynch, reset |
| `MafiaGameProps` | the engine's properties and its refinement mapping |
| `HiddenRoleGame` | the abstract game: people are dealt sides, die, are turned; it is over exactly when a side has won |
| `MCGame`, `MCNight` | instances: a whole room from the lobby; nights of a dealt board |
| `Projection`, `ProjectionProps` | log, audiences and tabs composed with `MafiaGame`; secrets kept and shared |
| `MCProjection` | its instance |
| `RoomEngine` | the engine as the room sees it: which commands a phase accepts, which events they emit |
| `Room`, `RoomProps` | the room, its timer and recovery, its connections and the tabs behind them |
| `MCRoom` | instances: a room from the start or from the middle of a game |
| `Connection`, `ConnectionProps` | the goroutines of a room's connections and its run loop |
| `Seating` | the abstract seats: who may sit down, take over and get up |
| `Manager`, `ManagerProps` | the registry, its rooms, the sweeper and the shutdown |
| `MafiaGameProofs`, `OutcomeProofs` | theorems of the engine: types, votes, nights, the moderator's cues and the private notices; how a game starts and ends, and the abstract game |
| `ProjectionProofs` | theorems of the projection |
| `RoomProofs`, `TabProofs` | theorems of the room, and of the tabs that read its messages |
| `ConnectionProofs`, `ManagerProofs` | theorems of the connections, with the abstract seats, and of the manager |
| `FoldLemmas` | lemmas about folds over sequences that the proofs of room and projection use |

### The engine

Every variable of `GameState` is a field of `GameState` or of its players, under the
same name; an action of `MafiaGame` is a command's `apply…` method with all it
calls. The guards keep the order of the code's early returns only where it matters
to the state (it never does: a refused command changes nothing). Left out: names,
ids, seeds, the day number, event texts. The shuffle is any deal with the right
seats. `notices` collects the private events of the current night with their
addressee, so that what players are told can be compared with what happens.
The five sub-phases of a turn are the code's; `AdvancePhase` is the timer's command.

### The projection

`Projection` adds three variables to the engine: `log`, the events so far, each as
kind, audience and the roles it names; `tab`, for every player the tab that has never
lost its connection; and `stale`, for every player the tabs as they were at each
earlier moment. `CanSee` is `canSee`, over its four audiences (public, one player,
one faction, the dead). The properties compare, at every state, the tab that saw
everything live, a resume from every cursor (`Resumed`) and a rebuild from nothing
(`Rebuilt`), all projected by the board of that moment as the room does. A batch is
logged as the code emits it, in the same order: a roster before or after a promotion
makes a difference to what the dead see. Events that name no role are left out but for
one public `Cue` that lets a cursor fall inside or after a batch. One game is modelled;
what a reset does to cursors is `Room`'s subject.

`OneGameSpec` is a game from the empty lobby to its end, by every command of the engine
but the reset; the theorems are about it. The run starts at the deal instead: its first
states are boards `Deal` leaves behind, and each of its steps is a step of `OneGameNext`.

### The room

The room is one goroutine, so a handler is one action. Its inbox keeps the messages
of one connection in order and mixes connections; `Room` gives every connection one
pending `request` (its join or rejoin), lets it issue commands after that until its
leave is handled, and lets the room take connections in any order. That is the
inbox's every order without its contents.

| Variables | Code |
|---|---|
| `game`, `log`, `journal`, `timer`, `host`, `slot`, `subs`, `nextSeq`, `recoveries`, `emptySince`, `cancelled`, `running` | fields of `Room` (`players` is `slot`, `events` is `log`; `timer` holds the sub-phase it was armed for, a ghost of the code's duration) |
| `playerID`, `out`, `closed` | `Subscriber` |
| `stage`, `request` | `Handler.Connect` and its pumps |
| `me`, `socket`, `view`, `cursor` | the tab: credentials, socket, applied events, `lastSeq` |

Panics: any handler but the leave may panic. Nothing of a handler is journaled before
its end, except a reset, so the actions `PanicIn…` are the handler cut short: some
viewers have the batch, at most one has a part of it, and `RecoverFromPanic`
rebuilds engine and log, re-arms the timer and closes every connection; or, past
the budget, ends the room. In a join the slot and the host survive the rollback, as
in the code; a rejoin that panics before it attaches is never answered.

`RoomEngine` abstracts the engine. Recovery relies on the engine being
deterministic in its commands; what the abstraction cannot compute (whether a night
goes on, ends, or ends the game) is part of the command, so a replay takes the same
branch. Visibility is public or one player's.

Left out of `Room`: a rejoin with wrong credentials and a second join on the same
connection (both in `Connection`), the joinability query, the arithmetic of lifetimes
(`Cancel` may strike at any time; the two policies are in `Manager`), metrics, names,
deadlines stamped on events.

### The connections

`Connection` takes apart what `Room` keeps in one step. For each connection: `at`, how
far `Connect` has come; `reading` and `writing`, the pumps that run; `live`, the
connection's context; `sending`, the message a `submit` is blocked on; `fresh`, whether
a join reaper waits for it. A submit is two steps, the look at the room's context and
the select on the inbox, so the room may fill, be cancelled or stop in between. The
room is its loop: take a message, handle it (refuse, attach, evict, detach, drop the
slow, recover from a panic), leave the loop when cancelled. Of an outbound channel only
"has something in it" (`unread`) and "closed" are kept, and it may be found full
whenever it is not empty. The games themselves are `Room`'s subject.

`Seating` is what the seats promise to somebody who sees only who sits where.

### The manager

A room has a `stage` (unused, running, stopping, done, removed, gone) that its two
goroutines move: its loop and the one that waits for it, removes it from the registry
and counts it out. The mutex makes creation, lookup, the sweeper's snapshot and the
removal one step each. The sweeper nudges the rooms of its snapshot one by one, and
skips a full inbox; a nudge becomes `handleLifetimeCheck` when the room gets to it.
Time is two thresholds, `old` (MaxLifetime) and `people[r] = "gone"` (empty for
EmptyTTL); people may come back until the check. `main` drains its requests, closes the
manager, waits for the rooms it saw, and exits; or its deadline passes while a request
or a room is still running, and it exits without.

No module a theorem is about uses a `RECURSIVE` operator.

## 3. The runs

| Run | Question | Instance and bounds |
|---|---|---|
| `small` | ballots, tallies, lynches, the reset, the bullet, over whole games | 4 players, all commands, symmetry |
| `game` | the engine implements `HiddenRoleGame`; a game ends exactly when decided | 5 players (the fewest with a consort or a yakuza); by day the living vote for one player only |
| `takeover` | one faction deed, blocks, kills, saves, recruits, promotion, cadence over several nights | 7 seats with mafioso, yakuza, consort, detective, vigilante, doctor, villager; a night begins while at most 2 are dead |
| `watchers` | detective and tracker are told what dawn confirms | 7 seats with every special role, first night |
| `projection` | who knows which roles, however connected; every night ends | 7 seats with mafioso, yakuza, consort, detective, doctor, or 5 with a vigilante; 2 nights and the lynches between and after them; the table votes for a mafioso or a consort |
| `room` | slots, buffers, cursors, timer, journal, under every order of joins, reconnects, panics and the end | 2 tabs, 3 connections, buffers of 3, 1 recovery per window, at most 2 commands or panics from each of five points of a game |
| `connection` | seats, the gauge, the last word of a handler; everything that should end ends | a newcomer and a returning connection, 1 seat, an inbox of 1 |
| `manager` | registration, the cap, codes used again, sweep and reap, shutdown | 2 rooms, 2 codes, cap 2, 1 creating request at a time, inboxes of 1, 2 messages from players |
| `stale_cursor`, `ghost_host` | a statement of the room's comments that does not hold | `MCRoom`'s instance, from the state that shows it |
| `hung_rejoin`, `second_join` | a statement about connections that does not hold | `connection`'s instance, in the second with an inbox of 2, 2 seats and clients that may join twice |

Why the bounds are enough. Four players are the fewest a game takes and have a tie,
a majority and a lost majority among 4, 3 and 2 living. Seven seats are the fewest
that hold the mafioso, the yakuza and the consort; the second night of `takeover`
begins on boards that have lost each of them, by lynch or at night. The roles a run
silences let their windows time out; the detective's reading and the tracker's are
`watchers`' business. In `projection` two nights suffice for a recruit and a promotion
in either order with a death before, between and after. In the room a batch has at most
two events and the buffer three places, so a buffer fills between two batches and inside
one; three connections give one tab an old, a new and a rival connection; one recovery
per window reaches both the rebuild and the exhausted budget. `MidGame` starts are
states the room reaches by the commands named in `MCRoom`, with every buffer read.
`MCNight` starts are boards the deal can produce. A connection is used once, so two of
them meet in every way two can: in one seat, one queued behind the other, one blocked
while the other's leave is handled; more of either are covered by the theorems. Two
rooms and two codes at cap 2 leave a code to be used again while its first room's
removal is still to come; the messages are bounded so that inboxes are not kept full
for ever. `CHECK_DEADLOCK FALSE` is set where runs stop on purpose: a decided board
without the reset, a closed room, connections all used, an exited process.

Each property of a passing run has a mutant of a mapped definition that breaks it
(the definitions commented "Mutant:", beside their originals).

### What the runs found

- `stale_cursor`: `handleRejoin` accepts any cursor up to the length of the log. A
  tab that was away during a reset and returns after the new log has grown past its
  old cursor gets a tail of the new game on top of the old one. Started from a lobby
  (`After(Lobby, 2)`) the same property also fails after a recovery: the tab has
  read an event that was rolled back and whose number another event has taken.
- `ghost_host`: a panic in the first join, after the host is set, is rolled back in
  engine and log but not in `host` and `slot`; the room keeps a host nobody is told of.
- `hung_rejoin`: a rejoin still in the inbox when the room's loop ends is never
  answered, its channel never closed, and a rejoin has no deadline: its pumps run on
  while the client answers pings, although `handler.go:65-67` promises that the end of
  the manager's context breaks them.
- `second_join`: nothing refuses a second join frame on a connection; it mints a second
  player and counts the subscriber twice, although `broadcast.go:226` calls an attach
  "always a fresh add".

### Where comments differ from the code

The model follows the code. These comments of the repository say something else of it
(paths under `src/internal/game/` unless given).

Two properties decide a question on which the repository's own comments disagree:

- `ConvertToldOnce`: a convert with a turn that the consort blocked too is told
  `Recruited` at its turn and is never told `Blocked`. So the code
  (`rules_phase.go:172-181`, and no notice at dawn, `rules_night.go:413-420`) and its
  comments (`rules_phase.go:168-171`, `rules_night.go:386-391`). The client's comments
  describe another protocol: "distracted" at the turn and `recruited` at resolution
  (`src/web/events.js:435-437`, `571-573`). `event.go:341-343` has every target learn
  at resolution only, which is so for villagers.
- `CabalIsKnown`: a re-issued roster is the whole faction, dead members and the yakuza
  included, with the `Yakuza` field set. So the code (`state.go:333-384`,
  `rules_night.go:429-435`). `rules_night.go:397-398` says "minus the dead Yakuza";
  `src/web/events.js:450-464` says it "lists only the LIVING members" and omits the
  field. The client merges rosters and adopts a field that is there, so it shows the
  faction right under either reading; a convert knows the dead only because the code
  does what it does.

Others are narrower or older than the code:

- The day's vote. `command.go:161-167` and `273-276`: a finalize needs a unique
  plurality, which is lynched, and is otherwise rejected. It always ends the day, and
  lynches on a strict majority of the living (`LynchedByLivingMajority`,
  `MajorityIsLynched`). `state.go:106`: the abstentions are reset wherever the votes
  are; the reset of the game drops the votes only (`rules.go:402`; `LobbyIsFresh` leaves
  the abstentions out). `phase.go:30-34`: the tally is public; it is hidden until
  revealed.
- The win. `role.go:84-88` and `state.go:560`: the mafia win at parity. `checkWin` wants
  strictly more mafia than town, or one against one (`EndsExactlyWhenDecided`).
  `rules_phase.go:502` and `555`, and the mafia's and the consort's sections of
  `src/docs/role-state-transitions.md`, speak of `RoleMafia`; the code counts
  `FactionMafia`, the yakuza too, and so lets a lone yakuza hold the mafia's turn
  (`rules_phase.go:482` says a mafioso always does) and the consort wait for its death
  (`NeverHeadless`).
- The deal. `command.go:26`, `42-44`, `59`, `71`, `85`, `98`: at most players - 3 mafia
  and at least one villager. The setting allows two less than the largest lobby; the deal asks
  for a strict town majority and deals no villager if the roles fill the table.
- The night. `event.go:366`: `PlayerKilled` is for the mafia's target; it is for the
  vigilante's and the yakuza's own death too (`DeathsExplained`). `rules_phase.go:565`:
  only the vigilante kills a mafioso at night; a yakuza may be the faction's own target.
  `rules_night.go:463`: the consort targets no mafioso; she may, without effect.
  `event.go:376`: `Blocked` tells of an action that was lost; a vigilante whose bullet
  is spent is told as well. `event.go:262`: a turn is phantom for want of a holder; also
  for one who is blocked, recruited or out of bullets. `state.go:336`: the consort's is
  the only change of role; recruits change theirs (`RoleChangesExplained`).
  `role.go:102`: the consort reads as mafia to the detective; she reads as town
  (`rules_night.go:151`).
- The phases. `phase.go:37` and `errors.go:68`: nothing is accepted after the end; the
  reset is. `event.go:161`: `GameStarted` is the step to the first night; the deal stays
  in the lobby.
- The room. `room.go:257-260` in `src/internal/room/`: a submit to a closed room always
  fails. A cancel between its look and its select leaves the choice to the select, and
  `Enqueue` and `SubmitOther` allow the send.

### Fairness

- `projection`: `WF_vars(AdvancePhase)` alone. The room arms a timer in the same step
  in which a night sub-phase begins, and nothing but the next sub-phase, a step out of
  the night or the end of the room stops it; `NightIsTimed`, checked of `Room`, is that
  claim.
- `connection`: every goroutine that can run does (weak fairness of the room's loop, of
  each pump, of the handler's end and of the reaper, whose timer fires); `Enqueue` is
  strongly fair, because a Go channel serves its blocked senders in turn. A pump's
  `ReadFails` and `WriteEnds` are fair because pings and write deadlines are: a client
  that is gone is found out.
- `manager`: every goroutine that can run does, and the ticker ticks.

No fairness is assumed of players, of the host, of clients, of requests or of time, nor
that a room ever closes.

## 4. The proofs

| Theorem | Property | of |
|---|---|---|
| `TypeCorrect` | `TypeOK` | `MafiaGame` |
| `BallotsAreSound`, `RevealedTallyIsComplete` | `BallotsSound`, `RevealedTallyComplete` | |
| `RevealedTallyIsFrozen` | no ballot and no life changes while a tally is revealed (proved only) | |
| `LynchIsByMajority`, `MajorityIsNeverLost` | `LynchedByLivingMajority`, `MajorityIsLynched` | |
| `GameEndsExactlyWhenDecided`, `GameIsNeverHeadless`, `ResetLobbyIsFresh` | `EndsExactlyWhenDecided`, `NeverHeadless`, `LobbyIsFresh` | |
| `FactionActsOnceANight`, `DeedsAreTonights`, `NeutralizedAreSilent` | `FactionActsOnce`, `NoStaleDeeds`, `NeutralizedNeverActs` | |
| `NightDeathsAreExplained`, `OneBulletPerGame`, `RolesChangeByCause` | `DeathsExplained`, `OneBullet`, `RoleChangesExplained` | |
| `EveryNightIsCalledAlike` | `SameCadenceEveryNight` | |
| `ConvertsAreToldOnce`, `DetectivesReadDawn`, `TrackersFindTheVictim` | `ConvertToldOnce`, `DetectiveHoldsAtDawn`, `TrackerFindsTheVictim` | |
| `EngineImplementsGame` | `ImplementsHiddenRoleGame` | |
| `TheLivingLearnNoRole`, `TheCabalIsKnown`, `TheDeadSeeTheBoard`, `EveryResumeAgrees` | `LivingLearnNoRole`, `CabalIsKnown`, `DeadSeeTheBoard`, `ResumesAgree` | `Projection` (`OneGameSpec`) |
| `TypesAreKept`, `SlotsAreTheSubscribers` | `TypeOK`, `SlotsMatchSubscribers` | `Room` |
| `TheJournalRebuildsTheRoom`, `ANightIsTimed` | `JournalRebuildsRoom`, `NightIsTimed` | |
| `AClosedChannelGetsNothing`, `ATabStaysInSync` | `NoSendAfterClose`, `TabsStayInSync` | |
| `ConnectionTypeCorrect`, `GaugeIsExact`, `LeavesAreLast`, `SeatsAreKept` | `TypeOK`, `GaugeCountsSubscribers`, `LeaveComesLast`, `ImplementsSeating` | `Connection` |
| `ManagerTypeCorrect`, `RoomsAreRegistered`, `ShutdownIsClean` | `TypeOK`, `LiveRoomsAreRegistered`, `CleanShutdown` | `Manager` |

The assumptions are those the modules state of their constants: for the engine any
finite set of players and all bounds `applyCreateGame` accepts (`PlayerAssumption`,
`BoundsAssumption`); for `Manager` finite sets of rooms and codes and positive bounds;
for `Room` any tabs, connections and buffer size, and any bounds on commands and
recoveries; for `Connection` any connections and capacity. What is proved of connections assumes in
addition that clients join once (`~JoinsAgain`), and has to: `second_join` is the
counterexample without it.

The arguments:

- **Types.** `TypeOK` is inductive. It is split into Boolean flags and data, since
  one prover handles the first well and the other the second.
- **Votes.** `VoteInv` adds that a revealed tally is complete *and* that the counted
  gate of the reveal (`votesCastCount() ≥ living`) means completeness: each living
  voter is counted once because votes and abstentions are disjoint, so the count
  reaches the number of the living only when both sets cover them. The lynch
  theorems rest on the same disjointness and on a majority being unique.
- **Outcome.** `OutcomeInv` joins "ended iff decided", "a mafioso lives" and "the
  lobby is fresh": the deal is undecided because the town has a strict majority of
  the seats and the mafia has one, which needs a fresh lobby (everyone alive); the
  steps that kill all end in `ResolveDeaths`, whose promotion comes first.
- **Night.** Neither `FactionActsOnce` nor `NoStaleDeeds` is inductive. `DeedInv`
  adds where the night stands (`TurnsInOrder`: the mafia turn is first and comes
  once, and until its window closes the faction has done nothing) and that there is
  one yakuza at most (`OneYakuza`, from the deal). `SpellInv` adds that the consort's
  turn comes right after the mafia's and once, so that a block or a recruit finds its
  victim with nothing recorded and keeps it so.
- **Dawn.** `DawnInv` adds one vigilante and one consort at most and that a recorded
  shot is the vigilante's own at somebody else; deaths, the bullet and role changes
  then follow from the resolution's definition, case by case.
- **Cadence.** `OnCue` says that a night stands at some index of `NightOrder`: the role
  called is the one at that index and the queue is the rest. No role comes twice in the
  order, whatever the toggles, so the index can be read off the role; a step keeps it or
  adds one, and a night ends with an empty queue, at the last index.
- **Notices.** `NoticesInv` says that nothing is told in the mafia's turn, that what is
  told later is right as the deeds stand (`ToldRight`), and that a recruit who has a turn
  has it ahead or has been told. It is inductive because the faction's deed comes first:
  once anybody has been told anything, roles, recruit and the faction's target stay until
  dawn. The mafia's deed finds a recruit's turn still queued because every role in play
  is one of each roster or toggled on (`RolesAreCalled`). At dawn no turn is ahead, and
  what was told is compared with `BoardAtDawn`, what the resolution does to each player,
  and with `DeathsAtDawn`.
- **The abstract game.** `TableInv` is the conjunction of these invariants with
  `BoardInv` (everybody at the table has a role, one of them at most a bullet). A command maps to a step or a stutter of
  `HiddenRoleGame`: a night kills at most two, because there is one faction deed and one
  shot; a recruit is one conversion; a promotion is the takeover by a sleeper; a game
  that ends is won and one that goes on is not.
- **What folds compute.** A replay of a journal, a projection of a log and a tab's model
  are recursive functions over a sequence. `FoldLemmas` proves, from the least-element
  principle of the natural numbers, that such a function exists, is unique, and gives on
  `s \o t` what it gives on `t` from where `s` left it; each fold of `Room` and of
  `Projection` then has a lemma for the empty sequence and one for an event or a batch
  appended, and nothing else is used of it.
- **Who knows what.** `KnowledgeInv` says of each matter (one's own role, the faction,
  the board, the night's acts) that the log *settles* it at some index `k`: the event
  there tells it as it is, and none after it tells it otherwise. A tab, wherever it was
  cut off, either has its cursor before `k`, so that a resume brings the news, or already
  shows it. A batch either says nothing of a matter that has not changed or settles it
  anew behind every cursor. `LivingAreDiscreet` adds that no event of the log would harm
  if it were sent to a living player today: rosters name members, who stay members
  because roles only change into the faction. The engine's own invariants (`TableInv`)
  say what the batches are: one yakuza, a living convert, deaths with a snapshot behind
  the promotion.
- **Room.** `RoomInv` has four parts. `SeatInv` adds to the slots that a connection with a
  request pending is not attached yet, and that an unused one has none; a fan-out closes
  an arbitrary set of attached connections, so one lemma serves every handler that ends
  in one. `IdsInv` says that ids are minted in order. `EngineInv` says that the journal
  replays to the engine and the log, that the log ends in the timer the engine is in
  (what recovery looks for), and that the running room has armed it. `PipeInv` holds the
  types of what is on its way: buffers within their bound, nothing in those that wait for
  an answer.
- **Tabs.** A model is *level* with a log when it holds all its player may see of it and
  nothing after its cursor is for that player; a tab is in sync when its model would be
  level once its channel is empty. A model that is level stays so through the frames of
  any batch the log grows by, of which the cursor may skip the hidden ones; a snapshot,
  whole or from the cursor, makes one level; and a new log's `game_reset` starts it anew.
  `SyncInv` adds that no two tabs listen to one connection and that a rejoin under way
  asks for the tab's player from the tab's cursor. A tab detached by a full buffer or a
  panic is out of sync, but then it is not connected any more.
- **Connections.** `ConnInv` has five parts: `WireTypes`; `Talk`, what each stage of a
  handler leaves in the inbox and that a leave is the last; `OneOpening`, that a join or
  rejoin is sent once and before anything else; `Seats`, that slots and player ids agree;
  and the gauge. `Seating` is implemented with the seats of attached subscribers.
- **Manager.** `ManagerInv` joins types with `RegistryInv` (rooms that may act have an
  entry of their own, so a removal by code removes its own room), `CapacityInv` (running
  rooms are registered and creation counts the registry), `GaugeInv` and `ShutdownInv`
  (`Close` comes after the last request, so a room that loops while main waits is among
  those it waits for).

Only model-checked: liveness (`NightEnds`, `AbandonedConnectionsEnd`, `NobodyLoiters`,
`UnwantedRoomsGo`), which is out of the prover's reach. Every invariant, every action
property and both refinements that the passing runs check are proved; the four runs that
expect a violation refute what the code's comments say, and have nothing to prove.

## 5. The plan

1. Engine, projection, room, timer, recovery, cursor, connections, manager — modelled
   and checked; every property of the passing runs but the liveness ones is proved.
2. An abstract room: a reliable log per player, implemented by `Room` between resets
   with the cursor as history.
3. A composition of `Manager` with `Connection`, in which the connections, not a bound,
   fill the inboxes.

## 6. Not modelled

- Codec and wire types: a stateless mapping of Go structs to JSON.
- Room actor, in part: the joinability query reads and changes nothing, and the clock
  arithmetic of `handleLifetimeCheck` is the manager's two thresholds.
- Web client, in part: drawing, sounds, forms and storage of credentials; of its model
  of the game only the cursor and what it knows of roles.
- Metrics, in part: counters and histograms, which no decision and no gauge reads.
- HTTP server, in part: configuration from the environment, routing, middleware and the
  metrics listener.
