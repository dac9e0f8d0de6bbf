# Verification of the eve.js web companion

TLA+ models of the concurrent core of the eve.js web companion, TLC
configurations that check them on small instances, and TLAPS proofs of the
properties that matter most for every size.

The companion lets a browser play a pilot of an eve.js server. A browser tab
runs the page (`web/src`), one Node process runs the BFF (`src/server.js` and the
modules beside it), and the BFF keeps a login of its own on the game server for
each pilot it holds (`src/gamePort`). The same page modules also run inside the
BFF, as hosted bots, and make their requests of the same routes under a web
session of their own.

Paths below are relative to the repository, so `src/server.js` is the BFF's
`src/server.js`; `PROJECT.json` names every definition's lines.

## Inventory

| Component | State it keeps | Operations | Hard behaviour |
|---|---|---|---|
| Tab socket (`web/src/app/socketFetch.ts`, `src/pilotSocket.js`) | the page's Line per token, ids sent and unanswered, what waits to be sent; the BFF's operations at work and in turn | fetch, abort, connect, sweep; hello, operation, reply, close | two ends that close at different moments, replies out of order, a way back over HTTP |
| Event stream (`/api/bridge/events`, `streamInProcess`, `openHeldStream`) | one attached stream per socket, the subscribers of a held session, the gateway stream behind them, its cursor and retry timer | listen, close, attach, let go, publish, reopen, end | authentication is awaited, so a stream may be closed before its route has begun |
| Session transition barrier (`src/transitionBarrier.js` and its routes) | `held.transition` with its phase and epoch, the cooldown, one reservation, the ship of record | begin, accept, fail, wait until ready, adopt a ship, resolve a failure | every step reads the game server between two awaits; a poll may be answered late; an error is caught far from its cause |
| Held sessions and pilot ownership (`src/server.js`) | `bridgeSessions`, `characterOperations`, `sessionOperations`, the fenced rows | select, release, log out, forget, hand over to a run and back | check, await, act; releases whose outcome is not known |
| Hosted bot lifecycle (`src/botHost.js`) | records, claims, grants, the roster on disk | start, stop, resume, finalize, recover, end at a deadline | a stop during a start, a restart in the middle of resume, a release that is blocked |
| Bridge session journal (`src/bridgeSessionJournal.js`) | the handles of held sessions on disk | add, remove, release orphans | a crash between the selection and the entry |
| Account cache (`src/accountCache.js`, `makeRequireAuth`) | accounts with a time to live, the lookup under way for a user | resolve, invalidate, evict | a ban or an invalidation during a lookup, room for few |
| Game port session (`src/gamePort/session.js`) | calls in flight, waiting calls of a kind, the object cache, login state | login, call, settle, invalidate, close | an answer after its time limit, a fetch made stale while it is out |
| Game port pilots (`src/gamePort/pilots.js`) | one connection per pilot, questions of the game server to its player | select, read, call, release, ask | a question with nobody to answer it |
| Custody of moved goods (`src/replenishment.js`, `src/shipProvisioning.js`) | operations on disk, per-pilot reservations and the writes that share one | review, apply, reconcile | a crash between the journal and the call, an outcome that is not known |
| Startup runs (`src/startupRuns.js`, `web/src/nav/scriptRunner.ts`) | a row per run on disk: the state of each step, the runner's position | open, observe, fence an order, checkpoint, end | a restart, or a save that fails, between the order, its answer and the checkpoint |
| Jettison custody (`src/jettisonCustody.js`) | the evidence of one jettison | prepare, confirm, hand over | an unknown outcome |
| Mining operations (`src/miningOperations.js`) | operations, members, target claims, containers | start, claim, drain, stop | stop races members that still start |
| Boards shared by bots (loot, belts, targets) | leases with a time to live | claim, renew, expire | a lease that runs out in use |

The rest of the repository (encoders, call shapes, stores of scripts, page views
and bot programs, static tables, tools) is listed in `PROJECT.json` with the
reason it is left out: it is sequential data work, or drawing.

What each component has to get right:

* **Tab socket** - a request is run at most once, whichever of the two ways it
  went; its answer reaches it and nobody else; everyone who asked is told
  something; the BFF's limits hold and turns are kept.
* **Event stream** - a listener hears its own stream, misses no notice without
  being told to read again, and is told when it ends; a watched session has a
  stream or one to come; an unwatched or forgotten one costs nothing.
* **Transition barrier** - one change at a time, none before the server's own
  session timer; the record follows the pilot's ship and never goes back; a
  latched change is resolved in the end.
* **Ownership** - a hosted run is its pilot's only driver; every live session of
  the game server is in somebody's hands; reservations and claims end with what
  they are for, and no sooner.
* **Account cache** - one lookup per user; a ban takes hold in bounded time.
* **Restart** - what is online can be let go of after a crash; the roster tells the
  truth; a Stop is not undone; no pilot gets two runs; every run is answered for.
* **Game port session** - one call out at a time however many want it, no answer
  from before the question, every caller told.
* **Mining operations** - a target is given up when nobody works on it any more and
  not before; a barrier waits for whoever has ore aboard; stopped means home.
* **Custody of moved goods** - no move is sent beside one whose outcome is not known,
  over crashes; nothing is brought twice; the pilot is let go of.
* **Startup runs** - the same for the orders of a run's first steps, which are taken
  in order and believed only when seen.

## Plan

Done, the most important behaviour first:

1. `PilotSocket`, the transport under every request, with its proofs, and
   `RequestOnce`, the abstract promise it is shown to implement.
2. `EventStream`, what is pushed the other way, with its proofs.
3. `TransitionBarrier`, the session changes, with its proofs.
4. `AccountCache`, what every request goes through, with its proofs.
5. `PilotOwnership`, tabs and hosted runs after one pilot, with its proofs.
6. `HostRestart`, the roster and the session journal over crashes, with its proofs.
7. `GamePortSession`, calls that share one that is out, with its proofs.
8. `MiningOperation`, crews that share targets, and their Stop, with its proofs.
9. `GoodsCustody`, goods moved under a durable fence, with its proofs.
10. `StartupRuns`, orders under a durable fence, with its proofs.

To come:

11. `JettisonCustody`: the evidence of one jettison from prepared to confirmed or
    ambiguous, which has the shape of `GoodsCustody`.
12. The questions the game server asks its player (`src/gamePort/pilots.js`), the
    leases of the shared boards, session recovery inside a hosted run.

The modules do not share variables: the socket carries requests whose routes the
other modules model, and a route's steps do not depend on the way its request
came. Three modules are compositions: `PilotOwnership` is where the routes of
`server.js` meet the claims of `botHost.js`, `HostRestart` where the roster meets
the session journal, and `MiningOperation` where the operation's runtime, the
target board, the Stop route and the pilots' ticks meet.

## How to read the modules

Every module follows one scheme. An asynchronous handler runs from one `await`
to the next in one step, as Node runs it, and the handlers interleave at their
awaits. A call of the game server is two steps, the server's (its effect) and
the handler's (its answer taken), or one where nothing else could tell them
apart. The steps of the game server, of the network and of timers are actions of
their own. Clocks are abstracted to "the time is up", except in `AccountCache`,
whose property is about a duration.

Some operators stand beside the one they resemble with a longer name
(`FirstIDByOutstanding` before `FirstID`, `ForgetAny` before `Forget`): each is
that operator with a plausible mistake in it. No specification uses them;
`PROJECT.json` names, for each property, the mistake that breaks it.

An `MC*` module extends its component with the definitions TLC needs (the
permutations for symmetry, the commands of `TransitionBarrier`, the crews of
`MiningOperation`). Every module defines its `TypeOK`, and each is proved. Two modules
whose proofs share a module with another component's write their own name before the
usual ones: `CacheInit`, `CacheNext`, `CacheSpec` and `CacheTypeOK` in `AccountCache`,
`RestartInit` and so on in `HostRestart`.

### PilotSocket and RequestOnce

Both ends of one token's socket. The page's end is `createSocketFetch`: its line
(`none`, `connecting`, `open`, `down`, with the socket it has, whether its token
was refused and its next id), what was asked while it connects (`queued`), the
ids under which requests were sent (`sent`) and where the promise of each stands
(`call`). The BFF's end is `serve` in `attachPilotSocket`: the operations at
work, the turns, whether the token is known. Between them are two FIFO queues
and, on the side, HTTP (`wire`). What a route does is abstracted to "it was run",
counted in `runs`.

`Ask*` are the branches of `fetch()`, `Abort` the caller's signal, `Opened`,
`PageTakes` and `PageLoses` the handlers of the browser's socket, `RetryDue`,
`IdleElapses` and `Sweep` the page's timers; `Accept`, `HelloTimeout`,
`BffTakes`, `BffLoses` and `Finish` the BFF's handlers. `down()` and `letGo()` are
the operators `Down` and `LetGo`, used by each handler that calls them. Either
end may learn of a lost connection at any later time.

`RequestOnce` is what one fetch promises, without lines, ids and queues: a route is
started at most once and only after it was asked, an outcome is told once, and an
answer is told only of what was run. `CarriedOnce` is that specification under the
mapping `Told` (what the asker sees of `call`), checked as a property of both runs.

### EventStream

The page's listener on its socket, the stream the BFF's socket runs in process,
the route `GET /api/bridge/events`, and the one stream to the game server that
all routes of a held session share. `route` goes from `auth` (the account is
being read) to `streaming` or `ended`; `over` is `streamInProcess`'s flag;
`subs`, `gw`, `retry` and `cursor` are `held.streamSubscribers`, `held.stream`,
`held.streamRetryTimer` and `held.streamCursor`. A frame does not say whose it is
in the code: the model gives it the number of its stream all the same, for
`OwnFramesOnly` to compare, and no action looks at it.

Left out: the page's replay of notices to its store, the questions the game
server asks its player, streams asked for over HTTP (they have the same route,
without the socket).

### TransitionBarrier

One held session with several commands and the page's poll of the flight status.
`transition`, `epoch`, `cooling`, `reserved` and `active` are the record's fields;
`pc` is how far each command's route has come, `expected` and `mine` its local
variables; `rd` is the read each route and poll has under way: asked, seen by the
game server, then taken. Ships are numbered in the order the pilot had them
(`been`), so that "older" has a meaning. `afloat` holds the commands the game
server may still carry out, whatever the route was told. What the commands are is
chosen at the start, among `Plans`, and stays (`kind`).

`crossed` is history: it becomes true when the error of a command settles a change
another command still asks for or waits for. The code compares only the kind of the
change it finds (`src/server.js:4870`), so this happens, and what is true before it is
not true after it; `OneChangeAtATime` and `ShipNotFromBefore` say what holds up to
there. No action looks at `crossed`.

Left out: structures, cynosural and abyssal jumps (a jump with another name), the
handles bound to a place, provisioning's own boarding, `reparkAfterArrival`, the
loss of the session itself. Each hull is boarded once.

### AccountCache

The accounts kept, the lookup shared by the requests of one user, and
`makeRequireAuth`'s verdict. Time passes in ticks: `TTL` ticks an account is kept
and `LoadTime` ticks a lookup may take.

### PilotOwnership

Who flies a pilot. `held` is `bridgeSessions`, `charOps` and `sessOps` are
`characterOperations` and `sessionOperations`, `claim` is `claims` of
`botHost.js`, `record` the records' status, `fenced` the rows marked
`selectionReleaseUnverified`. `req` is each request under way, with the step it
waits in. `sessions` are the game server's: live, closing (its connection is
closed and the pilot not yet seen offline) or gone. A hosted run has a web session
and a request slot of its own.

`AskSelect ... CleanAnswers` are `POST /api/bridge/select` with
`selectHeldCharacter`; `AskLogout` and `LogoutAnswers` the confirmed release;
`AskRead` and `ReadAnswers` any route that drops a row it finds gone; `AskStart`,
`Resume`, `ProbeAnswers`, `StatusAnswers`, `CheckAnswers`, `HandAnswers`,
`StartReturns` and `StartFailed` are `POST /api/bots` around `botHost.start()`,
with the hand-over of the caller's pilot and its giving back; `RunSelects`,
`RunLogsOut`, `Finalize` and `Finalized` are the run's side.

Left out: drones and their recovery check, custody of moved goods (which is
`GoodsCustody`), the hand-over of mining operations, provisioning's reservations,
the customs-office hop, session recovery inside a run, a Stop that comes during a
start. All pilots are of one account. A refusal that changes nothing is no action.
`isCharacterHeld` may look at the rows in any order.

### HostRestart

The two files that outlive the process: `rosterFile` is the one `persistRoster()`
writes of the records not finalized, `sessionFile` the one `save()` of
`bridgeSessionJournal.js` writes of the sessions held and those still to be let go.
`host` is how far `startServer()` has come: down, letting the sessions of the last
process go, in `resume()`, up. Requests are served from the first of these on, so a
player's starts and stops (`PlayerStarts`, `StopOrEnd`) interleave with
`releaseOrphans()` and `resume()`. A run's life is as coarse as the roster sees it.
A crash keeps the files, the game server's sessions, and the selects under way,
which may still arrive (`late`).

Either file may fail to be written, at every place it is written (`WriteFails`):
`persistRoster()` and `save()` catch the error and log it, and what caused the write
goes on with the file as it was. `unwritten` and `unsaved` are history: the runs whose
change a failed write lost, and the sessions a failed save left out, each until the next
write of the file, which writes everything. `JournalCovers`, `RosterTrue` and
`StopNotReplayed` are stated with these left out, as for these they are false.

### GamePortSession

The calls of one kind over one connection. `up` and `down` are the wire, `pending`
the calls with a waiter, `settled` what has come for them and is not yet carried
on (the promise queue), `out` and `waiting` the call that is shared and those who
wait for it, `kept` the answer in the cache; a version stands for an answer.
`check` is whether the game server has kept answers checked at every use or
invalidates them by notice. Left out: logging in, the objects fetched for the
cache, moniker binding.

### MiningOperation

The runtime of operations (`op`), the target board (`board`), the member rows
(`row`), the Start and the Stop that work through a crew over awaits (`launch`,
`stop`, `leg`), the hosted pilots (`host`) and their ticks: a tick reads its
assignment (`view`), decides, and issues one action while the others do the same.
`OperationOf`, `Serviced` and `Stays` say which pilot is whose, which operations
have their miners served by haulers, and which stay in place when stopped. Of an
operation at work only that it is at work is kept. A member of an operation has one
role, as `miningOperationStore.js` has it. Left out: ranking of targets, support
pilots, the preparation before the main program, recovery after a restart, and a pilot
that is a member of several operations. The run's bound is one Start in all: either
operation may be the one begun.

### GoodsCustody

One pilot's replenishments (`createReplenishment`) and provisionings of a ship
(`createShipOperations`), which share `unresolved()` and the reservation. `journal`
is the operations' rows on disk; `job` is where each request stands, with the row it
holds in memory, which may be ahead of the disk when `put` throws. A move is sent
between `Fence` (the row is PENDING on disk) and `Answered`; one given up on is in
`late` and may be carried out at any time. The pilot's other writes (`WriteBegins`,
`enterWrite`) share a reservation of their own, and a session change
(`ChangeBegins`) excludes both.

A write of the page that begins while an operation has the reservation has none of
its own and may outlive it. Where one was carried out while a move was not
accounted for (`strayed`), what is read afterwards can be mistaken for the move's
effect: `CustodyKept` and `NeverTooMuch` leave those behaviours out, as the code has
no means against them.

Left out: the journal of a provisioning centre and its temporary control, batches
of several pilots, and what a review compares beyond the stock, the ship and the
generation of the session. The steps a new ship takes are moves of one kind.

### StartupRuns

A pilot's runs, one at a time, each with a prefix of steps before its endless loop.
`journal` has a row per run, `row` is the one in memory, `roster` the run that
`resume()` will find. `pc` is where the runner's tick stands: `Reads` sees the world,
`Observe` is `observe()` with what it saves, `BeforeIssue` the fence, `Issue` and
`Answer` the order, `Checkpoint` the runner's position on disk. An order that was
given up on stays in `out`. A refit takes two orders and is seen to have boarded
its hull; any other step takes one. `Otherwise` is what the pilot does outside the
prefix (a trip home, another controller).

Left out: branches of a prefix, waits (they write nothing to the world), the stages
of an operation's preparation before it is ready. On the trip home of a blocked step the
code's runner goes on ticking and observing, unfenced; the model has the trip's effect
(`Otherwise`) and no ticks, as the step is no longer ordered and no property depends on it. That `resume()` may start a row it
read before a player's start is `HostRestart`'s.

## What the runs check

| Run | Properties |
|---|---|
| `socket_once` | `OperationsBounded`, `CarriedOnce` |
| `socket_live` | `OwnAnswer`, `CarriedOnce`, `EverySettles` |
| `events_pushed` | `OwnFramesOnly`, `NeverWedged`, `ForgottenHoldsNothing`, `NoNoticeMissed`, `EveryListenerTold` |
| `barrier_two` | `OneChangeAtATime`, `ShipNotFromBefore`, `NeverLatchedForGood`, `ShipFollowed` |
| `accounts_shared` | `OneLookupPerUser`, `BanTakesHold` |
| `ownership` | `OneDriver`, `ClaimKeptUntilReleased`, `EverySessionAccountedFor`, `NeverLetGoAlive`, `EveryRequestEnds` |
| `host_restart` | `JournalCovers`, `RosterTrue`, `StopNotReplayed`, `FliesOn`, `EveryRowAnswered` |
| `host_restart_forgotten` | `RunNotForgotten`: violated |
| `game_port_calls` | `OneOut`, `NotFromBefore`, `EveryCallEnds` |
| `mining_crew` | `ClaimsKnown`, `StoppedMeansHome`, `TargetsOutliveTheWork`, `NobodyLeftBehind` |
| `custody_moved` | `CustodyKept`, `NeverTooMuch`, `CustodyLetGo` |
| `startup_prefix` | `StepsInOrder`, `NeverOnUnknown`, `PendingEnds` |

`PROJECT.json` says what each run shows. Every property has been seen to fail under
a mistake in the code's place, listed there under `mutants`.

The violated run states what a comment says: "A bot that could not come back must
SAY SO where the player looks, not silently drop off the roster"
(`src/botHost.js:1890`). `startServer()` listens before it reads the roster, and
`persistRoster()` writes the file from the runs in memory alone, so a bot started
in between, or a crash in the middle of `resume()`, takes the rows not yet resumed
off the file: they come back nowhere and are reported nowhere.

### Behaviour worth knowing

Met while modelling, and part of the models, without a run of their own:

* A stream closed while its account is being read subscribes afterwards, with
  nobody to close it (`src/server.js:1540`).
* The error of a command's own first read settles the change of another command of
  its kind, and a third is let through (`src/server.js:4870`). `barrier_two` reaches
  it: without `~crossed` TLC refutes `OneChangeAtATime` there with two dockings, of
  which one is being asked for when the first read of the other fails. With three
  boardings the wait whose change was released goes on to judge the next one by a read
  of before it, and the record gets a ship older than the one that change began in:
  that is why `ShipNotFromBefore` asks for `~crossed` too.
* A poll asked during a boarding, seen by the game server before the boarding is
  carried out and taken after the cooldown, gives the record the hull the change began
  in (`src/transitionBarrier.js:373`): the epochs agree. `ShipNotFromBefore` excludes
  every ship older than that hull, not the hull itself; `ShipFollowed` says that a later
  poll puts it right.
* A Stop whose roster write failed is carried out all the same, and a crash before the
  next write has it replayed (`src/botHost.js:334`). A run stopped in the process that
  has still its row to resume is started again once `resume()` comes to it. A session
  whose save failed is answered and kept, and a crash before the next save leaves it
  online with no handle on disk (`src/bridgeSessionJournal.js:58`), as a crash between
  the selection and the entry does: the game server's time to live is what is left.
* A banned account is refused once the time to live and the lookup's own time have
  passed, as the time to live of an answer begins when the answer comes;
  `src/accountCache.js:24` speaks of `ttlMs` alone.
* A refused token is offered again once the idle line that remembers the refusal
  was swept (`web/src/app/socketFetch.ts:246`).
* Of an operation that stays in place a second Stop fails, as the members the first
  one paused are no longer found running (`src/miningOperationStop.js:21`). A miner
  that unloads itself may report one depleted target twice and be counted as clear.
  The end of a launch may overwrite the state of a Stop (`src/server.js:16274`).
* A barrier may be let go with a miner's ore aboard, once its claim has run out. A
  miner that read its target before the first report came activates it afterwards, and
  `activate()` writes `ACTIVE` over `DRAINING` whatever the evidence
  (`src/miningTargetBoard.js:130`, from `src/miningOperations.js:439`). A miner that
  is ready already then reads `ACTIVE`; the lease runs out, another operation begins the
  place anew with rocks in it, and the ready miner mines there on what it read. When
  the last miner waited for is gone, `list()` reconciles and lets the barrier go before
  it notices that the claim was lost. It takes two operations at work and two troubles,
  so `mining_crew` does not reach it; it is why `NobodyLeftBehind` asks for `StillHeld`,
  with which it is proved.
* A continuation asked for again after the ship was complete turns its COMPLETE
  record BLOCKED, and reconciling a finished replenishment makes it RECONCILED. A
  move fenced and, for a crash, never sent holds the pilot for good: no evidence
  ever proves it.
* The run of a mining operation has a row from `openPreparation()`, so `open()` does
  not look for unresolved runs before it (`src/startupRuns.js:90`): that is the
  exception of `NeverOnUnknown`.
* `checkpoint()` changes `mainEntered` in memory before it saves. After a save that
  failed, a run whose session is recovered goes on with MAIN unrecorded.
* A startup order that was refused is not asked again, whatever the reason: its
  step stays PENDING and blocks after twelve reads. A pilot whose unresolved run is
  no longer on the roster cannot begin another one, as nothing resolves the old row.

### Bounds

A socket, a listening, a selection and a session of the game server are numbered,
and each module bounds how many there are (`MaxSockets`, `MaxListens`,
`MaxHolds`, `MaxSessions`). Two of each is what an interleaving of an old one
with a new one needs, and three sessions or requests let a third party step
between them. `MaxInFlight` (`EventStream`) stops the game server from
publishing to a socket nobody reads; `MaxLost` bounds ships or calls lost,
`MaxTroubles` what goes wrong in a crew, `MaxMishaps` the crashes, lost calls,
failed saves and interventions together, `MaxFaults` the crashes and failed writes
together, `MaxStarts` the starts of a player, `MaxProvisional` and `MaxVersion` the late answers and the changes of an
answer. Two mishaps are a lost order and the crash after it; three, for
`GoodsCustody`, add a failed save or a write of the page. `StartupRuns` was also
checked with three (3.3 million states, five minutes). Two faults are a write that
fails and the crash that makes it matter, or two crashes; `host_restart` has 877
thousand states. `barrier_two` has 595 thousand: two commands, which are a boarding and a
docking or two dockings, and one poll beside them. `MaxReads` and `MaxLanded`
are 2 where the code has 12 and its own limit: the model counts them the same way.
The models come to rest when the bounds are spent, so deadlock is not checked where
that can happen; the liveness properties say that nobody is left waiting.

### Fairness

Only what the runtime does of itself is fair. In `PilotSocket`: an event that has
arrived is handled, a route answers or fails, a fetch ends, a lost connection is
noticed (the browser and `ws` both report it). In `EventStream`: the same, the
account is read (the lookup has a time limit), a retry timer fires, and the game
server answers a stream asked of it or refuses it. In `TransitionBarrier`: timers
run, a read is answered or fails (each has a time limit), the page goes on
polling, and the game server is done with a command some time; `Deadline` is
strongly fair, as the loop of `waitForTransitionReady` compares the clock on every
turn and the clock does not go back. In `PilotOwnership` and `HostRestart`: every
call is answered or given up, and a process that died is started again. In
`GamePortSession`: frames that came are taken, and each call has its timer. In
`GoodsCustody`: a request goes on, as every call it waits for has a time limit. In
`StartupRuns`: the runner ticks. No user, and no failure, is assumed to happen.
`AccountCache` and `MiningOperation` have no liveness property.

## Proofs

`PilotSocketProofs` proves for any requests, sockets and limits:

* `TypeCorrect`: `Spec => []TypeOK`. `TypeOK` is three conjuncts, the page's, the
  BFF's and the network's, and is inductive: one step per action, with the
  lemmas on sequences (`Without`, appending, the tail) that keep `running`,
  `turns` and the channels sequences of their kinds.
* `BoundedOperations`: `Spec => []OperationsBounded`. The bounds on what runs and
  what waits are inductive together with `TypeOK` once strengthened by "where
  anything waits, every place is taken and the socket is ready", which is part of
  the property: without it `Finish`, which starts the next in turn without looking
  at the limit, could not be shown to keep the bound. `MaxRunning` is positive by
  `BoundsAssumption`.

and, on top of these,

* `AnswersAreOwn`: `Spec => []OwnAnswer`, and
* `SocketCarriesOnce`: `Spec => CarriedOnce`, that `PilotSocket` implements
  `RequestOnce`: the initial states are its initial states, and each step runs one
  request never run, tells outcomes nobody had yet, or is a stutter.

A request not yet run must be in one place, or it could be run twice: in `queued`, on
HTTP, in an `op` frame, in a turn, or in the frame that refuses it. `Apart` says that
these places share no request, over all sockets, `Single` that none has one twice and
`Unrun` that what is there was not run. `Fate` follows the page's view of it, in
particular that what goes by HTTP is on its way there or was run; `Ran` says that what
is at work or answered was run. An id says whose a frame is only on the socket it was
given for: `Numbered` says so of the line's socket, and `Unopened` that a socket the
line has yet to open is empty, so that the ids of a line before cannot turn up on it.

`EventStreamProofs` proves, for any listeners, sockets, selections and notices,

* `OwnFramesAlways`: `Spec => []OwnFramesOnly`. A pushed frame does not say whose it
  is, so the argument is about order. `OneStream`: a socket has one stream that is not
  over. `AskedLast`: what the page's listener asked is the last thing on the line's
  socket, or is attached there with nothing asked after it. `WritesOnceAttached`: a
  stream writes nothing before `attached`. Together they leave nobody else's frame
  after the listener's own `attached`.
* `NeverWedgedAlways`: `Spec => []NeverWedged`, and `ForgottenAlways`:
  `Spec => []ForgottenHoldsNothing`, inductive with the types once it is said that the
  current session is the last selected.

* `NothingMissed`: `Spec => NoNoticeMissed`. `NoGap` says of the frames on their way
  to the listener that each notice follows on the one before, the first on what the
  listener was given (`Chained`), and that their last is the held session's cursor as
  long as the stream is subscribed (`Upto`). So a stream subscribed late must find a
  listener that was given nothing yet (`Unheard`), it must be subscribed once
  (`Subscribed`, which needs `AskedOnce`: it is asked for once), and what the game
  server's stream gives next must follow on the cursor or be a snapshot
  (`CursorKept`), over every dropping and reopening of it. That the frame taken is the
  listener's own is `OwnFramesOnly` again.

What the streams of a socket write is joined by `FlattenSeq`, a recursive function. Its
type, and that it is the one stream's frames where the others write nothing, are proved
by the least number for which they would fail (`LeastNat`, `FlattenTyped`,
`FlattenOne`), as the library's induction cannot be instantiated.

`TransitionBarrierProofs` proves, for any commands, polls and ships lost,

* `OneChangeHeld`: `Spec => []OneChangeAtATime`, and `ShipFollowsTheChange`:
  `Spec => ShipNotFromBefore`, for commands of any kinds, several of one kind among
  them, and first reads that fail or not.

The invariant is `Typed /\ (~crossed => OneChange /\ Followed)`. `BegunByItsRoute` makes
`OneChange` inductive: the record's change is of a route that waits for it or has
answered, so a route that begins, refuses or gives up meets nobody else's; and a route
that catches an error either settles what nobody else waits for, or sets `crossed`. The
second property is about order. `ShipsApart` numbers the ships: none comes
twice and none still to be boarded was there. `EpochsKept` says that no read bears an
epoch to come and that a wait reads under its change's, and `ReadsLater` that whoever
read under it saw the ship the change began in, or a later one. `adoptObservedShip()`
compares epochs and a wait asks its own reads, so neither gives the record a ship by a
read asked before the change, nor one from before the hull the change began in. The
types need `Counted`: the pilot has had no more ships than commands carried out and
ships lost. `RoutesAssumption` has the commands finite and not none, as the ships are
numbered above the last of them (`LastRoute`).

`CacheProofs` proves of `AccountCache`, for any users, requests, cap and times:

* `OneLookup`: `Spec => []OneLookupPerUser`. The property is not inductive: that a
  request finds no lookup of its user in `inFlight` says that there is none only
  when every lookup under way is noted there. `Noted` says so, and that what is
  noted is under way and its user's; `WaitsForItsUser` says the same of what a
  request waits for, so that the end of a lookup leaves nobody waiting for nothing.
  Nothing is needed of `entries`: what is kept plays no part in the sharing.
* `BanAlwaysTakesHold`: `Spec => []BanTakesHold`. Time is counted here, so the
  invariant (`Timely`) is a sum: an account kept as good has been banned for no longer
  than its time to live has run and its lookup could take (`EntriesFresh`), and one
  that was read as good was banned, if at all, after its lookup began (`LookupsFresh`).
  The sharing is needed again: who waits is told what a lookup of his own user found.

It proves of `GamePortSession`, for any finite set of callers,

* `OneOutAlways`: `Spec => []OneOut`, and `NeverFromBefore`: `Spec => []NotFromBefore`.

`OneAtATime` says that the call out has either its waiter or its outcome, `InTurn`
that a caller waits once. That an answer is not from before needs its number to be its
own: `Numbered` bounds the numbers used by the callers who have begun, so that what is
late bears a number no call has any more. `CarriesOwn` and `NothingStale` then follow
the version a call's answer is about from the wire to the outcome. The callers are
finite (`SessionAssumption`), as the numbers of calls are counted by them.

`PilotOwnershipProofs` proves, for any tabs, runs, pilots and requests at once,

* `OneDriverAlways`: `Spec => []OneDriver`, `ClaimsKeptAlways`:
  `Spec => []ClaimKeptUntilReleased`, `SessionsAccountedFor`:
  `Spec => []EverySessionAccountedFor`, and `LetGoOnlyWhenGone`: `Spec => NeverLetGoAlive`.

The invariant says, of every handler at each of its awaits, what it has reserved and
what it knows (`Reserves`, `Starts`), and of every run what it may be doing
(`Lives`) and that a pilot it flies, or is getting, is in no tab's row and in no other
request's hands (`Alone`). A handler's own steps give these again for itself; that
they stand for all the others is shown once, from what a step of a handler leaves
alone (`Guarantee`): the reservations of others, the runs of other starts, and every
row but one whose session is dead or that nobody has reserved. `ClaimsStand` ties a claim to one run that is
not over, and `LateIsLost` lets a session appear by itself only after a call was lost.

`RestartProofs` proves of `HostRestart`, for any runs, sessions, starts and crashes,

* `CanBeLetGo`: `Spec => []JournalCovers`, `RosterTellsTheTruth`: `Spec => []RosterTrue`,
  `StoppedStayStopped`: `Spec => StopNotReplayed`, and `OneRunOfAPilot`: `Spec => FliesOn`.

All four come from one inductive invariant, `RestartKept`. Beside the types and the two
properties it says four things. `FilesKept`: while the process lives the journal has
all that `save()` would write now (`Saved(pending, held)`) but what a failed save left
out, and a process that is down remembers nothing; without it a boot could not be shown
to read back what the crash left. `Remembered`: every session that is not astray is in
`Saved(pending, held)`, written or not, so that the next save that does not fail makes
up for those that did. `AskedBySelecting`: only a run that is selecting asks for a session, and
the session its select began is the pilot's unless one nobody is told of has taken him
over since; this is what lets the answer of a select enter the session that is online
in the journal. `StoppedStay`: no entry on disk, and none read from it and not yet
acted on, would bring a stopped run back. The last is what a restart reads, and
`StopNotReplayed` alone says nothing of the file. A write that fails is a case of every
step that writes: the file is what it was, and what changed is in `unwritten` or `unsaved`.

It proves of `StartupRuns`, for any runs, steps and bounds,

* `StepsAlwaysInOrder`: `Spec => []StepsInOrder`, and `NeverBesideUnknown`:
  `Spec => NeverOnUnknown`.

The invariant is `Kept`. An order is given at `Issue`, so the argument is about
what can be out when a tick stands there. Of the own run: `OrdersKnown` says that an
order that may still be carried out lies at or before the position on disk and is
known there and in memory, and that in memory it is either read from disk (`restored`),
or its step is complete, or it is the one the tick waits for or has given up;
`AtWork` and `InPlace` say that the tick's step is its row's and that what lies before
is complete, `Untouched` that what lies ahead is as new. So nothing is out at the step
about to be ordered, and what is out before it is proven. Of the other runs: `Owned`
and `RosterClean` say that the run of a pilot's own was opened only while no other had
anything unproven. `CompleteSeen` ties "complete" to the goal having been seen in the
game, and `Counted` bounds the orders given by what the block in memory and the one on
disk account for. Memory and disk are both in every part because a save that fails
leaves them apart, and a restart then works from the disk's.

`GoodsCustodyProofs` proves, for any operations, handlers, wants and mishaps,

* `CustodyAlwaysKept`: `Spec => []CustodyKept`, and `NeverTooMuchMoved`:
  `Spec => NeverTooMuch`.

The invariant is `Kept`. `Reserved` says that only the handler with the reservation has
anything in hand, and that a write of the page has it only while nothing is open.
`Fences` is what the journal says of a move: its operation is open, and was planned when
less was aboard than was wanted. `InHand` ties the row a handler holds in memory to the
one on disk at each await, and says where it has looked at everything unresolved: between
that look and the call nobody else can fence a move. `Alone` is the point: a move that may
be sent, or carried out late, is of one operation, once, and nothing has come aboard since
it was fenced. So a later read that finds more aboard proves that it was carried out. `Alone`
is said as long as `~strayed` only: a write of the page carried out beside a move not
accounted for ends that comparison, as in the code.

`MiningOperationProofs` proves, for any operations, crews, targets, starts and troubles,

* `ClaimsAlwaysKnown`: `Spec => []ClaimsKnown`, `StoppedAlwaysHome`:
  `Spec => []StoppedMeansHome`, `TargetsOutliveWork`: `Spec => TargetsOutliveTheWork`, and
  `NobodyIsLeftBehind`: `Spec => NobodyLeftBehind`.

The first three come from `Inv`, which says of each operation by itself what the other
operations' steps leave alone. `Sound` is about its runtime and the board: its claims are
its current target or its haulers' (`Known`); while its crew meets at a barrier the claim
there is the haulers', so that letting the barrier go forgets nothing (`Leaving`); and one
not at work has no target (`AtRest`). Each helper of `miningOperations.js` that rewrites a
runtime keeps `Sound` by a lemma of its own, and an action is a chain of these. The rest is
about Start and Stop, which work through one crew over awaits at the same time. `Expected`
says that whom a Start has left is not there yet; `Answered` that whoever is there when a
Stop is under way, or is still to come, is waited for or has been counted as failed, so
that a Stop that ends well found nobody else; `Awaited` that whom it waits for is there; and
`Home` that an operation not begun or stopped has nobody out and nobody to come.

`NobodyLeftBehind` needs `CrewInv` beside it, where haulers serve. `Steadily` and `Unbegun`
say that a miner at work without a break has a bot that runs, and no launch has it left.
`Serving` then follows the crew: until the target is reported worked out the rows of those
at work say `running`, so the first report puts them all into the barrier; at the barrier
they are still waited for, and who is ready has nothing aboard and, as long as the claim
is held, nothing to mine. What a handler may do to a barrier is one relation on runtimes,
`Follows`: it is let go because everyone waited for was ready or gone, or because the claim
was lost, and otherwise nobody is forgotten. Every rewriting of a runtime is in `Follows`,
and `Follows` composes. `CrewAssumption` has the two roles apart, crews finite, and `None`
none of the values it stands beside.

Every invariant and action property of the runs is so proved. Model-checked only are the
liveness properties (`EverySettles`, `EveryListenerTold`, `NeverLatchedForGood`,
`ShipFollowed`, `EveryRequestEnds`, `EveryRowAnswered`, `EveryCallEnds`, `CustodyLetGo`,
`PendingEnds`): fairness and `ENABLED` are out of the prover's reach. `RunNotForgotten` is
false, and TLC shows it. The invariants of `MiningOperation` were checked by TLC before
they were proved, also on instances where two operations are at work, which are too large
to be run each time.

## Not modelled

See "To come" for what is planned, and each module's "Left out". Encoding and call
shapes, stores that are read and written in one synchronous step, static data,
drawing, and the bots' decision programs (`web/src/app/flow.ts`, the loops and macros
of `web/src/nav`, most of `src/server.js`'s routes) are left out: they decide from one
read what to ask next and have no interleaving of their own, except where a tick
meets another pilot's, which is in `MiningOperation` and `StartupRuns`. They are by
far the larger part of the code. The chat client and the public gateway are
protocol clients of their own, left for later.
