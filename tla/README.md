# Formal models of VERSA

VERSA keeps to-do lists on several devices in sync: a Rust CRDT engine on each
device (web through WASM, iOS through UniFFI), and a Go relay that forwards the
engines' binary updates over WebSockets and remembers the last ones of each
room for devices that join later. This directory holds TLA+ models of those
parts, the TLC configurations that check them on small instances, and proofs of
their main invariants for every instance. Paths below are relative to the
repository.

## 1. The system

| Part | Source | State | Operations |
|---|---|---|---|
| Room buffer | `backend/internal/relay/buffer.go` | frames, running byte total, a mutex per room | `Push`, `Snapshot` |
| Store | `backend/internal/relay/store.go` | SQLite table `room_frames` | `AppendFrame` (insert, then prune), `Rooms`, `LoadFrames` |
| Hub | `backend/internal/relay/hub.go` | clients by device id, NATS subscriptions, buffers by room, one RWMutex | `Register`, `Unregister`, `Broadcast`, `deliverToRoom`, `restoreFromStore` |
| Connection | `backend/internal/relay/ws.go` | per connection: a reader, a writer and an expiry goroutine, a channel of 128 frames | upgrade, replay, relay, re-authentication, expiry |
| JWT validation | `backend/internal/auth/jwt.go` | JWKS cache with a 5-minute lifetime | `Validate`, `rsaKey`, `fetchJWKS` |
| CRDT engine | `shared-core/src/engine.rs` | a Loro document | `apply_*`, `delete_*`, `merge_update`, `snapshot`, `get_*` |
| Web store | `web-app/src/hooks/useVersaStore.ts`, `wasm/versaEngine.ts` | React state, socket, offline queue, snapshot in localStorage, the memoized engine | connect effect, edits, merge, retry |
| Web auth | `web-app/src/hooks/useKimbuAuth.ts`, `main.tsx` | access and refresh token in localStorage, one refresh in flight | login, register, refresh, logout |
| Web pages | `web-app/src/components/TaskList.tsx`, `LoginPage.tsx` | open inputs and drafts, active list, form | clicks and keys |
| Benchmark | `web-app/src/components/BenchPage.tsx` | two sockets, the rounds' times, animations | `runBenchmark`, `animateCol` |
| iOS transport | `ios-app/Sources/Bridge/RelayTransport.swift` | socket, offline queue, catch-up flush | connect, send, read loop |
| iOS engine | `ios-app/Sources/Models/TaskEngine.swift` | tasks and lists on the main actor, snapshot file | edits, merge |
| iOS auth | `ios-app/Sources/Auth/KimbuAuth.swift` | cached token, keychain | token, refresh, invalidate, logout |

How they interact. A client opens a WebSocket with a token; the handler
validates it, registers the client in the hub, queues the room's buffered
frames in the client's channel and starts a writer goroutine that empties it.
Each binary frame the reader gets is pushed into the room's buffer (and, under
the buffer's mutex, into SQLite) and then offered, without blocking, to the
channel of every other client of the room. With NATS the fan-out goes through a
room subject instead. A clean-up deferred by the handler removes the client.
Clients merge what they receive into their CRDT document, queue what they
produce offline and send it, with a whole snapshot, after they connect. Tokens
expire: the relay warns, the client refreshes and re-authenticates on the open
socket, or is closed.

What makes it hard: goroutines of different connections meet at the hub's
RWMutex, at the buffers' mutexes and in channels that others close; a device
reconnects before its old connection is gone; the process dies between two
database calls; database calls fail and are only logged; timers race answers;
promises, detached tasks and effects resume after the state they read has
changed; refresh tokens are used once and answers get lost.

What correctness means, part by part:

- Buffer and store: a joining device is caught up in order and without
  repetitions; the byte limit holds, the count limit but for missed prunes; a
  restart is invisible as long as the table missed nothing, whatever other rooms
  do.
- Hub and connections: no send on a closed channel; registering leaves no gap
  between replay and live frames; a slow client costs nobody else anything;
  frames stay in their room and keep their order; broken connections are cleaned
  up; a connected device is reachable.
- Tokens and keys: a connection does not outlive its last accepted token by
  more than the grace period and is not closed before; a key that is no longer
  published stops being accepted.
- CRDT engine: replicas that saw the same updates agree, in whatever order.
- Web client: an edit made offline survives reloads and is eventually sent; a
  page keeps one socket and refreshes once per reconnect cycle; what the user
  entered reaches the engine, and the screen shows what the engine has; tabs
  that share rotating tokens do not destroy them.
- Benchmark: what a round measures is its own frame, figures are what their
  labels say, sockets are released.

## 2. Modules

| Module | Role |
|---|---|
| `CatchUpLog` | Abstract promise of the relay to a late joiner |
| `RoomBuffer` | `buffer.go`, `store.go`, `NewHub`/`restoreFromStore` and the start-up in `main.go`, with crashes and database errors |
| `MCRoomBuffer` | instances of it |
| `RoomBufferProofs` | proofs about it, and that it implements `CatchUpLog` |
| `RelayHub` | `hub.go` and the handlers of `ws.go`, on one node without NATS |
| `MCRelayHub` | instances of it |
| `RelayHubProofs` | proofs about it: types, closed channels, joining; rooms, order, room for a replay |
| `TokenExpiry` | one authenticated connection of `ws.go` against the clock: expiry goroutine, re-authentication |
| `TokenExpiryProofs` | proofs about it |
| `JwksCache` | `rsaKey` and `fetchJWKS` of `jwt.go`, validations running concurrently |
| `MCJwksCache` | instances of it |
| `JwksCacheProofs` | proofs about it |
| `WebAuth` | `useKimbuAuth.ts` with `App` and `LoginPage`: tabs that share a storage, calls that settle in any order |
| `WebAuthProofs` | proofs about it |
| `WebStore` | the synchronising half of `useVersaStore.ts` with `versaEngine.ts` |
| `WebStoreProofs` | proofs about it |
| `WebTasks` | its other half, the tasks and lists, with `TaskList.tsx` |
| `WebTasksProofs` | proofs about it |
| `BenchRun` | `BenchPage.tsx`: runs, rounds and animations |
| `BenchRunProofs` | proofs about it |

### RoomBuffer

A frame is its position among the frames pushed into its room and its size; the
relay never looks inside one. `frames`, `total` and `pc` are the in-memory
buffers, `rows` and `nextId` the table, `phase`, `hasStore` and `toLoad` the
start-up. `Push` keeps its mutex across `AppendFrame`, whose two statements
commit separately: so a push is `Push`, then `Insert` or `InsertFails`, then
`Prune` or `PruneFails`, and other rooms and crashes come in between. Eviction
is "the least k at which the loop's condition is false", and the condition reads the
running total (`Left`), as the code does; that the total is the size of what is
held is `TotalIsBytes`, not an assumption. `Boot` is `main` and `Rooms`, with
and without an error (a failed `OpenStore` runs without a store, a query that
fails on its way yields some of the rooms), `LoadRoom` one round of `restoreFromStore`, where a query that fails on the way
yields the rows before the error. Serving starts when all rooms are loaded.

Histories carried for the properties: `log` (every frame pushed), `lossy` (rooms
whose table missed a frame), `missed` (prunes a room missed since it last
pruned).

### RelayHub

A connection is one call of the handler. `clients` is the hub's map, keyed by
device id, `send`/`closed` the clients' channels, `writer` the writer
goroutines, `pc` the handler: `replay` (registered, replaying), `reading`,
`buffer` (read, in `bufferFrame` and waiting for the write lock),
`fanout` (pushed, not yet holding the read lock), `deliver` (holding it, with
`todo` clients to go), `unregister`, `gone`. `Register` and `Unregister` need
the lock free of deliveries; deliveries share it and take one client per step,
in any order, as Go's map iteration does. `Unregister` is translated as
written: it looks up the id, not the client. The buffer is what `RoomBuffer`
was shown to keep: a push leaves a suffix of at most `MaxFrames` frames, and a
room may begin with any number of frames that were reloaded at start-up
(`Restored`), since a reload does not cut by count. Whoever sent those, they are
the room's own in this module, numbered in their order.

A push is atomic in this module (`RoomBuffer` has its inner steps). It follows
the release of the hub's lock in the code; it may as well be under it, because
only `Register` reads the buffer and needs the lock for that.

`Authenticated` chooses the handler: with a validator the handler's context
ends the writer, without one only a closed channel or a failed write does.
`SenderIdOf` is the id a client writes in its frames, `DeviceOf` the one the
hub knows it by; they differ when tokens are used.

### TokenExpiry

A token is the time it expires. `ws` and `ctx` are the socket and the handler's
context, `pc` the handler (`checking`: in `Validate`; `acking`: writing
`reauth_ok`), `expiry` and `deadline` the goroutine and its timer (`warn` and
`grace` are its two selects, `writing` the write between them), `reauthCh` the
channel of one duration. A select with several ready cases takes any of them, as
Go's does. A failed acknowledgement and a failed warning are ignored, as in the
code, and a write that waits returns when the context is cancelled.

Time is a clock that ticks. `Tick` waits for the goroutines that can run
(`Runnable`): a tick stands for a good part of a minute, scheduling takes
microseconds. What may take any number of ticks does: the start of the
connection, a validation (it may fetch keys), a write to a peer that does not
read (`ws = "stalled"`), and what the client does. The upper bound
`ClosedInTime` needs this urgency; the lower bound `EndsFairly` would hold
without.

Histories: `taken` is the token the timer is set for, `due` the time after which no accepted token allows the connection,
`waited` the ticks spent writing warnings to a peer that does not read, `warned`
the time of the last warning.

### JwksCache

A key set is a function from key ids to keys, `NoKey` where there is none; the
empty `kid` is `NoKid`. `rsaKeys` and `fetched` are the validator's fields, `pc`
each call: `asking` (request sent), `answered` (the issuer answered, the body is
on its way), `lookup` (installed, before the second look). The validator's mutex
is held for single steps only, so calls interleave between them. `key` is the
key the first look found, the fallback of a failed refresh. `Answers` is what
the issuer may say: its keys, or, with `Garbles`, fewer, since `jwkToRSA` skips
keys it cannot read and the body of an error is decoded like any other.
`Rotate` changes the published set; the issuer is not part of the repository.

`MaxFlight` bounds how long a fetch takes. The code sets no such limit
(`http.DefaultClient`): it is an assumption about the network, and what the
cache promises depends on it. The second look follows the fetch at once.

Histories: `lastSeen` is when a key was published last, `lastBad` when the
published keys last refused a token, `outcome` how the last call ended.

### WebAuth

A tab has a page (`closed`, `open`, or `broken` by an exception while
rendering) and a React state of its own; `access` and `refreshTok` are the two
entries of the storage all tabs share. What one synchronous stretch of the hook
does is one action: `StartRefresh` up to the `await`, `Refreshed` or
`RefreshFailed` after it. A call is a fetch with the token it presents. The
server's answer and the moment the page handles it are two steps, so that other
tabs, a sign-out or a closed page come between. The server (`Grant`, `Exchange`,
`ExchangeBare`, `Refuse`) is external: it uses refresh tokens up, as
`PENTEST.md:311` says. An access token and the refresh token issued with it
share a number. Reading a storage entry and writing another happens within one
task of the browser, hence in one step; `SignOutTorn` is the browser dying
between the two removals of `logout`.

`View` is what `App` renders, and guards what a user can do. History: `spoiled`,
the refresh tokens that were revoked or that a call used up whose answer no page
gets.

### WebStore

One tab. `fx` holds the runs of the connect effect that are alive, each with its
stage and the token its socket was opened with; `owner` says whether it is the
run in force or a cancelled one. A cancelled run goes on after each `await`, as
in the code, and may open a socket. `wsRef` is the slot whose socket the ref
holds. `Start` is the effect's body up to the first `await` that lasts (the
engine, or the refresh), `Proceed` the rest up to `new WebSocket`. Without a refresh
token in the storage (`renewable`) `refresh` answers null at once, and the run
connects with the token it has. React runs
the effect again in a later task (`Rerun`), after the cleanup (`Cancelled`), and
a socket that is closed may still deliver what it was sending, or not (`Flush`).
Edits are opaque: a snapshot, a queue, a frame and the engine are sets of them,
which is what merging CRDT updates comes to. Every write to the storage may
fail, and so may every load of the snapshot or the queue: both catches swallow
it, and the run goes on with an engine that lacks the stored edits
(`loadSnapshot`, `loadQueue`). `SocketOpens`, `Refused`, `CutOff` and `Breaks` end or begin a connection
as the relay's handler does (`ws.go:44-49`, `:130-134`), and `Closed` sorts the
close codes as `onclose` does. `retryCount` counts no further than one: the
code asks only whether it is zero, and the length of the backoff is left out.

Histories: `made`, the edits of this tab; `unsaved`, those whose snapshot could
not be written; `unread`, those a failed load passed over and the engine lacks;
`asked`, the refreshes of the effect in this reconnect cycle.

### WebTasks

The same page seen from the task list: `doc` is the engine, `tasks` and `lists`
React's state, `pending` the updaters that wait for the next render. What a
click or key queues runs at once, after all that waited (`Rendered`);
what a timer or a message queues waits, and the updater of `updateTask` writes
to the engine when it runs, not when its timer fires. `Resync` is a re-run of
the connect effect, which queues the engine's tasks and lists for the screen as
a frame does. `Receive` may leave any
value in one record: a concurrent edit of another device wins or loses as a
whole (`engine.rs:23-36`). The inputs of `TaskList` guard the operations: a
click elsewhere first commits the open input. `DeleteList` is one step although
`handleDeleteList` awaits `deleteList`, which awaits the engine: a list is on
the screen only once the engine is there, so both awaits are of promises that
are settled, and what follows them runs in the task of the click, before any
timer, frame or other click.

Histories: `owed`, a text that was entered and is not in the engine;
`overtaken`, the tasks whose text owed a merge or a re-run of the effect
replaced on the screen; `gone`,
`raced` and `takenAway`, which tell the cases apart that the code does not
promise anything about.

### BenchRun

`sockets` are those not closed, of all runs so far; `net` the frames between the
two sockets of the current run, in order. A round sends a frame and takes the
first that arrives, or gives up. Latencies are naturals; the REST and GraphQL
figures are the answered rounds' times plus a constant, so they are represented
by those times. `animators` are the animations under way, of any run.
`percentile` is the code's nearest rank, compared in `IsMedian` with what a
median is.

### Slips

Next to a definition there may be one marked *Slip*: the definition as a
plausible mistake would have it (a missing filter, an off-by-one, a reversed
order). No specification uses it. Each property has one, named in
`PROJECT.json`, that TLC must find guilty, so that no property passes by being
too weak to fail.

## 3. What TLC checks

| Run | Configuration | Shows |
|---|---|---|
| `buffer` | two interchangeable rooms, limits of 2 frames and 3 bytes, frames of 1 and 4 bytes, 3 pushes, 2 faults | `TypeOK`; `TotalIsBytes`; `SnapshotInOrder`; `RestartTransparent`; `CountBounded`; `CatchUpSpec`, the refinement of `CatchUpLog` |
| `hub_reconnect` | two connections of a phone, made in either order, one of which may break, one of a tablet that sends two frames, a channel of 2, a buffer of 1, no frame or 3 frames reloaded | `NoSendOnClosed`, `Accounted`, `StreamInOrder`, `CatchUpFits` |
| `hub_rooms` | two rooms, two connections of a phone that may both break, one of another user, channel and buffer of 1, with fairness | `RoomIsolation`, `BroadcastCompletes`, `ConnectionEnds` |
| `hub_reachable` | two connections of a phone that may both break, one of a tablet that sends a frame | `DeviceReachable` is violated |
| `token_expiry` | grace of 2, tokens good for 0, 1 or 4 or for ever, two re-authentications, the clock up to 7, a peer that may stop reading and resume, with fairness | `ClosedInTime`, `EndsFairly`, `EndTogether` |
| `jwks_cache` | two validations of two calls, an issuer that adds, replaces, names or drops a key once, complete answers | `WithdrawnKeysExpire`, `SettledTokensPass` |
| `web_auth` | two tabs, 4 calls to the server, one fault, with fairness | `OneCallPerTab`, `StoredTokenLive`, `LoadingEnds` |
| `web_store` | two edits and one of another device, three runs of the effect alive at once, 3 faults, with fairness | `TypeOK`, `OneRefreshPerCycle`, `OneSocket`, `LiveMeansSocket`, `EditsSurvive`, `EditsReachRelay` |
| `web_store_refused` | the same | `RejectionForcesRefresh` is violated |
| `web_tasks` | one task with two texts, one list beside the default, 2 frames of other devices, any number of re-runs of the effect, 2 updaters waiting | `TypeOK`, `TypedUnlessOvertaken`, `DeletedStaysDeleted`, `ScreenAgrees`, `ActiveListExists` |
| `web_tasks_preserved` | the same | `EditsPreserved` is violated |
| `bench_run` | 2 runs of 4 rounds, a median every 2, two latencies and the timeout, one column of 2 steps, with fairness | `TypeOK`, `LagIsBounded`, `MediansAreMedians`, `SocketsReleased`, `ColumnsSettle`, `RunEnds` |

The type invariants of `RelayHub`, `TokenExpiry`, `JwksCache` and `WebAuth` are
not among the runs' properties: each is proved (section 5) for every value of
the constants.

Bounds. In `buffer` the limits are small enough for each eviction rule to act
alone and together (a frame of 4 bytes empties the buffer, as one of more than
512 KiB does in the code), three pushes overflow the window, and two faults
allow a missed prune and the crash that makes it visible, or two prunes missed:
three frames of 1 byte are within the byte limit and above the count limit, so
that a reload after a missed prune does hold more than `MaxFrames` frames. The
rooms differ by name only, hence the symmetry set.
Two rooms are all that sharing a table needs, since a statement names one room.
In the hub's runs three connections are the least in which one device has two
and another one sends; one frame per sender suffices where order does not
matter, two where it does; a channel of one or two entries is full as soon as a
replay and a live frame meet. Three reloaded frames are more than the
buffer's limit of one, and more than the channel of two: both exceptions of
`CatchUpFits` occur. In `hub_rooms` and `hub_reachable` both connections of the
phone may break, so that either of them, the one in the map or the one it
replaced, unregisters first. Integers are never large.

In `TokenExpiry` the tokens' lifetimes lie below, within and above the grace
period, so that a warning is due at once, late or later; two re-authentications
are the least that fill `reauthCh` and lose one; the clock goes past the end of
every token accepted in the first two ticks, its grace period included. In
`JwksCache` a lifetime and a flight of one tick each and a clock of three
let an answer from before the rotation arrive after one from behind it and
then expire; two calls of each of two validations allow a fetch to be followed
by a hit. The validations are interchangeable, hence the symmetry set.

In `WebAuth` two tabs are the least that share a storage, and four calls are a
sign-in and a refresh of each, or a sign-in and three refreshes that overtake
each other; every loss, revocation, torn sign-out or closed tab is the one
fault. In `WebStore` one run of the effect is in force and up to two cancelled
ones are still waiting; three faults allow a lost connection, an expired token
and a reload, failed write, failed load or failed refresh after it; more faults
than slots would let sign-outs leave a cancelled run in every slot, and the next
`Mount` wait for the bound. In `WebTasks` every
property names one task, and tasks meet only in a list that is deleted; two
frames and two waiting updaters let a frame come before and after a commit that
waits. In `BenchRun` four rounds let two give up and leave two to measure an
older frame; two runs are the least whose animations meet.

Fairness (`hub_rooms`). Weak fairness for the steps a handler takes by itself
once something reached it (`Proceed`) and for a writer that must stop: the Go
scheduler runs what can run, and Go's RWMutex blocks new readers once a writer
waits, so a stream of deliveries does not keep `Unregister` out. No fairness
for connecting, sending, breaking, nor for `WriteFrame`: a peer may stop reading
for ever.

Fairness (`token_expiry`). Weak fairness for the goroutine's steps, for a write
that can return, for a validation whose context was cancelled (it is the context
of its HTTP request) and for a reader whose connection is closed. None for the
clock, the peer, or a validation: `EndTogether` must not rest on time passing.

Fairness (web client). Weak fairness for what the browser does by itself once it
is due: effects and unmounts after a render, timers, handlers of settled
promises and of socket events. Fetches settle and connections that can open do
(`Progress` in `WebAuth`; `RefreshSucceeds` and `SocketOpens` or `Refused` in
`WebStore`): browsers time both out, and a failure stays possible at any time
within the bound on faults. An open socket delivers what was sent on it or
breaks. No fairness for the user, nor for the relay's warning or for other
devices. In `BenchRun` only the timers are fair; the network may lose every
frame.

## 4. Where code and words differ

Three runs end in a counterexample, on purpose; `PROJECT.json` quotes the lines.

- `hub_reachable`: a phone's connection breaks, its next one registers under the
  same id, and the `Unregister` of the broken one removes the new one. The device
  stays connected and unreachable; the new connection's own `Unregister` then
  returns early and never closes its channel.
- `web_store_refused`: the close codes that are to force a refresh are never
  those of a refused upgrade. A page whose token expires after the one refresh
  of its reconnect cycle is refused for ever with the same token.
- `web_tasks_preserved`: a text entered less than 300 ms before a frame is merged,
  another device's edit of the same task or any other, is replaced on the screen
  before it reaches the engine. A re-run of the connect effect does the same
  without any frame.

More is part of what passing properties say, of their exceptions, or of the
models:

- `CountBounded` allows a frame more for every prune missed: `restoreFromStore`
  trims by bytes only, so after a missed prune a restart loads more than
  `bufferMaxFrames` frames, until the next push. A device that joins before that
  push may be replayed more frames than its channel of 128 holds, and lose the
  rest without a live frame having come: the second exception of `CatchUpFits`.
- `StreamInOrder` orders replayed and live frames separately: `Register` puts
  the client in the map before its replay is queued, so a live frame may get
  ahead of the replay, whatever `ws.go:73` says.
- `ClosedInTime` adds `waited`: the warning is written without a time limit and
  the closing timer starts after it, so a peer that does not read stays connected
  past its token for as long.
- With tokens a sender gets its own frames back, against `hub.go:155-156`: the hub
  compares the id in the frame, a local UUID, with the token's (`hub.go:164`,
  `ws.go:51-55`). No property says otherwise: for ids that agree it would restate
  the comparison.
- Of two re-authentications before the expiry goroutine looks, the second is
  acknowledged and dropped (`ws.go:180-184`); `ClosedInTime` and `EndsFairly`
  hold for the first.
- Between a call's own fetch and its second look an older answer may replace the
  JWKS cache, and a token is refused whose key the call was just sent
  (`jwt.go:106`). An error answer with a JSON object as its body is an empty key
  set, and empties the cache (`jwt.go:134-148`). `SettledTokensPass` bounds how
  long the first lasts and is stated for complete answers.
- `StoredTokenLive` and `EditsReachRelay` have to except that any failure of a
  refresh, of the network too, signs the user out (`useKimbuAuth.ts:111-116`).
- A refresh under way when the user signs out stores its tokens and signs the
  user in again (`SignOut`, then `Refreshed`).
- With a refresh token and no access token in the storage the first render calls
  `refresh` above its declaration and throws (`useKimbuAuth.ts:76`): `Open`
  leaves the page `broken`.
- `OneSocket` excepts a run of the effect that was waiting when `TaskList` left
  the screen: it opens a socket that nobody closes (`useVersaStore.ts:112-120`).
- `EditsSurvive` and `EditsReachRelay` except edits a load passed over: a stored
  snapshot that cannot be read or merged is "non-fatal" (`useVersaStore.ts:46`),
  and the next save overwrites it by what the engine has.
- `TypedUnlessOvertaken` excepts a text that a frame or a re-run of the connect
  effect replaced on the screen (`useVersaStore.ts:100-103`, `:160-163`).
- `ScreenAgrees` excepts the list of tasks whose list was deleted: they move on
  the screen and not in the engine (`useVersaStore.ts:294-295`). It excepts any
  task the screen has in the default list, and does not notice that the engine's
  task is in no view after the next merge.
- `SocketsReleased` and `RunEnds` name what the benchmark page does not clean up:
  the sockets of a run that could not connect, and the disabled button after a
  run in which no round was answered.

## 5. What is proved

All theorems hold for any sets of rooms, sizes, connections and devices and any
limits that satisfy the named assumptions (`RoomBufferAssumption`: limits are
naturals, `MaxFrames` and sizes positive; `RelayHubAssumption`: the constant
functions have the right types and `NoConn` is no connection;
`TokenExpiryAssumption` and `JwksCacheAssumption`: durations are naturals,
`NoExpiry` is no time, `NoKey` no key, published sets are key sets;
`WebAuthAssumption`, `WebStoreAssumption`, `WebTasksAssumption`,
`NoTaskAssumption`, `BenchAssumption`: the null values are no values, bounds are
naturals, edits of this tab and of others differ, a latency is below the
timeout). Every safety property of the passing runs is the conclusion of a
theorem; what stays with TLC is named at the end.

Some proofs are by induction over a sequence: over the frames of a buffer, the
times of a run, the updaters of a queue. The library's induction theorems take
a predicate as a parameter, which the provers cannot instantiate. `Induct` is
the same principle for a set of naturals instead, a few lines from the
well-foundedness of `<`; a recursive function is then what its equation says,
because a function that satisfies the equation exists up to every length and
two of them agree (`BytesIs`, `AnsweredIs`, `RenderedIn`). The modules define
such functions themselves: the provers do not unfold `FoldLeft`, `SelectSeq`
and `SortSeq` of the libraries.

`RoomBufferProofs`. `TypeOK` and the order of a snapshot are not inductive: a
reload gets its order from the table, the table from the frames inserted, and an
insert happens a step after the push whose frame it stores. `BufferInv` adds
that the log numbers its frames (`LogNumbered`), that memory and table hold
logged frames only (`FramesLogged`, `RowsLogged`), that ids are unique, below
the counter and ordered as the frames of their room (`RowsOrdered`), that a
pending insert is newer than the room's rows (`InsertPending`), that nothing is
pushed while rooms load (`Booting`) and that a push in progress has evicted
already (`PushFits`). From it:

- `TypeCorrect`, `CatchUpInOrder` (`SnapshotInOrder`), `LimitsKept`
  (`CountBounded`, which needs that of finitely many rows at most `MaxFrames`
  have fewer than `MaxFrames` above them: `NewestAreFew`);
- `RefinesCatchUpLog`: `Push` is `Accept`, `Crash` is `Crash`, `LoadRoom` is
  `Restore` with the frames' own numbers as the selection, all else stutters;
- `TotalIsRight` (`TotalIsBytes`): the size of a sequence is the sum of the
  sizes of what is cut off and what is left (`BytesSplit`), by induction; the
  eviction loops stop, since an empty buffer is within any limit (`BytesEmpty`);
- `RestartIsTransparent` (`RestartTransparent`): a table that missed nothing has
  every frame after some number m, and m is zero or at least `MaxFrames` frames
  lie behind it (`TableComplete`), which a prune keeps (`PruneKeepsWhole`); a
  loaded buffer is the end of the log within both limits and no longer end is
  (`BufferComplete`). Evicting from such an end after one more frame gives such
  an end again (`PushKeepsEnd`): what was too long stays too long. And trimming
  the table by bytes gives one too (`RestoreMakesEnd`), since what lies before m
  is too long by count. Two such ends are equal (`EndHoldsLongestFit`).

`RelayHubProofs`. `HubInv` adds to `Accounted` that a delivery's recipients stay
registered while it holds the lock (`RecipientsPinned`), that a closed channel
belongs to a handler that is gone and out of the map (`ClosedIsGone`), that a
room holds its own frames and those of its past (`PushedInRoom`) and that a
sender past its read has a frame (`SendersCounted`). `ClosedIsGone` is why the lookup by id never closes a
channel somebody sends on: each handler closes its own channel only, and is out
of the map by then. From it `TypeCorrect`, `SendsAreSafe` (`NoSendOnClosed`)
and `JoiningLeavesNoGap` (`Accounted`).

Two more invariants of the hub rest on `HubInv`. `RoomInv` says where the frames
of a room can be: what a sender has in hand (`InHandPushed`), what the buffer
and a joining client's replay hold (`BufferPushed`, `ReplayPushed`) was pushed
into the room, and a recipient of a delivery in progress is in the sender's room
(`RecipientsInRoom`): the map may change between deliveries, the rooms of their
recipients do not. From it `RoomsAreIsolated` (`RoomIsolation`). `StreamInv` is about order: the frames of a
sender are in order in the buffer, which knows none it has not sent
(`BufferInOrder`), what is left to replay is newer than what was replayed
(`ReplayInOrder`), and the frame a sender is about to deliver to a client is
newer than any of its frames the client got live (`LiveBehind`). From it
`FramesInOrder` (`StreamInOrder`). `ReplayHasRoom` (`CatchUpFits`) needs that
until a live frame comes what was replayed and what is left are no more than the
client joined with, and that a buffer above the limit holds frames of before the
restart only, the first push cutting it (`ReplayFits`); that needs that nobody is
served before it registers (`IdleIsEmpty`). It assumes `MaxFrames <= SendCap`,
which the code's 64 and 128 satisfy, and nothing of how many frames were
reloaded.

`TokenExpiryProofs`. That no connection is closed early needs that the timer
never runs short of its token (`TimerCoversToken`): a duration in `reauthCh` was
computed earlier than it is used, so it reaches at least as far as its token,
and warning, write and grace period together cover it. `NoEarlyEnd`
(`EndsFairly`) follows for any peer. `ClosesInTime` (`ClosedInTime`) needs
the converse (`TimerWithinDue`): timer, remaining grace period and every queued
duration end by `due` and the time waited, and `Tick` does not pass a timer that
is due.

`JwksCacheProofs`. For `KeysExpire` (`WithdrawnKeysExpire`): each fetch in
flight is at most `MaxFlight` old (`InFlight`), and each key of an answer or of
the cache was published when the fetch began or later (`KeysWerePublished`); a
hit needs a cache no older than `CacheTTL`, and the two add up. `TokensSettle`
(`SettledTokensPass`) is dual, under `~Garbles`: a set that refuses a token was
published whole at some time since its fetch began (`RefusalsWereRight`).

`WebAuthProofs`. `TypeCorrect` (`TypeOK`) is inductive. `CallsNeverOverlap`
(`OneCallPerTab`) needs that only an open page waits (`ClosedWaitsForNothing`)
and that a page waiting for a sign-in has no token (`SignInsAreSignedOut`), so
that neither the form nor the task list can start a second call; it is proved
tab by tab. `StoredIsLive` (`StoredTokenLive`) needs to know where every refresh
token is: tokens were issued (`TokensWereIssued`), one that is on its way to a
page is nowhere else (`UnderWayIsFresh`), what a closed page's call presents
does not count (`OrphansAreSpoiled`), and the stored one is live, spoiled or
presented by a call that was answered with a new one (`StoredAccounted`).

`WebStoreProofs`. `StoreTypeCorrect` (`TypeOK`) is proved with the three
invariants that follow, which it needs. `RefreshesOnce` (`OneRefreshPerCycle`):
`asked` is at most one, and one only while `didRefreshRef` is set
(`RefreshInv`), whatever run of the effect sets it. `EditsAreKept`
(`EditsSurvive`): only a page with an engine writes a snapshot, a run past its
first `await` has one (`HaveEngine`), and a ready engine holds the stored
snapshot but for what a load passed over (`DocHoldsSnapshot`, `LoadAccounts`), so
that a write loses no other edit. `SocketIsOne`
(`OneSocket`) and `LiveTellsTheTruth` (`LiveMeansSocket`) rest on `SocketInv`:
one run at most is in force and `wsRef` is its socket, `connected` is set only
while that run has one. The heart of it is `AwaitsUndisturbed`: `cancelled` is
not looked at again after the awaits of the effect, yet a run that another one
replaced is never left waiting in them, since no dependency of the effect
changes while the run in force waits for the engine or for a refresh, except by
`TaskList` leaving the screen. So only a run the page was left with can open a
socket nobody closes.

`WebTasksProofs`. The heart is `RenderedIn`, about the queue of updaters: given
a set of states for each point of the queue, such that updater j leads from set
j - 1 to set j, the state after the queue is in the last set. Each invariant is
a choice of these sets.

- `TypeCorrect` (`TypeOK`): the same set throughout.
- `ShownListExists` (`ActiveListExists`): the screen's lists and those of every
  merge that waits are the engine's, and none of the screen's is missing from
  them, but for lists other devices deleted (`ListsInv`).
- `DeletesStay` (`DeletedStaysDeleted`): a deleted task, and one nobody has
  drawn an id for, is neither in the engine nor on the screen nor in a merge that
  waits (`GoneInv`), so that no commit finds it (`RenderedAbsent`).
- `EditsArrive` (`TypedUnlessOvertaken`): a text that is owed is what the screen
  says, unless a merge or a re-run of the effect, which queues the same kind of
  updater, took it away (`OwedInv`), so that the commit that reads
  the screen publishes it; the set for a point of the queue says that what is
  still owed there has its commit after that point (`RenderedOwed`). A new
  task owes nothing, which is `GoneInv`.
- `ScreenFollows` (`ScreenAgrees`): without a merge that waits, screen and
  engine agree on a task, or its timer or updater will see to it; with one, that
  of a frame or of a re-run of the effect, the last merge brings what the engine has, and no commit before it changes that
  (`ScreenInv`). For the sets, that merge divides the queue: before it the engine
  keeps the task, after it screen and engine have the same (`RenderedMerge`).
  A task with a commit waiting when a merge is queued is the exception, `raced`.

`BenchRunProofs`. `TypeCorrect` (`TypeOK`) and `SocketsAreReleased`
(`SocketsReleased`). `LagBounded` (`LagIsBounded`): the number of a frame under
way is above that of the rounds that were answered, since each of these took one
frame off (`Young`); the lag is what is left, the rounds that gave up.
`MediansRight` (`MediansAreMedians`): numbers can be sorted (`SortingExists`, by
induction: the least of them first), as many of them lie below and above a rank
as the rank says (`RanksBelowAndAbove`), hence the nearest rank of one half is a
median (`HalfIsMedian`); a figure on the screen was taken after a number of
rounds divisible by `Every`, or after all (`StatsInv`). `ColumnsDoSettle`
(`ColumnsSettle`): a step that is active is being worked on by an animation, of
whatever run, and after a run that connected a step that is idle lies ahead of
an animation of that run (`StepsInv`).

Only model-checked: liveness (`BroadcastCompletes`, `ConnectionEnds`,
`EndTogether`, `LoadingEnds`, `EditsReachRelay`, `RunEnds`), which needs fairness
and `ENABLED`, beyond the provers; and the runs that end in a counterexample.

## 6. Plan

What would add most next, in order:

1. `RelayCluster`: two nodes and NATS, with subscriptions per room, outages with
   queued publishes, and buffers on the publishing node only; composed of
   `RelayHub`'s operations.
2. The iOS client: transport, task engine and authentication.
3. `Sync`: two clients and a relay composed at the level of `CatchUpLog` and
   `WebStore`: devices that stay connected converge.

## 7. Not modelled

- The security-test page `PentestPage.tsx` and the pages the relay serves: lists
  of requests with expected answers, no state of the system.
- The iOS client, the NATS bridge: listed with their hazards in `PROJECT.json`,
  not modelled so far. The CRDT engine: its convergence is Loro's, which is not
  part of the repository; what the engine adds to it, records that are replaced
  as a whole, is in `WebTasks`.
- Generated bindings, the unused protobuf schema, build and deployment: no
  protocol state.
- Of `Validate`, the signature algorithms and claims: a token's expiry is in
  `TokenExpiry`, its key in `JwksCache`, and HS256 needs no state.
- Wire format: a frame is a record; malformed frames are dropped by the reader
  before anything else happens and are left out.
- Loss of the database file, and SQLite's own recovery (`synchronous=NORMAL` may
  lose the last commits on power failure): a crash here is of the process.
- Of the web client: two tabs that overwrite each other's snapshot and queue, a
  second account on the same browser (it inherits them), error texts, pings,
  charts, layout, positions and times of modification.

## 8. Running

    tlc -workers 2 -config RoomBuffer.cfg MCRoomBuffer.tla
    tlc -workers 2 -config WebStore.cfg WebStore.tla
    tlapm WebAuthProofs.tla

The longest run, `hub_reconnect`, takes about three minutes on two cores.
