# attn-agnostic: TLA+ models and proofs

attn-agnostic is a daemon (`attnd`) that keeps one encrypted connection to a message relay for an
agent, stores what arrives and what waits to be sent in SQLite, and connects local sessions to each
other and to the relay over HTTP and WebSocket. Adapters connect agents of three kinds to it. The
modules here model its concurrent core and the adapters from their source, TLC checks them on small
instances, and TLAPS proves the safety properties of all modules, and the refinements of
`MessageQueue` and `LossyChannel`, for every instance. `PROJECT.json` maps every definition to the lines it models.

## 1. Inventory

| Part (source) | State | Operations | Hard behaviour | Module |
|---|---|---|---|---|
| Relay session (`internal/relay/session.go`) | `conn`, `authed`, `readyCh`, `keyWaits`/`resWaits`/`presWaits`, `keyCache`, `onReadyActive`, `wg` | `Run`, `connectOnce`, `handle`, `launchOnReady`, `GetKey`, `Resolve`, `QueryPresence`, `WaitReady`, `SendEncrypted`, `SendQueued`, `dropConn` | reconnects under callers that hold the old connection; three timers; response, timeout and disconnect racing for one channel | `RelaySession`; sends in `Outbox`, acks in `Inbound` |
| Outbound messages (`agent/ops.go` `Send`, `agent.go` `flushOutbox`, store) | tables `outbox`, `messages`; the flush's local list | `Send`, `onReady`, `flushOutbox` | send-or-queue decided before the row is stored; flushes across reconnects; crash between write and delete | `Outbox`, `MessageQueue` |
| Inbound messages (`agent.go` `handleInbound…`, `surface.go`, store) | tables `contacts`, `blocked`, `mutes`, `pending`, `messages` | the read loop's handlers; `AddContact`, `RemoveContact`, `Block`, `Mute` | policy changed between two statements of a handler; ack after store; `FlushPending` in two statements | `Inbound` |
| Local mesh and WebSocket hub (`mesh/registry.go`, `httpapi/ws.go`, `localmesh.go`, `rest.go`) | `entries`, `clients`, each client's `send` and `done` | `serve`, `Register`, release, `Route`, `Broadcast`, `Deliver`, `CloseAll` | reconnect under the same name; delivery to a client that is leaving; full buffers | `Mesh` |
| Reply target (`agent.go` `setLastInbound`, `ops.go` `Reply`) | three meta rows and a memory copy | `setLastInbound`, `getLastInbound`, `Reply`, `React` | three writes without a transaction; the rows are read only after a restart | `AgentState` |
| Status and presence (`ops.go` `Status`, `agent.go` `onReady`) | memory, two meta rows, the relay's presence | `Status`, `onReady`, `Start`; `StatusOf` | two writers of one value in opposite orders; an authentication whose `onReady` is skipped | `AgentState`; the query in `RelaySession` |
| Groups (`ops.go`, `agent.go`, store) | `groups`, `group_members`, `group_invites`; the relay's members | create, accept, decline, add, kick, leave, send, react; invites and member updates | two records of one membership, written one after the other, with failures, crashes and news between | `Groups` |
| Mutes (`store.go` `IsMuted`) | `mutes` | `Mute`, `Unmute`, lazy expiry | expiry's delete against a renewed mute | a plain set in `Inbound` |
| pi adapter (`adapters/pi`) | `ws`, `reconnectTimer`, `stopped`, `localPeers`, `lastInboundFrom` | `start`, `stop`, `connect`, socket handlers, `send`, reply | handlers of replaced sockets; a cache replaced during an await | `PiClient` |
| opencode adapter (`adapters/opencode`, `cmd/attn-opencode`) | connection, `sendCh` | `Run`, `runConn`, the pumps, `SendLocal`, injection | a frame in hand when the connection breaks; ending reads that observe no context | `OpencodeBridge` |
| hermes adapter (`adapters/hermes`) | the bridge's `seen`; the receiver's `_seen` and `_last_from` | `Run`, `handleFrame`, `forward`; `_handle_inbound`, `send` | two duplicate filters with bounds, timeouts between them, restarts of either | `Hermes` |
| Single-shot client (`relay/client.go`, `cmd/attn-smoke`) | waiters | `Connect`, `GetKey`, `SendMessage` | none beyond the session's | not modelled |
| Control socket, REST routes, `attnctl`, `attn`, `attn-mcp`, names, identity, crypto, config | none, or constant after start | translation and computation | none beyond the parts they call | not modelled |

How they interact: `Session.Run`'s goroutine is the only reader of the relay; it calls the agent's
handlers synchronously (so inbound handling is sequential) and the agent's `onReady` in a goroutine
of its own. Operations come from the control socket and the HTTP server, one goroutine per request,
and call the session (shared under `s.mu`) and the store (one SQLite connection, no transactions:
each statement is atomic, two of them are not). Surfaced events go from the agent to the hub, which
pushes them to the WebSocket subscribers; a subscriber that names its session is a mesh entry. The
adapters are such subscribers, each in a process of its own: they inject what they receive into their
agent and send its replies back over the WebSocket or by `POST /send`.

What makes each part correct, in one line each:

* session: nobody blocks the read loop, every blocked request stays where an answer, a drain or its timeout
  finds it, nothing is requested before authentication, and a bad connection is left;
* outbox: a queued message is neither forgotten nor sent twice by one process;
* inbound: what was acked is stored, nobody unapproved gets into the history, no sender waits in silence;
* mesh: the newest registration of a name is the routable one, what was reported delivered was queued,
  order is kept, the departed are removed;
* reply target and status: a reply goes where one message came from, and the relay ends with the
  agent's status;
* groups: whoever the relay counts a member is known here and an open invitation stays answerable, unless
  the user had its sender blocked, and the history holds what the relay took;
* pi: the client always has a socket or a timer, knows its sockets, and ends up connected;
* opencode: frames keep their order, at most one is lost per connection, and `Run` returns;
* hermes: a message runs one turn, none is skipped that was not delivered, and a reply is not for an
  earlier sender.

## 2. Modules

### RelaySession

One `Session`, its `Run` goroutine, the timers of each connection, the `onReady` goroutines, and callers,
each of which may use `WaitReady` any number of times and then one of the three request/response methods. A step is one critical section of
`s.mu`, one channel operation or one frame write. `phase` is the program counter of `Run`;
connections are numbered, `link[n]` is the state of the n-th socket ("lost": the peer is gone but
the socket is not closed, so a write may succeed and reach nobody). `Register` and `SendRequest` are
separate steps because the code releases the lock between them; so are `TakeConn` (`currentConn`)
and `Register`. Coalescing is by address: the first waiter of a slot sends, the others join it.
`Drain` is `drainWaiters` and the rest of `connectOnce`. `OnReadyReturns` and `OnReadyDone` are
the two deferred calls of `launchOnReady`'s goroutine, in their order.

External: the relay, the network (`LinkLost`), and who cancels. Of the relay only this is assumed: it answers
no request it was not sent, and each at most once. Its handshake frames come in any number and order, on a
connection that is authenticated or not: nothing in `handle` asks what came before. A second `auth_ok` on one
connection closes a channel that is closed; Go panics, nothing recovers, and the process is gone (`phase` is
"panicked", in which nothing moves any more).

`straddled` is a history variable. It holds the slots whose first waiter registered after the end of the
connection it had taken: such a caller sends its request to a dead connection, and whoever joins it, also
on the next connection, waits for an answer nobody was asked for until a late response, the next drain or
its own timeout. `LiveWaitersHaveRequest` says that this is the only way to be stranded: of every other slot it
holds on every connection, whatever the calls before it did. `WaitReady` has no caller in the
repository; it is modelled as the API that `session.go:82-84` and `:560` describe.

### MessageQueue and Outbox

`MessageQueue` is what the outbox promises: a message is new, queued, and then gone, by being handed
over or discarded, and never queued twice. `Outbox` is `Send`, the session's ready flag, the
statements of the store, `flushOutbox` in as many goroutines as `launchOnReady` starts, attempts, the
end of the process at any step (a crash, or `main` 200 ms after cancel) and its restart on the same
tables. `ImplementsQueue` is the refinement, with the outbox table as the queue.

### Inbound

One read loop that takes one message at a time from the relay's queue through the branches of
`handleInbound` ("blocked?", "contact?", "pend", "notified?", "mark", "announce", "save", "muted?",
"surface", "ack": each is one SQL statement or one call), and operations that change the tables under
it, statement by statement. The relay redelivers what was not acked; an ack may be lost. Five ghosts
record why a message that was acked is not in a table (`refused`, `purged`, `unread`, `cut`) and who
was ever approved (`approved`). `unread` and `cut` are the two windows of `FlushPending`: a row stored
between its SELECT and its DELETE, and rows read but not yet saved when the process dies.

### Mesh

Connections from the upgrade to `remove` (`stage`), their buffered channel and two pumps, the
registry, HTTP targets, and routers (a subscriber's read pump, a request of the agent, the stream of
surfaced events). Lookup or snapshot happens under the lock in one step (`Route`, `Broadcast`,
`SurfaceEvent`), each delivery in a later one. `owner` is a ghost: the last registration of a name
that nobody deregistered. HTTP targets answer or fail, nothing else of them is modelled.

### AgentState

What the agent keeps in memory and in rows of the meta table. `SetLastInbound` sets the memory and
`StoreTarget` writes the three rows (sender, group, message) one by one; `Reply` and `React` both begin
with `GetLastInbound`, which takes the memory's target or reads the rows, one by one, if the memory has
none. A reply uses the sender or the group, a reaction the message as well. `Status`, `StoreStatus` and `SendStatus` are the three parts of
`Agent.Status`; `Authenticated` is auth_ok with `launchOnReady`'s single flight, `OnReady` the two steps
of `onReady`. `Restart` keeps the rows. The ghosts `torn` and `mixed` mark the rows, and a reply that
read them, when a crash or a concurrent write left them half of one message and half of another;
`crossed` and `passed` mark a status overtaken on its way to the relay and an `onReady` that did not run.

### Groups

One group: its row, its member rows and the pending invite, the operations statement by statement, the
relay's membership (external), and the frames it sends, which the read loop stores and acks in order
and which can come again. `HandleInbound` drops the frame of a blocked sender, the inviter's or the
member's, and the frame is acked all the same; `missed` and `ignored` are ghosts for what was dropped so: the
members whose last news was a joining that was dropped, and the invitations that were. Lifting the block
brings neither back. The user may block and unblock at any time (`Block`). `Answered`, `AnswerLost` and `Refused` are the outcomes of `signedRaw`: only
the first returns no error, but the second has taken effect. A crash ends every operation where it is.
`raced` is a ghost for an operation overtaken by another, or by the relay, between its request and its
own statements: it then deletes what is new. The properties say that nothing else does harm.

### PiClient

One client in one JavaScript event loop, so a step is one event. `Connect` is `connect`, which every
start and every timer runs whole, with `closeSocket`; `Drop` is the common body of the close and error
handlers. Sockets move from "connecting" to "open", "closing" and "dead"; the close event comes when a
"closing" one dies. `Send` is split at the awaits of `GET /local-peers` and `POST /send`. The ghost
`lostSockets` names the sockets another socket's handler took out of `ws`, `seen` the sessions registered
while a call asked.

### Hermes

The bridge's read loop, which handles one frame at a time (`doing`), and the receiver, which takes posts
in any order (`posts` holds those under way, also after the bridge gave up on them). `Mark` is
`alreadySeen`'s bound, `Sweep` the receiver's. Both processes can restart. The ghosts count the turns a
message started (`runs`) and the times the receiver forgot it (`forgot`), and collect the senders a turn
could rightly answer (`since`).

### LossyChannel and OpencodeBridge

`Run` (`phase`), the read pump in Run's goroutine, the write pump, the watcher that closes the
connection when its context ends, and `SendLocal` from any goroutine. A write to a dead peer may succeed
or fail; the frame in hand is lost if it fails. `LossyChannel` is what the bridge promises: one queue of
bounded length for all connections, from whose front an open connection takes frames until it closes or
loses one. `ImplementsChannel` is the refinement: the queue is the frame in hand and the channel behind
it, and a connection is open as long as its write pump lives.

### Faulty variants

A definition whose comment begins with "Faulty variant" is a plausible bug in the definition that
follows it; it is used by nothing. Each property is known to fail when its variant is put in place
(`mutants` in `PROJECT.json`).

## 3. What TLC checks

| Run | Bounds | Shows |
|---|---|---|
| `relay` | 2 calls of one slot (kind key), 2 connections, backoff cap 1 | types; `FanOutNeverBlocks`, `BlockedCallIsReachable`, `LiveWaitersHaveRequest`, `RequestsOnlyAfterAuth`, `OnlyRepeatedAuthOkPanics`, `ReadyChannelMirrorsAuth`, `SingleFlight`, `BadConnectionIsLeft` (liveness) |
| `relay_sleeper` | 1 caller, 2 connections | violated: a `WaitReady` that took its channel before a disconnect sleeps through the next `auth_ok` |
| `outbox` | 2 messages, 2 connections, 1 restart, 1 attempt | `QueuedIsNotForgotten`, `WrittenOncePerLife`, `HistoryIsOfWrittenOrQueued`, `ImplementsQueue` |
| `outbox_stranded` | 1 message, 2 connections | violated: a row sits in the outbox of a ready session until the next reconnect |
| `inbound` | 1 sender; 2 direct messages, a reaction, a forged message; 2 operations in 2 goroutines, 1 redelivery, 1 crash | `AckedIsKept`, `NoSilentPending`, `OnlyApprovedInHistory` |
| `mesh_routing` | 2 subscribers, 2 names, buffer of 2, 2 messages | types; `AcceptedUnlessGone`, `InOrder` |
| `mesh_departure` | 2 subscribers, 1 HTTP target, 1 name, 1 message | `NewestIsRoutable`, `NoDanglingEntry`, `GoneIsRemoved` (liveness) |
| `pi_client` | 4 sockets, 1 call at a time, 2 starts, 1 outage, 1 error | `NeverIdle`, `UntrackedAreTaken`, `LocalTargetWasThere`, `ConnectedInTheEnd` (liveness) |
| `hermes` | 3 messages of 2 senders, 4 frames, 3 failures, sets of 1 and 2 ids | `SecondTurnIsForgotten`, `SeenWasAccepted`, `ReplyIsNotStale`, `DrainsInTheEnd` (liveness) |
| `opencode` | 5 sends, buffer of 2, 2 inbound frames, 3 failures | `OneLossPerConnection`, `ImplementsChannel`, `CancelledReturns` (liveness) |
| `groups` | 2 other members, 3 operations in 2 goroutines, 3 relay events, any members blocked at first, 1 lost answer, 1 crash, 1 redelivery | `MembershipIsKnown`, `OpenInviteIsKept`, `HistoryWasTaken` |
| `agent_state` | 2 messages (one of a group), 3 operations in 2 goroutines, 2 connections, 1 restart | `ReplyIsToOneMessage`, `RelayHasTheStatus` |

Why the bounds are enough. Two connections are a disconnect, a reconnect and every late step of an old
caller, timer or callback; a third adds no new pair of generations. Two calls are the smallest number
that coalesce, and only calls of one slot do; the kinds differ in the cache check of `GetKey`, so the run has
that kind. The backoff needs no more than one doubling that meets its cap. One attempt is the code's
limit of ten cut to where "retry" and "give up" both happen. Two messages of one sender are the fewest
for which `FlushPending` reads one and deletes the other. Two subscribers of one name are a reconnect
before the old release; a buffer of two with two messages, their acks and surfaced events is filled,
and is the smallest in which order can go wrong. In `inbound` the forged message and the reaction
differ from a direct one only in the branches they skip, so one of each suffices; one redelivery
includes every message handled twice. Four pi sockets are one more than the client can lose track of
within two starts, one outage and one error. A set of one id in hermes's bridge overflows at the
second message, the receiver's of two at the third. Five sends overfill the opencode bridge's channel
of two while one is in hand. Three operations on a group (blocking is one too) are, for example, an accept, a leave and an
accept of a later invite, or an accept between a block and its end; three events are an invite, a join and a kick. In `agent_state` two connections
let `onReady` outlive the first and be skipped by the second. The counters stop at their bounds, so the runs do
not check for deadlock.

Fairness. `RelaySession`: weak fairness of the session's own goroutines and of its timers; nothing of
the relay, the network or the callers. A read is fair only on a socket that was closed locally, since a
silent peer ends no read; the two watchdogs are what closes it, and the liveness properties say that
they suffice. `Mesh`: weak fairness of `serve` between two steps, of the read pump once its peer
has gone (it has a deadline of 90 s that only a pong extends) and of deliveries (non-blocking on
channels, five seconds on HTTP); none of upgrades, senders or deregistrations. `Outbox` states fairness
of the flush's and the calls' steps only for `QueuedIsSentOnReconnect`, which fails all the same.
`PiClient`: the event loop runs a timer that is due and delivers the opening and the close of a
socket; nothing of the daemon, of calls or of frames. `Hermes`: the bridge's loop dials, reads and
returns (reads have a deadline), and the receiver takes a post, which is a task of its event loop.
`OpencodeBridge`: Run, the write pump and the watcher are goroutines that go on when they can; a read
returns only on a connection that is closed or whose pong is overdue.

Hazards without a property are listed with the reason in `PROJECT.json`.

### Where the code and its comments part

Two disagreements are runs of their own (`outbox_stranded` and `relay_sleeper`, in `findings`). In the
second, a disconnect replaces `readyCh` and drops the old channel unclosed (`session.go:228-231`), so a `WaitReady`
that holds it is not woken by the next `auth_ok`, although it "blocks until the session is authenticated or
ctx/timeout elapses" (`session.go:560`). The models have the others too, as conditions of properties or as
behaviours no property forbids:

* A second `auth_ok` on a connection panics (`session.go:369`): `close(s.readyCh)` has no guard, and the
  comment at `:82` has the channel closed "each time we reach auth_ok" (`OnlyRepeatedAuthOkPanics` says that
  it takes a relay that sends two).
* A call that registers after the drain and whose write fails leaves its waiter in the map
  (`session.go:621`; `:233` says that the maps cannot grow across reconnects), and the calls that join it are
  stranded until the slot is emptied (`straddled`).
* `Block` promises that "all messages from them will be silently dropped" (`ops.go:435`). `handleInbound` drops
  the group's control frames as well (`agent.go:211-214`), after which the local member rows and the pending invite
  differ from the relay's for good (`missed`, `ignored`).
* A caller whose context ends while it awaits the ack is told of an error for a message that went out
  (`session.go:697`; `ops.go:148` speaks of "a true failure before transmit").
* A message handled while its sender is being added stays pending (`agent.go:248`; `ops.go:376` says
  that AddContact "delivers any pending messages").
* A frame for a subscriber that is leaving is dropped and counted as delivered (`ws.go:149`;
  `registry.go:191` speaks of "the names that accepted delivery").
* `onReady` does not run after each authentication (`agent.go:160`), hence `passed` in
  `RelayHasTheStatus`; a status sent by a slower `Status`, or by `onReady`, can be the older one
  (`crossed`).
* A crash between the writes of `setLastInbound` leaves rows of two messages, which a reply after the
  restart can use (`torn`); a reply that reads the rows while they are written for the first time can
  too (`mixed`).
* `LeaveGroup`, `KickFromGroup`, `AcceptGroup` and `DeclineGroup` delete by the group's id or address
  what has been stored anew since their request (`raced`). `DeclineGroup` ignores the relay's error and
  forgets an invitation that stays open there (`declined`). `LeaveGroup` fails when the relay has already
  removed the agent, and the group then stays in the local list.
* The pi client's `close` and `error` handlers clear `ws` whichever socket it names (`core.ts:248-256`).
  A socket lost in this way is not closed by `stop` ("Close the WS", `core.ts:196`) and injects each
  frame once more: `lostSockets` in `UntrackedAreTaken`. When the list of sessions cannot be read, the comment
  has the call "fall through to a relay attempt" (`core.ts:382`), but an earlier list still decides.
* The hermes receiver keeps the last sender "so the agent reply can be routed back to the correspondent
  that triggered the turn" (`adapter.py:138`): the reply goes to whoever wrote last (`since` in
  `ReplyIsNotStale`).
* The receiver claims that "webhook retries / reconnect replays never double-run" (`adapter.py:31`). They do
  once it has forgotten the id: its set is bounded in size and time and lost with the process (`forgot` in
  `SecondTurnIsForgotten`).
* A post of the hermes bridge that fails is not repeated: the id is forgotten so that a replay by the daemon may
  be forwarded (`bridge.go:300`), and the frame is otherwise gone. `DrainsInTheEnd` speaks of frames worked off.
* Group messages are stored without a contact check, by design ("relay is the trust anchor",
  `session.go:507`): `OnlyApprovedInHistory` is about direct messages and reactions to them.
* The opencode bridge's `SendLocal` is documented to fail if "the bridge is not running"
  (`bridge.go:115`); it buffers.

## 4. What TLAPS proves

`RelaySessionProofs`, for any sets of calls, names and kinds and any bounds satisfying
`SessionAssumption`:

| Theorem | Property | Rests on |
|---|---|---|
| `TypeCorrect` | `TypeOK` | `FlagsOK`, `DataOK` |
| `ReadLoopNeverBlocks`, `NoLostWakeup` | `FanOutNeverBlocks`, `BlockedCallIsReachable` | `WaiterInv` |
| `AuthBeforeRequests` | `RequestsOnlyAfterAuth` | `AuthInv` |
| `CoalescingLosesNoRequest` | `LiveWaitersHaveRequest` | `CoalesceInv` (on top of the two above) |
| `OnlyASecondAuthOkPanics`, `ReadyChannelIsTheReadyState` | `OnlyRepeatedAuthOkPanics`, `ReadyChannelMirrorsAuth` | `ReadyInv` |
| `OnReadySingleFlight` | `SingleFlight`, and `RunJoinsOnReady`, which no run checks on its own | `OnReadyInv` |

None of these properties is inductive. `FanOutNeverBlocks` needs that a channel is in one place until
it holds its result: in the map, in the handler's hands, or filled, never two of them (`WaiterInv`),
because the handler's send would block on a channel the drain had filled. `RequestsOnlyAfterAuth` needs
that a call can hold only connections that were authenticated when it took them and that `authed`
speaks of the newest one (`AuthInv`). `LiveWaitersHaveRequest` needs that a slot
whose first waiter did not straddle has waiters only while a connection is served, and that who is about to send
for it holds that connection (`CoalesceInv`); the lemma `CoalesceFrame` dispatches every step that
touches neither waiters nor requests. `OnlyRepeatedAuthOkPanics` needs that no channel created later is closed and
that the current one is closed only after auth_ok of the current connection (`ReadyInv`). No theorem
says that a sleeper of `WaitReady` is woken: one on a replaced channel is not. Each proof has a case per action of `Next`.
Types are split into `FlagsOK` and `DataOK`: no prover handles Boolean variables and arithmetic in one
obligation.

`MeshProofs`, for any sets of subscribers, targets, requests and names and any buffer and bound
satisfying `MeshAssumption`:

| Theorem | Property | Rests on |
|---|---|---|
| `NewestRoutable`, `NothingDangles` | `NewestIsRoutable`, `NoDanglingEntry` | `RegistryInv` |
| `AcceptedIsQueuedUnlessGone` | `AcceptedUnlessGone` | `FlagTypes`, `RoutingTypes` |
| `MessagesInOrder` | `InOrder` | `OrderInv` |
| `TypeCorrect` | `TypeOK` | its four parts, each an invariant of its own |

Here the two properties of the registry are inductive together with its types: a release compares the
entry, so an older connection cannot remove a newer one, and a name that was taken over is no longer
its holder's. `InOrder` is not: a frame may be put behind another only because its sender serves one
message at a time, so `OrderInv` adds that no frame of a session is newer than what it sends now, and
is older while that message is still to be delivered to the same subscriber. The lemmas `AppendedLast`, `OldestMoved`,
`AppendOrdered` and `LostOrdered` are facts about sequences: an enqueue appends to the stream of what
was received and what is on the channel, a write leaves that stream as it is, and a write that a
closed peer swallows removes one frame from it.

`OutboxProofs`, for any finite set of messages and any bounds satisfying `OutboxAssumption` (the set is
finite because the timestamps count the rows before):

| Theorem | Property | Rests on |
|---|---|---|
| `TypeCorrect` | `TypeOK` | itself |
| `RowsAreSentOnce` | `WrittenOncePerLife` | `FlightInv`, `RowsInv`, `NewInv`, `WrittenInv` |
| `QueuedIsKept`, `HistoryIsKept` | `QueuedIsNotForgotten`, `HistoryIsOfWrittenOrQueued` | `RowsInv`, `SentInv`, `KeptInv` |
| `OutboxIsAQueue` | `ImplementsQueue` | `RowsInv`, `NewInv`, `SentInv` |

Everything follows from the single flight: at most one flush runs (`FlightInv`), so what it has read is
still in the outbox, the row in its hand too, and no row has failed less often than it read (`RowsInv`).
A row therefore has at most one write per earlier life, and one more only between its write and its
delete (`WrittenInv`), which is where a crash repeats it. The refinement has one case per kind of step:
`QueueStep` maps `SaveOutbox` to `Accept`, a successful write to `HandOver`, `FlushCounts` to `Fail`, and the
two deletes to `TakeOut`, whose guard is what `SentInv` and `RowsInv` give.

`InboundProofs`, for any peers, messages of any kinds, requests and bounds satisfying
`InboundAssumption`:

| Theorem | Property | Rests on |
|---|---|---|
| `TypeCorrect` | `TypeOK` | `LoopTypes`, `TableTypes`, `OpTypes`, `CountTypes` |
| `NothingAckedIsLost` | `AckedIsKept` | `AckInv` |
| `StrangersStayPending` | `OnlyApprovedInHistory` | `CheckInv`, `FlushInv` |
| `SendersAreAnnounced` | `NoSilentPending` | `MarkInv`, `ToldInv` |

`AckInv` says what the read loop knows of the message in hand at each point after it was stored, and only
of requests that deliver that they hold rows: rows read but not yet deleted may be deleted by another
request. `StepKeeps` is the lemma that no step of anybody loses a message. `FlushInv` says that a flush is of
a peer that was added, and holds only that peer's direct messages, since the history is written from its
hands without another check. `NoSilentPending` needs that marks are deleted only with all rows of their
sender (`MarkStays`), and that the read loop handles only what is not acked.

`AdapterProofs` (which extends both `OpencodeBridge` and `PiClient`; their names are disjoint),
`HermesProofs` and `AgentStateProofs`, for any sets and bounds satisfying the assumptions of the modules
they extend:

| Module | Theorem | Property | Rests on |
|---|---|---|---|
| `AdapterProofs` | `ClientIsNeverIdle`, `OnlyHandlersLoseSockets` | `NeverIdle`, `UntrackedAreTaken` | `ConnTypes` |
| | `LocalRouteIsFresh` | `LocalTargetWasThere` | `CallInv` |
| | `FramesInOrder` | `WrittenInOrder`, which no run checks on its own | `PumpInv`, `OrderInv` |
| | `BridgeIsAChannel` | `ImplementsChannel` | `PumpInv` |
| | `FramesAccountedFor` | `OneLossPerConnection` | `PumpInv`, `LossInv`, `FoundInv` |
| `HermesProofs` | `OneTurnUnlessForgotten` | `SecondTurnIsForgotten` | `TurnInv` |
| | `NothingSeenIsUndelivered` | `SeenWasAccepted` | `TakenInv` |
| | `RepliesAreNotStale` | `ReplyIsNotStale` | `SenderInv` |
| `AgentStateProofs` | `RelayGetsTheStatus` | `RelayHasTheStatus` | `StatusInv` |
| | `ReplyTargetIsWhole` | `ReplyIsToOneMessage` | `TargetInv`, `ReadInv` |

The pi client's properties of its socket are inductive with its types; its calls need that what a call
was answered was registered while it asked (`CallInv`). In the opencode bridge a frame moves from the
channel to the hand to the wire: `OrderInv` orders the three, `FoundInv` says that no frame is anywhere else
unless it is lost, and `LossInv` that a pump which lost one is gone. `ChannelStep` maps the bridge's steps to
`LossyChannel`: `SendLocal` accepts or refuses, `Dial` opens, `Take` changes nothing of the queue (`QueueTaken`),
`Write` hands its front over, `WriteFails` loses it and closes, `PumpReturns` closes. A message has started no more turns
than it was forgotten, and one more while its id is known (`TurnInv`). A relay without the agent's status is
about to get it, from `onReady` or from the call that set it last (`StatusInv`); the rows hold the target
of the last message unless a write of them is under way or was cut off (`TargetInv`), and a reader that saw
neither has what they hold (`ReadInv`).

`GroupsProofs`, for any members, callers, events, failures, crashes and redeliveries satisfying
`GroupsAssumption`:

| Theorem | Property | Rests on |
|---|---|---|
| `MembersAreKnown` | `MembershipIsKnown` | `InviteInv`, `NewsInv`, `CreateInv`, `InvitedInv`, `MemberInv` |
| `OpenInvitesAreKept` | `OpenInviteIsKept` | `InviteInv` |
| `HistoryIsTaken` | `HistoryWasTaken` | `TakenInv` |

`MembershipIsKnown` relates three places that no statement changes together: the relay's roster, the rows,
and the frames on their way. An accept asks the store for its rows before it asks the relay, so a member
must have been known already while it was only invited: `InvitedInv` follows the names of the roster from
the invite frame (`NamedInFrames`) to the pending row (`NamedInInvite`) to the operation that accepts it
(`NamedInCall`), and `MemberInv` takes over when the relay lets the agent in. At each of the three places a
member who joined later than the names were written down is covered by a frame behind them
(`JoinedAfter`), and one who left and came back by `NewsInv`: behind the news of its leaving there is the
news of its joining, or a new invite. News that is dropped because its sender is blocked moves the member from
the frames to `missed` (`FrameHandled`), and an invitation to `ignored`. That the pending row is the relay's newest invitation, and no older
one comes after it, is `InviteInv` (invitations are numbered in the ghosts, and read in their order).
`CreateInv` is the other way in: before the relay has made the group there is nothing at the relay that
could change what `create` is writing. `Overtaken` gives `raced` its meaning: an accept that is about to
store while the agent is invited once more has an older number.

An operation is a long disjunction, so its steps are classified once: `OperationCases` says that a step of a
caller is quiet (it begins, goes on or returns, and deletes nothing), is granted by the relay, or is one of
the four statements that follow a grant, with what each changes; `RelayCases` says the same of the relay's
events. The invariants are proved from these two
lemmas and the facts about sequences of frames (`JoinedAppended`, `JoinedTaken`, `FrameRead`): what an
appended frame adds, and what reading the first one takes away.

Only model-checked: the liveness properties. Fairness and ENABLED are beyond the prover.

## 5. Not modelled

Cryptography and signatures (a message verifies or is "forged"), the content and rendering of messages,
file transfer, the relay's side beyond what the properties of its clients need, the time of the timers
(they may fire at any point at which they are armed), and the parts the inventory says are not modelled.
Within the modelled parts: a write that blocks inside the transport and holds `writeMu`; the names of
contacts; the expiry of mutes, which needs a clock; `TransferGroupAdmin`, which changes nothing local;
`React` of a message the caller names, which reads no target; hermes's `SendLocal`, which nothing in the repository
calls; the start of the opencode server.

Outside any module: the control socket, the command line and MCP front ends and the REST routes translate
a request to one operation of the agent; the single-shot client has one connection and one caller; names,
identity, crypto and configuration are computation or files read at start.

## 6. Plan

Models: the composition of `Outbox` with `RelaySession`'s connection and single flight in place of its
own; the file messages of the read loop with their download semaphore.
