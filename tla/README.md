# Verification of codex-python

This directory holds TLA+ models of the concurrent core of the Python port of
Codex (`src/pycodex`), the TLC configurations that check them, and TLAPS proofs
of the properties that matter most. Every module is translated from the Python
source; `PROJECT.json` maps each definition to the lines it stands for.

## 1. Inventory

The program is an agent that talks to a model, runs the tools the model asks
for, and serves user interfaces through a JSON-RPC app server. Nearly all of
it is single-threaded `asyncio`: a coroutine runs until it suspends, and what
can go wrong lives between suspensions (an await, a cancelled wait, a task that
is created but has not run yet). `PROJECT.json` lists all components; the ones
with state that several actors share are:

| component | state | operations | what is hard | what makes it correct |
|---|---|---|---|---|
| tool execution gate (`core/tools/parallel.py`) | readers, writer, waiting writers, one condition | enter and leave of parallel and exclusive calls | cancelled waits, wake-ups, writer preference | exclusive calls are alone; counters exact; nobody sleeps for ever |
| tool call runtime (`core/tools/parallel.py`, `router.py`) | dispatch task, cancel task, terminal-outcome flag per call | dispatch, cancel, claim the outcome, report, answer | the token is cancelled at any point of a call | one report per call, it agrees with the answer, nothing runs after it |
| connection RPC gate (`app_server/connection_rpc_gate.py`) | accepting, in-flight count | run a handler, shut down | a connection closes while handlers start and end | no handler runs after shutdown; shutdown returns |
| request serialization queues (`app_server/request_serialization.py`) | a queue and a drain task per key | enqueue, pop a batch, gather | enqueue against the end of a drain task; a raising handler | order and exclusion per key; no request is forgotten |
| exec-server sessions (`exec_server/server/session_registry.py`, `handler.py`) | sessions, attachments, expiry tasks | initialize, resume, disconnect, expire | stale expiry tasks, resume at the deadline, cancelled requests | an attached session is never expired, an expired one leaves no process |
| local process backend (`exec_server/local_process.py`) | process table, retained output, sequence numbers | start, read, write, terminate, shut down | cancelled start, eviction, exit and stream ends in any order, waiting readers | numbered output without gaps or reuse, closed is last, readers woken |
| exec-server connection loop (`exec_server/connection.py`, `rpc.py`, `server/processor.py`) | incoming, notification and outgoing queues, the writer | serve a request, notify, write, disconnect | a bounded queue whose writer ends; a route raced against the disconnection | order and no loss; a lost connection detaches |
| exec-server client (`exec_server/client/`, `process.py`) | pending calls, reorder buffers, event logs | call, respond, publish, subscribe, disconnect | cancelled callers, answers and notifications in any order, lagging subscribers | calls resolved by their own answers; process events in order, one end |
| exec-server relay (`exec_server/relay.py`) | virtual streams, the queue of frames they share | send, receive, reset, lose the websocket | full queues, one loop for all streams, a processor that ends by itself | a message reaches one virtual stream, once; answers leave in order; every stream comes to its end |
| unified exec (`core/unified_exec/`, its runtime and handlers) | reserved ids, process table, exit watchers; per process a buffer and a reader thread | exec_command, write_stdin, prune, clean up, report the end | three kinds of threads on one table without a lock; ids given back by one call and reused by another; a close that blocks the event loop | what the model was told of can be reached; the last answer completes the output; every end is reported |
| agent registry (`core/agent/registry.py`) | spawn slots, paths, nicknames | reserve, commit, release | two-step reservations abandoned midway | slots never exceed the limit nor leak |
| remote control, inbound (`app_server_transport/transport/remote_control`: `websocket.py`, `client_tracker.py`, `segment.py`) | subscribe cursor, assemblies, virtual connections, completed outbound tasks, transport events | receive, reassemble, initialize, forward, close, sweep, reconnect | envelopes sent again after a reconnect, re-initialization, stale completions, a reader cancelled anywhere | a virtual connection is a conversation; the cursor skips nothing; closing is announced |
| remote control, outbound (`websocket.py`, `segment.py`) | queue of events, buffer of unacknowledged envelopes, sequence numbers | number, split, send, acknowledge, send again | a reconnect in mid-send, late acknowledgements, one buffer for all clients | nothing a client has not got is forgotten; order per stream |
| outgoing messages, thread state (`app_server/`) | pending server requests, thread listeners | request, answer, cancel, replay | a client leaves with requests pending | every request is resolved or replayed |
| session tasks and turn state (`core/tasks`, `core/state/turn.py`, `core/session`) | active turn, pending input and approvals | start, steer, abort, finish | abort against a new turn; input at the end of a turn | no input lost, no approval stranded |
| network approval (`core/tools/network_approval.py`) | pending host approvals, session caches | request, decide, attribute | concurrent requests to one host | one prompt per host; a denial sticks |
| small primitives (`utils/readiness`, `async_utils`, `shell_escalation/unix/stopwatch.py`) | flags, tokens, a clock | subscribe, mark, pause | wait against cancel or pause | no early or lost signal |

Interactions: a turn's tool calls go through the tool call runtime into the
gate, and from there into unified exec, the network approval service and the
session's approvals. App-server requests go through the connection's gate
inside the queue of their key. The exec server puts every connection's process
requests on the process table of the session it is attached to.

The hazards of this code, each at its line with the properties that would
catch it, are in `PROJECT.json` ("hazards").

## 2. Modules

| module | models | state to code |
|---|---|---|
| `SharedExclusive` | abstract: a scheduler of shared and exclusive work | `active`, `finished` |
| `ToolGate` | `_AsyncToolExecutionGate` | `readers`, `writer`, `waitingWriters` are the fields; `phase` is where a call's coroutine stands |
| `ToolCalls` | `ToolCallRuntime` and the registry dispatch, on top of `ToolGate` | `handler` and `stage` are the two coroutines of a call, `claimed` the `TerminalOutcomeFlag`, `finishes` what the lifecycle contributors were told |
| `ConnectionRpcGate` | `ConnectionRpcGate` | `accepting`, `inflight` are the fields, `run` and `closing` the coroutines of `run()` and `shutdown()` |
| `RequestQueues` | `RequestSerializationQueues`, on top of `ConnectionRpcGate` | `open` and `queue` are the dictionary, `drain` and `batch` the drain tasks, `ticket` a history variable |
| `SessionLease` | abstract: a lease of resumable sessions | `holder` |
| `ExecSessions` | `SessionRegistry`, `ExecServerHandler`, the connection loop and the process table of `LocalProcess` | `registered`, `attached`, `detachedBy`, `sender` are a `SessionEntry`; `sleeping` and `due` its expiry tasks and deadlines; `loop`, `handshake`, `handle`, `spawning` a connection; `table` and `child` the processes |
| `ProcessOutput` | `LocalRunningProcess`, its stream tasks, exit watcher and `exec_read` | `nextSeq`, `output`, `open`, `exited`, `closed` are the fields; `sent` every event recorded, which is what a client that stays attached is notified of; `read`, `after`, `page`, `got` a reader and what it has seen |
| `ProcessEvents` | what a client makes of the notifications of `ProcessOutput`: `ClientSessionState`, `ExecProcessEventLog` and a receiver | `moved` is how far the server has put notifications on the transport, which it does only after it served a message of the client; `pending`, `lastPublished` are the reorder buffer, `log` and `live` the event log and a subscriber's queue, `published` and `received` histories |
| `ServerConnection` | a connection of the exec server: the message loop of `run_connection`, `_drain_outbound_connection` and the writer | `phase` is where the loop stands, `handlerUp` whether the handler was not shut down yet, `notices` and `outgoing` the two queues, `writer` and `disconnected` the transport, `wire` what it was given |
| `ClientCalls` | `ExecServerClient.call` and `_reader_loop`, over a websocket, a pipe or the harness end of the relay | `call` and `future` are a call's coroutine and future, `pendingCalls` the dictionary, `reader` the reader loop |
| `SegmentAssembly` | operators: `ClientSegmentReassembler` and the check in front of it | an assembly is a record of stream, sequence id, number of segments and the next one |
| `RemoteControl` | the reader of `RemoteControlWebsocket`, `WebsocketState` and `ClientTracker`, on `SegmentAssembly` | `reader` is where the reader task stands; `cursor`, `completedSeq`, `assembly`, `clients`, `lastSeq` are the fields; `cancelled` and `ended` the tokens and outbound tasks of connections; `log` and `pos` the external backend; `handled` and `torn` histories: what was delivered or had no connection, and the messages whose chunks were torn apart |
| `RemoteOutbound` | the writer of `RemoteControlWebsocket` with `BoundedOutboundBuffer` and `split_server_envelope_for_transport` | `writer` is where the writer stands, `current` the event in its hands, `buffer` the field; `numbered` the sequence ids given so far with what was numbered; `flight` and `got` the network and the clients; `written`, `torn`, `lost` histories |
| `Relay` | `run_multiplexed_environment`, its virtual streams and their writers, with `run_connection` behind each | `env` is where the loop stands, `table` the dictionary, `victims` the streams still to be disconnected, `physical` the shared queue of frames and `pulled` whether the loop's task holds its head; `inbox`, `outbox`, `proc`, `nextSeq` a virtual stream; `wire`, `delivered`, `made` histories |
| `UnifiedExec` | `UnifiedExecProcessManager`, `UnifiedExecProcess`, the runtime and handler in front of them, and the exit watcher | `pc`, `job`, `at`, `on` are the call the event loop runs; `reserved`, `entry`, `watched` the manager's fields and `newer` the order of `last_used`; `child`, `held`, `made` a child process with its pipe, `reader`, `read`, `buffer` its reader thread; `sweep`, `swept` the cleanup; `pruned`, `missed`, `displaced`, `got`, `omitted` histories |
| `ToolCallsProofs`, `RequestQueuesProofs`, `ExecServerProofs`, `ExecClientProofs`, `RelayProofs`, `RemoteControlProofs`, `RemoteOutboundProofs`, `UnifiedExecProofs` | theorems | |
| `MC...` | instances for TLC | |

An action is one stretch of a coroutine between two suspensions; in
`UnifiedExec`, where threads share the table, it is one stretch between two
operations on shared state. The answer of a started command, the report of it
and the start of its watcher are one stretch: nothing awaited between them
suspends (a report ends in a put on an unbounded queue). The
`asyncio.Condition`s and `asyncio.Lock`s of these components are never held
across a suspension other than `wait()`, which gives the lock back, so
acquiring them never suspends in the states reachable here.

Composition: `ToolCalls` extends `ToolGate` and `RequestQueues` extends
`ConnectionRpcGate`, adding their own state to every action of the lower
module; `ProcessEvents` extends `ProcessOutput` and consumes its `sent`;
`RemoteControl` extends `SegmentAssembly` and feeds it; `Relay` puts a processor
behind each virtual stream in the little detail the loop can see
(`ServerConnection` has all of it for one connection). The two directions of
remote control share the websocket and the state lock only, and a lost
websocket may come at any time in either, so that they are separate modules.
`SharedExclusive` and `SessionLease` are instantiated with refinement mappings
by `ToolGate`, `RequestQueues` and `ExecSessions`. The specification of
`ClientCalls` has names of its own (`CallsInit`, `CallsNext`, `CallsSpec`), so
that `ExecClientProofs` can extend it together with `ProcessEvents`, and so has
that of `ServerConnection` (`ConnectionInit`, ...), for `ExecServerProofs` with
`ExecSessions`.

Operators named `Faulty...` are not part of any specification. Each is a
plausible mistake in the definition that follows it, substituted to confirm
that a property notices.

## 3. Runs

TLC, with two workers, takes seconds to about a minute for each.

* `tool_calls`: one call of each kind (parallel, exclusive, exclusive and
  waiting for the runtime cancellation). Every interleaving of three calls with
  a token cancelled at any time is covered, and with it the gate: two exclusive
  calls compete while a parallel one is before, between or after them, and a
  cancelled token cancels waits. Properties of the gate are among those of
  this run, and are proved for any number of calls.
* `request_queues`: two reads and two writers of one key, on two connections
  that may close at any time, a read and a writer of which may raise. A queue
  holds up to four requests, reads batch, and requests of a batch are refused
  while others of it run. `ServedUnlessDead` is the promise the raising
  handlers leave intact.
* `request_queues_raise`: a disagreement. One handler that raises ends its
  key's drain task, because `gather()` is awaited without
  `return_exceptions`, and the queue stays registered without a task: its
  requests, and all later ones of the key, are never served.
* `exec_sessions`: three connections pass two sessions between them, so that a
  session is detached, resumed and detached again while expiry tasks of both
  detaches sleep, and expires while another one is in use. One process id is
  enough for its life cycle (starting, running, closed, retired, used again)
  to meet a lost connection at every stage.
* `exec_sessions_cancel`: a disagreement. A connection that is lost during a
  spawn has its route cancelled; `CancelledError` passes `start_process`'
  `except Exception`, and the Starting entry stays: the id can be neither
  started, read nor terminated for the rest of the session. The cancelled
  spawn's own child is assumed gone, which is up to `asyncio`.
* `process_events`: the process and its client in one run. Up to two chunks of
  one or two bytes, two bytes of which are retained, so that a record evicts
  the one before; pages of at most zero or nine bytes, so that a page is cut
  short, and holds its first chunk although it is too large. Exit and the ends
  of both streams come in any order, their notifications arrive in any order,
  one subscriber comes at any time, and the log and its live queue hold two
  events, so that both overflow. The log's bound in bytes
  (`PROCESS_EVENT_RETAINED_BYTES`) is 256 chunks of the 4096 bytes a read returns
  and never the one that binds. The server moves notifications to the transport
  only when it has served a message of the client (`Serve`), of which none need
  come: `CloseReachesClient` is about a close that such a message followed. A
  client that only awaits its events, as `receive` of
  `rmcp_client/executor_process_transport.py` does once it has written its last
  line, is not told of the close; without the premise TLC finds it.
* `server_connection`: three requests, four notifications, an outgoing queue
  of two messages, so that the loop waits for room in each of its stretches.
  `AskedIsAnswered` also says that notifications made before the loop rests are
  written; those made later wait for the next request.
  Only a route is raced against the disconnection, not the puts on the bounded
  outgoing queue: when the writer ends while the loop waits for room, the loop
  never sees the disconnection and the session stays attached, although
  `tests/test_exec_server_processor_rs.py` says that a disconnect during a request
  causes the connection to detach. `DetachesUnlessStuck` shows that this is the
  only way (`StuckOnFullQueue`); without the exception TLC finds the stuck loop.
* `client_calls`: three calls and an outgoing queue of one request, so that two
  wait for room; answers in any order, cancelled callers, a writer or a
  reader of the transport that ends first, and a malformed message or a bad
  notification that ends the reader loop over a connection that is up. The
  transport may also be the harness end of the relay, whose loop both writes and
  reads. `QueuedCallEnds`
  is about calls whose request was queued: a call that still waits for room when
  the transport is lost is not awaiting the future that the reader loop fails,
  and waits for ever, as the server's loop does. The other exception is a relay
  whose send failed (`writer = "silent"`): its loop sets the disconnected event
  but puts none in the queue, so that the reader loop is never told.
  `CLIENT_RS_STATUS.md` promises that pending calls fail when the transport
  closes; without the exception TLC finds the call that waits for ever.
* `relay`: two streams, queues of one message, two virtual streams spawned
  over four messages, so that a stream overflows and is spawned again, both
  are reset, and the websocket is lost while the loop waits.
* `remote_outbound`: two streams, one of a client that goes on reading and
  acknowledging (`Patient`) and one of which nothing is assumed; two events of
  each, split into no envelope (a message beyond the limit) or two, a buffer of
  two envelopes, and two lost websockets. Acknowledgements are of whatever the
  client has got, first or again, one segment at a time.
* `remote_control`: logs of up to five envelopes of two clients, one of which has
  two streams, each chosen to make two things meet: a message in two segments,
  whole, cut by another client's message, and cut by a chunk of the client's other
  stream; an initialization repeated; a stream closed with a message after it.
  The backend sends envelopes again after a reconnect. The queue of transport
  events holds one, so that the reader waits at every put; one websocket may be
  lost, anywhere, and the backend then starts again at any position up to the one
  after the cursor; the app server disconnects and the sweep expires whom they
  like. Of both invariants the proofs show the same for any log, any
  capacity and any number of lost websockets. A second loss reaches what this
  bound does not: a message sent again from the middle (see below).
* `unified_exec`: two calls and two ids, one call with a terminal and one whose
  process may leave a descendant on its output pipe. The table is pruned when
  it holds two processes, of which the later used one is protected, so that a
  second process prunes the first; the buffer holds one byte and the process
  writes two, so that the buffer drops one or is drained in between; the model
  writes to processes whenever it may, and one cleanup comes at any time, so
  that it meets a call that waits for its approval, a process just being stored,
  a prune, a touch and a watcher just being started.
Bounds. The number of actors is the constant that matters, and the smallest
one at which every pair of actors can meet with a third one interfering is
taken; queues are of one or two entries so that they are full early. No code
path depends on a larger number: the counters are compared with zero, the
queues with their capacity.

Fairness. The event loop resumes every coroutine whose await is over, which
gives weak fairness of every resumption. Tool handlers, hooks and request
handlers are assumed to return. Nothing is assumed of users and clients: the
token need not be cancelled, requests need not be sent, connections need not
close, a client need not come back to its session, and a child process need
not exit. Of time only that it passes: a detached session's TTL ends, and the
expiry task that slept for it wakes. A running writer writes or fails. In
`RemoteControl` the reader, its bookkeeping and the outbound tasks run and the
app server goes on taking events; in `RemoteOutbound` the websocket is made
again, the writer goes on and a patient client reads and acknowledges; in
`Relay` tasks go on and a frame that is being sent is sent or fails; while
nothing is assumed of the network, of when clients are silent for too long, or
of what is sent. In `UnifiedExec` the event loop and the readers run on (weak
fairness), and what a watcher handed to the loop comes to its turn although the
loop may always have another job, since its ready queue is a FIFO (strong
fairness); a snapshot leaves at its deadline, which time brings. A
notification that was put on the transport arrives while the client's connection
is up; that the server puts it there is not assumed, since it does so only when
the client asks for something.

Deadlock checking is off where the system stops: every call is answered, every
request over, every connection closed.

What is assumed of the remote-control backend, which is external: it keeps
envelopes in order, a cursor is a position among them, a new websocket resumes
no later than the one after the last cursor, a stream numbers its messages
upwards from 1, a message in chunks is sent from its first chunk on, and every
envelope names its stream. `RemoteAssumption` states it of the logs, and TLC
evaluates it on those of the run.

What the code does there that a reader may not expect, and where the
properties make room for it:

* A message put together from chunks can be lost, with the cursor past it, in
  two ways. It is gone when the reader is cancelled while it waits to forward it,
  if another client's message has moved the cursor past its first chunk: the
  backend does not send that one again. And a client has one assembly for all
  its streams: a chunk of another of its streams replaces it, and a chunk of a
  newer message of the same stream destroys it and is dropped with it, so that
  both messages are gone. The second happens when the end of a message was lost
  in the first way and its beginning is sent again, so that a stale assembly waits
  for the next message. `torn` in `CursorLosesNothing` is these cases and no others.
  An earlier version of that invariant knew only the first way. TLC agreed with
  one lost websocket; the attempt to prove it for any number failed at a stale
  assembly, and TLC then found a log on which three losses break it.
* `bookkeep_join_set` leaves its `completed.get()` behind when a reader is
  cancelled, and the abandoned getter takes the next completed stream. After a
  lost websocket, one disconnect by the app server is therefore not announced
  as closed; hence `drops > 0` in `DisconnectIsAnnounced`. A closed event that a
  cancelled reader was waiting to put is lost as well.
* `write_complete_tx` of an event is set only if the writer that numbered it
  also sent all of it: after a websocket is lost in between, the event is sent
  again and arrives, and whoever awaits the completion
  (`app_server/outgoing_message.py`) waits on. `torn` in `ArrivesUnlessHeldUp` is
  this case. An event the writer held while it polled for room is gone (`lost`).
* The buffer's room is shared, and envelopes of a client that has gone are never
  removed: they can hold up every other client for good (`HeldUp`).
* A completed stream is identified by its name. When it was initialized again
  before its completion is handled, the new connection is closed.

And of the relay:

* A processor that ends by itself (a client's notification that is unknown or
  refused) stays in the dictionary of streams. When its queue is full and it is
  to be disconnected, the loop waits for room that nobody makes, and with it
  every other stream (`LoopStuck`). After the loop has ended, a processor that
  waits for room among the frames nobody sends any more never sees its
  disconnection (`Blocked`). A comment in `tests/test_exec_server_relay_rs.py`
  promises every active stream its disconnected event when the websocket closes.
  `EndsUnlessStuck` excepts both by name; without the exceptions TLC finds them.
* A message that finds its stream's queue full ends the virtual stream without a
  word to the harness, and the next one spawns another, which has not been
  initialized.

And of unified exec:

* `close()` of an exited process waits for the lock of its output stream. The
  reader holds that lock in `read(1)` as long as a descendant of the process
  keeps the pipe open, and `close()` is called on the event loop's thread: a
  command that leaves a daemon behind stops the session, although the tool
  promises the model to wait a given time only ("How long to wait (in
  milliseconds) for output before yielding.", `core/tools/handlers/shell_spec.py`).
  Hence the hypothesis of `StartedCommandEnds`, that every pipe is let go of at
  last; without it TLC finds the blocked loop.
* A prune forgets a live process without terminating it (`pruned`).
* A cleanup clears the reserved ids also of calls that wait for their approval;
  the next call is given the same id, and the process of one replaces, or its
  refusal releases, the process of the other (`displaced`). A process that is
  stored between the copy of the entries and the clearing is neither terminated
  nor reachable (`missed`), and its end is not reported if its watcher had not
  been started. TLC finds each of the exceptions of `RetainedIsReachable` when
  it is taken out.
* An exit that the last poll of an answer sees after its lock was given up makes
  the answer final, and bytes read later are not reported. `ExitReportsAll` is
  about answers that saw the end of the output themselves.

Type invariants. They document the variables and are proved where the proofs build
on them (`GateTypeOK`, `SessionsTypeOK`, `OutputTypeOK`, `CallsTypeOK` of the
client, `ConnectionTypeOK`, `RelayTypeOK`, `RemoteTypeOK`, `OutboundTypeOK`,
`UnifiedExecTypeOK`).

## 4. Proofs

* `ToolCallsProofs`, first the gate, for any finite set of calls. The inductive invariant is
  the type invariant with exclusion, exact counters and the absence of lost
  wake-ups; they need each other: the guards read the counters, so exclusion
  follows only if the counters count, and a counter stays a natural number
  only because somebody it counts is there. Every action moves one call, and
  the cardinality lemmas turn that into plus or minus one. Writer preference
  follows from the counters in one step, and the refinement of
  `SharedExclusive` from exclusion in the next state.
* `ToolCallsProofs`, then the runtime, for calls of any kinds. Every step of the
  runtime is a step of the gate or leaves it alone (`CallsUseGate`), so that
  the gate's invariants hold of the dispatch tasks although the runtime cancels
  them. The inductive invariant of a call ties together its two coroutines,
  its place in the gate and the claim of its outcome, and speaks of one call
  only: no step of another call touches it. That the answer and the report
  agree, that an answered call is over, and that an aborted tool never starts
  follow from it.
* `RequestQueuesProofs`, for any finite set of requests, any scopes and any
  raising handlers. The inductive invariant `QInv` says what queues and
  batches hold: a queue holds unpopped requests of its key, each once; a batch
  is one request or shared reads; a popped request that is not over is in its
  key's batch. Exclusion is not inductive without it, because it rests on the
  batch being emptied only when all of its requests are over. It holds also
  after `gather()` raised, since the dead drain task keeps its batch. `OInv`
  adds the order of service: tickets are those of the requests that arrived, a
  queue is sorted by them and what was popped came before it. `GInv` counts:
  the gate's `inflight` is the number of handlers of the connection that are
  inside, so that a shutdown that returned left none; that it starts none
  follows from one step of it.
* `ExecServerProofs`, first the sessions, for any sets of sessions, connections and process ids.
  Two inductive invariants. `HInv` is about who holds what: a live connection
  that initialized is the one its session names and the session is registered.
  It needs that a session that names a connection is the one that connection's
  handler is bound to, or a detach could take away another one's session.
  `TInv` is about processes: a live child has a running entry, a connection
  that awaits a spawn owns the Starting entry of it, and a removed session has
  neither. A shutdown during a spawn is excluded by `HInv`, since the session
  of an awaiting connection is attached. That notifications go to the
  connection that holds the session (`SendersAreHolders`) follows from `HInv`. The
  refinement of `SessionLease` and the timing of expiry follow from `HInv` step by
  step.
* `ExecServerProofs`, then a connection, for any number of requests and notifications and any
  capacity. `CInv` follows the messages from the wire over the outgoing queue to
  the queue of notifications, of which the loop and the writer only move the
  borders. As long as the writer runs, or was closed without a loss, all of them
  are in order, and every notification and the response to every request that
  was served is among them (`NothingLost`); the requests that wait are the next
  numbers (`RequestsAreNext`). After a loss it says of the wire that nothing is
  missing before what is there.
* `ExecClientProofs`, first the process, for any streams, sizes and limits. `PInv` says that
  the log of notifications is numbered by position, that no number in use has
  reached the counter, and that closed is there exactly with the exit and both
  ends, as the last entry; it is inductive because `MaybeClose` sees the
  counter and the log that the step before it has just moved together. `RInv`
  is about the reader: its position and its pages are behind the counter, and
  a page lies above everything read before. A page's maximum exists because
  pages are bounded by the counter, which `LeastNatural` and `MaxOfBounded`
  derive from the well-ordering of the naturals. `KeptInv` is about retention:
  what is retained fits, and so a record evicts exactly the chunks that are too
  old, and the page a reader gets has everything retained up to its position.
  The sum of the chunks' sizes is a fold; that it grows and shrinks by the size
  of a chunk put in or taken out is shown from its recursive definition, by a
  least set for which it does not hold (`BytesTakes`).
* `ExecClientProofs`, then the client's events, for any capacity of the log, on
  top of the first part: the client takes only steps that leave the process
  alone, so that its numbering carries over. `EInv` says that what waits to be
  published and what was published are notifications that the server made, so that what
  `Ready` returns is the next piece of the server's log (`ReadyIsNext`), and
  that an end comes last and takes the session off the routes. `SInv` gives every
  published event its place: the log and the live queue are the latest events,
  what a subscriber has received and is to be replayed lies before the live
  queue, at increasing places, and without gaps while the log never
  overflowed. An increasing map of an interval to itself is the identity
  (`IncreasingIsIdentity`, from the well-ordering again), and that makes the
  stream of a subscriber that does not lag the published one.
* `ExecClientProofs`, last the calls, for any finite set of them and any capacity. That
  waiters are registered needs that the reader's end and the recorded failure
  coincide (`FailureEndsReader`): a call looks at the one and relies on the
  other. That answers are one's own needs that a request is in one place only
  (`InOnePlace`): queued, with the server, or answered and unread.
* `RelayProofs`, for any finite set of streams, any capacity, and any number of
  messages and virtual streams. `AInv` is about the answers: of each virtual
  stream the frames in the shared queue have exactly the sequence ids from those
  on the wire up to its next one, in this order, whatever frames of other
  streams are between them (`FramesFollow`), and its own queue goes on from there
  (`OutboxFollows`). That they are complete is then a cardinality. `MInv` is about
  the messages: the virtual stream in the dictionary is the last one of its id,
  has the last message received and has not been told to end (`CurrentStreams`),
  and those the loop has still to tell have not got the event (`EndsTold`). Without
  the first, a message could be put behind the event, or be the second one to
  miss its stream; without the second, `finally` could tell a stream twice. The
  list that `finally` goes through is a recursive function over the virtual
  streams; that it is all of them, each once, is shown by the least number up to
  which it is not (`InSpawnOrderFacts`).
* `RemoteControlProofs`, for any clients and streams, any capacity, any number of
  lost websockets and any log whose streams are numbered. What the reader has in
  hand wherever it waits (`ReaderKnows`) is common to three arguments.
  `Conversations` follows the ids of connections (`ConnectionsApart`): an id belongs
  to its stream, to the close the reader is announcing or to the background task
  that announces it, to one of them only, and while it does, nothing told says
  that it is closed; and what was told of a stream's connection is not above
  `last_inbound_seq_id`. Without the first, a sweep and a completion could both
  announce it; without the second, an envelope sent again could pass.
  `CursorLosesNothing` follows positions of the log. Everything behind the reader
  and behind the cursor is settled, that is delivered, without connection or torn
  (`BehindIsSettled`), and so is what the stream's numbers make the reader drop
  (`NumbersAreSettled`); what an assembly waits for comes after settled messages
  (`AssembliesFit`). That is not inductive: when the backend starts again at the
  cursor, a message may lie on both sides of it, and the rest of it completes
  only if its beginning is still there. `HeldBefore` says so of the reader's
  position and of the one after the cursor: what lies before it of a message it
  cuts in two is in the assembly, unless the message is settled or has no
  connection. So a chunk that does not fit belongs to a message that was torn or
  is torn by it (`ChunkMisfit`), and one that is dropped to one that is settled or
  held (`ChunkDropped`).
  `DisconnectIsPending` follows the streams of the outbound tasks. It needs that a
  connection that nobody cancelled is the one its stream has now, and that while
  the reader announces the close of a completed stream, that stream has no
  connection (`OpenStreamsKnown`): otherwise its completion, which the reader
  discards then, could have been that of a connection still to be closed.
* `RemoteOutboundProofs`, for any finite set of streams, any number of pieces,
  any limits, and any number of lost websockets. `EnvInv` is about envelopes: a
  client has, in the order of cursors, what it took, and what is numbered and
  not with it is in the buffer (`KeptUntilTaken`) and, while there is a websocket,
  on its way (`OnItsWay`). An acknowledgement may be late but is of something the
  client has, and what is before that in the order it has as well. The buffer
  after an acknowledgement is the recursive function `Retained`, of which the
  lemmas show that it keeps the order and drops only what is acknowledged.
  `NumInv` is about events: those of a stream stand in one line, first those that
  are numbered, then the one in the writer's hands, then those in the queue, and
  what is missing was lost with a websocket, at most one event each (`Line`).
* `UnifiedExecProofs`, for any finite set of calls, any ids, limits and budgets,
  and at least one protected process (the code protects eight).
  `RetainedIsReachable` is not inductive: that a release takes only the process
  of the call that releases needs to know whose every id is. `UInv` says so: a
  process is stored under its call's id, the loop knows whose job it does
  (`JobIsKnown`), and until a cleanup clears the table every call that has a
  claim to an id - it waits, or its process is about to be stored or is stored -
  has it reserved and to itself (`ClaimsAreOwn`). A new id is above all reserved
  ones and so nobody's. Once the table is cleared this is over, and what is lost
  from then on is recorded in `missed` and `displaced`. `IdsAreOwn` states the
  part before the cleanup by itself. `ReportsAreComplete` follows every byte: it
  is reported, in the buffer, in the reader's hands or dropped (`Accounted`), in
  increasing order (`InOrder`), and where an answer is final there is nothing left in
  the buffer or the hands (`CompleteIsOver`). That needs that a prune does not
  close the process whose output the loop is about to read, which is the
  newest one and so protected (`NewestIsKept`).

`ExclusiveAlone`, `NoStartAfterAbort`, `NumberedWithoutGaps` and `DisconnectIsPending`
are proved and in no run: the first follows from `ImplementsDiscipline`; the next two
are stages on the way to `AnsweredIsOver` and `PublishedInOrder`, and the last is the
safety part of `DisconnectIsAnnounced`, which runs check.

All rest on the assumptions of the constants alone (finite sets, connections
of requests, capacities of at least one, and for remote control logs whose
streams are numbered as the backend numbers them) and on no fairness.

Only model-checked is liveness, which rests on fairness and is beyond the prover:
`EveryCallAnswered`, `ServedUnlessDead`, `ShutdownCompletes`,
`AbandonedSessionEnds`, `CloseReachesClient`, `AskedIsAnswered`,
`DetachesUnlessStuck`, `QueuedCallEnds`, `DisconnectIsAnnounced`, `EndsUnlessStuck`,
`ArrivesUnlessHeldUp` and `StartedCommandEnds`. Every other property that a run
which passes checks is proved.

Induction over data is done by hand where it is needed (sums, filters, lists in
spawn order): the induction theorems of the library take an operator as a
parameter, which the provers cannot instantiate, and a least counterexample
takes their place. What the provers do not know at all are the definitions of
`SelectSeq`, `SetToSortSeq` and `FlattenSeq`; the properties proved here are
stated with sets of positions, sums and recursive functions instead.

## 5. Not modelled

* Cancellation of the caller's own coroutine (a turn task that is abandoned
  while it awaits a tool call or a request) is outside `ToolCalls` and
  `RequestQueues`; the runtime there is driven by its token.
* In `ExecSessions`: file-system and HTTP requests of the handler, the wait of
  `shutdown` for the tasks it cancelled, and a `LocalProcess` used in process
  without a registry.
* In `ProcessOutput`: writes to a terminal, several readers of one process
  (a connection has one request at a time), a failed spawn.
* In `ServerConnection`: the transports' framing; a malformed message, which is
  answered like a request; accepted notifications of the client, after which
  the loop only drains; the bound of the incoming queue, at which the one task
  of a websocket waits for the loop and does not write meanwhile. The message the
  writer holds counts as queued, and `handler.shutdown` is one step
  (`ExecSessions` models what it does).
* In `ProcessEvents`: the wake queues that carry only sequence numbers. In
  `ClientCalls`: HTTP body streams and the lazily made connection.
* In `RemoteControl`: pings, clients of the older protocol that name no stream,
  the app server's shutdown, malformed or oversized chunks and the eviction at
  128 assemblies.
* In `RemoteOutbound`: pings; the order in which a new websocket sends the
  streams (theirs may be mixed); how a long message is cut, of which only the
  number of pieces matters.
* In `Relay`: the encoding of frames, malformed and text frames, frames that
  acknowledge or beat, and sequence numbers beyond 2^32, which the other end
  does not look at. A frame or message that a task holds counts as queued.
* In `UnifiedExec`: the spawn itself with its terminals, sandboxes and Windows
  variants; ids drawn at random; a read that fails; what is written to a
  terminal and a write that waits for a full pipe; the deltas that stream output;
  a second cleanup (the modelled one is `tui/app/runtime.py`'s), and the one that `core/session/handlers.py` makes when the
  session shuts down. Time is not modelled: a snapshot may leave at any round,
  and two uses of a table entry never fall on the same reading of the clock.
* Session tasks and turn state: the start, abort and end of a turn are asked of
  the session object by name (`getattr`), and only test doubles define them. A
  model would have states that no program of this repository is in.
* Telemetry, formatting, payloads and wording.
* The components listed as not modelled in `PROJECT.json`, each with its
  reason: terminal user interface, command line, protocol data types, HTTP
  clients, sandboxes and vendored packages are input and output or data; the
  others are planned below.

## 6. Plan

New runs are to replace or absorb existing ones rather than to add to them:
each of the present runs asks one question.

1. Done: tool gate, tool calls, connection gate, request queues, exec-server
   sessions with their process table.
2. Done: process output, process events, server connection, client calls.
   The relay, environment and harness. Left of the exec server: HTTP body
   streams and the remote process's reader.
3. Session tasks (`core/tasks`, `core/state/turn.py`): when the repository has a
   session that starts and aborts them (see section 5).
4. Done: both sides of remote control. Left: shutdown, pings, older clients.
5. Done: unified exec. Left: its deltas and the session's shutdown; the agent
   registry's reservations (theorem: the count is the number of live slots);
   network approvals (one prompt per host).
6. Pure algorithms (patch application, execution policy, history
   normalization) as recursive functions against reference definitions.
7. Done: proofs of every safety property that a run checks.
