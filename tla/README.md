# LibCarla in TLA+

Specifications, model-checking runs and machine-checked proofs of the
concurrent core of this repository: the streaming library and the RPC server of
`LibCarla/source/carla`, the simulator plugin that serves the RPC calls
(`Unreal/CarlaUE4/Plugins/Carla/Source/Carla`) and the client library over it.
Paths below are relative to `LibCarla/source/carla` unless they start with
another directory of the repository.

    tlc -workers 2 -config Driving.cfg MCDriving    # a run
    tlapm DrivingProofs.tla                         # the proofs of a module

## 1. The system

Two programs talk over TCP. The *simulator* (an Unreal Engine game with the
Carla plugin) owns the vehicles and produces sensor data; a *client* (a Python
program over `client/`) asks it for things and receives data.

* **Streaming** carries sensor data one way. The simulator makes *streams*; a
  stream has a token; a client that knows the token connects, sends the id of
  the stream, and is sent messages from then on. Both sides are callbacks of
  Boost.Asio, run by a pool of threads and serialised by one strand per
  connection.
* **RPC** carries calls. rpclib's worker threads take the calls; functions that
  touch the game are handed to the game thread, which runs a slice of them once
  per frame.

### Inventory

| component | state | operations | interacts with | correct when |
|---|---|---|---|---|
| session, `streaming/low_level/tcp/ServerSession.h` | socket, stream id, deadline, `_is_writing`, the strand's queue | `Open`, `Write`, `Close`, the `StartTimer` chain, three completion handlers | created by the accept loop; registered with the dispatcher by a callback; written to by stream writers | frames never mix; no message is lost or doubled by reposting; an idle session closes |
| accept loop, `streaming/low_level/tcp/Server.h` | acceptor, `_timeout` | `Listen`, `OpenSession`, `set_timeout` | opens sessions | exactly one accept is in progress; every connection gets one session |
| streaming server, `streaming/Server.h`, `low_level/Server.h` | io_service, threads, the accept loop | constructors, `AsyncRun`, `Stop`, destructor | its workers run the accept loop | workers stay until `Stop`; clients are served whatever accepts fail |
| dispatcher and streams, `Dispatcher.h`, `StreamState.h`, `Stream.h` | next id, map of streams, one session per stream | `MakeStream`, `RegisterSession`, `Write` | registers sessions on worker threads, written to by any thread | ids are unique; data goes to who asked for it; subscribers are fed |
| tcp client, `streaming/low_level/tcp/Client.h` | socket, reconnection timer, `_done` | `Connect`, `Reconnect`, `ReadData`, `Stop` | the session on the other side; posts callbacks | one chain of continuations, ended by `Stop` only; reads only where it subscribed |
| subscriptions, `streaming/Client.h`, `low_level/Client.h`, `ThreadGroup.h` | set of tcp clients, io_service, threads | `Subscribe`, `AsyncRun`, `Stop`, destruction | runs the handlers of all tcp clients | handlers only run on live objects; each object connects to the server of its token; `Stop` returns |
| messages, `streaming/Message.h` and the `Encoder` in `tcp/Client.h` | bytes and a size | construction from buffers, `encode`, reading header and body | written by sessions, read by tcp clients | the callback gets what was written, wherever a connection breaks |
| tokens, `Token.h`, `Types.h` | a struct with a union of addresses | construction from an endpoint, `to_tcp_endpoint` | made by the dispatcher, used by `Subscribe` | leads back to the endpoint it was made of |
| time-outs, `tcp/Timeout.h` | a duration | conversion to milliseconds | accept loop, session, tcp client | - |
| rpc server, `rpc/Server.h` | the `_sync_io_service` | `BindSync`, `BindAsync`, `SyncRunFor`, `Stop` | rpclib's workers and the game thread | a task does not outlive the stack frame it refers to; calls are served, once |
| simulator server, plugin `Server/*.cpp` | `COUNT`, `_Agents` | `Tick`, `SpawnAgent`, `ApplyControl`, `EndPlay` | runs inside `SyncRunFor` | a control reaches the vehicle of its handle or none |
| vehicle, plugin `Vehicle/` | inputs, `bIsInReverse`, the engine's gear box | `ApplyVehicleControl`, `SetReverse`, `ToggleReverse`, the hand brake | called by the simulator server and by blueprints of the game | flag and gear box agree; does what its client asked for |
| rpc types, `rpc/*.h` | plain records | conversions to engine types, msgpack | carried by calls | what is asked for is what is done |
| client library, `client/` | shared pointers between client, world, actors | `GetWorld`, `SpawnActor`, `TrySpawnActor`, dropping handles | calls the RPC server | what a handle needs is alive; only what must be is leaked |
| blueprints, `client/ActorBlueprint.*`, `BlueprintLibrary.h` | a list of type ids | `Filter`, indexing | got from the server, used to spawn | an actor is what the program looked for |
| profiler, stop watch, logging, Python bindings, tests, build | - | - | - | - |

### What is hard here

* **Interleaving on a strand that is free.** A strand runs one handler at a
  time, but a write is *asynchronous*: between its start and its completion the
  strand runs other handlers. `ServerSession` needs a flag against it, and a
  message that finds the flag up posts itself again.
* **Code off the strand.** The session's timer chain, the tcp client's `Stop`
  and reconnection timer, and all user callbacks run on any worker thread while
  strand tasks change what they look at.
* **Nobody takes a session back.** A stream keeps the pointer of its last
  registered session, and callbacks that register sessions may run late and in
  another order than the connections were made.
* **A thread that waits for a thread that waits.** A synchronous RPC blocks a
  worker until the game thread runs its task; `Stop` blocks the game thread
  until the workers are done.
* **Clients that go away**: before they send an id, in the middle of a message,
  before their call is answered, before their subscription is registered.

* **Bytes in pieces.** A connection breaks inside a header or a body; sizes are
  checked against 32 bits and cast; a token's union keeps whatever memory it
  was made in.
* **Two copies of one state**: a vehicle's reverse flag and the gear box of the
  engine, which blueprints, the engine and clients all act on.

Every such place is listed under `hazards` in `PROJECT.json`, with the
properties that would catch it going wrong, or why none does.

## 2. Modules

| module | models | state ↔ code |
|---|---|---|
| `MessageChannel` | what a session promises: whole frames, one at a time, each message at most once, none after closing | abstract |
| `ServerSession` | a session and its connection | `strand` is the queue of the strand, `is_writing` is `_is_writing`, `timer` is where the `StartTimer` chain is, `deadline` whether `_deadline` is past, `inflight` the asynchronous writes, `wire` the parts put on the connection |
| `TcpServer` | the accept loop | `sessions[n]` a `ServerSession` and where `OpenSession` is with it; `timeout` is `_timeout`, in the milliseconds that `Timeout.h` cuts it to |
| `WorkerPool` | an io_service with the threads of a `ThreadGroup`: `AsyncRun`, `Stop`, joining, and an io_service that runs dry | `io` the state of the io_service, `starting` and `running` the threads before and inside `run()`, `caller` where `Stop` or the destructor is |
| `StreamingServer` | the streaming server: the accept loop of `TcpServer` on a `WorkerPool` | the two modules' |
| `StreamTable` | what the dispatcher promises: ids that no stream had, a session that has its stream at most once, messages that go to the one who has it when they are written | abstract: `subscriber` who has a stream, `answered` who had or was ignored, `sent` what each is sent |
| `Dispatcher` | making, registering and writing streams | `cached_id` is `_cached_token`'s id, `stream_map` the map with each stream's `_session`, `holding` a writer between `get_session` and `Write` |
| `Streaming` | the life of one stream: sessions, callbacks, expiry, clients that reconnect | `registered` is `_session` of the `StreamState`, `posted` callbacks posted and not run, `up` sessions with an open socket |
| `Framing` | messages as bytes, from the buffers given to `Message` to the callback of the client | `stream` the bytes sent and not read, `size` the size in the `Encoder`, `written` and `received` histories of every connection |
| `TcpClient` | one subscription | `strand`, `pending` operations, `timer`, `done`; `stop` splits `Stop` into cancelling and posting |
| `Token` | the token as the struct it is: protocol, address type, and a union of words | operators only |
| `Subscriptions` | the streaming client: its set of subscriptions, made from tokens, on a `WorkerPool` | `target` the `_endpoint` of every tcp client constructed, `alive` those in `_clients`, `pending` objects that the io_service refers to, `ready` those whose handler can run |
| `RemoteCalls` | what the RPC server promises to clients: a call is given up or takes effect, all at once and in some order, and then is answered; a control works on what the spawn made, or on nothing | abstract: `made` what each spawn made, `lastControl` the last control of each, `calls` where a client sees its calls |
| `RpcServer` | rpclib's workers, the synchronous tasks, the game thread, the table of agents | `calls[k]` a call from client to answer; `queue`, `drained` the `_sync_io_service`; `count`, `agents` are `COUNT` and `_Agents` |
| `Vehicle` | the vehicle's functions and the records that calls carry | operators on a record of the inputs, the flag and the gear box |
| `Driving` | `RpcServer` with the vehicles behind it: calls carry controls and transforms, the engine and blueprints act between the slices of the game thread | `vehicles` the pawns, `spawnedAt`, `touched` and `before` (the answered controls of its vehicle that a control was made after) histories |
| `ClientLibrary` | shared pointers, blueprints | `refs` the pointers between objects, `held` the program's handles, `alive` what was not destroyed, `library` the list it filtered, `actor` what each actor was spawned as |
| `MC…` | finite instances for TLC | |
| `…Proofs` | theorems and their proofs | |

Each action is one handler, or one step of a thread between two points where
another thread can come in; it makes all the state changes of that piece of
code. The correspondence, definition by definition with line numbers, is `map`
in `PROJECT.json`. Operations of Boost.Asio, rpclib, TCP, the engine and shared
pointers are external: their outcomes are actions or operators of their own
(`WriteCompletes`, `Aborted`, `TakeCall`, `EngineShifts`, …), as permissive as
the library is.

How the modules relate:

* `ServerSession` *implements* `MessageChannel` (`ImplementsChannel`, checked
  and proved).
* `Dispatcher` *implements* `StreamTable` (`ImplementsTable`, checked and
  proved): the counter, the callbacks and the two halves of a write are hidden.
* `RpcServer` *implements* `RemoteCalls` (`ImplementsCalls`, checked by the run
  `rpc` and proved): queue, slices, ids, frames and workers are hidden, a call
  takes effect when its function runs, wherever the threads are.
* `StreamingServer` composes `TcpServer` and `WorkerPool`: every handler of the
  accept loop is run by a worker, and whether the loop has work decides whether
  a worker stays. `Subscriptions` composes `WorkerPool` and `Token` in the same
  way.
* `Driving` refines `RpcServer`: it says what the calls do. Each of its steps is
  a step of `RpcServer` or leaves that module's variables alone (proved as
  `DrivingImplementsRpcServer`), so the run `rpc` checks the properties of both.
* `Dispatcher` and `Streaming` look at the same code from two sides:
  `Dispatcher` has many streams and ids and arbitrary sessions and asks where
  data can go (safety); `Streaming` has one stream and sessions that live,
  expire and are replaced, and asks whether data still arrives (liveness).
  `Streaming` takes from `ServerSession` and `TcpClient` only what those modules
  establish: an idle session closes (`ClosesItself`), a client that lost its
  connection subscribes again (`Resubscribes`).
* `Subscriptions` takes from `TcpClient` that a subscription has one handler or
  operation at a time (`SingleChain`), and `Framing` takes from `ServerSession`
  that frames go out whole and one at a time (`Framed`).

Definitions under a comment `\* Mutated:` are plausible mistakes in the code,
next to what they would be mistakes in. They are used by nothing but the tests
of the properties listed under `mutants`: with the mistake in place, TLC finds
the property violated.

## 3. Runs

Bounds are the constants in the `.cfg`; the reason they suffice is that each
property is about a fixed small number of participants, named below.

| run | bounds | properties | shows |
|---|---|---|---|
| `session` | 3 messages, 2 stream ids | `TypeOK Framed EachMessageOnce OutcomeIsTrue Watched ImplementsChannel ClosesItself EveryWriteEnds` | With one write in flight, one reposting itself and one more arriving - every situation the flag distinguishes - plus a client that stops or leaves at any point and a deadline that passes at any point: frames are whole, no message is lost or doubled, and each ends; the timer chain is never lost; the session closes |
| `session_assert` | 2 messages | `QueryGotItsBytes` (violated) | finding 1 |
| `tcp_server` (`MCStreamingServer`) | 3 connections, 1 failed accept, 2 workers, a time-out that is not a whole number of milliseconds | `OneAcceptor NeverDry ClientsKept ConnectionsAreServed` | Accepts that complete or fail before, between and after the workers start, `set_timeout`, `Stop` and destruction at any time: the recursion neither forks nor ends, workers stay, no client is lost or gets two sessions, every client is served unless the server is stopped |
| `tcp_server_timeout` | 3 connections | `NewSessionsGetTimeout` (violated) | finding 2 |
| `dispatcher` | ids modulo 4, 3 sessions, 2 writers | `TokensUnique OwnStreamOnly ImplementsTable` | All ids are used up and the counter wraps around; two writers hold stale sessions while a third is registered: what the sessions are given is as if writes were atomic |
| `streaming` | 2 clients, a pool of 3 sessions used again | `StreamIsFed EachGetsItsTurn` | A session closed, one whose callback is late, and a competitor's: enough for a stale session to be registered over a live one |
| `tcp_client` | 3 messages | `SingleChain ReadsWhatItAskedFor WindsDown ComesToRest Resubscribes` | Connections that break and servers that go down between any two handlers, and `Stop` in two steps between any two others. Three messages: one delivered, one being read, one after a reconnection |
| `subscriptions` | 5 streams, words of 2 values, 2 workers | `HandlersReferToLiving ReachesTheServer SubscriptionsAreServed StopReturns` | Endpoints of both address versions, of two servers, a UDP token and one that no dispatcher made, made into tokens in memory with two different contents; workers start before, between and after subscriptions: once one was made before the workers found nothing to do, all are served, also those made later; destruction joins them |
| `subscribe_twice` | the first streams of 2 servers | `HandlersReferToLiving` (violated) | finding 3 |
| `framing` | bytes of 2 values, a header of 2 of them, 3 messages, 1 break | `ReceivedAsWritten BreaksOnEmpty AllAreReceived` | Every size from nothing to one more than fits (3), of one buffer or two, and a connection that breaks at any byte: a message before the break, one cut, one after it |
| `rpc` (`MCDriving`) | 2 workers, 3 calls, ids modulo 16, 1 vehicle at a time used by blueprints | `FramesOutliveTasks RunsOnce ControlsOwnVehicle ReverseIsGear ObeysItsClient ImplementsCalls CallsAreServed StopEndsOrHangs` | Both workers blocked and a third call waiting; a spawn, a control through its handle, and a third party; spawns that fail; clients that give up; two controls that two workers post in either order; gear shifts and blueprints between the slices; `EndPlay` at any moment. Ids are wide enough that no counter reaches the id of a failed spawn, as 2^32 is for any real run (`IdsAssumption`) |
| `client_library` | 2 worlds, 3 actors, overlapping patterns, symmetric in worlds and actors | `HandlesAreUsable LeaksTheWorldOnly ActorsAreAsAsked` | All orders of dropping handles and of filtering, and calls that throw at any point |

Runs whose `.cfg` says `CHECK_DEADLOCK FALSE` are of systems that stop: a closed
session, a stopped client, a server after `EndPlay`.

### Findings

1. `ServerSession.h:72` asserts the number of bytes read before it looks at the
   error. A client that leaves without sending its id, and a session that times
   out while it waits for one, abort a debug build; the branch at lines 76-79 is
   written for exactly these cases.
2. `tcp/Server.h:64` hands the time-out from accept to accept. The comment at
   line 34, "Applies only to newly created sessions", is not true after
   `Listen`: sessions created later still get the old one.
3. `low_level/Client.h:38` uses `emplace` on a set whose elements are equal when
   their stream ids are. A subscription with an id that the set has is
   constructed - it starts to connect, with handlers that hold its `this` -
   found to be equal to the other, and destroyed. Every server counts its
   streams from one, so the first streams of two servers are enough. The warning
   at lines 21-22 says clients must not be destroyed before the io_service is
   stopped. With distinct ids the warning is heeded, which is proved
   (`DistinctHandlersReferToLiving`).

Also seen, and visible without a run: `client/World.h:51` asserts `parent` after
the initialiser before it moved from it, so the assertion fails for every world
of a debug build. `ClientLibrary` models a release build.

Behaviours the models show that no comment promises otherwise: messages of one
stream may overtake each other (`Write` reposts itself to the back of the
queue), as may callbacks of one subscription (they are posted to a pool);
a stream that is written to without pause keeps the session of a client that
left open; two subscribers of one stream take it from each other for ever; the
last stream id before wrap-around is followed by zero and then by failure;
workers of a streaming client that start before its first subscription end at
once, and what is then subscribed is not served; a control whose client gave up
may run after one that the client made later, and undo it; an empty message, where the assertion against it is compiled out, makes
the client reconnect; `EndPlay` hangs if a worker is blocked in a synchronous
call; a client and its world are never freed.

## 4. Fairness

Liveness properties are checked under the fair specification of their modules.

* *Threads run what is queued*: weak fairness on executing the head of a
  strand's queue, on completions of operations whose outcome is decided, on
  worker steps. Asio and the operating system provide this while threads are in
  `run()`. In `StreamingServer` and `Subscriptions` also: a thread that was
  created calls `run()`, one that may return from it does, joining ends, and a
  destructor that has joined goes on; in `Subscriptions` each handler that is
  queued is run, as asio's queue is first in, first out and callbacks return.
  Nothing says that the owner creates
  workers, stops or destroys; `ConnectionsAreServed` is about servers that have
  a worker and are not stopped, `SubscriptionsAreServed` likewise.
* *Accepts complete* (`StreamingServer`): the operating system completes an
  accept when a connection is waiting.
* *What arrived is read* (`Framing`): weak fairness on the reader. None on
  writers, nor on connections that break.
* *Time passes*: a session's deadline that is not moved passes; a timer that
  waits fires.
* *The game ticks* (`RpcServer`, `Driving`): weak fairness on `Tick`, `RunTask`
  and the end of a slice, and none on the events that end the game, on the
  engine's gears or on blueprints.
* *No fairness for the environment*: no client has to connect, write, stop,
  send its id or leave; no connection has to break; no call has to be made.
* Strong fairness is assumed nowhere.
* `StreamIsFed` and `EachGetsItsTurn` assume that from some moment on no
  connection breaks and messages come and callbacks run within the time-out
  (`<>[][~Misfortune]_vars`); before that, anything goes. `Resubscribes` assumes
  the same of the server and the network; `CallsAreServed` assumes that the game
  goes on.

## 5. Proofs

TLAPS proves the following for every value of the constants that meets the
named assumptions.

**`ServerSessionProofs`** (any set of messages). `TypeCorrect`;
`AlwaysWatched`: the timer chain is never lost; `AlwaysFramed`;
`OutcomeAlwaysTrue`; `EachMessageAlwaysOnce`; `SessionImplementsChannel`: the
initial states map to initial states and every step to a step of
`MessageChannel` or a stutter. `Framed` is not inductive: that the next part on
the wire fits depends on the write in flight. The invariant adds that at most
one write is in flight or waiting for its completion handler, exactly while
`_is_writing` is up (`OneWriter`), and that the wire ends in a header exactly
when this write has put out half of its frame (`HalfFrame`). For the outcomes,
`PlaceInv` says where a message of each status can be, and `WireInv` what of it
is on the wire. `EachMessageOnce` counts; the proof does so last
(`CountPlaces`): a message is in at most one place by `OnePlace` and
`OneWriter`, in at least one by `NotLost`, and so its sets of places are empty
but for one singleton.

**`StreamingServerProofs`** (any number of connections, failed accepts and
workers). `ServerTypeCorrect`, `AlwaysOneAcceptor`, `AlwaysNeverDry`. These three
depend on each other, and `LoopInv` is their conjunction with the session that
is in the loop: as there is an accept, the io_service has work; as it has work,
no worker left; and only a worker starts the next accept. `ClientsAlwaysKept`:
every client that connected waits in the backlog or has exactly one session. It
needs `LoopInv` and that the session whose accept is under way has no client yet
(`AcceptInv`); most steps only move sessions on, and `SessionsKeptIs` says once
what those preserve.

**`DispatcherProofs`** (any width of the id of at least one bit, any sessions
and writers). `TokensAlwaysUnique`, `ZeroIsLast`, `ThrowsAlwaysFull`,
`AlwaysOwnStream`. The invariant is about the shape of the set of ids in use:
until the counter wraps it is the interval from 1 to the cached id; zero joins
it last. `OwnStreamOnly` needs that every pointer to a session - in the map or
in a writer's hand - leads to one that asked for that stream.
`DispatcherImplementsTable` needs both: a stream is refused only when the ids
are used up, and a session that takes a stream never had it. A session's `sent`
is what it was given together with what writers hold for it, so the message is
sent when the writer takes the pointer, and the write itself is a stutter.

**`TcpClientProofs`** (any number of messages). `ClientTypeCorrect`,
`AlwaysSingleChain`, `AlwaysReadsWhatItAskedFor`. The invariant `Chain` says
where the client is: one operation, or one task on its strand among those that
`Stop` posted, or its timer, or nothing, and the last only after `Stop`. Each
of the places says what the client may rely on there: who reads on a connection
that works has sent the id of the stream on it. `StoppedAlwaysWindsDown`, an
action property, is what `ComesToRest` rests on besides fairness: when `_done`
is set (`DoneInv`: once, and the socket stays closed) every place has a number of
steps that are left, at most five, and each step of the client lessens it while
nothing else changes it.

**`SubscriptionsProofs`** (any endpoints, ids, memory and number of workers).
`SubscriptionsTypeCorrect`; `AlwaysReachesTheServer`, from the lemma that a
token leads back to its endpoint whatever the union held (`TokenLeadsBack`);
`AlwaysDriesOnlyUnused`, an action property, which is what
`SubscriptionsAreServed` rests on besides fairness; `DistinctHandlersReferToLiving`:
if no two subscriptions have one id, handlers refer to living objects. That is
as much as there is to prove: `subscribe_twice` shows it false otherwise. The
invariant (`PoolInv`, `ObjectsInv`) ties the threads to the state of the
io_service and what is pending to what was made, and `AllLive` adds that
nothing made was destroyed while the io_service is not stopped.

**`DrivingProofs`** (any number of workers and calls, any inputs, controls and
places, any number of blueprints' uses). About `RpcServer`: `TypeCorrect`,
`FramesAlwaysOutliveTasks`, `AlwaysRunsOnce`, `AlwaysControlsOwnVehicle`. The
invariant ties a call's stage to how often it ran (`StageInv`), the queue to the
posted calls, a control to an answered spawn (`HandleInv`), a spawn that ran to
the vehicle that has its id, or to `NoAgent` (`AgentInv`), and `COUNT` to the
number of spawns that ran (`CountInv`): as that number is at most the number of
calls, no vehicle gets the id that stands for a failed spawn
(`CountAlwaysOfSpawns`).

`RpcServerImplementsCalls`: every behaviour is one of `RemoteCalls`. What a
client sees of a call is a function of its stage (`Shown`); what a spawn made is
read off the id it returned (`Made`), and the last control off the vehicle that
has that id (`LastControls`). That a control changes this of one spawn only
needs that ids lead back to spawns: `OwnerInv`, the converse of `AgentInv` - a
vehicle belongs to one spawn, which ran and returned its id - and `MadeInv`,
that a call nobody made is nowhere in the server. The steps of the game thread
and of the workers that only move tasks are stutters.

`QueuedTaskAlwaysHangsStop`: if a task is queued while `EndPlay` waits for the
workers, the queue is never empty again and the game thread waits for ever. It
is the safety half of `StopEndsOrHangs`, from `EndsOutside`: a game thread in `EndPlay` is in no slice.

About `Driving`: `DrivingImplementsRpcServer`: every behaviour is one of
`RpcServer`, which makes all of the above hold of it
(`DrivingImplementsCalls`). `DrivingTypeCorrect`, `AlwaysReverseIsGear`,
`AlwaysObeysItsClient`. `ReverseIsGear` alone is not inductive: the gear box
keeps what it is told only while it is not automatic, and the engine reverses
by itself if it may brake that way. `VehiclesInv` has the vehicles `Steady` in
all of these, and that the agents are the vehicles. That no control undoes a
later one needs `OrderInv`: what a call remembers (`before`) are answered
controls of its own vehicle, so the task that runs is remembered by none; and it
remembers the last control of no vehicle but its own (`OwnerInvariant`), where
it becomes the last one itself.

**`FramingProofs`** (bytes of at least two values, any size of a header, any
messages and connections that break). `AlwaysReceivedAsWritten` and
`AlwaysBreaksOnEmpty`. The invariant, `FramingInv`, says that what is on the
wire is a beginning of what the reader still expects - the rest of the message
whose size it has read, and the frames of those after it - and all of it while
the connection is whole (`WireInv`); and that a size that was read is that of the
next message (`SizeInv`). That decoding a header undoes encoding it
(`DecodesWhatItIs`), and that the bytes of a sequence of frames are those of the
first and those of the others (`FlattenHead`), are inductions. They are done on
sets: the set of the positions up to which two recursive functions agree has
zero, and with each number the next (`Induction`, from the well-foundedness of
the natural numbers); `Recursion` gives the values of such functions.

**`ClientLibraryProofs`** (any worlds, actors, blueprints and patterns).
`PointersInvariant`, `HandlesAreAlwaysUsable`, `AlwaysLeaksTheWorldOnly`. The
invariant determines every pointer there is: once there is a world it and the
client point to each other, each actor points to the world, and nothing points
to an actor; a client that waits for a spawn is held or has a world.
`ActorsAreAlwaysAsAsked`: an actor is of a type that matches every pattern its
library was filtered by. `AskedInv` says it of what the library holds; that
`Filter` keeps what matches and only that (`FilteredMatches`) is an induction
over the list.

The assumptions: `ModulusAssumption` (ids have at least one bit),
`NoSessionAssumption` (the null pointer is no session), `ConnectionsAssumption`
(nor is no connection a connection), `StreamIdAssumption`,
`UnsetAssumption`, `ErrorsAssumption`, `ParametersAssumption` (of `Framing`: a
byte has a second value, a header has a byte), `BlueprintsAssumption` (a library
is a finite list), `MessagesAssumption`,
`StreamsAssumption`, `CallsAssumption`, `WorkersAssumption` (of `WorkerPool`,
and of `RpcServer`, which has a worker), `InputAssumption` (an input may be
zero), `PayloadAssumption` (calls carry records of their types), `Distinct` (an
object is one of client, worlds and actors), and `IdsAssumption`, that fewer
vehicles are spawned than there are ids. None limits the size of the system
otherwise.

**Only model-checked.**

* Liveness - `ClosesItself`, `EveryWriteEnds`, `ConnectionsAreServed`,
  `StreamIsFed`, `EachGetsItsTurn`, `ComesToRest`, `Resubscribes`,
  `SubscriptionsAreServed`, `StopReturns`, `AllAreReceived`, `CallsAreServed`, `StopEndsOrHangs`:
  reasoning about fairness needs ENABLED, which TLAPS does not have.

These are all the properties of passing runs that no theorem states: every
invariant, action property and refinement that is checked is proved. Of three of
them the part that is not about fairness is: `StopEndsOrHangs`
(`QueuedTaskAlwaysHangsStop`), `ComesToRest` (`StoppedAlwaysWindsDown`) and
`SubscriptionsAreServed` (`AlwaysDriesOnlyUnused`).

The provers cannot look into `^` and `SelectSeq`; where a proof needed what such
an operator computes (`Weight`, `Decode`, `Filtered`) the model has a recursive
function, and the proof an induction on the set of numbers it is right for.

## 6. Not modelled

* A `Stop` of the streaming client or server called from one of their own
  callbacks, which would join its own thread.
* A session or a `Stream` that outlives its server; `StreamingServer` ends when
  the server is destroyed.
* `Client::GetWorld` from two threads at once (it is not synchronised).
* The overflow of the 32-bit `COUNT` after 2^31 spawns.
* Negative time-outs, and `Timeout.h`'s other conversions.
* `std::packaged_task` being left by the game thread while the worker it woke
  returns from the frame that holds it: inside the standard library.
* The vehicle's bounding box and the getters of its speed and transform, which
  no call uses; the physics of the engine.
* msgpack and `fnmatch`: external; records arrive as they were sent, and
  patterns are a relation to type ids.
* Rounding of single-precision numbers in transforms and controls.
* Profiler, stop watch, logging, Python bindings, tests, build scripts and the
  engine project: pure output, compiled out by default, or configuration.

## 7. Plan

What is left, the most important first.

1. **Streams and servers that end**: sessions and `Stream`s alive when the
   workers of their server stop.
2. **Profiler**: minimum, maximum and mean over any sequence of annotations
   against their definitions.
