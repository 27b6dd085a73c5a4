# Farcel: TLA+ models, model checking and proofs

Farcel runs FMI simulations: one FMU, or a graph of FMUs coupled at common
checkpoints, on this machine or on worker processes. It also keeps projects,
results and Modelica builds on disk. This directory holds TLA+ specifications of
its behaviour, TLC configurations that check them, and TLAPS proofs about them.
Paths below are relative to `src/src/farcel/`.

    tlc -workers 2 -config MCGraphRun.cfg MCGraphRun.tla     # one run
    tlapm GraphRun_proofs.tla                                # one proof module

| module | what it is |
|---|---|
| `GraphRun` | one run of a simulation graph, with every failure and the stop thread |
| `GlobalCheckpoint` | what a graph run promises its caller (abstract) |
| `GraphRun_proofs` | theorems about `GraphRun`, refinement included |
| `CoSimRun` | one run of a single Co-Simulation FMU |
| `CoSimRun_proofs` | theorems about `CoSimRun` |
| `RemoteSession` | one coordinator/worker session over TCP |
| `RemoteSession_proofs` | theorems about `RemoteSession`, refinement included |
| `AtMostOnce` | what the coordinator is promised about commands (abstract) |
| `MERun` | one run of a single Model Exchange FMU: events, solver, release |
| `MERun_proofs` | theorems about `MERun` |
| `NodeRuntime` | one node of a graph, of either interface |
| `EngineSessions` | the low-level Session API over FMI 2.0 and 3.0 sessions |
| `EngineSessions_proofs` | theorems about `EngineSessions` |
| `DistributedRun` | launcher, coordinator, workers, asset cache around a graph run |
| `DistributedRun_proofs` | theorems about `DistributedRun` and about its `NodeRuntime`s |
| `ProjectStore` | a project directory shared by batch, editor, build registration, migration |
| `ProjectStore_proofs` | theorems about `ProjectStore` |
| `ModelicaBuild` | the Modelica build pipeline, several builds at a time |
| `ModelicaBuild_proofs` | theorems about `ModelicaBuild` |
| `MC*` | small instances for TLC |

## 1. Inventory

### Execution in one process

- **Graph execution** (`application/graph_runner.py`, `simulation_orchestrator.py`,
  `data_router.py`, `node_advance_executor.py`). State: the bindings (runtimes in
  declaration order), the last snapshot of routed outputs, the number of committed
  macro-steps, the accumulated samples, the stop flag. Operations: create,
  initialize, then per macro-step route, set inputs, advance, read, commit,
  record, report; then terminate all and close all. Hard: any call may raise when
  some nodes have moved and others have not; the cleanup itself may fail; a second
  thread sets the stop flag. Correct when nodes agree on time at every checkpoint,
  coupling is explicit Jacobi, the samples are exact, every runtime is released.
- **Graph runtime factory** (`graph_runtime_factory.py`). Creates the runtimes and
  closes those that exist when a later creation fails.
- **Node runtimes** (`node_runtime.py`). A Co-Simulation node repeats native steps
  until its target (early returns, attempt limit); a Model Exchange node owns a
  session and a solver and marks each release as attempted before trying it.
- **Single runs** (`runners.py`). `CoSimulationRunner` steps a session to targets
  computed from the completed steps, applies scheduled inputs, samples, streams
  chunks and reports progress. `ModelExchangeRunner` does the same over
  `ModelExchangeCheckpointCoordinator` (`model_exchange_runtime.py`), which orders
  input, time, state and integrator events. Hard: early returns, the final chunk
  and the terminal report after termination, failing callbacks, interrupts.
- **Session API** (`engine.py`): a dictionary of sessions and their states, open to
  any order of calls.

### Distributed execution

- **Coordinator** (`distributed_backend.py`, `execution_plan.py`): one client per
  worker in use, then a graph run whose factory mixes local and remote runtimes,
  then all clients closed.
- **Proxies and client** (`remote_node_runtime.py`, `remote_runtime_factory.py`,
  `worker_client.py`): one state machine per remote runtime, one pending call.
- **Transport** (`infrastructure/worker_protocol/tcp_transport.py`): framed
  request and response, timeouts on the client, a sequential server.
- **Worker** (`worker.py`, `worker_service.py`, `worker_runtime_factory.py`): a
  registry of runtimes with one state each; the session's end releases them all
  and ends the process; a watcher thread turns the end of stdin into a stop.
- **Launcher** (`infrastructure/worker_process.py`) and **asset cache**
  (`worker_assets.py`, `worker_asset_staging.py`).
- Hard: a timeout racing a late response, a lost response, a crash, the watcher
  racing the server thread, commands after a failure. Correct when proxies and
  records stay in step, no command is replayed, no stale response is read, every
  runtime is closed once, every call and every session ends.

### Persistence

- **Project store** (`infrastructure/project/json_repository.py`,
  `result_repository.py`, `project_run_persistence.py`, `project_schema_migration.py`):
  files replaced atomically, sometimes only if unchanged; an artifact is written
  before the history names it. Correct when the history never names a missing
  artifact and a conditional save never overwrites a change it has not seen, up to
  the window its docstring concedes.
- **Modelica builds** (`modelica_asset_staging.py`, `modelica_asset_store.py`,
  `project_modelica_service.py`): snapshot, compile, publish by rename, validate,
  register conditionally; directories are deleted only by their owner.
- **Batch** (`project_batch.py`): cases in series, the project chained through them.

The remaining parts are pure conversions, validation, wiring or adapters of
external programs. `PROJECT.json` lists every component with its status, and every
hazard at its line with the properties that cover it.

## 2. Plan

| | module | stands beside | main questions |
|---|---|---|---|
| done | `GraphRun` implements `GlobalCheckpoint` | | barrier, Jacobi, stop, results, release |
| done | `RemoteSession` implements `AtMostOnce` | inside one session of `DistributedRun` | in step, no replay, no stale reply, closed once, ends |
| done | `CoSimRun` | | samples, chunks, scheduled inputs, early returns, release |
| done | `MERun` | | events on time, solver in sync, samples, release then stream, stop |
| done | `NodeRuntime` | a node of `GraphRun` | checkpoints and inputs kept, released once |
| done | `EngineSessions` | | engine, session and FMU in step; inputs; release |
| done | `DistributedRun` | `GraphRun`'s life cycle over several `RemoteSession`s | only verified content runs, everything ends |
| done | `ProjectStore` | publishes what `ModelicaBuild` makes | consistent documents, conditional saves, batch |
| done | `ModelicaBuild` | | whole packages, clean failures |
| done | proofs about all of these | | every safety property of their runs (section 12) |
| done | proofs beside the liveness properties | | runs take finitely many steps, no call waits for nobody, nothing is left |

The components are joined by what one module assumes of another and the other
shows. `GraphRun` assumes that a node that returned from `advance_to` stands at the
checkpoint: `NodeRuntime` shows it (`CheckpointKept`). `NodeRuntime` takes the outcome
of a Model Exchange advance from the coordinator that `MERun` models. `GraphRun` and
`DistributedRun` treat a remote runtime like a local one: `RemoteSession` shows that the
two state machines agree. `ProjectStore` assumes that a published package is whole or
absent: `ModelicaBuild` shows it. For the proofs the modules declare no `RECURSIVE`
operator, name their assumptions, and have one action per operation.

## 3. `GraphRun`

**State and code.** `pc` is the line `GraphSimulationRunner.run` is at and `idx`
the turn of its current loop over the bindings, so a stop or an interrupt falls
between any two calls. A value is abstracted to the checkpoint it was computed
at: `time[n]`, `snapshot[n]`, `held[c]` (the value the target of a connection
holds). `life` is the state of each runtime, `partial` being a Model Exchange
runtime whose session was initialized before its initialization failed.
`completed` and `samples` are the orchestrator's and the accumulator's. `stopAt`
is auxiliary. Each action is one call and its exception: `Advance`, for example,
may raise with the model left behind or at the target.

**Run `graph_run`.** Three nodes, of which two feed each other, one of them feeds
the third as well and the third feeds itself; three macro-steps, stride 2: the smallest instance with a partial creation, a node
between two others at every loop, a checkpoint off the stride and a first and a
second macro-step. TLC visits every failure at every call. It shows that

- `CheckpointBarrier`: at a checkpoint every node and the snapshot stand at it, and
  inside a macro-step no node is behind or more than one step ahead;
- `JacobiStep`: a step consumes the source outputs of the checkpoint it starts from;
- `StopWithinOneStep`, `ResultExact`, `EveryRuntimeReleased`,
  `TerminateAllThenClose`, `Terminates`;
- `ImplementsGlobalCheckpoint`: with everything but the live runtimes, the
  committed checkpoint, the reports and the outcome hidden, a run is a
  `GlobalCheckpoint` run.

**Fairness.** `Terminates` assumes weak fairness of the runner's thread: a call
into a runtime, a codec or the callback returns or raises. The code gives no other
guarantee (it has no timeout on native calls). The stop thread has no fairness.

**Interrupts.** An exception that is not an `Exception` leaves `run` without any
cleanup; the action `Interrupt` models that, and `EveryRuntimeReleased` excludes
the outcome by name.

**Proofs** (`GraphRun_proofs`, for all `N`, `Steps`, `Stride`, `Conns`). None of
the properties is inductive: that the nodes stand at `completed` depends on which
part of a loop is done. `IInv` adds, for each point of the run, what the nodes
before and after `idx` have in common (created or absent, still at `completed` or
already one ahead, given their inputs, read into `fresh`), and how `stopAt` relates to
`completed`. `Invariance` proves that it is inductive with one step per action;
`TypeCorrect`, `Barrier`, `StopBounded`, `Released`, `Jacobi` and `TerminateFirst`
follow from it. `Refinement` shows that every step of `Spec` is a step of
`GlobalCheckpoint` or leaves its variables alone, from the same invariant and `RInv`,
which bounds `reported`. `ResultIsExact` adds `SampleInv`: the samples increase, hold
exactly the checkpoints recorded before the current one, and whether the current one is
among them is known at each point. The assumptions are those named in `GraphRun` only.

`RunsDown` is the part of `Terminates` that is a safety property: every step of the
calling thread, failures and the interrupt included, takes the triple (macro-steps left,
points left, nodes left) down in lexicographic order, all three are natural numbers
(`Counted`), and a stop request leaves them alone. So the thread takes finitely many steps
for every graph. That one of them is always possible until the end, and is taken, needs
fairness and is left to TLC.

## 4. `RemoteSession`

**State and code.** The coordinator's side is `sock` (`TcpWorkerClient._socket`),
the pending `call`, and the state of every `RemoteNodeRuntime`. The wire carries
one request and one response at a time, since the client has one pending call and
the server answers in order; a response the client has left is dropped with its
socket. The worker's side is the thread in `serve_forever` (`srv`), the service's
`registry`, the `stopEvent`, the listener and `_active`, and the watcher thread
with the two halves of `TcpWorkerServer.close` (take the sockets, shut them). Auxiliary
counters record how often a native runtime was closed and how many stateful
commands it was asked to carry out.

The environment may at any moment: make a native call fail, make a response too
large, expire the client's timeout however far the worker is, disconnect, close
stdin, crash the process. The caller may call any proxy in any order; `Sends`
says when a proxy sends and when it refuses or returns at once.

**Run `remote_session`.** Two nodes on one connection, two stateful commands per
node (`MaxCommands`): two commands are the fewest with which a late response or a
replayed command can meet a later one, and two nodes the fewest whose calls can be
confused. It shows `InStep` (the proxy agrees with the record, and no command is refused
for the record's state), `NoStaleReply`, `ClosedExactlyOnce`,
`NeverReplayed` (each node is an `AtMostOnce` machine: a command whose caller saw
an error may be carried out late, but no second one is), `EveryCallEnds` and
`WorkerEndsWithSession`. `CHECK_DEADLOCK` is off because a session whose parts
have all ended, and a client that asks for nothing, do stop.

**Fairness.** Weak fairness of the client's blocked `recv` (it returns when there
is something to return, or the connection is gone), of the server thread (native
calls return or raise) and of the watcher thread. No fairness of timeouts,
disconnects, crashes, new calls, or the end of stdin: `EveryCallEnds` holds
without any timeout, because `operation_timeout` may be `None`.

**Run `stdin_eof` (a finding).** `docs/PHASE_7_DISTRIBUTED_EXECUTION_DESIGN.md:395`
says that the watcher stops the server when stdin ends. `EofStopsWorker` states
that, and TLC refutes it with one node: the client's connection is accepted,
`accept()` has returned, stdin ends, the watcher sets the stop event and calls
`close()`, which finds `_active` still `None`, and only then does `serve_forever`
assign `_active` (`tcp_transport.py:93`). The connection is served and `stop_event`
is not read again until the client leaves, which it need not do.

**Proofs** (`RemoteSession_proofs`, for any number of nodes and commands).
`NoStaleReply` follows from `WireInv`: while the session is open its one call is at
one place (the request on the wire, the message in the server's hand, or the
response), and a session that is not open has neither a call nor a response.
`MessagesInv` says what each of those places may hold. `ClosedExactlyOnce` follows from
`RegistryInv`: a record is in the registry exactly while its runtime has been
created and not closed, and there is none outside a session.
`Refinement` (that `NeverReplayed` holds) rests on `WireInv` and
`CommandInv`: a node has at most one command ahead of the acknowledged ones, and a
proxy that can still send waits for that very command, so that nothing is sent
while it is on its way. `NodeInv` states it for a node, and each lemma shows for
one kind of step that it is kept and that the step is one of `AtMostOnce`'s.
`StaysInStep` needs to know what the record of a node may be while a call of its
proxy is at each of the places of `WireInv`, and that every other node's record is the
state its proxy believes in. `NobodyWaitsAlone` is the safety part of `EveryCallEnds`:
whenever a call waits there is a response or the end of the stream to read, or a server
that still has the connection or the request to deal with. `PeerInv` relates the two ends
for it: an open connection has a thread that serves it, one in the backlog a server that
will accept or close it, and a process that is over has closed both. That the server then
acts is its fairness, and stays with TLC. `WindsDown` is the safety part of
`WorkerEndsWithSession`: once the client has left it stays away, and every step of the
worker takes `WatcherLeft`, `ServerLeft` and the set `RuntimesLeft` down, in that order.
`ThreadsInv` says why the serving thread never turns back to `accept()` for good: after a
session the stop event is set, and a client that found no connection left a server whose
listener is closed. That the threads are scheduled stays with TLC here too.

## 5. `CoSimRun`

**State and code.** `pc` is the call `CoSimulationRunner.run` is at. Times count
from `start_time`; configured times are even and an odd number is any instant
strictly between two of them, so an early return that makes very little progress
may leave `now` where it is. That keeps the attempt limit meaningful: with plain
integers every early return would be bounded anyway. `applied` lists when the
scheduled updates were given to the session; its length is `next_input_update`.
`session` and `terminations` record what was done with the session, `chunks` and
`pending` the stream. A configuration is any record validation accepts
(`Validated`, from `validation.py`), and `early` and `variable` are the
capabilities of the FMU. `Completes` is the test of `runners.py:166` with both its
disjuncts: a step counts when it reached its target or announced no early return.

**An assumption about the FMU.** `Returns` lets a step that announces an early return
reach any later time, even past the target, which the runner turns into an error; one
that announces none has reached its target. FMI asks this of the FMU, and the FMI 2.0
session always answers the requested time, but for FMI 3.0 nothing in
`fmi3_session.step` checks it (only that time advances); a node of a graph does
(`node_runtime.py:191`). Without it (any time after `now` up to the target, not announced)
the second disjunct counts a step that ended short of its target, and `StepsMatchTime`,
`ResultExact` and `InputsOnTime` are violated: an update at the missed communication
point is never applied. `ChunksFaithful`, `StopWithinOneStep`, `SessionReleased` and,
as long as time advances, `Terminates` do not depend on it.

**Run `cosim_run`.** 192 configurations: a whole or a partial last step, sampling at
each or each second step, chunks of one, two or none, schedules at the first or
second communication point, with and without variable steps and early returns,
`AttemptLimit` 3 (small, so that it is reached both with and without progress).
It shows

- `ResultExact`: samples are the initial point, the reached multiples of the output
  interval and the final time, in order, and what COMPLETED and STOPPED mean; a
  stop requested during the last step gives COMPLETED, and an FMU without variable
  steps completes at the last whole communication point before `stop_time`;
- `ChunksFaithful`: every chunk is the stretch of the samples at its place, all but the
  last are full, the one final chunk comes after a successful termination and before the terminal report;
- `InputsOnTime`: no scheduled update is skipped or late;
- `StepsMatchTime`, `StopWithinOneStep`, `SessionReleased`, `Terminates`.

**Fairness.** As for `GraphRun`: calls return or raise. An interrupt inside the
`try` block is kept while the cleanup runs (unlike in `GraphRun`); one that hits the
cleanup itself gives the outcome `ABANDONED`, excluded by name. The run stops, so
`CHECK_DEADLOCK` is off. 

**Proofs** (`CoSimRun_proofs`, for every set of configurations, schedule and
`AttemptLimit`). `StopWithinOneStep` needs `StopInv`: no native step is under way or
about to begin once one was begun after the stop flag was set, because every
path to `step` passes the test at the top of the loop. `SessionReleased` needs
`ReleaseInv`: what the session is at each point, in particular in the cleanup, where every
path to `finish` goes through `close`. `StepsMatchTime` rests on `TimeInv`: where the time
lies between the completed steps and the target at each point of the loop, before and
after the counter is incremented; `ReturnsReach` and `StepReaches` are the only lemmas that
use what `Returns` assumes of the FMU. `InputsOnTime` adds `InputInv`: no update is missing
whose time has passed, or has come when a native step begins; an update lies at a
communication point, so that `TimeInv` keeps a step from passing one. `SampleInv` says
which times are recorded while the current one still is or is not, and `EndInv` why the
loop ended; `ChunkInv` that the chunks are consecutive stretches of the samples and
`pending` the rest. All of it holds for every step length, output interval, schedule,
chunk size and attempt limit that validation accepts.

`RunsDown` bounds the steps of the calling thread as in `GraphRun`, by (communication steps
left, attempts left, points left): an early return makes no step complete and may not even
move `now`, so only the attempts go down. `CountInv` says that both counters stay in their
limits; the number of steps is bounded because a native step only begins before the stop
time (`StepsBeforeStop`). Liveness itself is checked by TLC only.

## 6. `MERun`

**State and code.** `pc` is the call `ModelExchangeRunner.run` or, inside
`advance_to`, `ModelExchangeCheckpointCoordinator` is at. Time is an absolute
integer, because the code's treatment of the number 0.0 matters; two times within
the tolerance are one. `nextEvent` is `_next_time_event` as a set of at most one
time, `applied` the times at which scheduled updates were given, `session` the mode
of `FmpyFmi2ModelExchangeSession`, `solver` the CVode adapter. `inSync` is auxiliary:
an input or an event that changes states or nominals makes it false, a reset of the
solver true. The FMU may ask for any event at every call and announce any time, a
past one included; CVode may stop at any root.

**Run `me_run`.** Schedules at the second communication point and at the start and the
second, a whole and a partial last step, each or each second checkpoint sampled,
chunks of two or none, with and without `completedIntegratorStep`; three event cycles
per checkpoint and two discrete iterations (both limits are reached). It shows

- `EventsOnTime`: time never passes an update or an announced time event, whatever
  state events lie between;
- `SolverInSync`: the solver never integrates from values an event has changed behind
  its back, over any number of discrete iterations;
- `ReleasedThenStreamed`: terminate, solver, session, each once and in this order
  whatever raises, then the final chunk and the terminal report; the chunks are the
  samples cut into full ones;
- `ResultExact`, `StopBounded` (at most one integration and the event it leads to
  begin after a request) and `Terminates`, under weak fairness of the calling thread.

**Proofs** (`MERun_proofs`, for every set of configurations and both event limits). The
invariants, each inductive with the ones before it: `StopInv` (what may still begin after
a request, by point of the loop), `SyncInv` (at which points the solver is known to be in
sync: the reset comes between an event and the next integration on every path),
`ReleaseInv` (what the cleanup released so far), `ClockInv` (where the time lies between
the last communication point and the next), `EventInv` (neither the next update nor the
announced time event lies behind the clock, and no integration starts at one of
them), `SampleInv` with `EndInv`, and `ChunkInv`, as for `CoSimRun`. `RunsDown` bounds the
steps of the calling thread by five counts in lexicographic order: checkpoints left, points
of the runner, event cycles left, points of a cycle, discrete iterations left. A cycle need
not move the clock, and an event may follow an event at one instant: only `CycleLimit` and
`IterationLimit` end that, and `CountInv` says that they are never passed without an error.
`EventsAreOnTime` is stated for runs that do not start before 0, because it is false
otherwise:

**Run `negative_start` (a finding).** `docs/PHASE_3_MODEL_EXCHANGE_DESIGN.md:150` makes
the next target the earliest of checkpoint, input, time event and stop time. The code
writes `self._next_time_event or math.inf` (`model_exchange_runtime.py:80`), for which
a time event at 0.0 is none. With a start time of -3, which validation accepts, TLC
steps over it.

## 7. `NodeRuntime`

**State and code.** One node as `graph_runner` and the worker service drive it. Time is
counted in units of the tolerance, so that a Co-Simulation step may end one unit beside
its target, which the code accepts, and the next one starts there. `attempts` is the
turn of the retry loop; `started`, `ready`, `terminal`, `ended` and `closed` are the flags of
the two classes (each has a different subset under different names; the comments give
them), `released` the calls made on session and solver.

**Run `node_runtime`.** Both interfaces, three checkpoints of five units, four schedules,
three attempts; the session may report any time from one unit back to two past the
target with either flag. `CheckpointKept`: while no call has raised the node is at the
caller's checkpoint and every update due before it was applied at its own time, whatever
tolerance remained from before. `ReleasedOnce`: the solver before the session, once each,
terminate at most once and before them, for any number of `terminate` and `close`.

**Proofs (`DistributedRun_proofs`).** Both properties, for every grid counted in tolerances, schedule
and attempt limit. `Released` rests on `ReleaseInv`, which says from the flags exactly what
was released so far. `Kept` rests on `ScheduleInv`: between calls the node is near its
checkpoint and has passed the updates due before it; at the point "step" it has passed the
one due at it as well. The second clause is what makes it inductive: `Arrive` moves the
checkpoint without looking at the schedule again.

## 8. `EngineSessions`

**State and code.** A call of the API (`op`) is the list of native calls (`todo`) its code
makes, each of which may raise; `state`, `now` and `next` are the engine's record, the
four flags those of the session, `native` the mode of the FMU instance. The table
`NativeCalls` says in which mode the FMI standard allows each call: it belongs to the
FMU. `FmpyFmi3Session`'s event mode, early return and structural parameters appear as
capabilities of the FMU.

**Run `engine_sessions`.** FMI 2.0 and the eight kinds of FMI 3.0 FMU, a client that calls
anything in any order and repeats what failed, with steps of none, half, one and one and
a half communication steps up to `Horizon` 6 (three of them), an update at the start, an
empty one, one two steps later. It shows `InStep`
(no native call out of its mode and the engine's time is the FMU's, as long as no call
raised half-way through an initialization or after a `doStep`), `InputsInOrder` and
`ReleasedOnce`. A step the caller makes pass the time of an update leaves that update and
all later ones unapplied, without an error (`engine.py:412`): `InputsInOrder` promises an
update only when steps were begun at its time and at those of all before it.

**Proofs** (`EngineSessions_proofs`, for every FMU the capabilities allow, every schedule and
step size on the grid, and every horizon). `InStep` needs the mode of the instance in the
middle of an operation. `Path(o, calls, from, to)` says that a list of calls leads the
instance from a mode in `from` to `to` when none raises; the lemmas show it for the list of every
operation (`OpenPath`, `InitializePath2`, `InitializePath3`, `StepPath`), and
`InstanceInv` says that the rest of the list is always a path from the mode the instance is
in, unless a call was left half done. `RecordInv` relates the engine's record to
the session's flags and `CloseInv` describes a close that has begun. `InputInv` says which
updates were delivered and which are pending in the call under way, a repeated one included.
`ReleasedOnce` follows from `RecordInv`, `CloseInv` and `InstanceInv`.

## 9. `DistributedRun`

**State and code.** One thread coordinates: `pc` is its phase (launch, connect, create,
run, close, disconnect, reap), `todo` what the phase still has to go through, `call`
the round trip under way with the worker's progress in it and the content a PUT carries.
`sock`, `clients` and `bindings` are the executor's; `proc`, `session`, `backlog` and
`runtimes` the worker processes; `cache` the entry of each digest in each cache root,
`source` the content of the model file and `hashed` the digest `ensure_asset` took.
`HashedAgain` is the stager's second look at what it read, `Admits` the worker's own check of
what was uploaded; an entry a PUT fills is good or `misnamed`, as `Written` says. The world
outside may put any content under any digest through a worker of the same root
(`OtherPut`), and lose or overwrite any entry at any moment (`Damage`). `spoiled` is
auxiliary: the nodes whose entry was damaged after `resolve_asset` had verified it and
before it was loaded. The sequence of error
paths is `Fail`. The same thread stands for the caller: `LocalWorkerSubprocess` is an
adapter the tests compose with the executor, the public path is given endpoints.

**Run `distributed_run`.** Two nodes; a process launched by this program and one that
was running before, on one shared cache root; ten plans: two workers in either order,
one remote node of two, two nodes on one worker, two ids at one endpoint in either order (one of them the
wrong identity for its process), no remote node, and three plans
that must be refused. The entry of the file's digest is absent, good, damaged or a directory at first;
others may upload and damage entries at any time, the model file may be edited once, any process may
crash, hang while it starts or while it shuts down, any wait for HELLO may time out, the runner may be
interrupted. It shows

- `ServedVerified`: what is uploaded under a digest has it, though the file is edited
  between the digest, the question and the upload; no PUT leaves an entry with other content
  than its name says; what a worker runs for a node has the digest the coordinator took, whatever
  was damaged before it was resolved. Each of the three checks is needed: without the second
  digest, without `put_asset`'s own check, or with an entry that counts because it exists, the
  run finds a violation. Damage between `resolve_asset` and the load of the path it returned is what
  the code cannot see, and `spoiled` names just that;
- `EverythingReleased` (temporal): the call always ends, and then no worker keeps a
  session or a runtime of it, unless it hangs and belongs to somebody else, and no
  launched process is left.

**Fairness.** The coordinator's thread and each process that is not stuck make progress;
waits with a timeout end. Only HELLO has a timeout by default (`operation_timeout` is
`None`): native calls on a worker are assumed to return. Crashes, hangs, edits and other
writers are never forced.

**Proofs** (`DistributedRun_proofs`, for any nodes, workers, processes, cache roots, digests
and plans). `OnlyVerifiedServed` proves `ServedVerified`. `UploadInv` has its first two parts:
what a PUT carries has the digest it goes under, and no entry is misnamed. Whether the content
loaded is the one whose digest was taken depends on two moments that lie apart, so the
invariant follows the entry between them: `CreationInv` says that the digest of the node
being created is the one taken once for it, `LoadInv` that the entry a worker has resolved
and not yet loaded is verified or was spoiled since, `RuntimeInv` the same of the
runtimes already made. What keeps an entry verified while others write to the same
root is `VerifiedForGood`, a theorem of its own: nothing but damage to the entry itself takes a
verified entry away, because a file is put in place only under its own digest. `OnlyWherePlaced` rests on `IdentityInv` (a client that got past HELLO is at the worker its endpoint
names; the connection of one that was refused is closed before any request) and
`NothingLeftBehind` on `SocketInv` and `LaunchInv`: what each phase of the cleanup still has
to go through covers every socket and every launched process that is still there. The assumptions
are that a graph names each node once (`graph_validation.py`, `DUPLICATE_NODE_ID`) and a
launcher starts at most one process (`LocalWorkerSubprocess.start` returns the first one's
descriptor when it is called again).
What a worker process does after the call has left it (`EverythingReleased`) needs its
fairness and stays with TLC.

## 10. `ProjectStore`

**State and code.** `disk` is the document in `project.json` and a digest is the document;
`mine` is the `SimulationProject` each process holds; `artifacts`, `published` and `backups`
are the files. Four roles run the code of `ProjectBatchService.run` over `persist_run`,
`save_project`, `compile_and_register` and `migrate_1_0_to_1_1`, one file operation at a
time; each may fail and each process may crash between any two. A migration that failed or
crashed is tried again. `foreign[a]` is auxiliary: somebody else wrote since `a` last looked.

**Run `project_store`.** One process of each role, a batch of two cases, both schemas. It
shows

- `HistoryBacked`: no document, on disk or in the hands of a process, names a run without
  its artifact, a build without its package, or is one that the next validation refuses,
  although `save_project` does not validate what it saves;
- `OnlyTheWindowLoses`: a conditional replacement loses nothing but what was written in
  the window between its digest check and `os.replace`, which the docstring concedes;
  and a migration replaces only what a whole backup holds, though an attempt before it
  left a torn one;
- `BatchFaithful`: the items of a batch are the cases in order, they end the history of
  the project it returns, and that project is on disk when nobody else wrote.

The unconditional `save()` does lose the updates of others: that is its contract, and no
property hides it. `CHECK_DEADLOCK` is off: processes end.

**Proofs (`ProjectStore_proofs`).** The three properties, for any set of processes in any
roles and any list of cases. `HistoryBacked` is not inductive, for a run may be new only to
the document at hand: `Sound` adds that every run a document names was collected by the batch
that made it, so that the identifier of the next one is fresh in all documents, wherever
they are held; `ControlInv` says what was done before each point (the artifact stored before
"save", the package published before "validate"). `WindowInv` has the digest check's outcome
until somebody else writes, and the backup from then on. `BatchInv` states the suffix by
indices (`EndsWith`) and rests on `OthersLeave`: a step of another process leaves what a
batch holds, and marks it when it writes the document.

**Run `batch_stop` (a finding).** `docs/FRONTEND_BACKEND_INTEGRATION.md:588` says that a stop
between items returns the committed partial batch. The batch tests the control before an
item and the runner tests it again before it starts; a stop between the two raises
`CANCELLED` out of the batch (`project_batch.py:65`, `graph_runner.py:32`, `engine.py:486`).

## 11. `ModelicaBuild`

**State and code.** `stage` from the request to the published package, one file-system
call at a time: `place` and `entries` are the build's directory. Each reading of the user's
file, to hash it, to copy it, to hash it again, takes two halves, so that a save in between
makes a mix: `before` and `after` are the two hashes, `snapshot` the copy, `snapshotHash` its
hash (the locals of `_copy_consistent_source`, gone when it returns), `recorded` the digest
that passed. `changed` are the builds whose copy somebody replaced, and `Copy` what it holds; it
may be put back, and `putBack` are those where that happened after it was compiled. `built` is
the source the compiler read, `omc` the process, `temp` the temporary directory. `Raise` says where an exception goes from each point: only an `EngineError`
makes `stage` discard the workspace, and the discard is a sequence of removals of its own.
`dirty` are the builds whose own cleanup raised.

**Run `modelica_build`.** Two symmetric builds, two edits of the source, two changes of a
copy (one changed and put back, or two) and one killed process, at most three of these in a run
(`MaxTogether`), every call failing where it may.
`PublishedWhole`: whatever stands under
`modelica-builds/`, crashes included, has the frozen layout and an FMU compiled from the one
version of the source its provenance records. Two things hashing cannot see are excepted by
name. A copy changed, compiled and put back between the verifications of
`modelica_asset_staging.py:59` and `:71` looks untouched (`putBack`): the package then holds an FMU its
provenance does not describe, and the code has no check against it. And a user who saves back and forth in the middle of all
three readings gives the same mix three times, which takes five saves: TLC finds no
mix with four and one with five (one build, six edits). The run has two, so there the
exception never applies. `CleanFailure`: a build that ends with an
`EngineError` leaves no workspace, package, temporary directory or process, unless its own
cleanup raised. Two builds are enough for the shared staging root to vanish under
one of them; two edits for a source that changes and changes back. Build
identifiers are fresh (`uuid4`), so the paths for a directory that exists already are not reached.

**Proofs** (`ModelicaBuild_proofs`, for any set of builds and any bounds on edits, changes of copies and
crashes). Both properties speak of one build, but builds share directories. `BuildInv`
is stated for each: `PlaceInv` says where its directory is and what is in it
at each point of its own code, `ControlInv` how it came to the cleanup it is in,
`CompilerInv` when its process and temporary directory exist, and `PackageInv` that the
compiler read the copy or a changed one, and that after `verify_source_snapshot` it read the
version the provenance records unless the copy was put back. `ReadingInv` follows the three
readings: at each point `Saved` bounds from below how often the user has saved if what was
read so far is a mix, and a mix that passes the comparison has cost five saves. `Same` collects what
`BuildInv` reads; for each group of actions one lemma shows what the step does to its own
build and one (`PrepareElsewhere`, `CompileElsewhere`, `PublishElsewhere`,
`DiscardElsewhere`) that it leaves `Same` of every other.

What the module makes visible, and no document contradicts: an exception that is not an
`EngineError` leaves the workspace; a failing removal of the temporary directory replaces
the timeout's error; the last `rmdir` of the staging root, refused while another build
works there, replaces the original error in `prepare_source_snapshot`; a workspace whose
marker could not be written is not removed by anybody.

## 12. What is proved, and what is only checked

| module | proved for every value of the constants | checked by TLC only |
|---|---|---|
| `GraphRun` | `TypeOK`, `CheckpointBarrier`, `JacobiStep`, `StopWithinOneStep`, `ResultExact`, `EveryRuntimeReleased`, `TerminateAllThenClose`, `ImplementsGlobalCheckpoint`; finitely many steps | `Terminates` |
| `RemoteSession` | `InStep`, `NoStaleReply`, `ClosedExactlyOnce`, `NeverReplayed`; no call waits for nobody; finitely many steps of the worker once the client has left | `EveryCallEnds`, `WorkerEndsWithSession` |
| `CoSimRun` | `ResultExact`, `ChunksFaithful`, `InputsOnTime`, `StepsMatchTime`, `StopWithinOneStep`, `SessionReleased`; finitely many steps | `Terminates` |
| `MERun` | `SolverInSync`, `ReleasedThenStreamed`, `ResultExact`, `StopBounded`, and `EventsOnTime` from start time 0 on; finitely many steps | `EventsOnTime` before 0 is refuted, `Terminates` |
| `NodeRuntime` | `CheckpointKept`, `ReleasedOnce` | |
| `EngineSessions` | `InStep`, `InputsInOrder`, `ReleasedOnce` | |
| `ProjectStore` | `HistoryBacked`, `OnlyTheWindowLoses`, `BatchFaithful` | |
| `ModelicaBuild` | `PublishedWhole`, `CleanFailure` | |
| `DistributedRun` | `ServedVerified`; verified entries stay so unless damaged, runtimes are where they were placed, the coordinator leaves nothing | `EverythingReleased` |

Each proof has one shape: an invariant that says, for every point of the code, what has
been done and what is still to do. It was checked with TLC on a small instance first; then it is shown to
hold initially and to be kept, action by action, and the property is read off it. The only
assumptions are those the modules name: configurations that validation accepts, graphs
whose connections join their nodes, FMUs with the capabilities their version has, and for
`CoSimRun` that a step which announces no early return has reached its target (section 5).

Every safety and action property of the passing runs is proved. The liveness properties need
fairness and ENABLED, which the prover does not handle: they are checked by TLC, and the
parts of them that are safety properties (`RunsDown`, `NobodyWaitsAlone`,
`WindsDown`, `NothingLeftBehind`) are proved beside them. No module declares a recursive operator, and
where a property once spoke of a concatenation of chunks it now speaks of indices, which
says the same and needs no induction over data.

## 13. What is left out, and why

- Values, variable names, units and error texts: no property tells them apart.
- In `CoSimRun` and `MERun`: the stop request `engine.run_fmu` tests before it builds the
  runner (`ProjectStore` has it, for the batch).
- Floating-point tolerance: except in `NodeRuntime`, checkpoints, targets and samples are
  compared with `math.isclose` in the code and exactly here. Grids on which two
  configured times lie closer than the tolerance are outside the models.
- In `RemoteSession`: PING and the asset requests (in `DistributedRun`), the byte-level
  framing (a frame arrives whole, or the connection is lost), collisions of random runtime
  identifiers.
- In `ModelicaBuild`: a copy in a workspace that changes while it is being hashed or compiled (it is
  replaced as a whole; only the user's file is read in halves).
- In `CoSimRun`: an FMI 3.0 FMU that stops short without announcing it (section 5).
- In `DistributedRun`: a directory that takes the place of an entry during the run; local runtimes of a mixed graph (their release is `GraphRun`'s), an
  interrupt while a connection is being made, a request under way when the
  runner is interrupted (the end of its session releases whatever it creates).
- In `ProjectStore`: the JSON text. One consequence of the codec is outside it: lists inside
  a document come back as tuples, so a project built with lists differs from the one
  read back.
- In `EngineSessions`: several sessions at a time (they share nothing but the dictionary).
- The native code behind FMPy, CVode and OpenModelica is external: it returns, raises, or
  ends the process.
- Not modelled: block libraries (static manifests), comparison and export of results (pure
  functions of finished results), the facade and the command line (wiring and text), the
  contracts (immutable data). Graph, unit and type validation are pure checks of data that the
  modules take as valid; the structure of projects, plans and schedules is modelled.
