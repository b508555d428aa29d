# Verification of agent-sim

TLA+ models of the runtime in `src/runtime/src`, model-checked with TLC on
small instances, with proofs checked by TLAPS for every value of the constants.
Paths below are relative to `src/runtime/src`; those that start with `docs/` or
`include/` to `src`, with `tests/` to `src/runtime`.

## The system

agent-sim loads simulation libraries and lets a client drive them over a local
socket, one JSON line per request. A client talks to an *instance daemon*, which
owns one library, or to an *env daemon*, which owns the time and the CAN buses of
several instances. The parts, their state and their operations:

| Part | State | Operations | Talks to |
|---|---|---|---|
| Shared region (`shared/mod.rs`) | a memory-mapped file: generation, initialized flag, slots | `open`, `publish`, `read_snapshot` | written by one instance process, read by others |
| Env actor (`envd/server.rs`, `server/tick.rs`, `server/dispatch.rs`) | clock, backlog of wall-clock ticks, CAN schedules, trace, shutdown flag | 24 requests, the tick loop, the shutdown | clients (a channel), workers (a channel each) |
| Instance workers (`envd/server/instance_worker.rs`) | a queue of 64 requests, one connection | send, await at most 5 s, close after the first error | the actor, an instance daemon |
| Env bootstrap (`envd/server/bootstrap.rs`) | the instances being started | start all, attach buses and channels, roll back | instance daemons |
| Instance daemon (`daemon/server.rs`, `server/*.rs`) | library, local clock, attached buses and channels, trace | two action queues, the tick loop, the stages of a tick | its clients, its env's worker |
| Time engine (`sim/time.rs`) | paused or running, speed, elapsed ticks, remainder | start, pause, step, set speed, ticks due | used by both daemons |
| Library boundary (`sim/project.rs`, `sim/validation.rs`) | the loaded library | reads with growing buffers, checks of declarations | the library, through C |
| Lifecycle (`daemon/lifecycle.rs`, `envd/lifecycle.rs`, `process.rs`, `ipc.rs`) | pid files, lock files, endpoints | start once, stop, list, clean up | the file system, processes |
| Client transport (`connection.rs`) | attempts left | send, retry | daemons |
| Traces (`trace.rs`), selectors (`signal_selectors.rs`), recipes (`cli/recipe.rs`), loading (`load/`), CAN (`can/`), command line (`cli/`), protocol and configuration | mostly pure functions and I/O | | |

What is hard in it: a lock-free protocol between processes over plain memory
(the region); a coordinator that fans requests out and loses some of the answers
(the env); the wall clock, requests and shutdown competing for one actor;
answers that come after a timeout; two starters racing for a name; retries of
requests that were carried out. What makes each part correct:

* region: a read returns one published snapshot or an error, and returns;
* env: every instance has made exactly as many ticks as the env's clock says, or
  the env knows better than to go on; rows, schedules and answers agree with the
  clock; every request is answered; a shutdown leaves nothing running;
* instance daemon: the local clock counts the library's ticks, a paused clock
  stands still, rows keep their period, nobody is starved;
* lifecycle: one daemon to a name, nothing left behind by a start that failed;
  bootstrap: all instances or none, and what they are tied to is what the
  definition says;
* transport: a request is carried out twice only if its client gave up waiting;
* exchange between members: in the tick it was made in or the next;
* libraries, selectors, flash, recipes, CAN frames and DBC signals: what comes out
  is what the input says, and what is refused is refused for a reason.

## The modules

| Module | What it is | Code |
|---|---|---|
| `SharedRegion` | the region, word by word | `shared/mod.rs`, `sim/types.rs` (slots), `daemon/server/shared_ops.rs` |
| `SnapshotRegister` | what a channel promises: an atomic register of snapshots | abstract |
| `EnvWorkers` | workers and, as far as an env can tell, instances | `envd/server/instance_worker.rs`, parts of `daemon/server/action_router.rs` |
| `EnvDaemon` | the env's actor, composed with `EnvWorkers` | `envd/server.rs`, `server/tick.rs`, `server/dispatch.rs`, `sim/time.rs` |
| `LockstepClock` | what an env promises about time | abstract |
| `InstanceDaemon` | an instance's task, its two queues, its clock and its trace | `daemon/server.rs`, `server/action_router.rs`, `server/tick_ops.rs`, `trace.rs` |
| `TimeEngine` | the running clock and the sleep between two polls | `sim/time.rs` |
| `EnvExchange` | what members of an env hand to each other in a tick | `daemon/server/can_ops.rs`, `shared_ops.rs`, `envd/server/tick.rs` |
| `Startup` | locks, endpoints and pid files of one name | `process.rs`, `ipc.rs`, `daemon/lifecycle.rs`, ends of `run_listener`, `cli/mod.rs` (close) |
| `EnvBootstrap` | the tasks that start an env's instances, and the rolling back | `envd/server/bootstrap.rs`, `envd/lifecycle.rs` |
| `EnvDefinition` | from a definition to the buses and regions of an env | `cli/env.rs`, `load/resolve.rs`, `envd/server/bootstrap.rs`, `daemon/server/action_router.rs` (attach) |
| `RequestTransport` | attempts, time-outs and retries of a request | `connection.rs`, connections of `daemon/server.rs` |
| `ProjectLibrary` | loading a library and collecting its frames | `sim/project.rs`, `project_loader.rs`, `validation.rs` |
| `SignalSelectors` | Get and Set over selectors | `signal_selectors.rs`, `daemon/server/action_router.rs` |
| `FlashImage` | from flash files to regions | `load/mod.rs`, `load/resolve.rs` |
| `Recipe` | checking, compiling and executing a recipe | `cli/recipe.rs`, `config/recipe.rs` |
| `CanFrames` | legal frames and what either driver makes of them | `can/mod.rs`, `can/backend/`, `daemon/server/can_ops.rs` |
| `DbcSignals` | the bits of a DBC signal | `can/dbc.rs` |
| `SharedRegionProofs` | theorems about `SharedRegion` | |
| `EnvDaemonProofs` | theorems about `EnvDaemon`: types, failures, schedules, the trace, steps, rows, and that it implements `LockstepClock` | |
| `InstanceDaemonProofs` | theorems about `InstanceDaemon` | |
| `StartupProofs` | theorems about `Startup` and, as its `Boot`, `EnvBootstrap` | |
| `DaemonPartsProofs` | theorems about `RequestTransport` and, as its `Time` and `Exchange`, `TimeEngine` and `EnvExchange` | |
| `ProcessesProofs` | theorems about `MCProcesses`, from those of its parts | |
| `CommandsProofs` | theorems about `MCCommands`: libraries, recipes, definitions, frames, selectors | |
| `BytesProofs` | theorems about `MCCommands`: flash images and DBC signals | |
| `MCSharedRegion`, `MCEnvDaemon`, `MCInstanceDaemon` | instances TLC checks | |
| `MCProcesses`, `MCCommands` | several modules in one instance, one to a behaviour | |
| `MCEnvDefinition`, `MCProjectLibrary`, `MCSignalSelectors`, `MCFlashImage`, `MCRecipe`, `MCCanFrames`, `MCDbcSignals` | the inputs `MCCommands` gives to its parts | |

Modules are joined in three ways. `EnvDaemon` extends `EnvWorkers`: the actor and
its workers share queues. `SharedRegion` and `EnvDaemon` implement an abstract
module through an INSTANCE. The other modules cut the system at a message or a
file and say in their header which module has the other side: `EnvWorkers` keeps
an instance as far as its env can tell, `InstanceDaemon` the same instance from
within; `InstanceDaemon` lets the wall clock owe any number of ticks,
`TimeEngine` says how many; `EnvBootstrap` takes a start for a step, `Startup` has
its steps; `Recipe` takes a request for a step, `RequestTransport` has its way.

### SharedRegion

The writer and each reader are processes of their own; every load and store of
the mapped memory is one action. A slot is three words (its tag, the type tag of
its value, the value's data) because `publish` and `read_snapshot` move slots
with plain, non-atomic copies. The data remembers the type it was written as, so
that reading a union through another field shows. `OpenWriter`, `BeginPublish`,
`MarkOdd`, `StoreTag`, `StoreType`, `StoreData`, `SetInitialized`, `EndPublish`
are the writer's steps in `open` and `publish`, `CrashWriter` may come between
any two; `AttachReader`, `BeginRead`, `LoadBefore`, `CheckInitialized`,
`CopyTag`, `CopyType`, `CopyData`, `LoadAfter` are a reader's.

`WeakOrder` says whether the stores of the slots may become visible before the
release store of the odd generation that the code puts before them. A release
store does not forbid that; x86 hardware does, other hardware and the compiler
need not. The passing runs and the theorems about torn reads assume
`WeakOrder = FALSE`; `shared_region_weak` shows what is lost without it.

Histories: `expected` is the publication that was current at a reader's last even
load, `lag` how many were finished since, `quiet` whether the writer rested
during the whole read, `misread` whether a wrong union field was read.
`OvertakeBound` says that no reader is passed by half the counter's range during
one copy: 2^63 publications in the code, two in the runs.

### EnvWorkers and EnvDaemon

The actor runs one request or tick at a time, but awaits its workers in between:
an await is a pair of actions (`SendNext`/`AwaitNext`, `ReadNext`/`ReadReply`),
and `WorkerRefuses` is the error path of all of them, the `?` of the code. What
the `?` drops is the receivers, not the requests (`DropReceivers`): those stay
queued and are carried out. `apc` is the place in the actor's loop: `batch` and
`select` where requests are received, `handle` where one is dispatched, `poll`
and `tick` in the loop of ticks, `send`/`await`/`read`/`readWait` in a fan-out or
a read of signals, `stopping` to `stopped` at the end. `serving` is the client's
request or `WallClock`.

One tick is `TickBegins` (frames observed, due schedules sent, fan-out of
`Step`), the answers, `TickEnds` or `TickSampled` and `SampleWritten`; its errors
are `TickLosesBus`, `WorkerRefuses`, `TickEndLosesBus`, `SampleNotWritten`. A
reset is `HandleReset`, `ResetDiscards`, `ResetEnds`. The wall clock is free: any
number of ticks up to `MaxDue` may be due at each turn, which stands for every
speed and every delay.

An instance answers a request in one action, successfully or with an error
before (`pre`) or after (`post`) its tick; it may crash, never answer (`timeout`
lets the worker give up on it), or be reset by a client directly (`direct`: an
attached instance refuses local time control but not `Reset`,
`daemon/server/action_router.rs:52`). Which of these can happen is the constant
`Faults`. The answer to a request whose worker gave up is lost, as in the code,
where the connection is closed.

Abstractions: signals are one value per instance, the number of its tick; frames
are not modelled, only when schedules send them; texts that the daemon rejects
are the error answer of `HandleQuery`; stopping and clearing a trace are one
request with the errors of both; trace and `get` read the instances in the order
of the env's definition. Histories: `lost` (a tick or a reset failed, or an
instance was reset directly, and no reset has succeeded since), `row` (the last
values read together), `sentAt` and `early` (spacing of frames), `base` (the
clock when a TimeStep began).

`LockstepClock` is the promise: at rest every instance is where the clock is; in
a step each moves once and then the clock does; otherwise the env is lost until a
reset succeeds. `LockstepSpec` is the refinement: `mode` is computed from `lost`
and the actor's place, `clock` is `elapsed`, `pos` is `ticks`.

### InstanceDaemon and TimeEngine

One task owns everything of an instance; `phase` and `turn` say where it is:
serving a batch of the worker queue or of the other one (`TakeRequest`,
`WorkerBatchEnds`, `NormalBatchEnds`), asking what the wall clock owes
(`PollClock`), making one of those ticks, sleeping in the select (`Wakes`) or
handling a request (`Handle...`). A tick is `TickSucceeds` or one of
`TickFailsBefore`, `TickFailsInSample`, `TickFailsAfter`, by the stage that fails
(`action_router.rs:470`). `CountFailedTick` is the difference the code makes
between them: a step of the instance's own counts a tick that failed afterwards,
a step of its env's worker does not, and `lag` counts those. `inEnv`, chosen at
the start, decides who may control time. `rows` has what was reported, what is in
the file and the tick of the last row. The library is a count of its ticks.

`TimeEngine` counts microseconds and keeps simulated time as a whole number of
speed units, where the code uses f64 and rounds. `Pass` is a microsecond, `Poll`
a turn of the loop with `tick_realtime_due` and `realtime_poll_delay`, the other
actions the engine's requests; a request may wake the loop early. `owed` counts
what has passed since the clock runs undisturbed.

### EnvExchange

Members tick in parallel: each goes through `ReceiveFrames`, `ReadShared`,
`MakeTick`, `SendFrames`, `PublishShared` in the order of
`advance_single_project_tick`, and through `ResetProject` and `DiscardFrames` in a
reset; the env starts a tick or a reset for all and waits for all. A value is the
moment (run and tick) it was made in.

### Startup, EnvBootstrap, EnvDefinition

`Startup` is one name's files and the processes that touch them: starters
(`CreateLock` to `Release`, with `ReadLock`/`RemoveStale` on a lock that is there,
`CheckRunning`, `Spawn`, and the poll `PollPid`, `PollConnect`, `PollExit`),
daemons (`Bind`, `Probe`, `CleanEndpoint`, `WritePid`, serving, `RemoveEndpoint`,
`RemovePid`, `ReclaimName`) and closers. Each reads or writes one file per action.
The endpoint's listener unlinks its path when it is dropped (`ReclaimName`), which
the `interprocess` crate does and the code relies on. A timeout fires only when
what it waits for can no longer come, unless the fault `slow` is there.

`EnvBootstrap` has one task per instance (`TaskSpawns`, `InstanceComesUp`,
`TaskReturns`), the loop that joins them (`JoinStarted`, `JoinFailed`: the first
failure returns), the later phases, each of which may fail, `Bind`, and the rolling
back one instance after the other. `KilledByStarter` is the five-second wait of
`env start`.

`EnvDefinition` asks which definitions pass and what they become. `CheckDefinition`
is what `env start` checks, `CheckInfo`, `AttachBuses`, `PrepareChannels`,
`CheckChannel` and `AttachMember` (the members of a channel one after the other, in
the order of the definition) what the env daemon does; `RollBack`, `CloseEnv`,
`LoadStranger` and `CloseStranger` let several starts follow each other over the
same region files. A bus is known by its interface, as in the code, where nothing
but `vcan_iface` reaches the instances (`bootstrap.rs:238`): `BusesAsDefined` says
that every member is on the interface of its bus, `NothingElse` that nobody is on an
interface, and no instance of an env at one of the env's regions, but as a definition
says. `WritersAsDefined` is about the env's own instances.

### RequestTransport

Per client an attempt (`Prepare`, `Connect`, `ReadReply`, `ReadTimesOut`,
`ReadBreaks`) and what `should_retry` makes of its failure (`Retry`); at the daemon
`Enqueue` (a connection reads the line) and `CarryOut`. What a client gave up on
stays on the wire or in the queue and is carried out. `done` counts that,
`timedOut` says whether an answer of the client was ever given up.

### What single commands work out

`ProjectLibrary` takes `Project::load` step by step over a library chosen at the
start; `wrong` are the calls it answers with an error status or an impossible length,
each of which ends the load, or the collection (`CollectionFails`). `CollectFrames` is
the loop of `can_tx`. `SignalSelectors` goes through
the loops of a Get, a Set or an env's request: `Resolve` takes the next selector (of
a Set, in the order of a BTreeMap's keys), `ReadSignal`, `WriteSignal` and
`AddColumn` what it stands for, one id per action in ascending order; `Fails` and
`ReadRefused`, a read that the library refuses, are the `?` that ends it. `FlashImage` reads one record per
action, takes the memory of a file apart run by run (`NextRun`), writes the regions of
all blocks over each other one by one (`MergeRegion`) and takes the result apart again. `Recipe` checks, compiles and then sends one request
per action, between which other commands act (`Other...`), clocks tick (`ClockTicks`)
and envs end (`EnvEnds`). `todo` holds the compiler's calls, the innermost first, and
an `iteration` is an operation as in the code; `Meaning` says what the compiled list
should be, by recursion on the steps. A loop's numbers are exact and few. A request may
be refused by its instance (`InstanceRefuses`), after some of its writes or ticks,
or by its env (`EnvRefuses`). A tick of an env may fail in the middle (`TickFails`):
the ticks before it stay made, and some members have made it, too. An env that is
closing answers a step without making it. `CanFrames` has `validate_frame`, the
encoding and decoding of both drivers with their length codes, and the env's record
of frames: a driver is chosen at the start, a member's frames of a tick go out one
by one (`MemberSends`) and end at the first that is refused, by the check or by the
driver; `tick` remembers who could have read which of them, for `SentUntilRefused`. A
read of a socket may fail and lose what it has read (`MemberReadFails`, `EnvReadFails`), and a reset empties the
sockets of the members and of the env. `DbcSignals` takes a file's
signals one by one, then writes and reads them bit by bit in both orders (`SetBit`,
`GetBit`, `OutOfBounds`), with the scaling and its saturating cast; a last write per
signal is what `ReadsBack` compares. The scaling is exact, where the code has f64. A
sign one bit below the integer's overflows when it is read (`Overflows`): the read
panics (`DecodePanics`) in a build with overflow checks and is right in one without.

## The runs

| Run | Question | Bounds |
|---|---|---|
| `shared_region_typed` | channels whose slots keep their types: no invalid read, no wrong field, every read returns (fairness) | 2 snapshots, 2 slots, 3 attempts, counter modulo 8 |
| `shared_region` | slots that change type: no torn read, reads that nobody disturbs succeed, an invalid read was overtaken; the region implements `SnapshotRegister` | 1 reader, 2 slots, 3 attempts, counter modulo 8 |
| `shared_region_weak` | the same with reordered stores: `SnapshotNotTorn` fails | |
| `shared_region_union` | a wrong field is read before the generation is checked: `ActiveFieldRead` fails | |
| `env_lockstep` | an env with two clients, one member of which may be reset behind its back: refinement of `LockstepClock`, rows, answers | 2 instances, 3 requests of 9 kinds, up to 2 wall-clock ticks per turn, 1 made per turn |
| `env_faults` | every fault of instances and trace: frozen after a failure, no mixed row, refinement | 2 instances, 4 requests of 5 kinds |
| `env_jobs` | schedules under bus and step failures | 1 instance, 2 schedules, 5 requests of 9 kinds |
| `env_live` | every request is answered, a shutdown completes (fairness) | 2 clients, 2 instances, crashes and time-outs |
| `env_trace_reset` | the next sample is within a period: fails after a reset | |
| `instance` | an instance within and outside an env: clock, pauses, rows, answers and close (fairness) | 1 worker, 2 clients, 3 requests of 11 kinds, 2 worker and 1 other request and 1 tick per turn, every fault |
| `processes` | starts, bootstraps, retries, exchange and wall clock (fairness) | see below |
| `commands` | definitions, libraries, selectors, flash, recipes, CAN and DBC (fairness) | see below |

`MCProcesses` and `MCCommands` hold several independent *parts*: `Init` chooses
one, `Next` is that part's, and each property says of every part what its module
states. A part is a module instantiated over the variables `v1`, `v2`, ...; it
shares nothing with the others. The parts of `MCProcesses` are taken with their
proof modules (`failing` and `broken` are the `Boot` of two of them), so that `ProcessesProofs` can use the lemmas about them; TLC does
not look at those. What may fail is fixed in each part, all sizes and names are
constants of `MCProcesses` with values in `processes.cfg`.

| Part | Instance | Property |
|---|---|---|
| `fresh` | `Startup`: 2 starters, a close and a close --all, libraries that do not load | `StartsKeepOrder` (`LockExclusive`, `FailedLeavesNone`), `AllEnds` |
| `stale` | `Startup`: 3 starters, after a process that left a lock or an endpoint | `StartsKeepOrder` (`LeavesOneReachable`, `StaysReachable`), `StartedIsMine`, `AllEnds` |
| `crash` | `Startup`: 2 starters, leftovers, starters and daemons that crash or are slow | `StartsKeepOrder` (`FailedLeavesNone`), `AllEnds` |
| `failing` | `EnvBootstrap`: 3 instances, a later phase or the bind fails | `EnvAllOrNone` (`ServingHasAll`, `FailedLeavesNone`), `AllEnds` |
| `broken` | `EnvBootstrap`: one name is taken, starts fail, the starter gives up | `EnvAllOrNone` (`ServingHasAll`, `SparesOthers`), `AllEnds` |
| `transport` | 2 clients, one of a request that is refused twice, 3 attempts, every fault | `RetriesAccounted`, `AllEnds` |
| `exchange` | 3 members, 2 ticks, 1 reset, 2 frames waiting | `ExchangeInTime` |
| `time` | ticks of 3 us, speeds 1/2, 1 and 5/2, sleeps of 1 to 5 us, polls up to 2 us late | `TimeKept`, `AllEnds` |
| `definition` | a sound definition, 24 that differ from it in one respect, an empty one, a second env and one whose channel an instance of the first writes; 4 commands, strangers that are loaded and closed | `DefinitionKept`, `CommandsEnd` |
| `library` | good and bad libraries: lists of up to 12 against a limit of 8, names, versions, exports, regions, each of the calls answered wrongly, up to 16 frames | `LibraryWhole`, `CommandsEnd` |
| `selectors` | 3 signals, one of which the library may refuse to read, 8 selectors, up to 3 in a request, 3 value texts | `SelectorsExact` |
| `flash` | 16 addresses, files of up to 4 HEX or 3 S-records, loads of up to 3 blocks | `BytesExact`, `CommandsEnd` |
| `recipe` | 18 recipes, run and rehearsed, over every choice of envs that are up and among up to 3 closes, starts and clocks, with refusals and ticks that fail anywhere | `RecipeKept`, `RecipeUnrolled`, `RecipeSteps`, `CommandsEnd` |
| `can` | either driver, 2 frames of 14 kinds and 3 of a tool's, a classic and an FD member | `CanReadAsSent` |
| `dbc` | 10 files, 2 and 3 byte payloads, integers of 4 bits, 3 steps | `BytesExact` |

The bounds are enough for the cases that matter: a counter modulo 8 wraps within
the run and lets a reader be overtaken once and twice; three attempts end by
exhaustion and by success; a queue of one request fills up behind an instance
that hangs; a turn of one tick and one request leaves backlog and requests for
the next turn; three requests put a failing request, a retry and a reset in one
behaviour. Two instances are the fewest of which one can fail while the other
goes on; the actor treats all later ones like the second. Three starters are the
fewest of which one can remove the lock another has just taken while a third
waits. Ticks of three microseconds against odd speeds leave every remainder.
Lists reach past the largest buffer and addresses past the last one; integers of
four bits overflow as those of sixty-four do.

Every run but those of the region checks for deadlock: a system that has stopped
stutters (`Terminated`, `Finished`, `Over`, ...), any other state without a step would
be reported. The region really stops, at places that say nothing: when its writer has
crashed and its readers, which need not, read no more. So the `shared_region` runs
have `CHECK_DEADLOCK FALSE`, and `ReadReturns` says that no read gets stuck.

### Fairness

`shared_region_typed` assumes that a reader that can take a step takes one, and
nothing of the writer. `env_live` and `instance` assume it of the daemon's task and
of each worker: the runtime (tokio) schedules every task that can run, and a
worker waits at most five seconds (`instance_worker.rs:11`), so that its giving up
is always enabled in the end. Nothing is assumed of clients, nor in an env of its
instances. In `processes` a process that can take a step takes one; that a starter
ends its polling when it may do so at every poll is strong fairness, for the wait
has an end (`daemon/lifecycle.rs:116`). The operating system's clock goes on. In
`commands` the command's own process goes on, the others need not. A behaviour of
these two runs is of one part, so a requirement of one name stands for that
process of whichever part it is.

### What the failing runs show

* `shared_region_weak`: `shared/mod.rs:152` relies on stores after a release
  store staying after it.
* `shared_region_union`: `shared/mod.rs:182` decodes slots before it knows that
  they belong together, against the safety comment of `sim/types.rs:183`.
* `env_trace_reset`: `dispatch.rs:70` resets the clock under an active trace,
  which then writes nothing until the old time is reached again, against
  `docs/next-steps.md:296`.

### What else the code does not keep

The models follow the code in these points, and the properties are stated so that
they hold all the same. Each can be seen in the module named.

* `Startup`: with a stale lock *and* a stale endpoint two concurrent loads can both
  fail. Both find the lock's owner dead, the second removes the lock the first has
  just taken (`process.rs:138`), both daemons find the endpoint dead and the second
  unlinks the socket the first has bound meanwhile (`ipc.rs:40`). The part `stale`
  therefore has one leftover at a time. `tests/cli_project_instance.rs:96` expects
  exactly one successful load of two.
* `Startup`: a closing daemon removes its endpoint (`daemon/server.rs:188`), and its
  listener unlinks the path once more when it is dropped; a daemon that has bound
  it in between can no longer be reached. `StaysReachable` is stated where nobody
  closes.
* `EnvBootstrap`: the first start that fails returns at once (`bootstrap.rs:73`);
  daemons that other tasks have spawned by then are not rolled back and run on
  without an env. `FailedLeavesNone` is stated for failures after the starts. The
  same holds of a starter that gives up after five seconds.
* `EnvDefinition`: a channel may name an instance that is not of the env: the
  attachment is sent to whatever runs under the name (`bootstrap.rs:352`). When that
  one is closed, the env's channel loses a member or its writer and the env does not
  notice; `ChannelsAsDefined` is stated for the env's own members. Nor is such an
  instance detached when the env closes: one that wrote a channel goes on writing its
  region when an env of that name is started again, beside the writer the definition
  names (`action_router.rs:249` attaches whoever asks). `WritersAsDefined` is stated for
  the env's own instances.
* `EnvDefinition`: two buses of an env, or of two envs, that name one interface share
  their traffic (`bootstrap.rs:238`); nothing compares the interfaces.
* `InstanceDaemon`: `write_row` fills a buffer and counts the row (`trace.rs:69`),
  against `docs/next-steps.md:291`, by which rows are flushed as they are written;
  `StoppedTraceComplete` is what remains: they are in the file whenever a request has
  ended the trace. When the daemon ends its trace is dropped with the rows in its
  buffer (`tick_ops.rs:71`), and a flush that fails there is ignored: rows that were
  reported are lost and nobody is told. A reset leaves the
  trace's next sample where it was (`action_router.rs:53`), as in the env.
* `ProjectLibrary`: when one of several calls for a tick's frames is answered with an
  error, or the buffers run out, the frames the calls before it took out of the
  library are dropped (`sim/project.rs:430`); `FramesCollectedOnce` says all or none.
* `CanFrames`: so are the frames a socket was read for when one of them is not legal or
  the read fails (`can_ops.rs:22`); those a tick had sent before one was refused stay on
  the bus, as `SentUntilRefused` says.
* `EnvExchange`: a reset does not touch shared regions, so that a reader may be
  handed a snapshot of the run before in the first tick after it
  (`dispatch.rs:27`); `SharedIsRecent` allows it.
* `Recipe`: a recipe's Reset of one member of an env is carried out
  (`action_router.rs:53`), where local time control is refused. The whitelist of
  envs is compared with the default instance and the recipe's `instances` only
  (`cli/recipe.rs:114`), not with a step's own `instance`. A member's tick that fails
  (`envd/server/tick.rs:46`) leaves the others one ahead of it and of the env's clock;
  `LockstepKept` bounds that by the number of such ticks.
* `EnvDaemon`: an env that has received a close serves one more request before it
  looks at its flag. If that is a TimeStep, `advance_due_ticks` returns at once
  (`envd/server/tick.rs:7`) and the answer (`dispatch.rs:318`) has the ticks that were
  asked for, which the command prints as advanced (`cli/output.rs:125`).
  `StepDoneInFull` says of it that none was made and that it is the env's last answer.
* `EnvDaemon`: a TimeStep that is refused because the clock runs has already thrown
  away the ticks the wall clock owed (`dispatch.rs:312`); against a wall clock that
  is free this cannot show.
* `TimeEngine`: a new speed applies to the wall time since the last poll as well
  (`sim/time.rs:79`), at most a second; `NoTimeLost` is stated at a steady speed.
* `CanFrames`: a frame with BRS or ESI and without FD is checked as an FD frame
  (`can/mod.rs:96`) and sent as a classic one when it is short enough
  (`can/backend/socketcan.rs:184`); `ReadAsSent` accepts either form of such a
  frame. `include/sim_api.h:224` has BRS for FD only.
* `DbcSignals`: the scaled value is cast to a signed 64-bit integer before its range is
  looked at (`can/dbc.rs:143`). A value beyond that is not refused for a signal of 64
  bits, or of 63 without a sign: the nearest is written, and an unsigned signal of 64
  bits cannot be given its upper half. A negative value of a signed signal of 63 bits
  is read by subtracting `1 << 63` as a signed integer (`can/dbc.rs:304`), which
  overflows: it panics with overflow checks and wraps to the right value without.
  `ReadsBack` allows both.

## The proofs

`SharedRegionProofs` proves, for any readers, slots, types, snapshots, number of
attempts and even counter range (`SharedRegionAssumption`):

* `TypeCorrect`: the type invariant;
* `NeverTorn` (with `~WeakOrder`), `UndisturbedSucceeds`, `InvalidIsOvertaken`:
  the safety properties of the run `shared_region`;
* `ImplementsRegister` (with `~WeakOrder`): the refinement of `SnapshotRegister`.

None of these is inductive. `SeqlockInv` strengthens them: the parity of the
generation follows the writer's place (`ParityInv`); while the generation is
even, and for the slots already stored while it is odd, memory holds the last
snapshot (`MemoryInv`); a reader's saved generation plus twice its `lag` is the
current one modulo the range (`CounterInv`), so an unchanged generation means no
publication in between; then what it copied so far is what was `expected`
(`CopyInv`). `QuietInv` and `OutcomeInv` carry this to the results. Each is
proved step by step, one step per action.

`EnvDaemonProofs` proves, for any number of instances, clients and schedules, any
set of requests, every set of faults and every bound (`WorkersAssumption`,
`EnvAssumption`):

* `TypeCorrect`: the type invariant, whose parts are named after the groups of
  variables. It needs `FlowInv`: an operation is fanned out only where a worker
  takes it, a tick being made is one still to make, and the wall clock makes no
  more ticks than it owes;
* `FrozenForGood`: time stands still once a worker has failed. `SettledInv` is the
  reason: a worker whose answer was taken has an empty queue and is idle, and such
  a worker cannot fail, so when all have answered none has failed;
* `NextFrameWithinPeriod`, `FramesSpaced`, `FramesNotMissed`: the properties of the
  run `env_jobs`, from `SchedulesInv`: a schedule's next frame is at most a period
  ahead of the clock and at least a period after the last one sent, and once a
  tick's frames are sent none is due in it until the clock moves. This is why
  ticks that fail half way and are made again neither repeat nor skip a frame;
* `SamplesOnTime`: from `TraceInv`, the next sample of an active trace is ahead, so that
  no row is left out (the second half of `RowMatchesClock`).

* `StepsMadeInFull`: a step that is acknowledged was made in full, or, by an env that
  is to stop, not at all and with the last of its answers. `WaitingInv`
  says that a client waits for one request, which is queued once or being served,
  so that the answer is this step's; `StepCountInv` what it has still to make and
  has made; `ShutdownInv` that an env that is to stop makes no tick, and is still where
  it was when a step it serves began.

Its section on the lockstep proves `ImplementsLockstep`, the refinement of
`LockstepClock` that `env_lockstep` and `env_faults` check on two instances. What
makes it hard are the requests left behind by a fan-out that failed: they stay
queued and move their instances later. `EnvInv` says where they
can be. For each instance: its worker has one request on the line and an answer
in the receiver means that nothing is queued (`Line`); from the sending of a reset
to its answer older requests may be queued before the reset but none after it, so
that an answer `ok` finds the instance at zero (`ResetSent`, `ResetInv`); while
the lockstep is not lost nothing that moves the instance is on its way, except the
one `Step` of the tick being made (`RestInv`, `StepInv`, `StepSent`). The steps of
a worker or an instance touch one instance each; what they do to it is said once
(`LocalStep`) and the invariant's parts are carried over it one by one
(`LocalLine`, `LocalReset`, `LocalStepSent`). The actor's steps are grouped by the
place they leave and reach (`FromRest`, `PassedBy`, `ToRest`). The refinement then
maps the steps: `TickBegins`, a worker's instance making its tick, `TickEnds` or
`SampleWritten`, `ResetEnds`, and everything that sets `lost`, to the five actions
of `LockstepClock`; all others to stutters.


The rows rest on the same invariant. `RowsAtTheirTick` adds `SampleInv`: while the
lockstep is not lost, an instance that was read has not moved since, for nothing
that is still on its way to it moves it. `RowsOfOneInstant` also holds after ticks that
failed half way, when the clock and the instances disagree: as long as no worker has
failed they are still together, at whatever tick (`TogetherInv`), and an error in a
receiver means that a worker has failed (`ErrInv`), after which no row is read. It
assumes that no client resets an attached instance directly (`"direct" \notin
Faults`), as the run `env_faults` does; such a reset does mix two instants in the
next row.

`FixedTypesKept` in `SharedRegionProofs` is the one property of the region that also
holds with reordered stores: where all snapshots agree on a slot's type, memory has
that type or none.

`InstanceDaemonProofs` proves, for any connections, queue and batch sizes, requests
and faults (`InstanceAssumption`), what the run `instance` checks but for
`Responsive`: `TypeCorrect`, `CountExact`, `PauseHolds` and `RowsFaithful`. `IInv`
is the type invariant and four facts: outside an env nobody sends the worker's
requests (`ServingInv`, `QueueInv`), so that no failed tick goes uncounted there
(`CountInv`); a clock that stands has no backlog, and what a turn has left to make
it owes (`ClockInv`), so that a pause, which empties the backlog, leaves nothing
to make; and the next row is due a period after the last one (`TraceInv`). What a
request that ends the trace leaves in the file follows from its step alone; the end of
the daemon loses rows only with the fault `file`.

`StartupProofs` proves, for any starters, daemons and closers (`StartupAssumption`;
`Nobody` is no process):

* `FailedStartsLeaveNone`, whatever dies, is slow, closes or was left behind: a
  starter has a daemon only once it has spawned it, and gives up only after the
  daemon's end (`TurnInv`);
* `LockExcludes`, unless a process dies or is slow: who is past creating the lock
  owns it and nobody finds it stale (`LockInv`), so that nobody removes another's;
* `OneDaemonComesUp`, when nobody closes or fails and a dead process left at most
  one of lock and endpoint. `OneInv` has two cases: with no dead endpoint the first
  daemon to bind keeps it; with one the lock still excludes, and only its holder's
  daemon clears the endpoint away (`ClearingInv`). With both leftovers neither
  case holds, and two starts can both fail, as said of `Startup` above. `WitnessInv` says that until a
  daemon serves somebody goes on to start one, and `ReportInv` who reports it.

Its second part proves, of `EnvBootstrap`, `ServesWhole` for any instances, taken
names and failures (`BootstrapAssumption`): a task that finds its name taken fails
(`ForeignInv`), so no such name is ever in `started_instances`, and what is in there
is up (`StartedInv`) until the rollback. `LateFailureLeavesNone` assumes
that no start fails (`OnlyLateFailures`), and then a rollback finds every instance
in `started_instances` (`LateInv`).

`DaemonPartsProofs` proves `RequestsAccounted` for any clients, attempts and faults
(`TransportAssumption`): a copy of a request is on the wire, in the queue or
answered, and in one of them only (`OnceInv`); an attempt that was not made, or that
failed without a read timeout, has left nothing behind (`AheadInv`, `UntimedInv`);
so every time it is carried out is an attempt answered `ok` (`CountInv`). And it
proves `ClockKeepsTime` and `SleepsUntilTheTick` for any tick, speeds, delays and
lateness (`TimeAssumption`): the reading of the clock is as old as what is gone of
the sleep, and the sleep was computed from the remainder the engine still holds
(`SleepInv`); the rest is arithmetic of divisions rounded down and up. Its
`ExchangedInTime`, for any members and bounds (`ExchangeAssumption`): every library
is at the env's moment or one ahead, by its stage (`LibInv`), so whatever waits at a
socket or in the region is of the last two moments (`BoxInv`, `RegionInv`), and after
its discard a socket stays empty until the reset ends.

`ProcessesProofs` puts these together. A behaviour of `MCProcesses` is of the part it
began with (`StartsMove`, `EnvsMove`, `DaemonsMove`), so that each part's invariant is
one of the whole: `OrderKept`, `OwnDaemonReported`, `EnvsWhole`, `RetriesKept`,
`ExchangesInTime` and `ClockKept` are the five invariants and the action property of
the run `processes`, for every value of its constants that satisfies
`PartsAssumption`.

`CommandsProofs` does the same for `MCCommands`: a behaviour is of one part
(`PartsMove`), and for every value of the constants that satisfies
`CommandsAssumption`, an invariant of each part gives the property of the run.

* `LibrariesWhole`, for any library and sizes of buffers: `LoadPassed` says of every
  place in the load what the steps before it have found (header, signals, flash,
  lists), so that at the end the library is good, and a step that fails names
  something by which it is not, an answer that is wrong included. `OneToOne` is why lists read into a buffer that grew
  are whole. The frames collected are kept by `CollectedOnceStep`.
* `RecipesKept` and `RecipesStep`, for any recipes and any number of other commands:
  `RecipeInv` says that whoever is in an env is one of its members (`EnvsHoldMembers`),
  none behind its clock nor ahead of it by more than the ticks that failed
  (`LockstepKept`). A recipe may look at a view of the envs that is stale; what keeps the
  members together is that an instance in an env refuses time control. That every
  iteration compiled is of a loop and followed by its Set (`IterationsInRange`) is kept
  by the compiler's steps, with `Goes`, on how often a step fits into a range.
* `DefinitionsKept`, for any definitions, devices and libraries: what is said of the
  envs that serve (`ServingKept`) holds because of what is said of the one being
  started, phase by phase (`StartKept`): who runs, which buses and places are
  attached already and which are to come. That nothing else is attached (`NothingElse`)
  is an invariant of its own: every attachment is made by a start for one of its
  places, and goes when that start is rolled back or its env closes.
* `FramesReadAsSent`, for any members, identifiers, lengths and flags and either
  driver: everything in a socket can be read by its station as it was sent
  (`Readable`), what a tick has put on the bus is the frames before the first that was
  refused (`TickInv`), because only frames that pass `validate_frame` are encoded
  (`EncodedIsReadable`) and the length codes are those of the lengths FD has
  (`LengthCodes`).
* `SelectorsAnswered`, for any signals, selectors and requests: the selectors before
  the one at hand are done, those after it are not, and that one is done up to some
  id (`LoopInv`). `DoneFor` is the set of selectors that have stood for a signal
  already; a Get has as many readings of it, a Set has written the last of them, and
  an env has a column where the set is not empty (`GetInv`, `SetInv`, `EnvInv`).

`BytesProofs` proves the last of them, `BytesAsMeant`, of the two parts that work on
bytes and bits. What they compute is a fold over records or bits; since the modules
take it step by step, an invariant can say what has been taken so far.

* For any flash files, blocks, addresses and sizes: a byte in the memory is the last one
  said of its address by the records read so far, and so is that of the last region over
  an address the memory does not have (`HeldInv`); `PlaceInv` has the base a record is
  read with, told from the records before it. While regions are merged the memory is what the
  first of them say together (`MergeInv`), and the runs taken out of it ascend and
  do not touch (`ApartInv`). Whatever is wrong has been refused, or is in a region that
  is still to be merged (`CauseInv`): an inline block is looked at only then.
* For any signals and any width: a signal that was written has the bits of its code
  at its places (`WrittenInv`) until something is written to one of these places, for
  the walk over a signal visits its places, each of them once (`PlacesAscend`). What has been read of it is the code's low or high bits so far
  (`DecodeInv`), by `BitByBit`, which says how a number is put together from its bits. Of the
  code, `CodeReads` says that it is within half a factor of the value, or that the
  cast has stopped at the largest integer (`RoundsNear`, `FarAsked`). A read that
  panics has all bits of a code whose sign is set, so the value was negative.

The SMT encoding of tlapm 1.4.5 takes every value to have the domain
`1 .. Len(value)`. No proof relies on that: they also pass with an encoding in which
only sequences have it.

TLC alone checks the liveness properties (`ReadReturns`, `RequestsAnswered`,
`ShutdownCompletes`, `Responsive`, `AllEnds`, `CommandsEnd`): TLAPS has no proof
rule here for fairness and ENABLED. And TLC alone checks `RecipeUnrolled`, that a
recipe compiles to what it means: `Meaning` is a recursive function, of which nothing
can be proved without induction over the steps.

## Not modelled

* Sockets, files and drivers as such: what a call of the operating system may
  answer is a fault or a choice in the module whose protocol it is.
* Names of region files: `env__channel` (`bootstrap.rs:334`) is the same path for an
  env `a__b` with a channel `c` and an env `a` with a channel `b__c`; in the models
  different names stay different.
* Text: JSON and TOML (`protocol.rs`, `config/`), selectors, values, HEX digits,
  CAN payloads and durations (`name.rs`, `cli/args.rs`), and what is printed
  (`cli/output.rs`). They are conversions without state. A text that does not
  parse is an error answer where a request can meet it.
* The rest of the command line (`cli/commands.rs`, listing, `main.rs`), which
  sends one request and prints its answer.
* Decoding and encoding through a DBC file in a daemon: `can/dbc.rs` is modelled,
  but no request uses the overlays that are loaded.
* The Windows form of endpoints and pid checks, and the paths of files.
* The rounding of f64 in speeds, loops and the values of DBC signals.
* The simulated device itself, the template and the examples: a library is what
  `include/sim_api.h` lets it answer.
