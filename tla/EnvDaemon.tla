----------------------------- MODULE EnvDaemon -----------------------------
(***************************************************************************)
(* The actor of the env daemon (runtime/src/envd/server.rs, server/tick.rs,*)
(* server/dispatch.rs): it owns the env's clock, steps every instance once *)
(* per env tick, sends the scheduled CAN frames, samples the trace and     *)
(* serves the requests of the clients, one at a time and in order.         *)
(*                                                                         *)
(* Each turn of its loop serves a batch of requests, then makes the ticks  *)
(* that the wall clock owes, then sleeps until a request or the next tick. *)
(* An await of the code is a pair of actions here, so that the workers and *)
(* the instances (EnvWorkers) run in between.                              *)
(***************************************************************************)
EXTENDS EnvWorkers

CONSTANTS
  Clients,         (* the connections, each with one request in flight     *)
  Requests,        (* what they ask: records [kind, n, job]                *)
  NumJobs,         (* the CAN schedules there can be, in the order sent    *)
  ActionsPerTurn,  (* MAX_ENV_ACTIONS_PER_TURN                             *)
  TicksPerTurn,    (* MAX_ENV_TICKS_PER_TURN                               *)
  MaxDue,          (* bound: ticks the wall clock adds in one turn         *)
  MaxElapsed,      (* bound: the clock when the wall clock stops adding    *)
  MaxRequests      (* bound: requests that are made                        *)

Jobs == 1 .. NumJobs

Kinds ==
  {"Query", "TimeStep", "Reset", "TimeStart", "TimePause", "TraceStart",
   "TraceStop", "Get", "Add", "Update", "Remove", "Stop", "Start", "Close"}

ASSUME EnvAssumption ==
  /\ NumJobs \in Nat
  /\ Requests \subseteq [kind : Kinds, n : Nat, job : Nat]
  /\ \A r \in Requests :
       /\ r.kind \in {"Add", "Update", "TraceStart"} => r.n > 0
       /\ r.kind \in {"Add", "Update", "Remove", "Stop", "Start"}
            => r.job \in Jobs
  /\ ActionsPerTurn \in Nat \ {0}
  /\ TicksPerTurn \in Nat \ {0}
  /\ MaxDue \in Nat /\ MaxElapsed \in Nat /\ MaxRequests \in Nat

VARIABLES
  apc,       (* where the actor is                                         *)
  left,      (* requests this batch may still serve                        *)
  turn,      (* "batch" or "select": where the request served was received *)
  serving,   (* the request served, or WallClock                           *)
  todo,      (* ticks still to make                                        *)
  batch,     (* ticks this turn makes for the wall clock                   *)
  call,      (* the request fanned out to the workers                      *)
  next,      (* the instance whose turn it is                              *)
  elapsed,   (* state.time                                                 *)
  running,
  backlog,   (* realtime_tick_backlog                                      *)
  shutdown,
  jobs,      (* the CAN schedules                                          *)
  trace,     (* state.trace.active                                         *)
  requests,  (* the actor's channel                                        *)
  answer,    (* per client: "idle", "waiting", or its last answer          *)
  issued,    (* how many requests were made                                *)
  row,       (* history: the last row of the trace file                    *)
  sentAt,    (* history: the tick in which a job was last sent             *)
  early,     (* history: a job was sent before its period was over         *)
  lost,      (* history: a tick or reset failed since the last good reset  *)
  base       (* history: the clock when the last TimeStep began            *)

control == <<apc, left, turn, serving, todo, batch, call, next>>
clock == <<elapsed, running, backlog>>
canBus == <<jobs, sentAt, early>>
tracing == <<trace, row>>
sessions == <<requests, answer, issued>>
vars == <<workerVars, control, clock, shutdown, canBus, tracing, sessions,
          lost, base>>

(* The actor's caller when no client is: the realtime part of its loop.    *)
WallClock == [client |-> "none", kind |-> "WallClock", n |-> 0, job |-> 0]
NoTrace == [active |-> FALSE, period |-> 0, due |-> 0]
NoJob == [present |-> FALSE, enabled |-> FALSE, every |-> 0, due |-> 0]
NoRow == [tick |-> 0, values |-> [i \in Instances |-> 0]]
Never == [sent |-> FALSE, tick |-> 0]

(* Mutant: a turn makes a full batch of ticks, owed or not.                *)
LeastUncapped(a, b) == b

Least(a, b) == IF a <= b THEN a ELSE b
Greatest(a, b) == IF a >= b THEN a ELSE b

Init ==
  /\ WorkersInit
  /\ apc = "batch" /\ left = ActionsPerTurn /\ turn = "batch"
  /\ serving = WallClock
  /\ todo = 0 /\ batch = 0 /\ call = "Step" /\ next = 1
  /\ elapsed = 0 /\ running = FALSE /\ backlog = 0
  /\ shutdown = FALSE
  /\ jobs = [j \in Jobs |-> NoJob]
  /\ trace = NoTrace
  /\ requests = <<>>
  /\ answer = [c \in Clients |-> "idle"]
  /\ issued = 0
  /\ row = NoRow
  /\ sentAt = [j \in Jobs |-> Never]
  /\ early = FALSE
  /\ lost = FALSE
  /\ base = 0

-----------------------------------------------------------------------------
(* The clients' connections.                                               *)

Stopped == apc \in {"close", "closeWait", "stopped"}

(* A connection queues its request; after the actor's end it answers that  *)
(* the daemon is unavailable.                                              *)
Issue(c, r) ==
  /\ answer[c] # "waiting"
  /\ issued < MaxRequests
  /\ issued' = issued + 1
  /\ IF Stopped
     THEN /\ answer' = [answer EXCEPT ![c] = "unavailable"]
          /\ UNCHANGED requests
     ELSE /\ answer' = [answer EXCEPT ![c] = "waiting"]
          /\ requests' = Append(requests, [client |-> c, kind |-> r.kind,
                                           n |-> r.n, job |-> r.job])
  /\ UNCHANGED <<workerVars, control, clock, shutdown, canBus, tracing,
                 lost, base>>

-----------------------------------------------------------------------------
(* The requests.                                                           *)

(* try_recv in the batch, recv in the select; what select received is      *)
(* handled before the next batch, whose first request is handled even when *)
(* the actor is to stop.                                                   *)
TakeRequest ==
  /\ \/ apc = "batch" /\ left > 0 /\ left' = left - 1
     \/ apc = "select" /\ left' = ActionsPerTurn
  /\ requests # <<>>
  /\ serving' = Head(requests)
  /\ requests' = Tail(requests)
  /\ turn' = apc
  /\ apc' = "handle"
  /\ UNCHANGED <<workerVars, todo, batch, call, next, clock, shutdown, canBus,
                 tracing, answer, issued, lost, base>>

BatchEnds ==
  /\ apc = "batch"
  /\ left = 0 \/ requests = <<>>
  /\ apc' = IF shutdown THEN "stopping" ELSE "poll"
  /\ UNCHANGED <<workerVars, left, turn, serving, todo, batch, call, next,
                 clock, shutdown, canBus, tracing, sessions, lost, base>>

(* The sleep of the select is over.                                        *)
Wakes ==
  /\ apc = "select"
  /\ apc' = "batch"
  /\ left' = ActionsPerTurn
  /\ UNCHANGED <<workerVars, turn, serving, todo, batch, call, next, clock,
                 shutdown, canBus, tracing, sessions, lost, base>>

(* process_action_message ends: the client has its answer, the locals go.  *)
Respond(status) ==
  /\ answer' = [answer EXCEPT ![serving.client] = status]
  /\ serving' = WallClock
  /\ todo' = 0 /\ batch' = 0 /\ call' = "Step" /\ next' = 1
  /\ apc' = IF turn = "batch" /\ (shutdown \/ serving.kind = "Close")
            THEN "stopping" ELSE "batch"
  /\ UNCHANGED <<requests, issued>>

Handling(kind) ==
  /\ apc = "handle"
  /\ serving.kind = kind
  /\ UNCHANGED <<left, turn>>

(* The requests that read the daemon's state, set the speed of its clock   *)
(* (the model's clock has any speed), send one frame or load a DBC file,   *)
(* and any request the daemon rejects for its text.                        *)
HandleQuery ==
  /\ Handling("Query")
  /\ \E status \in {"ok", "err"} : Respond(status)
  /\ UNCHANGED <<workerVars, clock, shutdown, canBus, tracing, lost, base>>

HandleTimeStart ==
  /\ Handling("TimeStart")
  /\ IF running THEN Respond("err") /\ UNCHANGED clock
                ELSE /\ Respond("ok")
                     /\ running' = TRUE /\ backlog' = 0 /\ UNCHANGED elapsed
  /\ UNCHANGED <<workerVars, shutdown, canBus, tracing, lost, base>>

HandleTimePause ==
  /\ Handling("TimePause")
  /\ IF running THEN /\ Respond("ok")
                     /\ running' = FALSE /\ backlog' = 0 /\ UNCHANGED elapsed
                ELSE Respond("err") /\ UNCHANGED clock
  /\ UNCHANGED <<workerVars, shutdown, canBus, tracing, lost, base>>

(* The backlog goes before step_ticks finds the clock running.             *)
HandleTimeStep ==
  /\ Handling("TimeStep")
  /\ backlog' = 0
  /\ IF running
     THEN Respond("err") /\ UNCHANGED base
     ELSE /\ todo' = serving.n /\ base' = elapsed /\ apc' = "tick"
          /\ UNCHANGED <<serving, batch, call, next, sessions>>
  /\ UNCHANGED <<workerVars, elapsed, running, shutdown, canBus, tracing, lost>>

HandleClose ==
  /\ Handling("Close")
  /\ shutdown' = TRUE
  /\ Respond("ok")
  /\ UNCHANGED <<workerVars, clock, canBus, tracing, lost, base>>

-----------------------------------------------------------------------------
(* The CAN schedules.                                                      *)

(* A schedule request writes the schedule it names, or is refused.         *)
Schedules(kind, allowed, job) ==
  /\ Handling(kind)
  /\ IF allowed
     THEN jobs' = [jobs EXCEPT ![serving.job] = job] /\ Respond("ok")
     ELSE UNCHANGED jobs /\ Respond("err")
  /\ UNCHANGED <<workerVars, clock, shutdown, tracing, lost, base>>

(* A new period begins: the spacing from the last frame sent is over.      *)
PeriodBegins(allowed) ==
  /\ sentAt' = IF allowed THEN [sentAt EXCEPT ![serving.job] = Never] ELSE sentAt
  /\ UNCHANGED early

Named == jobs[serving.job]

ScheduleAdd ==
  /\ Schedules("Add", ~Named.present,
       [present |-> TRUE, enabled |-> TRUE, every |-> serving.n, due |-> elapsed])
  /\ PeriodBegins(~Named.present)

ScheduleUpdate ==
  /\ Schedules("Update", Named.present,
       [Named EXCEPT !.every = serving.n, !.due = elapsed])
  /\ PeriodBegins(Named.present)

ScheduleRemove ==
  /\ Schedules("Remove", Named.present, NoJob)
  /\ PeriodBegins(Named.present)

ScheduleStop ==
  /\ Schedules("Stop", Named.present, [Named EXCEPT !.enabled = FALSE])
  /\ UNCHANGED <<sentAt, early>>

ScheduleStart ==
  /\ Schedules("Start", Named.present, [Named EXCEPT !.enabled = TRUE])
  /\ UNCHANGED <<sentAt, early>>

-----------------------------------------------------------------------------
(* The requests the actor sends to its workers.                            *)

(* The `?` of the code: the receivers still held are dropped, a client gets*)
(* the error, and an error of a tick made for the wall clock ends the env. *)
Abandon ==
  /\ DropReceivers
  /\ IF serving = WallClock
     THEN /\ shutdown' = TRUE
          /\ apc' = "stopping"
          /\ todo' = 0 /\ batch' = 0 /\ call' = "Step" /\ next' = 1
          /\ UNCHANGED <<serving, sessions>>
     ELSE UNCHANGED shutdown /\ Respond("err")
  /\ UNCHANGED <<instances, left, turn, clock, tracing, base>>

(* One request for every instance, then every answer, in order.            *)
FanOut(op) ==
  /\ apc' = "send"
  /\ call' = op
  /\ next' = 1

(* One read after the other, each awaited before the next is sent.         *)
ReadAll(op) ==
  /\ apc' = "read"
  /\ call' = op
  /\ next' = 1

Fanning(to) ==
  /\ apc' = to
  /\ UNCHANGED <<instances, left, turn, serving, todo, batch, call, clock,
                 shutdown, canBus, tracing, sessions, lost, base>>

SendNext ==
  /\ apc = "send" /\ next <= NumInstances
  /\ Begin(next, call)
  /\ next' = next + 1
  /\ Fanning("send")

(* Mutant: the acknowledgements are not awaited.                           *)
AllSentUnawaited ==
  /\ apc = "send" /\ next > NumInstances
  /\ next' = NumInstances + 1
  /\ Fanning("await")
  /\ DropReceivers

AllSent ==
  /\ apc = "send" /\ next > NumInstances
  /\ next' = 1
  /\ Fanning("await")
  /\ UNCHANGED workers

(* Mutant: an instance that answers with an error counts as stepped.       *)
AwaitNextLenient ==
  /\ apc = "await" /\ next <= NumInstances
  /\ reply[next] \in {"ok", "err"}
  /\ TakeReply(next)
  /\ next' = next + 1
  /\ Fanning("await")

AwaitNext ==
  /\ apc = "await" /\ next <= NumInstances
  /\ reply[next] = "ok"
  /\ TakeReply(next)
  /\ next' = next + 1
  /\ Fanning("await")

ReadNext ==
  /\ apc = "read" /\ next <= NumInstances
  /\ Begin(next, "Read")
  /\ Fanning("readWait")
  /\ UNCHANGED next

ReadReply ==
  /\ apc = "readWait"
  /\ reply[next] = "ok"
  /\ TakeReply(next)
  /\ next' = next + 1
  /\ Fanning("read")

(* A closed worker takes no request; a failed one answers with an error.   *)
WorkerRefuses ==
  /\ next <= NumInstances
  /\ \/ apc \in {"send", "read"} /\ wstate[next] = "closed"
     \/ apc \in {"await", "readWait"} /\ reply[next] = "err"
  /\ Abandon
  /\ lost' = (lost \/ call # "Read")
  /\ UNCHANGED canBus

AllAnswered(op) ==
  /\ next > NumInstances
  /\ call = op
  /\ apc = IF op \in {"Read", "Sample"} THEN "read" ELSE "await"

-----------------------------------------------------------------------------
(* Ticks: advance_due_ticks, advance_single_tick.                          *)

(* What the wall clock owes since the last turn, as much as a turn makes.  *)
TakeWallClockTicks ==
  /\ apc = "poll"
  /\ \E due \in 0 .. MaxDue :
       /\ due > 0 => running /\ elapsed + backlog + due <= MaxElapsed
       /\ backlog' = backlog + due
  /\ batch' = Least(backlog', TicksPerTurn)
  /\ todo' = batch'
  /\ apc' = "tick"
  /\ UNCHANGED <<workerVars, left, turn, serving, call, next, elapsed, running,
                 shutdown, canBus, tracing, sessions, lost, base>>

WallClockTicksDone ==
  /\ apc = "tick" /\ serving = WallClock
  /\ todo = 0
  /\ backlog' = backlog - batch
  /\ batch' = 0
  /\ apc' = IF backlog' > 0 THEN "batch" ELSE "select"
  /\ left' = ActionsPerTurn
  /\ UNCHANGED <<workerVars, turn, serving, todo, call, next, elapsed, running,
                 shutdown, canBus, tracing, sessions, lost, base>>

(* Mutant: the loop ends one tick early.                                   *)
TimeStepDoneEarly ==
  /\ apc = "tick" /\ serving # WallClock
  /\ todo <= 1 \/ shutdown
  /\ Respond("ok")
  /\ UNCHANGED <<workerVars, left, turn, clock, shutdown, canBus, tracing,
                 lost, base>>

(* The answer says how many ticks were asked for, also to a client whose   *)
(* request the shutdown cut short.                                         *)
TimeStepDone ==
  /\ apc = "tick" /\ serving # WallClock
  /\ todo = 0 \/ shutdown
  /\ Respond("ok")
  /\ UNCHANGED <<workerVars, left, turn, clock, shutdown, canBus, tracing,
                 lost, base>>

(* Mutant: a job due in this very tick is left for the next.               *)
OverdueJobs ==
  {j \in Jobs : jobs[j].present /\ jobs[j].enabled /\ jobs[j].due < elapsed}

DueJobs ==
  {j \in Jobs : jobs[j].present /\ jobs[j].enabled /\ jobs[j].due <= elapsed}

(* Mutant: the period is counted from the tick before.                     *)
NextDueEarly(j) == elapsed + Greatest(jobs[j].every, 1) - 1

NextDue(j) == elapsed + Greatest(jobs[j].every, 1)

SendJobs(S) ==
  /\ jobs' = [j \in Jobs |->
       IF j \in S THEN [jobs[j] EXCEPT !.due = NextDue(j)] ELSE jobs[j]]
  /\ sentAt' = [j \in Jobs |->
       IF j \in S THEN [sent |-> TRUE, tick |-> elapsed] ELSE sentAt[j]]
  /\ early' = (early \/ \E j \in S : /\ sentAt[j].sent
                                     /\ elapsed < sentAt[j].tick + jobs[j].every)

TickBegins ==
  /\ apc = "tick" /\ todo > 0
  /\ ~shutdown
  /\ SendJobs(DueJobs)
  /\ FanOut("Step")
  /\ UNCHANGED <<workerVars, left, turn, serving, todo, batch, clock, shutdown,
                 tracing, sessions, lost, base>>

(* The bus fails when it is read, or when a job's frame is sent: the jobs  *)
(* before that one are sent and have their next tick.                      *)
TickLosesBus ==
  /\ "can" \in Faults
  /\ apc = "tick" /\ todo > 0
  /\ ~shutdown
  /\ \/ SendJobs({})
     \/ \E j \in DueJobs : SendJobs({k \in DueJobs : k < j})
  /\ Abandon
  /\ UNCHANGED lost

(* Mutant: the tick being made is taken for the last one made.             *)
SampleTickEarly == elapsed

(* The tick that has just been made: the env's time moves after it.        *)
SampleTick == elapsed + 1

SampleDue == trace.active /\ SampleTick >= trace.due

NextSample == SampleTick + trace.period

(* advance_ticks(1), and back to the loop of advance_due_ticks.            *)
TimeAdvances ==
  /\ elapsed' = elapsed + 1
  /\ todo' = todo - 1
  /\ apc' = "tick"
  /\ next' = 1
  /\ UNCHANGED <<left, turn, serving, batch, call, running, backlog, shutdown,
                 sessions, base>>

(* Every instance acknowledged its tick: the trace is sampled if it is due,*)
(* and only then does the env's time move.                                 *)
TickSampled ==
  /\ AllAnswered("Step")
  /\ SampleDue
  /\ ReadAll("Sample")
  /\ UNCHANGED <<workerVars, left, turn, serving, todo, batch, clock, shutdown,
                 canBus, tracing, sessions, lost, base>>

TickEnds ==
  /\ AllAnswered("Step")
  /\ ~SampleDue
  /\ TimeAdvances
  /\ UNCHANGED <<workerVars, canBus, tracing, lost>>

(* observe_env_bus_frames after the acknowledgements.                      *)
TickEndLosesBus ==
  /\ "can" \in Faults
  /\ AllAnswered("Step")
  /\ Abandon
  /\ lost' = TRUE
  /\ UNCHANGED canBus

RowOf(tick) == [tick |-> tick, values |-> sample]

SampleWritten ==
  /\ AllAnswered("Sample")
  /\ row' = RowOf(SampleTick)
  /\ trace' = [trace EXCEPT !.due = NextSample]
  /\ TimeAdvances
  /\ UNCHANGED <<workerVars, canBus, lost>>

SampleNotWritten ==
  /\ "write" \in Faults
  /\ AllAnswered("Sample")
  /\ Abandon
  /\ lost' = TRUE
  /\ UNCHANGED canBus

-----------------------------------------------------------------------------
(* The trace and the signals.                                              *)

HandleTraceStart ==
  /\ Handling("TraceStart")
  /\ \/ (trace.active \/ "write" \in Faults) /\ Respond("err")
     \/ ~trace.active /\ ReadAll("Read") /\ UNCHANGED <<serving, todo, batch, sessions>>
  /\ UNCHANGED <<workerVars, clock, shutdown, canBus, tracing, lost, base>>

HandleGet ==
  /\ Handling("Get")
  /\ ReadAll("Read")
  /\ UNCHANGED <<workerVars, serving, todo, batch, sessions, clock, shutdown,
                 canBus, tracing, lost, base>>

ReadDone(kind) ==
  /\ AllAnswered("Read")
  /\ serving.kind = kind
  /\ UNCHANGED <<workerVars, left, turn, clock, shutdown, canBus, lost, base>>

GetDone ==
  /\ ReadDone("Get")
  /\ row' = RowOf(elapsed)
  /\ Respond("ok")
  /\ UNCHANGED trace

(* The first row is written at once, then the trace becomes active.        *)
TraceStarts ==
  /\ ReadDone("TraceStart")
  /\ \/ /\ row' = RowOf(elapsed)
        /\ trace' = [active |-> TRUE, period |-> serving.n,
                     due |-> elapsed + serving.n]
        /\ Respond("ok")
     \/ "write" \in Faults /\ Respond("err") /\ UNCHANGED tracing

(* Stopping and clearing a trace; the flush fails before the trace is      *)
(* forgotten, the removal of its file after it.                            *)
HandleTraceStop ==
  /\ Handling("TraceStop")
  /\ \/ trace' = NoTrace /\ Respond("ok")
     \/ /\ "write" \in Faults
        /\ trace' \in {trace, NoTrace}
        /\ Respond("err")
  /\ UNCHANGED <<workerVars, clock, shutdown, canBus, row, lost, base>>

-----------------------------------------------------------------------------
(* Reset: every instance, then what is pending on its buses, then the env. *)

HandleReset ==
  /\ Handling("Reset")
  /\ FanOut("Reset")
  /\ lost' = TRUE
  /\ UNCHANGED <<workerVars, serving, todo, batch, sessions, clock, shutdown,
                 canBus, tracing, base>>

ResetDiscards ==
  /\ AllAnswered("Reset")
  /\ FanOut("Discard")
  /\ UNCHANGED <<workerVars, left, turn, serving, todo, batch, clock, shutdown,
                 canBus, tracing, sessions, lost, base>>

(* Mutant: the schedules keep the tick of their next frame.                *)
SchedulesKept == jobs

SchedulesReset == [j \in Jobs |-> [jobs[j] EXCEPT !.due = 0]]

TimeReset == elapsed' = 0 /\ running' = FALSE /\ backlog' = 0

(* reset_env_can_state, time.reset: the trace is left as it is.            *)
ResetEnds ==
  /\ AllAnswered("Discard")
  /\ jobs' = SchedulesReset
  /\ sentAt' = [j \in Jobs |-> Never]
  /\ TimeReset
  /\ lost' = FALSE
  /\ Respond("ok")
  /\ UNCHANGED <<workerVars, left, turn, shutdown, early, tracing, base>>

-----------------------------------------------------------------------------
(* The end of the daemon: run_actor_task returns, its channel and the      *)
(* requests in it are dropped, and every instance is closed or killed.     *)

Closing(to) ==
  /\ apc' = to
  /\ UNCHANGED <<inbox, outbox, ticks, sample, left, turn, serving, todo, batch,
                 call, clock, shutdown, canBus, tracing, issued, lost, base>>

(* Mutant: the requests still queued are forgotten, their clients wait.    *)
QueuedForgotten == answer

(* A dropped request: its connection answers that the env is unavailable.  *)
QueuedDropped ==
  [c \in Clients |-> IF answer[c] = "waiting" THEN "unavailable" ELSE answer[c]]

ActorReturns ==
  /\ apc = "stopping"
  /\ answer' = QueuedDropped
  /\ requests' = <<>>
  /\ next' = 1
  /\ Closing("close")
  /\ UNCHANGED <<workers, alive>>

(* Mutant: an instance that does not close is left running.                *)
KillSkipped(i) == UNCHANGED alive

Kill(i) == alive' = [alive EXCEPT ![i] = FALSE]

CloseNext ==
  /\ apc = "close" /\ next <= NumInstances
  /\ \/ Begin(next, "Close") /\ UNCHANGED alive
     \/ wstate[next] = "closed" /\ Kill(next) /\ UNCHANGED workers
  /\ next' = next + 1
  /\ Closing("close")
  /\ UNCHANGED <<requests, answer>>

CloseSent ==
  /\ apc = "close" /\ next > NumInstances
  /\ next' = 1
  /\ Closing("closeWait")
  /\ UNCHANGED <<workers, alive, requests, answer>>

(* An instance with no receiver was killed already.                        *)
CloseAwaitNext ==
  /\ apc = "closeWait" /\ next <= NumInstances
  /\ reply[next] # "pending"
  /\ TakeReply(next)
  /\ IF reply[next] = "err" THEN Kill(next) ELSE UNCHANGED alive
  /\ next' = next + 1
  /\ Closing("closeWait")
  /\ UNCHANGED <<requests, answer>>

EnvStops ==
  /\ apc = "closeWait" /\ next > NumInstances
  /\ Closing("stopped")
  /\ UNCHANGED <<workers, alive, next, requests, answer>>

-----------------------------------------------------------------------------
HandleRequest ==
  \/ HandleQuery \/ HandleTimeStart \/ HandleTimePause \/ HandleTimeStep
  \/ HandleReset \/ HandleTraceStart \/ HandleTraceStop \/ HandleGet
  \/ ScheduleAdd \/ ScheduleUpdate \/ ScheduleRemove
  \/ ScheduleStop \/ ScheduleStart \/ HandleClose

ActorStep ==
  \/ TakeRequest \/ BatchEnds \/ Wakes \/ HandleRequest
  \/ SendNext \/ AllSent \/ AwaitNext \/ ReadNext \/ ReadReply \/ WorkerRefuses
  \/ TakeWallClockTicks \/ WallClockTicksDone \/ TimeStepDone
  \/ TickBegins \/ TickLosesBus \/ TickSampled \/ TickEnds \/ TickEndLosesBus
  \/ SampleWritten \/ SampleNotWritten
  \/ GetDone \/ TraceStarts
  \/ ResetDiscards \/ ResetEnds
  \/ ActorReturns \/ CloseNext \/ CloseSent \/ CloseAwaitNext \/ EnvStops

(* A reset behind the env's back loses the lockstep.                       *)
OthersStep ==
  /\ \E i \in Instances :
       \/ (WorkerStep(i) \/ InstanceStep(i)) /\ UNCHANGED lost
       \/ DirectReset(i) /\ lost' = TRUE
  /\ UNCHANGED <<control, clock, shutdown, canBus, tracing, sessions, base>>

Terminated == apc = "stopped" /\ UNCHANGED vars

Next ==
  \/ \E c \in Clients, r \in Requests : Issue(c, r)
  \/ ActorStep
  \/ OthersStep
  \/ Terminated

Spec == Init /\ [][Next]_vars

(* The runtime schedules every task that can run, and a worker waits five  *)
(* seconds at most; nothing is assumed of the clients and the instances.   *)
FairSpec ==
  /\ Spec
  /\ WF_vars(ActorStep)
  /\ \A i \in Instances : WF_vars(WorkerStep(i) /\ UNCHANGED
       <<control, clock, shutdown, canBus, tracing, sessions, lost, base>>)

-----------------------------------------------------------------------------
(* Properties.                                                             *)

(* What a connection puts in the actor's channel.                          *)
Messages ==
  {[client |-> c, kind |-> r.kind, n |-> r.n, job |-> r.job] :
     c \in Clients, r \in Requests}

ControlTypeOK ==
  /\ apc \in {"batch", "handle", "poll", "tick", "send", "await", "read",
              "readWait", "select", "stopping", "close", "closeWait", "stopped"}
  /\ left \in 0 .. ActionsPerTurn
  /\ turn \in {"batch", "select"}
  /\ serving \in Messages \cup {WallClock}
  /\ todo \in Nat /\ batch \in Nat
  /\ call \in {"Step", "Reset", "Discard", "Read", "Sample"}
  /\ next \in 1 .. NumInstances + 1

ClockTypeOK ==
  elapsed \in Nat /\ running \in BOOLEAN /\ backlog \in Nat

CanTypeOK ==
  /\ jobs \in [Jobs -> [present : BOOLEAN, enabled : BOOLEAN, every : Nat, due : Nat]]
  /\ sentAt \in [Jobs -> [sent : BOOLEAN, tick : Nat]]
  /\ early \in BOOLEAN

TraceTypeOK ==
  /\ trace \in [active : BOOLEAN, period : Nat, due : Nat]
  /\ row \in [tick : Nat, values : [Instances -> Nat]]

SessionsTypeOK ==
  /\ requests \in Seq(Messages)
  /\ answer \in [Clients -> {"idle", "waiting", "ok", "err", "unavailable"}]
  /\ issued \in 0 .. MaxRequests

RestTypeOK ==
  shutdown \in BOOLEAN /\ lost \in BOOLEAN /\ base \in Nat

TypeOK ==
  /\ WorkersTypeOK
  /\ ControlTypeOK
  /\ ClockTypeOK
  /\ CanTypeOK
  /\ TraceTypeOK
  /\ SessionsTypeOK
  /\ RestTypeOK

(* Time never moves again once a worker has failed: the env does not run   *)
(* on with one of its instances left behind (a reset cannot succeed        *)
(* either).                                                                *)
FrozenAfterFailure ==
  [][(\E i \in Instances : Failed(i)) => elapsed' = elapsed]_vars

(* The values of a trace row, and of an answer to get, are those of one    *)
(* and the same tick of every instance, whatever failed before.            *)
RowIsOneInstant ==
  \A i, k \in Instances : row.values[i] = row.values[k]

(* Between two operations a trace is never behind its schedule.            *)
TraceNotOverdue ==
  trace.active /\ apc \in {"batch", "poll", "select"} => elapsed < trace.due

(* While no tick or reset has failed, that tick is the one the row, or the *)
(* env's clock, names; and no row that was due is left out.                *)
RowMatchesClock ==
  [][ /\ row' # row /\ ~lost => \A i \in Instances : row'.values[i] = row'.tick
      /\ TraceNotOverdue' ]_vars

(* The env implements the lockstep clock.                                  *)
Mode == IF lost THEN "lost"
        ELSE IF call \in {"Step", "Sample"} /\ apc \in {"send", "await", "read", "readWait"}
             THEN "step" ELSE "rest"

Lockstep == INSTANCE LockstepClock WITH
  mode <- Mode, clock <- elapsed, pos <- ticks

LockstepSpec == Lockstep!Spec

(* A step that a client is told of was made in full.  Only the one that an *)
(* env about to stop still serves is told of unmade: none of its ticks is, *)
(* and its answer is the env's last.                                       *)
StepAnswered == apc = "tick" /\ serving.kind = "TimeStep" /\ answer'[serving.client] = "ok"
StepDoneInFull ==
  [][ StepAnswered =>
        \/ elapsed = base + serving.n
        \/ shutdown /\ elapsed = base /\ apc' = "stopping" ]_vars

(* The next frame of a schedule is at most one period away.                *)
JobWithinPeriod ==
  \A j \in Jobs : jobs[j].present => jobs[j].due <= elapsed + jobs[j].every

(* Env time never moves over a tick in which an enabled job was due and    *)
(* not sent, also when a tick failed half way and is made again.           *)
NoJobMissed ==
  [][elapsed' = elapsed + 1 =>
       \A j \in Jobs : jobs[j].present /\ jobs[j].enabled => jobs[j].due > elapsed]_vars

(* No schedule sends two frames within one of its periods, also when a     *)
(* tick failed half way and is made again.                                 *)
JobsKeepTheirPeriod == ~early

(* Every request is answered, however many ticks the wall clock owes and   *)
(* whatever the instances do.                                              *)
RequestsAnswered ==
  \A c \in Clients : answer[c] = "waiting" ~> answer[c] # "waiting"

(* Once it is to shut down the env stops, and no instance outlives it.     *)
ShutdownCompletes ==
  shutdown ~> apc = "stopped" /\ \A i \in Instances : ~alive[i]

(* What docs/next-steps.md says of tracing: sampling rounds up to the next *)
(* tick that reaches the boundary, so the next sample is never further     *)
(* than one period away.                                                   *)
TraceWithinPeriod ==
  trace.active => trace.due <= elapsed + trace.period

=============================================================================
