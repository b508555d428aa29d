--------------------------- MODULE InstanceDaemon ---------------------------
(***************************************************************************)
(* The daemon of one instance (runtime/src/daemon/server.rs and            *)
(* daemon/server/): connections put their requests in one of two queues,   *)
(* the env's worker requests in a queue of their own, and one task owns    *)
(* everything else.  Each turn of that task serves a batch of either       *)
(* queue, makes the ticks the wall clock owes, and sleeps until a request  *)
(* or the next tick.                                                       *)
(*                                                                         *)
(* A tick passes through six stages, and a failure of a stage before the   *)
(* library's own tick, or of that tick, leaves the clock alone, one after  *)
(* it does not.  The loaded library is a count of the ticks it made since  *)
(* its last reset.  What CAN buses and shared channels carry is in         *)
(* EnvExchange, what the wall clock owes is in TimeEngine.                 *)
(***************************************************************************)
EXTENDS Naturals, Sequences

CONSTANTS
  Workers,         (* connections that send worker requests (the env's)    *)
  Clients,         (* connections that send any other request              *)
  Requests,        (* what the clients ask for: records [kind, n]          *)
  Places,          (* whether the instance may belong to an env            *)
  Faults,          (* "pre", "sample", "post" (a tick's stages), "file",   *)
                   (* "die" (the process is killed)                        *)
  WorkersPerTurn,  (* MAX_WORKER_ACTIONS_PER_TURN (64)                     *)
  ActionsPerTurn,  (* MAX_NORMAL_ACTIONS_PER_TURN (16)                     *)
  TicksPerTurn,    (* MAX_REALTIME_TICKS_PER_TURN (64)                     *)
  MaxDue,          (* bound: ticks the wall clock adds in one turn         *)
  MaxTicks,        (* bound: ticks after which the wall clock stops adding *)
  MaxRequests      (* bound: requests that are made, a worker's reads not  *)
                   (* counted                                              *)

WorkerKinds == {"Read", "WorkerStep"}
ClientKinds ==
  {"Query", "Reset", "TimeStart", "TimePause", "TimeStep", "TraceStart",
   "TraceStop", "TraceClear", "Close"}

ASSUME InstanceAssumption ==
  /\ Requests \subseteq [kind : WorkerKinds \cup ClientKinds, n : Nat]
  /\ \A r \in Requests : r.kind = "TraceStart" => r.n > 0
  /\ Workers \cap Clients = {}
  /\ Places \subseteq BOOLEAN /\ Places # {}
  /\ Faults \subseteq {"pre", "sample", "post", "file", "die"}
  /\ WorkersPerTurn \in Nat \ {0}
  /\ ActionsPerTurn \in Nat \ {0}
  /\ TicksPerTurn \in Nat \ {0}
  /\ {MaxDue, MaxTicks, MaxRequests} \subseteq Nat

VARIABLES
  inEnv,     (* the instance belongs to an env (never changes)             *)
  phase,     (* where the task is                                          *)
  turn,      (* where the request it serves came from                      *)
  left,      (* requests this batch may still serve, then ticks it makes   *)
  serving,   (* the request served, or WallClock                           *)
  todo,      (* ticks still to make for it                                 *)
  queue,     (* the two channels                                           *)
  answer,    (* per connection: "idle", "waiting", or the last answer      *)
  issued,    (* how many requests were made                                *)
  elapsed,   (* state.time                                                 *)
  running,
  backlog,   (* realtime_tick_backlog                                      *)
  shutdown,
  lib,       (* ticks the library made since its reset                     *)
  lag,       (* history: of these, the worker's steps that then failed     *)
  trace,     (* state.trace.active                                         *)
  rows       (* rows reported, rows in the file, the tick of the last one  *)

control == <<phase, turn, left, serving, todo>>
sessions == <<queue, answer, issued>>
clock == <<elapsed, running, backlog>>
library == <<lib, lag>>
tracing == <<trace, rows>>
vars == <<inEnv, control, sessions, clock, shutdown, library, tracing>>

Connections == Workers \cup Clients
Channels == {"worker", "normal"}
WallClock == [client |-> "none", kind |-> "WallClock", n |-> 0]
NoTrace == [active |-> FALSE, period |-> 0, due |-> 0]
NoRows == [count |-> 0, disk |-> 0, last |-> 0]
PerTurn(q) == IF q = "worker" THEN WorkersPerTurn ELSE ActionsPerTurn
Least(a, b) == IF a <= b THEN a ELSE b

Init ==
  /\ inEnv \in Places
  /\ phase = "worker" /\ turn = "worker" /\ left = WorkersPerTurn
  /\ serving = WallClock /\ todo = 0
  /\ queue = [q \in Channels |-> <<>>]
  /\ answer = [c \in Connections |-> "idle"]
  /\ issued = 0
  /\ elapsed = 0 /\ running = FALSE /\ backlog = 0
  /\ shutdown = FALSE
  /\ lib = 0 /\ lag = 0
  /\ trace = NoTrace /\ rows = NoRows

-----------------------------------------------------------------------------
(* The connections.                                                        *)

Stopped == phase \in {"stopped", "dead"}

(* handle_connection: worker requests go to the worker queue; once the     *)
(* task is gone the connection breaks or says so.                          *)
Issue(c, r) ==
  /\ answer[c] # "waiting"
  /\ (c \in Workers) = (r.kind \in WorkerKinds)
  /\ c \in Workers => inEnv
  /\ \/ r.kind = "Read" /\ UNCHANGED issued
     \/ r.kind # "Read" /\ issued < MaxRequests /\ issued' = issued + 1
  /\ IF Stopped
     THEN answer' = [answer EXCEPT ![c] = "gone"] /\ UNCHANGED queue
     ELSE /\ answer' = [answer EXCEPT ![c] = "waiting"]
          /\ queue' = [queue EXCEPT ![IF c \in Workers THEN "worker" ELSE "normal"] =
                         Append(@, [client |-> c, kind |-> r.kind, n |-> r.n])]
  /\ UNCHANGED <<inEnv, control, clock, shutdown, library, tracing>>

-----------------------------------------------------------------------------
(* The turn.                                                               *)

(* Mutant: a batch lasts as long as there are requests.                    *)
TakeRequestUncounted(q) ==
  /\ queue[q] # <<>>
  /\ phase \in {q, "select"}
  /\ left' = left
  /\ serving' = Head(queue[q])
  /\ queue' = [queue EXCEPT ![q] = Tail(@)]
  /\ turn' = phase
  /\ phase' = "handle"
  /\ UNCHANGED <<inEnv, todo, answer, issued, clock, shutdown, library, tracing>>

TakeRequest(q) ==
  /\ queue[q] # <<>>
  /\ \/ phase = q /\ left > 0 /\ left' = left - 1
     \/ /\ phase = "select" /\ left' = WorkersPerTurn
        /\ q = "worker" \/ queue["worker"] = <<>>
  /\ serving' = Head(queue[q])
  /\ queue' = [queue EXCEPT ![q] = Tail(@)]
  /\ turn' = phase
  /\ phase' = "handle"
  /\ UNCHANGED <<inEnv, todo, answer, issued, clock, shutdown, library, tracing>>

WorkerBatchEnds ==
  /\ phase = "worker"
  /\ left = 0 \/ queue["worker"] = <<>>
  /\ phase' = "normal"
  /\ left' = ActionsPerTurn
  /\ UNCHANGED <<inEnv, turn, serving, todo, sessions, clock, shutdown, library, tracing>>

(* The end of the task: what is queued is dropped, and so are the          *)
(* connections, with the answers they have not yet written.  The trace's   *)
(* writer is dropped with the rest: it writes out the rows it still holds, *)
(* and if the file does not take them they are lost and nobody is told.    *)
Stop(written) ==
  /\ phase' = "stopped"
  /\ queue' = [q \in Channels |-> <<>>]
  /\ answer' = [c \in Connections |-> IF answer[c] = "waiting" THEN "gone" ELSE answer[c]]
  /\ \/ rows' = [written EXCEPT !.disk = IF trace.active THEN written.count ELSE @]
     \/ /\ "file" \in Faults /\ trace.active
        /\ \E onDisk \in written.disk .. written.count :
             rows' = [written EXCEPT !.disk = onDisk]
  /\ trace' = NoTrace
  /\ UNCHANGED issued

NormalBatchEnds ==
  /\ phase = "normal"
  /\ left = 0 \/ queue["normal"] = <<>>
  /\ IF shutdown
     THEN Stop(rows)
     ELSE /\ phase' = "poll"
          /\ UNCHANGED <<sessions, tracing>>
  /\ UNCHANGED <<inEnv, turn, left, serving, todo, clock, shutdown, library>>

(* tick_realtime_due, and the batch of ticks this turn makes.              *)
PollClock(due) ==
  /\ phase = "poll"
  /\ due > 0 => running /\ elapsed + backlog < MaxTicks
  /\ backlog' = backlog + due
  /\ todo' = Least(backlog', TicksPerTurn)
  /\ left' = Least(backlog', TicksPerTurn)
  /\ phase' = "tick"
  /\ UNCHANGED <<inEnv, turn, serving, sessions, elapsed, running, shutdown, library, tracing>>

Wakes ==
  /\ phase = "select"
  /\ phase' = "worker"
  /\ left' = WorkersPerTurn
  /\ UNCHANGED <<inEnv, turn, serving, todo, sessions, clock, shutdown, library, tracing>>

-----------------------------------------------------------------------------
(* The answer to a request, and the next place of the turn: a batch stops  *)
(* when the daemon is to shut down.                                        *)

Respond(status, ends) ==
  /\ answer' = [answer EXCEPT ![serving.client] = status]
  /\ serving' = WallClock
  /\ todo' = 0
  /\ phase' = IF turn = "select" THEN "worker" ELSE turn
  /\ left' = IF ends /\ turn # "select" THEN 0 ELSE left
  /\ UNCHANGED <<turn, queue, issued>>

Handling(kind) ==
  /\ phase = "handle"
  /\ serving.kind = kind

(* The requests that read, write signals, set the speed (the model's clock *)
(* has any), touch a CAN bus or a shared channel, or are refused.          *)
HandleQuery ==
  /\ phase = "handle"
  /\ serving.kind \in {"Query", "Read"}
  /\ \E status \in {"ok", "err"} : Respond(status, shutdown)
  /\ UNCHANGED <<inEnv, clock, shutdown, library, tracing>>

(* The trace goes on, with the tick it was due at before the reset.        *)
HandleReset ==
  /\ Handling("Reset")
  /\ \/ /\ Respond("ok", shutdown)
        /\ elapsed' = 0 /\ running' = FALSE /\ backlog' = 0
        /\ lib' = 0 /\ lag' = 0
     \/ "pre" \in Faults /\ Respond("err", shutdown) /\ UNCHANGED <<clock, library>>
  /\ UNCHANGED <<inEnv, shutdown, tracing>>

(* reject_local_time_control.                                              *)
HandleTimeStart ==
  /\ Handling("TimeStart")
  /\ IF inEnv \/ running
     THEN Respond("err", shutdown) /\ UNCHANGED <<running, backlog>>
     ELSE Respond("ok", shutdown) /\ running' = TRUE /\ backlog' = 0
  /\ UNCHANGED <<inEnv, elapsed, shutdown, library, tracing>>

(* Mutant: the ticks owed are kept over a pause.                           *)
HandleTimePauseOwing ==
  /\ Handling("TimePause")
  /\ IF inEnv \/ ~running
     THEN Respond("err", shutdown) /\ UNCHANGED running
     ELSE Respond("ok", shutdown) /\ running' = FALSE
  /\ UNCHANGED <<inEnv, elapsed, backlog, shutdown, library, tracing>>

HandleTimePause ==
  /\ Handling("TimePause")
  /\ IF inEnv \/ ~running
     THEN Respond("err", shutdown) /\ UNCHANGED <<running, backlog>>
     ELSE Respond("ok", shutdown) /\ running' = FALSE /\ backlog' = 0
  /\ UNCHANGED <<inEnv, elapsed, shutdown, library, tracing>>

(* The backlog goes before step_ticks finds the clock running.             *)
HandleTimeStep ==
  /\ Handling("TimeStep")
  /\ backlog' = IF inEnv THEN backlog ELSE 0
  /\ IF inEnv \/ running
     THEN Respond("err", shutdown)
     ELSE /\ todo' = serving.n
          /\ phase' = "tick"
          /\ UNCHANGED <<turn, left, serving, sessions>>
  /\ UNCHANGED <<inEnv, elapsed, running, shutdown, library, tracing>>

HandleWorkerStep ==
  /\ Handling("WorkerStep")
  /\ todo' = 1
  /\ phase' = "tick"
  /\ UNCHANGED <<inEnv, turn, left, serving, sessions, clock, shutdown, library, tracing>>

(* The answer may not be written before the process ends.                  *)
HandleClose ==
  /\ Handling("Close")
  /\ shutdown' = TRUE
  /\ \E status \in {"ok", "gone"} : Respond(status, TRUE)
  /\ UNCHANGED <<inEnv, clock, library, tracing>>

-----------------------------------------------------------------------------
(* The trace.                                                              *)

(* A row goes to a buffer, which reaches the file when it is full.         *)
WriteRow(tick) ==
  \E onDisk \in {rows.disk, rows.count + 1} :
    rows' = [count |-> rows.count + 1, disk |-> onDisk, last |-> tick]

(* The file is made, and one that was there emptied, before the signals    *)
(* are read.                                                               *)
HandleTraceStart ==
  /\ Handling("TraceStart")
  /\ \/ /\ ~trace.active
        /\ trace' = [active |-> TRUE, period |-> serving.n, due |-> elapsed + serving.n]
        /\ \E onDisk \in {0, 1} : rows' = [count |-> 1, disk |-> onDisk, last |-> elapsed]
        /\ Respond("ok", shutdown)
     \/ trace.active /\ UNCHANGED tracing /\ Respond("err", shutdown)
     \/ /\ "file" \in Faults /\ ~trace.active
        /\ rows' \in {rows, [rows EXCEPT !.disk = 0]}
        /\ UNCHANGED trace
        /\ Respond("err", shutdown)
  /\ UNCHANGED <<inEnv, clock, shutdown, library>>


HandleTraceStop ==
  /\ Handling("TraceStop")
  /\ \/ /\ trace' = NoTrace
        /\ rows' = [rows EXCEPT !.disk = rows.count]
        /\ Respond("ok", shutdown)
     \/ "file" \in Faults /\ trace.active /\ Respond("err", shutdown) /\ UNCHANGED tracing
  /\ UNCHANGED <<inEnv, clock, shutdown, library>>

(* If the flush fails nothing happens; if the file cannot be removed the   *)
(* trace is over all the same, and the status still names its rows.        *)
HandleTraceClear ==
  /\ Handling("TraceClear")
  /\ \/ trace' = NoTrace /\ rows' = NoRows /\ Respond("ok", shutdown)
     \/ "file" \in Faults /\ trace.active /\ Respond("err", shutdown) /\ UNCHANGED tracing
     \/ /\ "file" \in Faults
        /\ trace' = NoTrace
        /\ rows' = [rows EXCEPT !.disk = rows.count]
        /\ Respond("err", shutdown)
  /\ UNCHANGED <<inEnv, clock, shutdown, library>>

-----------------------------------------------------------------------------
(* A tick.                                                                 *)

Ticking == phase = "tick" /\ todo > 0

(* sample_instance_trace_after_tick, for the tick that is ending.          *)
SampleIsDue == trace.active /\ elapsed + 1 >= trace.due
(* Mutant: the next sample is due a period after the tick before.          *)
SampleEarly ==
  IF SampleIsDue
  THEN WriteRow(elapsed + 1) /\ trace' = [trace EXCEPT !.due = elapsed + trace.period]
  ELSE UNCHANGED tracing

Sample ==
  IF SampleIsDue
  THEN WriteRow(elapsed + 1) /\ trace' = [trace EXCEPT !.due = elapsed + 1 + trace.period]
  ELSE UNCHANGED tracing

(* An error of a client's tick is its answer; one of the wall clock's ends *)
(* the daemon, with the backlog as it was.                                 *)
TickFails(tracingOfTick, written) ==
  IF serving = WallClock
  THEN /\ shutdown' = TRUE
       /\ todo' = 0
       /\ Stop(written)
       /\ UNCHANGED <<turn, left, serving>>
  ELSE /\ Respond("err", shutdown)
       /\ tracingOfTick
       /\ UNCHANGED shutdown

TickSucceeds ==
  /\ Ticking
  /\ lib' = lib + 1
  /\ Sample
  /\ elapsed' = elapsed + 1
  /\ todo' = todo - 1
  /\ UNCHANGED <<inEnv, phase, turn, left, serving, sessions, running, backlog, shutdown, lag>>

(* A frame that cannot be received or handed over, a shared channel that   *)
(* cannot be read, an error of the library's tick.                         *)
TickFailsBefore ==
  /\ Ticking
  /\ "pre" \in Faults
  /\ TickFails(UNCHANGED tracing, rows)
  /\ UNCHANGED <<inEnv, clock, library>>

(* Mutant: no tick that failed is counted.                                 *)
ForgetFailedTick ==
  /\ lib' = lib + 1
  /\ UNCHANGED <<inEnv, lag, clock>>

(* The library made its tick.  A client's TimeStep and the wall clock      *)
(* count it, a worker's Step does not.                                     *)
CountFailedTick ==
  /\ lib' = lib + 1
  /\ IF serving.kind = "WorkerStep"
     THEN lag' = lag + 1 /\ UNCHANGED elapsed
     ELSE elapsed' = elapsed + 1 /\ UNCHANGED lag
  /\ UNCHANGED <<inEnv, running, backlog>>

(* The trace cannot be sampled.                                            *)
TickFailsInSample ==
  /\ Ticking
  /\ "sample" \in Faults
  /\ SampleIsDue
  /\ TickFails(UNCHANGED tracing, rows)
  /\ CountFailedTick

(* A frame cannot be sent, a shared channel not be published.              *)
TickFailsAfter ==
  /\ Ticking
  /\ "post" \in Faults
  /\ TickFails(Sample,
       IF SampleIsDue THEN [rows EXCEPT !.count = @ + 1, !.last = elapsed + 1] ELSE rows)
  /\ CountFailedTick

(* Mutant: a full batch is paid for, made or not.                          *)
TicksEndPaid ==
  /\ phase = "tick" /\ todo = 0
  /\ IF serving = WallClock
     THEN /\ backlog' = backlog - TicksPerTurn
          /\ phase' = IF backlog' > 0 THEN "worker" ELSE "select"
          /\ left' = WorkersPerTurn
          /\ UNCHANGED <<turn, serving, todo, sessions>>
     ELSE Respond("ok", shutdown) /\ UNCHANGED backlog
  /\ UNCHANGED <<inEnv, elapsed, running, shutdown, library, tracing>>

(* After the last tick: a step is answered; the wall clock's batch is paid *)
(* and, if more is owed, the next turn follows at once.                    *)
TicksEnd ==
  /\ phase = "tick" /\ todo = 0
  /\ IF serving = WallClock
     THEN /\ backlog' = backlog - left
          /\ phase' = IF backlog' > 0 THEN "worker" ELSE "select"
          /\ left' = WorkersPerTurn
          /\ UNCHANGED <<turn, serving, todo, sessions>>
     ELSE Respond("ok", shutdown) /\ UNCHANGED backlog
  /\ UNCHANGED <<inEnv, elapsed, running, shutdown, library, tracing>>

(* The process is killed: buffered rows are lost.                          *)
Dies ==
  /\ "die" \in Faults
  /\ ~Stopped
  /\ phase' = "dead"
  /\ queue' = [q \in Channels |-> <<>>]
  /\ answer' = [c \in Connections |-> IF answer[c] = "waiting" THEN "gone" ELSE answer[c]]
  /\ UNCHANGED <<inEnv, turn, left, serving, todo, issued, clock, shutdown, library, tracing>>

-----------------------------------------------------------------------------
Handle ==
  \/ HandleQuery \/ HandleReset \/ HandleTimeStart \/ HandleTimePause
  \/ HandleTimeStep \/ HandleWorkerStep \/ HandleClose
  \/ HandleTraceStart \/ HandleTraceStop \/ HandleTraceClear

Task ==
  \/ \E q \in Channels : TakeRequest(q)
  \/ WorkerBatchEnds \/ NormalBatchEnds \/ Wakes
  \/ \E due \in 0 .. MaxDue : PollClock(due)
  \/ Handle
  \/ TickSucceeds \/ TickFailsBefore \/ TickFailsInSample \/ TickFailsAfter
  \/ TicksEnd

Finished == Stopped /\ issued = MaxRequests /\ UNCHANGED vars

Next ==
  \/ Task
  \/ \E c \in Connections, r \in Requests : Issue(c, r)
  \/ Dies \/ Finished

(* The task is scheduled as long as it runs; clients owe nothing.          *)
Spec == Init /\ [][Next]_vars /\ WF_vars(Task)

-----------------------------------------------------------------------------
TypeOK ==
  /\ inEnv \in BOOLEAN
  /\ phase \in {"worker", "normal", "poll", "tick", "select", "handle", "stopped", "dead"}
  /\ turn \in {"worker", "normal", "select"}
  /\ {left, todo, issued, elapsed, backlog, lib, lag} \subseteq Nat
  /\ serving \in [client : Connections \cup {"none"},
                  kind : WorkerKinds \cup ClientKinds \cup {"WallClock"}, n : Nat]
  /\ \A q \in Channels : queue[q] \in
       Seq([client : Connections, kind : WorkerKinds \cup ClientKinds, n : Nat])
  /\ answer \in [Connections -> {"idle", "waiting", "ok", "err", "gone"}]
  /\ running \in BOOLEAN /\ shutdown \in BOOLEAN
  /\ trace \in [active : BOOLEAN, period : Nat, due : Nat]
  /\ rows \in [count : Nat, disk : Nat, last : Nat]

(* The clock counts the library's ticks, all of them, whatever failed, but *)
(* for the ticks of a worker's steps that failed afterwards, of which      *)
(* there are none outside an env.                                          *)
ClockCountsTicks == lib = elapsed + lag /\ (~inEnv => lag = 0)

(* Once a pause or a reset is answered the library makes no tick but those *)
(* a request asks for, however many the wall clock owed.                   *)
PausedStandsStill ==
  [][lib' > lib /\ serving = WallClock => running]_vars

(* A trace never samples faster than its period, nor the same tick twice,  *)
(* also when a step failed after its sample and is made again; and a       *)
(* request that ends the trace, answered with ok or not, leaves every row  *)
(* that was reported in the file.  The daemon's own end does so only while *)
(* the file takes writes; else it loses what the writer holds, silently.   *)
RowsKeepPeriod ==
  rows'.count > rows.count /\ rows.count > 0 /\ trace.active
    => rows'.last >= rows.last + trace.period
StoppedTraceComplete ==
  trace.active /\ ~trace'.active /\ (phase' = "stopped" => "file" \notin Faults)
    => rows'.disk = rows'.count
TraceFaithful == [][RowsKeepPeriod /\ StoppedTraceComplete]_vars

(* Every request is answered, or its connection ends: however many ticks   *)
(* the wall clock owes, and while the env keeps the worker queue filled;   *)
(* and a close ends the daemon.                                            *)
Responsive ==
  /\ \A c \in Connections : answer[c] = "waiting" ~> answer[c] # "waiting"
  /\ shutdown ~> Stopped

=============================================================================
