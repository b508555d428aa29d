------------------------ MODULE InstanceDaemonProofs ------------------------
(***************************************************************************)
(* Theorems about InstanceDaemon, for every number of connections, every   *)
(* set of requests, in and outside an env, every fault and every bound.    *)
(***************************************************************************)
EXTENDS InstanceDaemon, SequenceTheorems, TLAPS

(* What may lie in the two channels.                                       *)
WorkerMessages == [client : Workers, kind : WorkerKinds, n : Nat]
ClientMessages ==
  {m \in [client : Clients, kind : ClientKinds, n : Nat] :
     m.kind = "TraceStart" => m.n > 0}
Taken == WorkerMessages \cup ClientMessages

ControlInv ==
  /\ inEnv \in BOOLEAN
  /\ phase \in {"worker", "normal", "poll", "tick", "select", "handle", "stopped", "dead"}
  /\ turn \in {"worker", "normal", "select"}
  /\ left \in Nat /\ todo \in Nat
  /\ shutdown \in BOOLEAN

(* The task serves what it took from a channel, and only while it handles  *)
(* it; outside an env nothing comes from the worker channel.               *)
ServingInv ==
  /\ serving \in Taken \cup {WallClock}
  /\ phase = "handle" => serving \in Taken
  /\ phase \notin {"handle", "tick", "dead"} => serving = WallClock
  /\ ~inEnv => serving.kind \notin WorkerKinds

QueueInv ==
  /\ queue \in [Channels -> Seq(Taken)]
  /\ queue["worker"] \in Seq(WorkerMessages)
  /\ queue["normal"] \in Seq(ClientMessages)
  /\ ~inEnv => queue["worker"] = <<>>
  /\ answer \in [Connections -> {"idle", "waiting", "ok", "err", "gone"}]
  /\ issued \in Nat

(* Ticks are owed only while the clock runs, and the wall clock makes no   *)
(* more of them than it owes.                                              *)
ClockInv ==
  /\ elapsed \in Nat /\ backlog \in Nat /\ running \in BOOLEAN
  /\ backlog > 0 => running
  /\ phase = "tick" /\ serving = WallClock => todo <= left /\ left <= backlog

(* The clock counts the ticks of the library.                              *)
CountInv ==
  /\ lib \in Nat /\ lag \in Nat
  /\ lib = elapsed + lag
  /\ ~inEnv => lag = 0

(* The next row of a trace is due a period after the last one.             *)
TraceInv ==
  /\ trace \in [active : BOOLEAN, period : Nat, due : Nat]
  /\ rows \in [count : Nat, disk : Nat, last : Nat]
  /\ trace.active => trace.due >= rows.last + trace.period

IInv ==
  ControlInv /\ ServingInv /\ QueueInv /\ ClockInv /\ CountInv /\ TraceInv

LEMMA ConstantFacts ==
  /\ WorkersPerTurn \in Nat /\ WorkersPerTurn > 0
  /\ ActionsPerTurn \in Nat /\ ActionsPerTurn > 0
  /\ TicksPerTurn \in Nat /\ TicksPerTurn > 0
  /\ MaxDue \in Nat /\ MaxTicks \in Nat /\ MaxRequests \in Nat
BY InstanceAssumption DEF InstanceAssumption

LEMMA TakenFacts ==
  /\ WallClock.kind = "WallClock" /\ WallClock \notin Taken
  /\ \A m \in Taken : /\ m.client \in Connections /\ m.n \in Nat
                      /\ m.kind \in WorkerKinds \cup ClientKinds
                      /\ m.kind = "TraceStart" => m.n > 0
  /\ \A m \in WorkerMessages : m.kind \in WorkerKinds
  /\ \A m \in ClientMessages : m.kind \in ClientKinds
  /\ WorkerKinds \cap ClientKinds = {} /\ "WallClock" \notin WorkerKinds \cup ClientKinds
BY DEF WallClock, Taken, WorkerMessages, ClientMessages, Connections, WorkerKinds,
       ClientKinds

LEMMA InitIInv == Init => IInv
<1> SUFFICES ASSUME Init PROVE IInv
  OBVIOUS
<1> USE ConstantFacts DEF Init
<1>1. ControlInv
  BY InstanceAssumption DEF ControlInv, InstanceAssumption
<1>2. ServingInv
  BY TakenFacts DEF ServingInv
<1>3. QueueInv
  BY EmptySeq DEF QueueInv, Channels
<1>4. ClockInv
  <2>1. elapsed \in Nat /\ backlog \in Nat /\ ~(backlog > 0) /\ phase # "tick"
    OBVIOUS
  <2>2. running \in BOOLEAN
    OBVIOUS
  <2> QED
    BY <2>1, <2>2 DEF ClockInv
<1>5. CountInv
  BY DEF CountInv
<1>6. TraceInv
  BY DEF TraceInv, NoTrace, NoRows
<1> QED
  BY <1>1, <1>2, <1>3, <1>4, <1>5, <1>6 DEF IInv

-----------------------------------------------------------------------------
(* The connections.                                                        *)

LEMMA IssueStep ==
  ASSUME IInv, NEW c \in Connections, NEW r \in Requests, Issue(c, r)
  PROVE  IInv'
<1> USE DEF Issue
<1> DEFINE m == [client |-> c, kind |-> r.kind, n |-> r.n]
           q == IF c \in Workers THEN "worker" ELSE "normal"
<1>1. /\ r.kind \in WorkerKinds \cup ClientKinds /\ r.n \in Nat
      /\ r.kind = "TraceStart" => r.n > 0
  BY InstanceAssumption DEF InstanceAssumption
<1>2. /\ c \in Workers => m \in WorkerMessages
      /\ c \notin Workers => m \in ClientMessages
      /\ m \in Taken
  BY <1>1, TakenFacts DEF WorkerMessages, ClientMessages, Taken, Connections
<1>3. QueueInv'
  <2>1. CASE Stopped
    <3>1. answer' = [answer EXCEPT ![c] = "gone"] /\ UNCHANGED <<queue, inEnv>>
      BY <2>1
    <3>2. answer' \in [Connections -> {"idle", "waiting", "ok", "err", "gone"}]
      <4>1. answer \in [Connections -> {"idle", "waiting", "ok", "err", "gone"}]
        BY DEF IInv, QueueInv
      <4> HIDE DEF Issue
      <4> QED
        BY <3>1, <4>1
    <3>3. issued' \in Nat
      BY DEF IInv, QueueInv
    <3> HIDE DEF Issue
    <3> QED
      BY <3>1, <3>2, <3>3 DEF IInv, QueueInv
  <2>2. CASE ~Stopped
    <3>1. queue' = [queue EXCEPT ![q] = Append(@, m)] /\ q \in Channels
      BY <2>2 DEF Channels
    <3>2. queue["worker"] \in Seq(WorkerMessages) /\ queue["normal"] \in Seq(ClientMessages)
          /\ queue \in [Channels -> Seq(Taken)] /\ queue[q] \in Seq(Taken)
      BY <3>1 DEF IInv, QueueInv
    <3>3. /\ Append(queue[q], m) \in Seq(Taken)
          /\ c \in Workers => Append(queue["worker"], m) \in Seq(WorkerMessages)
          /\ c \notin Workers => Append(queue["normal"], m) \in Seq(ClientMessages)
      BY <1>2, <3>2
    <3>4. /\ queue' \in [Channels -> Seq(Taken)]
          /\ queue'["worker"] \in Seq(WorkerMessages)
          /\ queue'["normal"] \in Seq(ClientMessages)
      BY <3>1, <3>2, <3>3 DEF Channels
    <3>5. ~inEnv' => queue'["worker"] = <<>>
      BY <3>1, <3>2 DEF IInv, QueueInv, Channels
    <3>6. answer' \in [Connections -> {"idle", "waiting", "ok", "err", "gone"}]
      BY <2>2 DEF IInv, QueueInv
    <3>7. issued' \in Nat
      BY DEF IInv, QueueInv
    <3> QED
      BY <3>4, <3>5, <3>6, <3>7 DEF QueueInv
  <2> QED
    BY <2>1, <2>2
<1> QED
  BY <1>3 DEF IInv, ControlInv, ServingInv, ClockInv, CountInv, TraceInv,
              control, clock, library, tracing

-----------------------------------------------------------------------------
(* The turn.                                                               *)

LEMMA TakeRequestStep ==
  ASSUME IInv, NEW q \in Channels, TakeRequest(q)
  PROVE  IInv'
<1> USE DEF TakeRequest
<1>1. /\ queue["worker"] \in Seq(WorkerMessages) /\ queue["normal"] \in Seq(ClientMessages)
      /\ queue \in [Channels -> Seq(Taken)] /\ queue[q] \in Seq(Taken) /\ queue[q] # <<>>
      /\ q \in {"worker", "normal"}
  BY DEF IInv, QueueInv, Channels
<1>2. /\ Head(queue[q]) \in Taken /\ Tail(queue[q]) \in Seq(Taken)
      /\ q = "worker" => /\ Head(queue[q]) \in WorkerMessages
                         /\ Tail(queue[q]) \in Seq(WorkerMessages)
      /\ q = "normal" => /\ Head(queue[q]) \in ClientMessages
                         /\ Tail(queue[q]) \in Seq(ClientMessages)
  BY <1>1, HeadTailProperties
<1>3. ControlInv'
  BY ConstantFacts DEF IInv, ControlInv, Channels
<1>4. ServingInv'
  <2>1. ~inEnv => q = "normal"
    BY <1>1 DEF IInv, QueueInv
  <2> QED
    BY <1>2, <2>1, TakenFacts DEF ServingInv
<1>5. QueueInv'
  BY <1>1, <1>2 DEF IInv, QueueInv, Channels
<1>6. ClockInv' /\ CountInv' /\ TraceInv'
  BY DEF IInv, ClockInv, CountInv, TraceInv, clock, library, tracing
<1> QED
  BY <1>3, <1>4, <1>5, <1>6 DEF IInv

(* What the end of the task leaves of its channels and its trace.          *)
LEMMA StopFacts ==
  ASSUME QueueInv, ServingInv, NEW written, written \in [count : Nat, disk : Nat, last : Nat],
         Stop(written), UNCHANGED inEnv
  PROVE  QueueInv' /\ TraceInv' /\ phase' = "stopped"
<1>1. QueueInv'
  BY EmptySeq DEF QueueInv, Stop, Channels
<1>2. PICK onDisk \in Nat : rows' = [written EXCEPT !.disk = onDisk]
  BY DEF Stop
<1>3. trace' = NoTrace /\ phase' = "stopped"
  BY DEF Stop
<1>4. TraceInv'
  BY <1>2, <1>3 DEF TraceInv, NoTrace
<1> QED BY <1>1, <1>3, <1>4

LEMMA TurnStep ==
  ASSUME IInv, WorkerBatchEnds \/ NormalBatchEnds \/ Wakes
                 \/ \E due \in 0 .. MaxDue : PollClock(due)
  PROVE  IInv'
<1> USE ConstantFacts DEF IInv
<1>1. CASE WorkerBatchEnds \/ Wakes
  BY <1>1 DEF WorkerBatchEnds, Wakes, ControlInv, ServingInv, QueueInv, ClockInv,
              CountInv, TraceInv, sessions, clock, library, tracing
<1>2. CASE NormalBatchEnds
  <2> USE <1>2 DEF NormalBatchEnds
  <2>1. CASE shutdown
    <3>1. QueueInv' /\ TraceInv' /\ phase' = "stopped"
      BY <2>1, StopFacts DEF TraceInv
    <3> QED
      BY <3>1 DEF ControlInv, ServingInv, ClockInv, CountInv, clock, library
  <2>2. CASE ~shutdown
    BY <2>2 DEF ControlInv, ServingInv, QueueInv, ClockInv, CountInv, TraceInv,
                sessions, clock, library, tracing
  <2> QED
    BY <2>1, <2>2
<1>3. ASSUME NEW due \in 0 .. MaxDue, PollClock(due)
      PROVE  IInv'
  <2> USE <1>3 DEF PollClock
  <2>1. /\ backlog' = backlog + due /\ due \in Nat
        /\ left' = todo' /\ left' \in Nat /\ left' <= backlog'
    BY DEF ClockInv, Least
  <2> QED
    BY <2>1 DEF ControlInv, ServingInv, QueueInv, ClockInv, CountInv, TraceInv,
                sessions, library, tracing
<1> QED
  BY <1>1, <1>2, <1>3

-----------------------------------------------------------------------------
(* The requests.                                                           *)

(* After an answer the task serves nothing, in the place it came from.     *)
LEMMA RespondFacts ==
  ASSUME ControlInv, ServingInv, QueueInv, UNCHANGED inEnv,
         NEW status \in {"ok", "err", "gone"}, NEW ends \in BOOLEAN,
         Respond(status, ends), shutdown' \in BOOLEAN
  PROVE  /\ ControlInv' /\ ServingInv' /\ QueueInv'
         /\ phase' \in {"worker", "normal"}
<1>1. phase' \in {"worker", "normal"}
  BY DEF Respond, ControlInv
<1>2. ControlInv'
  BY <1>1 DEF Respond, ControlInv
<1>3. ServingInv'
  BY <1>1, TakenFacts DEF Respond, ServingInv
<1>4. QueueInv'
  BY DEF Respond, QueueInv
<1> QED
  BY <1>1, <1>2, <1>3, <1>4

(* A request that is answered at once leaves IInv, if what it does to the  *)
(* clock, the library and the trace does.                                  *)
LEMMA AnsweredStep ==
  ASSUME IInv, UNCHANGED inEnv, shutdown' \in BOOLEAN,
         NEW status \in {"ok", "err", "gone"}, NEW ends \in BOOLEAN,
         Respond(status, ends),
         (* the parts of ClockInv, CountInv and TraceInv about data          *)
         elapsed' \in Nat /\ backlog' \in Nat /\ running' \in BOOLEAN,
         backlog' > 0 => running',
         CountInv', TraceInv'
  PROVE  IInv'
<1>1. ControlInv' /\ ServingInv' /\ QueueInv' /\ phase' \in {"worker", "normal"}
  BY RespondFacts DEF IInv
<1>2. ClockInv'
  BY <1>1 DEF ClockInv
<1> QED
  BY <1>1, <1>2 DEF IInv

LEMMA ClockRequestStep ==
  ASSUME IInv, HandleReset \/ HandleTimeStart \/ HandleTimePause
                 \/ HandleTimeStep \/ HandleWorkerStep
  PROVE  IInv'
<1>0. /\ elapsed \in Nat /\ backlog \in Nat /\ running \in BOOLEAN
      /\ backlog > 0 => running
      /\ CountInv /\ TraceInv /\ shutdown \in BOOLEAN
  BY DEF IInv, ClockInv, ControlInv
<1>1. CASE HandleReset
  <2>1. PICK status \in {"ok", "err"} : Respond(status, shutdown)
    BY <1>1 DEF HandleReset
  <2>2. TraceInv' /\ CountInv' /\ UNCHANGED <<inEnv, shutdown>>
    BY <1>0, <1>1 DEF HandleReset, TraceInv, CountInv, tracing, library, clock
  <2>3. elapsed' \in Nat /\ backlog' \in Nat
    BY <1>0, <1>1 DEF HandleReset, clock
  <2>4. running' \in BOOLEAN
    BY <1>0, <1>1 DEF HandleReset, clock
  <2>5. backlog' > 0 => running'
    BY <1>0, <1>1 DEF HandleReset, clock
  <2> QED
    BY <1>0, <2>1, <2>2, <2>3, <2>4, <2>5, AnsweredStep
<1>2. CASE HandleTimeStart
  <2>1. PICK status \in {"ok", "err"} : Respond(status, shutdown)
    BY <1>2 DEF HandleTimeStart
  <2>2. TraceInv' /\ CountInv' /\ UNCHANGED <<inEnv, shutdown>>
    BY <1>0, <1>2 DEF HandleTimeStart, TraceInv, CountInv, tracing, library
  <2>3. elapsed' \in Nat /\ backlog' \in Nat
    BY <1>0, <1>2 DEF HandleTimeStart
  <2>4. running' \in BOOLEAN
    BY <1>0, <1>2 DEF HandleTimeStart
  <2>5. backlog' > 0 => running'
    BY <1>0, <1>2 DEF HandleTimeStart
  <2> QED
    BY <1>0, <2>1, <2>2, <2>3, <2>4, <2>5, AnsweredStep
<1>3. CASE HandleTimePause
  <2>1. PICK status \in {"ok", "err"} : Respond(status, shutdown)
    BY <1>3 DEF HandleTimePause
  <2>2. TraceInv' /\ CountInv' /\ UNCHANGED <<inEnv, shutdown>>
    BY <1>0, <1>3 DEF HandleTimePause, TraceInv, CountInv, tracing, library
  <2>3. elapsed' \in Nat /\ backlog' \in Nat
    BY <1>0, <1>3 DEF HandleTimePause
  <2>4. running' \in BOOLEAN
    BY <1>0, <1>3 DEF HandleTimePause
  <2>5. backlog' > 0 => running'
    BY <1>0, <1>3 DEF HandleTimePause
  <2> QED
    BY <1>0, <2>1, <2>2, <2>3, <2>4, <2>5, AnsweredStep
<1>4. CASE HandleTimeStep
  <2> USE <1>4 DEF HandleTimeStep
  <2>1. TraceInv' /\ CountInv'
    BY <1>0 DEF TraceInv, CountInv, tracing, library
  <2>2. /\ elapsed' \in Nat /\ backlog' \in Nat /\ running' \in BOOLEAN
        /\ backlog' > 0 => running'
    BY <1>0
  <2>3. CASE inEnv \/ running
    <3>1. Respond("err", shutdown) /\ UNCHANGED inEnv /\ shutdown' \in BOOLEAN
      BY <1>0, <2>3
    <3> QED
      BY <1>0, <2>1, <2>2, <3>1, AnsweredStep
  <2>4. CASE ~(inEnv \/ running)
    <3>1. serving \in Taken /\ serving # WallClock /\ serving.n \in Nat
      BY TakenFacts DEF Handling, IInv, ServingInv
    <3>2. ControlInv'
      BY <2>4, <3>1 DEF IInv, ControlInv
    <3>3. ServingInv' /\ QueueInv'
      BY <2>4, <3>1 DEF IInv, ServingInv, QueueInv, sessions
    <3>4. ClockInv'
      BY <2>2, <2>4, <3>1 DEF ClockInv
    <3> QED
      BY <2>1, <3>2, <3>3, <3>4 DEF IInv
  <2> QED
    BY <2>3, <2>4
<1>5. CASE HandleWorkerStep
  <2> USE <1>5 DEF HandleWorkerStep
  <2>1. TraceInv' /\ CountInv'
    BY <1>0 DEF TraceInv, CountInv, tracing, library, clock
  <2>2. serving \in Taken /\ serving # WallClock
    BY TakenFacts DEF Handling, IInv, ServingInv
  <2>3. ControlInv' /\ ServingInv' /\ QueueInv'
    BY <2>2 DEF IInv, ControlInv, ServingInv, QueueInv, sessions
  <2>4. ClockInv'
    BY <1>0, <2>2 DEF ClockInv, clock
  <2> QED
    BY <2>1, <2>3, <2>4 DEF IInv
<1> QED
  BY <1>1, <1>2, <1>3, <1>4, <1>5

LEMMA WriteRowFacts ==
  ASSUME rows \in [count : Nat, disk : Nat, last : Nat], NEW tick \in Nat, WriteRow(tick)
  PROVE  /\ rows' \in [count : Nat, disk : Nat, last : Nat]
         /\ rows'.last = tick /\ rows'.count = rows.count + 1
BY DEF WriteRow

LEMMA TraceRequestStep ==
  ASSUME IInv, HandleTraceStart \/ HandleTraceStop \/ HandleTraceClear
                 \/ HandleQuery \/ HandleClose
  PROVE  IInv'
<1>0. /\ elapsed \in Nat /\ backlog \in Nat /\ running \in BOOLEAN
      /\ backlog > 0 => running
      /\ CountInv /\ shutdown \in BOOLEAN
  BY DEF IInv, ClockInv, ControlInv
<1>t. /\ trace \in [active : BOOLEAN, period : Nat, due : Nat]
      /\ rows \in [count : Nat, disk : Nat, last : Nat]
      /\ trace.active => trace.due >= rows.last + trace.period
  BY DEF IInv, TraceInv
<1>s. serving \in Taken /\ serving.n \in Nat
  BY TakenFacts DEF IInv, ServingInv, Handling, HandleTraceStart, HandleTraceStop,
                    HandleTraceClear, HandleQuery, HandleClose
<1>1. CASE HandleTraceStart
  <2>1. PICK status \in {"ok", "err"} : Respond(status, shutdown)
    BY <1>1 DEF HandleTraceStart
  <2>2. TraceInv'
    <3>1. CASE UNCHANGED tracing
      BY <1>t, <3>1 DEF TraceInv, tracing
    <3>2. CASE /\ trace' = [active |-> TRUE, period |-> serving.n, due |-> elapsed + serving.n]
               /\ \E onDisk \in {0, 1} :
                    rows' = [count |-> 1, disk |-> onDisk, last |-> elapsed]
      BY <1>0, <1>s, <3>2 DEF TraceInv
    <3>3. CASE rows' \in {rows, [rows EXCEPT !.disk = 0]} /\ UNCHANGED trace
      BY <1>t, <3>3 DEF TraceInv
    <3> QED
      BY <1>1, <3>1, <3>2, <3>3 DEF HandleTraceStart
  <2>3. CountInv' /\ UNCHANGED <<inEnv, elapsed, backlog, running, shutdown>>
    BY <1>0, <1>1 DEF HandleTraceStart, CountInv, clock, library
  <2> QED
    BY <1>0, <2>1, <2>2, <2>3, AnsweredStep
<1>2. CASE HandleTraceStop \/ HandleTraceClear
  <2>1. PICK status \in {"ok", "err"} : Respond(status, shutdown)
    BY <1>2 DEF HandleTraceStop, HandleTraceClear
  <2>2. \/ UNCHANGED tracing
        \/ trace' = NoTrace /\ rows' \in {NoRows, [rows EXCEPT !.disk = rows.count]}
    BY <1>2 DEF HandleTraceStop, HandleTraceClear
  <2>3. TraceInv'
    <3>1. CASE UNCHANGED tracing
      BY <1>t, <3>1 DEF TraceInv, tracing
    <3>2. CASE trace' = NoTrace /\ rows' \in {NoRows, [rows EXCEPT !.disk = rows.count]}
      <4>1. rows' \in [count : Nat, disk : Nat, last : Nat]
        BY <1>t, <3>2 DEF NoRows
      <4> QED
        BY <3>2, <4>1 DEF TraceInv, NoTrace
    <3> QED
      BY <2>2, <3>1, <3>2
  <2>4. CountInv' /\ UNCHANGED <<inEnv, elapsed, backlog, running, shutdown>>
    BY <1>0, <1>2 DEF HandleTraceStop, HandleTraceClear, CountInv, clock, library
  <2> QED
    BY <1>0, <2>1, <2>3, <2>4, AnsweredStep
<1>3. CASE HandleQuery \/ HandleClose
  <2> USE <1>3 DEF HandleQuery, HandleClose
  <2>1. PICK status \in {"ok", "err", "gone"}, ends \in BOOLEAN : Respond(status, ends)
    BY <1>0
  <2>2. /\ CountInv' /\ TraceInv' /\ UNCHANGED <<inEnv, elapsed, backlog, running>>
        /\ shutdown' \in BOOLEAN
    BY <1>0, <1>t DEF CountInv, TraceInv, clock, library, tracing
  <2> QED
    BY <1>0, <2>1, <2>2, AnsweredStep
<1> QED
  BY <1>1, <1>2, <1>3

-----------------------------------------------------------------------------
(* A tick.                                                                 *)

Rows == [count : Nat, disk : Nat, last : Nat]

LEMMA SampleFacts ==
  ASSUME TraceInv, elapsed \in Nat, Sample
  PROVE  TraceInv' /\ RowsKeepPeriod /\ trace'.active = trace.active
<1>t. /\ trace \in [active : BOOLEAN, period : Nat, due : Nat]
      /\ rows \in Rows
      /\ trace.active => trace.due >= rows.last + trace.period
  BY DEF TraceInv, Rows
<1>1. CASE ~SampleIsDue
  <2>1. trace' = trace /\ rows' = rows
    BY <1>1 DEF Sample, tracing
  <2> QED
    BY <1>t, <2>1 DEF TraceInv, Rows, RowsKeepPeriod
<1>2. CASE SampleIsDue
  <2>1. /\ WriteRow(elapsed + 1)
        /\ trace' = [trace EXCEPT !.due = elapsed + 1 + trace.period]
    BY <1>2 DEF Sample
  <2>2. rows' \in Rows /\ rows'.last = elapsed + 1 /\ rows'.count = rows.count + 1
    BY <1>t, <2>1, WriteRowFacts DEF Rows
  <2>3. /\ trace' \in [active : BOOLEAN, period : Nat, due : Nat]
        /\ trace'.active = trace.active /\ trace'.period = trace.period
        /\ trace'.due = elapsed + 1 + trace.period
    BY <1>t, <2>1
  <2>4. TraceInv'
    BY <1>t, <2>2, <2>3 DEF TraceInv, Rows
  <2>5. RowsKeepPeriod
    <3>1. elapsed + 1 >= trace.due /\ trace.active
      BY <1>2 DEF SampleIsDue
    <3>2. trace.due >= rows.last + trace.period /\ trace.due \in Nat
          /\ trace.period \in Nat /\ rows.last \in Nat
      BY <1>t, <3>1 DEF Rows
    <3> QED
      BY <2>2, <3>1, <3>2 DEF RowsKeepPeriod
  <2> QED
    BY <2>3, <2>4, <2>5
<1> QED
  BY <1>1, <1>2

(* The row of a tick that fails after its sample.                          *)
LEMMA WrittenFacts ==
  ASSUME rows \in Rows, elapsed \in Nat
  PROVE  LET written == IF SampleIsDue
                        THEN [rows EXCEPT !.count = @ + 1, !.last = elapsed + 1]
                        ELSE rows
         IN  /\ written \in Rows
             /\ written = rows \/ (SampleIsDue /\ written.last = elapsed + 1)
<1> DEFINE counted == [rows EXCEPT !.count = @ + 1]
<1>1. /\ [counted EXCEPT !.last = elapsed + 1] \in Rows
      /\ [counted EXCEPT !.last = elapsed + 1].last = elapsed + 1
  <2>1. counted \in Rows
    BY DEF Rows
  <2> HIDE DEF counted
  <2> QED
    BY <2>1 DEF Rows
<1>2. CASE SampleIsDue
  BY <1>1, <1>2
<1>3. CASE ~SampleIsDue
  BY <1>3
<1> QED
  BY <1>2, <1>3

LEMMA TickingFacts ==
  ASSUME IInv, Ticking
  PROVE  /\ phase = "tick" /\ todo \in Nat /\ todo > 0 /\ left \in Nat
         /\ elapsed \in Nat /\ backlog \in Nat /\ running \in BOOLEAN
         /\ backlog > 0 => running
         /\ shutdown \in BOOLEAN
         /\ serving = WallClock => todo <= left /\ left <= backlog /\ running
BY DEF IInv, Ticking, ControlInv, ClockInv

LEMMA FailedTickCounted ==
  ASSUME IInv, Ticking, CountFailedTick
  PROVE  CountInv' /\ elapsed' \in Nat /\ UNCHANGED <<inEnv, running, backlog>>
<1>1. /\ serving.kind = "WorkerStep" => inEnv
      /\ inEnv \in BOOLEAN
  BY DEF IInv, ServingInv, ControlInv, WorkerKinds
<1>2. /\ lib \in Nat /\ lag \in Nat /\ elapsed \in Nat
      /\ lib = elapsed + lag /\ (~inEnv => lag = 0)
  BY DEF IInv, CountInv, ClockInv
<1>3. CASE serving.kind = "WorkerStep"
  BY <1>1, <1>2, <1>3 DEF CountFailedTick, CountInv
<1>4. CASE serving.kind # "WorkerStep"
  BY <1>2, <1>4 DEF CountFailedTick, CountInv
<1> QED
  BY <1>3, <1>4

(* However a tick fails, the task answers its client or ends.              *)
EndsInTick(written) ==
  shutdown' = TRUE /\ todo' = 0 /\ Stop(written) /\ UNCHANGED <<turn, left, serving>>
AnswersInTick == Respond("err", shutdown) /\ UNCHANGED shutdown

LEMMA TickFailsStep ==
  ASSUME IInv, Ticking, NEW written \in Rows,
         serving = WallClock => EndsInTick(written),
         serving # WallClock => AnswersInTick /\ TraceInv',
         CountInv', elapsed' \in Nat, UNCHANGED <<inEnv, running, backlog>>
  PROVE  IInv'
<1>0. /\ backlog' \in Nat /\ running' \in BOOLEAN /\ (backlog' > 0 => running')
      /\ shutdown \in BOOLEAN
  BY TickingFacts
<1>1. CASE serving = WallClock
  <2>1. /\ shutdown' = TRUE /\ todo' = 0 /\ Stop(written)
        /\ UNCHANGED <<turn, left, serving>>
    BY <1>1 DEF EndsInTick
  <2>2. QueueInv' /\ TraceInv' /\ phase' = "stopped"
    BY <2>1, StopFacts DEF IInv, Rows
  <2>3. ControlInv' /\ ServingInv'
    BY <1>1, <2>1, <2>2 DEF IInv, ControlInv, ServingInv
  <2>4. ClockInv'
    BY <1>0, <2>2 DEF ClockInv
  <2> QED
    BY <2>2, <2>3, <2>4 DEF IInv
<1>2. CASE serving # WallClock
  <2>1. Respond("err", shutdown) /\ TraceInv' /\ shutdown' = shutdown
    BY <1>2 DEF AnswersInTick
  <2> QED
    BY <1>0, <2>1, AnsweredStep
<1> QED
  BY <1>1, <1>2

LEMMA TickStep ==
  ASSUME IInv, TickSucceeds \/ TickFailsBefore \/ TickFailsInSample \/ TickFailsAfter
  PROVE  IInv'
<1>0. Ticking /\ TraceInv /\ CountInv /\ elapsed \in Nat /\ rows \in Rows
  BY DEF TickSucceeds, TickFailsBefore, TickFailsInSample, TickFailsAfter, IInv,
         ClockInv, TraceInv, Rows
<1>1. CASE TickSucceeds
  <2>1. TraceInv'
    BY <1>0, <1>1, SampleFacts DEF TickSucceeds
  <2>2. CountInv'
    BY <1>0, <1>1 DEF TickSucceeds, CountInv
  <2>3. ControlInv' /\ ServingInv' /\ QueueInv'
    BY <1>0, <1>1, TickingFacts
    DEF TickSucceeds, IInv, ControlInv, ServingInv, QueueInv, sessions
  <2>4. ClockInv'
    BY <1>0, <1>1, TickingFacts DEF TickSucceeds, ClockInv
  <2> QED
    BY <2>1, <2>2, <2>3, <2>4 DEF IInv
<1>2. CASE TickFailsBefore
  <2>1. /\ serving = WallClock => EndsInTick(rows)
        /\ serving # WallClock => AnswersInTick /\ UNCHANGED tracing
        /\ UNCHANGED <<inEnv, clock, library>>
    BY <1>2 DEF TickFailsBefore, TickFails, EndsInTick, AnswersInTick
  <2>2. UNCHANGED tracing => TraceInv'
    BY <1>0 DEF TraceInv, tracing
  <2>3. CountInv' /\ elapsed' \in Nat /\ UNCHANGED <<inEnv, running, backlog>>
    BY <1>0, <2>1 DEF CountInv, clock, library
  <2> QED
    BY <1>0, <2>1, <2>2, <2>3, TickFailsStep
<1>3. CASE TickFailsInSample
  <2>1. /\ serving = WallClock => EndsInTick(rows)
        /\ serving # WallClock => AnswersInTick /\ UNCHANGED tracing
        /\ CountFailedTick
    BY <1>3 DEF TickFailsInSample, TickFails, EndsInTick, AnswersInTick
  <2>2. UNCHANGED tracing => TraceInv'
    BY <1>0 DEF TraceInv, tracing
  <2> QED
    BY <1>0, <2>1, <2>2, FailedTickCounted, TickFailsStep
<1>4. CASE TickFailsAfter
  <2> DEFINE written ==
        IF SampleIsDue THEN [rows EXCEPT !.count = @ + 1, !.last = elapsed + 1] ELSE rows
  <2>1. /\ serving = WallClock => EndsInTick(written)
        /\ serving # WallClock => AnswersInTick /\ Sample
        /\ CountFailedTick
    BY <1>4 DEF TickFailsAfter, TickFails, EndsInTick, AnswersInTick
  <2>2. Sample => TraceInv'
    BY <1>0, SampleFacts
  <2>3. written \in Rows
    BY <1>0, WrittenFacts
  <2> HIDE DEF written
  <2> QED
    BY <1>0, <2>1, <2>2, <2>3, FailedTickCounted, TickFailsStep
<1> QED
  BY <1>1, <1>2, <1>3, <1>4

LEMMA TicksEndStep ==
  ASSUME IInv, TicksEnd
  PROVE  IInv'
<1>0. /\ phase = "tick" /\ left \in Nat /\ elapsed \in Nat /\ backlog \in Nat
      /\ running \in BOOLEAN /\ shutdown \in BOOLEAN
      /\ backlog > 0 => running
      /\ serving = WallClock => left <= backlog
      /\ UNCHANGED <<inEnv, elapsed, running, shutdown, library, tracing>>
  BY DEF TicksEnd, IInv, ControlInv, ClockInv
<1>1. CountInv' /\ TraceInv'
  BY <1>0 DEF IInv, CountInv, TraceInv, library, tracing
<1>2. CASE serving = WallClock
  <2>1. /\ backlog' = backlog - left
        /\ phase' = IF backlog' > 0 THEN "worker" ELSE "select"
        /\ left' = WorkersPerTurn
        /\ UNCHANGED <<turn, serving, todo, sessions>>
    BY <1>2 DEF TicksEnd
  <2>2. backlog' \in Nat /\ backlog' <= backlog
    BY <1>0, <1>2, <2>1
  <2>3. ControlInv' /\ ServingInv' /\ QueueInv'
    BY <1>0, <1>2, <2>1, ConstantFacts
    DEF IInv, ControlInv, ServingInv, QueueInv, sessions
  <2>4. backlog' > 0 => running'
    BY <1>0, <2>2
  <2>5. ClockInv'
    BY <1>0, <2>1, <2>2, <2>4 DEF ClockInv
  <2> QED
    BY <1>1, <2>3, <2>5 DEF IInv
<1>3. CASE serving # WallClock
  <2>1. Respond("ok", shutdown) /\ backlog' = backlog
    BY <1>3 DEF TicksEnd
  <2> QED
    BY <1>0, <1>1, <2>1, AnsweredStep
<1> QED
  BY <1>2, <1>3

LEMMA DiesStep ==
  ASSUME IInv, Dies
  PROVE  IInv'
<1>1. QueueInv'
  BY EmptySeq DEF IInv, QueueInv, Dies, Channels
<1> QED
  BY <1>1 DEF Dies, IInv, ControlInv, ServingInv, ClockInv, CountInv, TraceInv,
              clock, library, tracing

LEMMA IInvStep == IInv /\ [Next]_vars => IInv'
<1> SUFFICES ASSUME IInv, [Next]_vars PROVE IInv'
  OBVIOUS
<1>1. CASE Task
  <2>1. CASE Handle
    BY <2>1, ClockRequestStep, TraceRequestStep DEF Handle
  <2> QED
    BY <1>1, <2>1, TakeRequestStep, TurnStep, TickStep, TicksEndStep DEF Task
<1>2. CASE \E c \in Connections, r \in Requests : Issue(c, r)
  BY <1>2, IssueStep
<1>3. CASE UNCHANGED vars
  BY <1>3 DEF vars, control, sessions, clock, library, tracing, IInv, ControlInv,
              ServingInv, QueueInv, ClockInv, CountInv, TraceInv
<1> QED
  BY <1>1, <1>2, <1>3, DiesStep DEF Next, Finished

-----------------------------------------------------------------------------
(* The results.                                                            *)

LEMMA IInvInductive == Spec => []IInv
BY InitIInv, IInvStep, PTL DEF Spec

(* Every variable of the daemon keeps its type.                            *)
THEOREM TypeCorrect == Spec => []TypeOK
<1>1. IInv => TypeOK
  <2> SUFFICES ASSUME IInv PROVE TypeOK
    OBVIOUS
  <2>1. serving \in [client : Connections \cup {"none"},
                     kind : WorkerKinds \cup ClientKinds \cup {"WallClock"}, n : Nat]
    BY DEF IInv, ServingInv, Taken, WorkerMessages, ClientMessages, WallClock, Connections
  <2>2. \A q \in Channels : queue[q] \in
          Seq([client : Connections, kind : WorkerKinds \cup ClientKinds, n : Nat])
    <3>1. Taken \subseteq [client : Connections, kind : WorkerKinds \cup ClientKinds, n : Nat]
      BY DEF Taken, WorkerMessages, ClientMessages, Connections
    <3>2. queue \in [Channels -> Seq(Taken)]
      BY DEF IInv, QueueInv
    <3>3. ASSUME NEW q \in Channels
          PROVE  queue[q] \in Seq([client : Connections,
                                  kind : WorkerKinds \cup ClientKinds, n : Nat])
      <4>1. queue[q] \in Seq(Taken)
        BY <3>2
      <4> QED
        BY <3>1, <4>1, SeqMonotonic
    <3> QED
      BY <3>3
  <2>3. {left, todo, issued, elapsed, backlog, lib, lag} \subseteq Nat
    BY DEF IInv, ControlInv, QueueInv, ClockInv, CountInv
  <2> QED
    BY <2>1, <2>2, <2>3 DEF TypeOK, IInv, ControlInv, QueueInv, ClockInv, TraceInv
<1> QED
  BY <1>1, IInvInductive, PTL

(* The clock counts the ticks of the library, whatever fails and in which  *)
(* stage of a tick, but for failed steps of an env's worker.               *)
THEOREM CountExact == Spec => []ClockCountsTicks
<1>1. IInv => ClockCountsTicks
  BY DEF IInv, CountInv, ClockCountsTicks
<1> QED
  BY <1>1, IInvInductive, PTL

(* The wall clock makes no tick of an instance that was paused or reset,   *)
(* however many it owed before.                                            *)
THEOREM PauseHolds == Spec => PausedStandsStill
<1>1. IInv /\ [Next]_vars => [lib' > lib /\ serving = WallClock => running]_vars
  <2> SUFFICES ASSUME IInv, [Next]_vars, lib' > lib, serving = WallClock
               PROVE  running
    OBVIOUS
  <2>1. lib' # lib /\ lib' # 0
    BY DEF IInv, CountInv
  <2>2. CASE Ticking
    BY <2>2, TickingFacts
  <2>3. CASE ~Ticking
    <3>1. library' = library \/ lib' = 0
      BY <2>3 DEF Next, Task, Handle, Issue, Dies, Finished, vars, TakeRequest,
        WorkerBatchEnds, NormalBatchEnds, Wakes, PollClock, HandleQuery, HandleReset,
        HandleTimeStart, HandleTimePause, HandleTimeStep, HandleWorkerStep,
        HandleClose, HandleTraceStart, HandleTraceStop, HandleTraceClear,
        TickSucceeds, TickFailsBefore, TickFailsInSample, TickFailsAfter, TicksEnd
    <3> QED
      BY <2>1, <3>1 DEF library
  <2> QED
    BY <2>2, <2>3
<1> QED
  BY <1>1, IInvInductive, PTL DEF Spec, PausedStandsStill

(* The rows the end of the task leaves: all, if the file takes them.        *)
LEMMA StopRows ==
  ASSUME NEW written \in Rows, Stop(written)
  PROVE  /\ rows'.last = written.last /\ rows'.count = written.count
         /\ trace.active /\ "file" \notin Faults => rows'.disk = rows'.count
         /\ phase' = "stopped"
<1>1. PICK onDisk \in Nat : /\ rows' = [written EXCEPT !.disk = onDisk]
                           /\ trace.active /\ "file" \notin Faults => onDisk = written.count
  BY DEF Stop, Rows
<1> QED
  BY <1>1 DEF Stop, Rows

(* The rows of a trace keep its period, and a trace that a request ends,   *)
(* or the daemon's end while the file takes writes, leaves all of them in  *)
(* the file.                                                               *)
LEMMA FailedTickRows ==
  ASSUME IInv, Ticking, NEW written \in Rows,
         serving = WallClock => Stop(written),
         serving # WallClock => RowsKeepPeriod /\ trace'.active = trace.active,
         written = rows \/ (/\ SampleIsDue
                           /\ written.last = elapsed + 1)
  PROVE  RowsKeepPeriod /\ StoppedTraceComplete
<1>1. CASE serving = WallClock
  <2>1. Stop(written)
    BY <1>1
  <2>2. /\ rows'.count = written.count /\ rows'.last = written.last
        /\ StoppedTraceComplete
    BY <2>1, StopRows DEF StoppedTraceComplete
  <2>3. rows \in Rows /\ trace \in [active : BOOLEAN, period : Nat, due : Nat]
        /\ (trace.active => trace.due >= rows.last + trace.period)
        /\ elapsed \in Nat
    BY DEF IInv, TraceInv, Rows, ClockInv
  <2>4. CASE written = rows
    BY <2>2, <2>3, <2>4 DEF RowsKeepPeriod, Rows
  <2>5. CASE SampleIsDue /\ written.last = elapsed + 1
    <3>1. trace.active /\ elapsed + 1 >= trace.due
      BY <2>5 DEF SampleIsDue
    <3>2. rows'.last >= rows.last + trace.period
      BY <2>2, <2>3, <2>5, <3>1 DEF Rows
    <3> QED
      BY <2>2, <3>2 DEF RowsKeepPeriod
  <2> QED
    BY <2>4, <2>5
<1>2. CASE serving # WallClock
  BY <1>2 DEF StoppedTraceComplete
<1> QED
  BY <1>1, <1>2

THEOREM RowsFaithful == Spec => TraceFaithful
<1>1. IInv /\ [Next]_vars => [RowsKeepPeriod /\ StoppedTraceComplete]_vars
  <2> SUFFICES ASSUME IInv, [Next]_vars PROVE RowsKeepPeriod /\ StoppedTraceComplete
    OBVIOUS
  <2>0. TraceInv /\ rows \in Rows /\ elapsed \in Nat
    BY DEF IInv, TraceInv, Rows, ClockInv
  <2>1. CASE UNCHANGED tracing
    BY <2>0, <2>1 DEF tracing, RowsKeepPeriod, StoppedTraceComplete, Rows
  <2>2. CASE TickSucceeds \/ TickFailsBefore \/ TickFailsInSample \/ TickFailsAfter
    <3>1. Ticking
      BY <2>2 DEF TickSucceeds, TickFailsBefore, TickFailsInSample, TickFailsAfter
    <3>2. CASE TickSucceeds
      BY <2>0, <3>2, SampleFacts DEF TickSucceeds, StoppedTraceComplete
    <3>3. CASE TickFailsBefore \/ TickFailsInSample
      <4>1. /\ serving = WallClock => Stop(rows)
            /\ serving # WallClock => UNCHANGED tracing
        BY <3>3 DEF TickFailsBefore, TickFailsInSample, TickFails
      <4>2. UNCHANGED tracing => RowsKeepPeriod /\ trace'.active = trace.active
        BY <2>0 DEF tracing, RowsKeepPeriod, Rows
      <4> QED
        BY <2>0, <3>1, <4>1, <4>2, FailedTickRows
    <3>4. CASE TickFailsAfter
      <4> DEFINE written ==
            IF SampleIsDue THEN [rows EXCEPT !.count = @ + 1, !.last = elapsed + 1] ELSE rows
      <4>1. /\ serving = WallClock => Stop(written)
            /\ serving # WallClock => Sample
        BY <3>4 DEF TickFailsAfter, TickFails
      <4>2. Sample => RowsKeepPeriod /\ trace'.active = trace.active
        BY <2>0, SampleFacts
      <4>3. /\ written \in Rows
            /\ written = rows \/ (SampleIsDue /\ written.last = elapsed + 1)
        BY <2>0, WrittenFacts
      <4> HIDE DEF written
      <4> QED
        BY <3>1, <4>1, <4>2, <4>3, FailedTickRows
    <3> QED
      BY <2>2, <3>2, <3>3, <3>4
  <2>3. CASE NormalBatchEnds /\ shutdown
    <3>1. Stop(rows)
      BY <2>3 DEF NormalBatchEnds
    <3> QED
      BY <2>0, <3>1, StopRows DEF RowsKeepPeriod, StoppedTraceComplete, Rows
  <2>4. CASE HandleTraceStart
    <3>1. CASE ~trace.active
      BY <3>1 DEF RowsKeepPeriod, StoppedTraceComplete
    <3> QED
      BY <2>1, <2>4, <3>1 DEF HandleTraceStart
  <2>5. CASE HandleTraceStop \/ HandleTraceClear
    <3>1. CASE rows' \in {NoRows, [rows EXCEPT !.disk = rows.count]}
      BY <2>0, <3>1 DEF RowsKeepPeriod, StoppedTraceComplete, NoRows, Rows
    <3> QED
      BY <2>1, <2>5, <3>1 DEF HandleTraceStop, HandleTraceClear
  <2> QED
    <3>1. \/ UNCHANGED tracing
          \/ NormalBatchEnds /\ shutdown
          \/ HandleTraceStart \/ HandleTraceStop \/ HandleTraceClear
          \/ TickSucceeds \/ TickFailsBefore \/ TickFailsInSample \/ TickFailsAfter
      BY DEF Next, Task, Handle, Issue, Dies, Finished, vars, TakeRequest,
        WorkerBatchEnds, NormalBatchEnds, Wakes, PollClock, HandleQuery, HandleReset,
        HandleTimeStart, HandleTimePause, HandleTimeStep, HandleWorkerStep,
        HandleClose, TicksEnd
    <3> QED
      BY <2>1, <2>2, <2>3, <2>4, <2>5, <3>1
<1> QED
  BY <1>1, IInvInductive, PTL DEF Spec, TraceFaithful

=============================================================================
