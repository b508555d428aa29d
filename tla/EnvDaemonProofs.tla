-------------------------- MODULE EnvDaemonProofs --------------------------
(***************************************************************************)
(* Theorems about EnvDaemon, for every number of instances, clients and    *)
(* schedules, every set of requests, every fault and every bound.          *)
(***************************************************************************)
EXTENDS EnvDaemon, SequenceTheorems, TLAPS

(* What TypeOK needs of the actor's flow to hold on: a fan-out sends what  *)
(* workers take, a tick being made is one still to make, and the wall clock*)
(* makes no more ticks than it owes.                                       *)
FlowInv ==
  /\ apc = "send" => call \in {"Step", "Reset", "Discard"}
  /\ apc = "readWait" => next <= NumInstances
  /\ apc \in {"send", "await", "read", "readWait"} /\ call \in {"Step", "Sample"}
       => todo > 0
  /\ serving = WallClock => batch <= backlog

TypeInv == TypeOK /\ FlowInv

LEMMA EnvConstantFacts ==
  /\ NumInstances \in Nat /\ NumInstances > 0
  /\ WorkerQueueCap \in Nat /\ WorkerQueueCap > 0
  /\ NumJobs \in Nat
  /\ ActionsPerTurn \in Nat /\ ActionsPerTurn > 0
  /\ TicksPerTurn \in Nat /\ TicksPerTurn > 0
  /\ MaxDue \in Nat /\ MaxElapsed \in Nat /\ MaxRequests \in Nat
BY WorkersAssumption, EnvAssumption DEF WorkersAssumption, EnvAssumption

LEMMA MessageFacts ==
  ASSUME NEW m \in Messages
  PROVE  /\ m # WallClock
         /\ m.client \in Clients /\ m.kind \in Kinds /\ m.n \in Nat /\ m.job \in Nat
         /\ m.kind \in {"Add", "Update", "TraceStart"} => m.n > 0
         /\ m.kind \in {"Add", "Update", "Remove", "Stop", "Start"}
              => m.job \in Jobs
<1>1. PICK c \in Clients, r \in Requests :
        m = [client |-> c, kind |-> r.kind, n |-> r.n, job |-> r.job]
  BY DEF Messages
<1>2. /\ r.kind \in Kinds /\ r.n \in Nat /\ r.job \in Nat
      /\ r.kind \in {"Add", "Update", "TraceStart"} => r.n > 0
      /\ r.kind \in {"Add", "Update", "Remove", "Stop", "Start"}
           => r.job \in Jobs
  BY EnvAssumption DEF EnvAssumption
<1>3. WallClock.kind = "WallClock" /\ "WallClock" \notin Kinds
  BY DEF WallClock, Kinds
<1>4. m.client = c /\ m.kind = r.kind /\ m.n = r.n /\ m.job = r.job
  BY <1>1
<1> QED
  BY <1>2, <1>3, <1>4

LEMMA InitTypeInv == Init => TypeInv
<1> SUFFICES ASSUME Init PROVE TypeInv
  OBVIOUS
<1> USE EnvConstantFacts
<1>1. WorkersTypeOK
  <2>1. <<>> \in Seq(Ops) /\ Len(<<>>) = 0
    BY EmptySeq
  <2>2. \A i \in Instances : queue[i] = <<>>
    BY DEF Init, WorkersInit
  <2>3. queue \in [Instances -> Seq(Ops)]
    BY <2>1 DEF Init, WorkersInit
  <2>4. \A i \in Instances : Len(queue[i]) <= WorkerQueueCap
    BY <2>1, <2>2
  <2>5. alive \in [Instances -> BOOLEAN]
    BY DEF Init, WorkersInit
  <2>6. /\ wstate \in [Instances -> {"idle", "waiting", "failing", "closed"}]
        /\ reply \in [Instances -> {"none", "pending", "ok", "err"}]
        /\ inbox \in [Instances -> Ops \cup {"none"}]
        /\ outbox \in [Instances -> {"none", "ok", "err"}]
        /\ ticks \in [Instances -> Nat] /\ sample \in [Instances -> Nat]
    BY DEF Init, WorkersInit
  <2> QED
    BY <2>3, <2>4, <2>5, <2>6 DEF WorkersTypeOK
<1>2. ControlTypeOK
  BY DEF Init, ControlTypeOK
<1>7. ClockTypeOK /\ RestTypeOK
  BY DEF Init, ClockTypeOK, RestTypeOK
<1>3. CanTypeOK
  BY DEF Init, CanTypeOK, NoJob, Never
<1>4. TraceTypeOK
  BY DEF Init, TraceTypeOK, NoTrace, NoRow
<1>5. SessionsTypeOK
  BY DEF Init, SessionsTypeOK
<1>6. FlowInv
  BY DEF Init, FlowInv
<1> QED
  BY <1>1, <1>2, <1>3, <1>4, <1>5, <1>6, <1>7 DEF TypeInv, TypeOK

-----------------------------------------------------------------------------
(* The workers and the instances.                                          *)

LEMMA AnswerType ==
  ASSUME WorkersTypeOK, NEW i \in Instances, NEW rest,
         NEW outcome \in {"ok", "err"}, Answer(i, rest, outcome)
  PROVE  reply' \in [Instances -> {"none", "pending", "ok", "err"}]
BY DEF Answer, WorkersTypeOK

LEMMA BeginType ==
  ASSUME WorkersTypeOK, NEW i \in Instances, NEW op \in Ops, Begin(i, op),
         UNCHANGED instances
  PROVE  WorkersTypeOK'
<1> USE EnvConstantFacts DEF instances
<1>1. queue \in [Instances -> Seq(Ops)] /\ queue[i] \in Seq(Ops)
  BY DEF WorkersTypeOK
<1>2. /\ Append(queue[i], op) \in Seq(Ops)
      /\ Len(Append(queue[i], op)) = Len(queue[i]) + 1
      /\ Len(queue[i]) \in Nat
  BY <1>1
<1>3. /\ queue' \in [Instances -> Seq(Ops)]
      /\ \A k \in Instances : Len(queue'[k]) <= WorkerQueueCap
  BY <1>1, <1>2 DEF Begin, WorkersTypeOK
<1> QED
  BY <1>3 DEF Begin, WorkersTypeOK

LEMMA WorkerStepType ==
  ASSUME WorkersTypeOK, NEW i \in Instances, WorkerStep(i)
  PROVE  WorkersTypeOK'
<1> USE EnvConstantFacts DEF instances
<1>1. CASE WorkerSend(i)
  <2>1. queue \in [Instances -> Seq(Ops)] /\ queue[i] \in Seq(Ops) /\ queue[i] # <<>>
    BY <1>1 DEF WorkersTypeOK, WorkerSend
  <2>2. /\ Tail(queue[i]) \in Seq(Ops) /\ Head(queue[i]) \in Ops
        /\ Len(Tail(queue[i])) = Len(queue[i]) - 1
        /\ Len(queue[i]) \in Nat
    BY <2>1, HeadTailProperties
  <2>3. /\ queue' \in [Instances -> Seq(Ops)]
        /\ \A k \in Instances : Len(queue'[k]) <= WorkerQueueCap
    BY <1>1, <2>1, <2>2 DEF WorkersTypeOK, WorkerSend
  <2> QED
    BY <1>1, <2>2, <2>3, AnswerType DEF WorkersTypeOK, WorkerSend
<1>2. CASE WorkerReceive(i)
  <2>1. outbox[i] \in {"ok", "err"}
    BY <1>2 DEF WorkersTypeOK, WorkerReceive
  <2> QED
    BY <1>2, <2>1, AnswerType DEF WorkersTypeOK, WorkerReceive
<1>3. CASE WorkerGivesUp(i)
  BY <1>3, AnswerType DEF WorkersTypeOK, WorkerGivesUp
<1>4. CASE WorkerCloses(i)
  BY <1>4 DEF WorkersTypeOK, WorkerCloses
<1> QED
  BY <1>1, <1>2, <1>3, <1>4 DEF WorkerStep

LEMMA InstanceStepType ==
  ASSUME WorkersTypeOK, NEW i \in Instances, InstanceStep(i) \/ DirectReset(i)
  PROVE  WorkersTypeOK'
<1> USE DEF workers, WorkersTypeOK
<1>1. ASSUME NEW outcome \in {"ok", "err"}, Deliver(i, outcome)
      PROVE  outbox' \in [Instances -> {"none", "ok", "err"}]
  BY <1>1 DEF Deliver
<1>2. CASE InstanceExecutes(i)
  <2>1. inbox' \in [Instances -> Ops \cup {"none"}] /\ UNCHANGED workers
    BY <1>2 DEF InstanceExecutes
  <2>2. CASE InstanceSteps(i)
    <3>1. ticks' = ticks \/ ticks' = [ticks EXCEPT ![i] = @ + 1]
      BY <2>2 DEF InstanceSteps
    <3>2. ticks' \in [Instances -> Nat]
      <4>1. ticks \in [Instances -> Nat] /\ ticks[i] + 1 \in Nat
        OBVIOUS
      <4>2. [ticks EXCEPT ![i] = @ + 1] \in [Instances -> Nat]
        BY <4>1
      <4> QED
        BY <3>1, <4>1, <4>2
    <3>3. outbox' \in [Instances -> {"none", "ok", "err"}]
      BY <1>1, <2>2 DEF InstanceSteps
    <3> QED
      BY <2>1, <2>2, <3>2, <3>3 DEF InstanceSteps
  <2>3. CASE InstanceResets(i)
    <3>1. ticks' = ticks \/ ticks' = [ticks EXCEPT ![i] = 0]
      BY <2>3 DEF InstanceResets
    <3>2. ticks' \in [Instances -> Nat]
      <4>1. ticks \in [Instances -> Nat]
        OBVIOUS
      <4>2. [ticks EXCEPT ![i] = 0] \in [Instances -> Nat]
        BY <4>1
      <4> QED
        BY <3>1, <4>1, <4>2
    <3>3. outbox' \in [Instances -> {"none", "ok", "err"}]
      BY <1>1, <2>3 DEF InstanceResets
    <3> QED
      BY <2>1, <2>3, <3>2, <3>3 DEF InstanceResets
  <2>4. CASE InstanceDiscards(i)
    BY <1>1, <2>1, <2>4 DEF InstanceDiscards
  <2>5. CASE InstanceReads(i)
    <3>1. sample' \in [Instances -> Nat]
      BY <2>5 DEF InstanceReads
    <3>2. outbox' \in [Instances -> {"none", "ok", "err"}]
      BY <1>1, <2>5 DEF InstanceReads
    <3> QED
      BY <2>1, <2>5, <3>1, <3>2 DEF InstanceReads
  <2>6. CASE InstanceCloses(i)
    BY <1>1, <2>1, <2>6 DEF InstanceCloses
  <2> QED
    BY <1>2, <2>2, <2>3, <2>4, <2>5, <2>6 DEF InstanceExecutes
<1>3. CASE InstanceCrashes(i)
  BY <1>3 DEF InstanceCrashes
<1>4. CASE DirectReset(i)
  BY <1>4 DEF DirectReset
<1> QED
  BY <1>2, <1>3, <1>4 DEF InstanceStep

-----------------------------------------------------------------------------
(* The actor.  What an action leaves alone keeps its type.                 *)

LEMMA Frame ==
  ASSUME TypeInv
  PROVE  /\ UNCHANGED workerVars => WorkersTypeOK'
         /\ UNCHANGED control => ControlTypeOK'
         /\ UNCHANGED <<control, backlog>> => FlowInv'
         /\ UNCHANGED clock => ClockTypeOK'
         /\ UNCHANGED canBus => CanTypeOK'
         /\ UNCHANGED tracing => TraceTypeOK'
         /\ UNCHANGED sessions => SessionsTypeOK'
         /\ UNCHANGED <<shutdown, lost, base>> => RestTypeOK'
<1> USE DEF TypeInv, TypeOK
<1>1. UNCHANGED workerVars => WorkersTypeOK'
  BY DEF WorkersTypeOK, workerVars, workers, instances
<1>2. UNCHANGED control => ControlTypeOK'
  BY DEF ControlTypeOK, control
<1>3. UNCHANGED <<control, backlog>> => FlowInv'
  BY DEF FlowInv, control
<1>4. UNCHANGED clock => ClockTypeOK'
  BY DEF ClockTypeOK, clock
<1>5. UNCHANGED canBus => CanTypeOK'
  BY DEF CanTypeOK, canBus
<1>6. UNCHANGED tracing => TraceTypeOK'
  BY DEF TraceTypeOK, tracing
<1>7. UNCHANGED sessions => SessionsTypeOK'
  BY DEF SessionsTypeOK, sessions
<1>8. UNCHANGED <<shutdown, lost, base>> => RestTypeOK'
  BY DEF RestTypeOK
<1> QED
  BY <1>1, <1>2, <1>3, <1>4, <1>5, <1>6, <1>7, <1>8

LEMMA Parts ==
  /\ TypeInv <=> /\ WorkersTypeOK /\ ControlTypeOK /\ ClockTypeOK /\ CanTypeOK
                 /\ TraceTypeOK /\ SessionsTypeOK /\ RestTypeOK /\ FlowInv
  /\ TypeInv' <=> /\ WorkersTypeOK' /\ ControlTypeOK' /\ ClockTypeOK' /\ CanTypeOK'
                  /\ TraceTypeOK' /\ SessionsTypeOK' /\ RestTypeOK' /\ FlowInv'
BY DEF TypeInv, TypeOK

LEMMA RespondType ==
  ASSUME TypeInv, NEW status \in {"ok", "err"}, Respond(status),
         UNCHANGED <<left, turn>>, ClockTypeOK'
  PROVE  ControlTypeOK' /\ SessionsTypeOK' /\ FlowInv'
<1> USE EnvConstantFacts, Parts
<1>1. ControlTypeOK'
  BY DEF Respond, ControlTypeOK
<1>2. SessionsTypeOK'
  BY DEF Respond, SessionsTypeOK
<1>3. FlowInv'
  BY DEF Respond, FlowInv, ClockTypeOK
<1> QED
  BY <1>1, <1>2, <1>3

LEMMA AbandonType ==
  ASSUME TypeInv, Abandon
  PROVE  /\ WorkersTypeOK' /\ ControlTypeOK' /\ ClockTypeOK' /\ TraceTypeOK'
         /\ SessionsTypeOK' /\ FlowInv'
         /\ shutdown' \in BOOLEAN /\ base' \in Nat
<1> USE EnvConstantFacts, Parts, Frame
<1>1. WorkersTypeOK'
  BY DEF Abandon, DropReceivers, WorkersTypeOK, instances
<1>2. ClockTypeOK' /\ TraceTypeOK' /\ base' \in Nat
  BY DEF Abandon, RestTypeOK
<1>3. CASE serving = WallClock
  <2>1. /\ UNCHANGED <<left, turn, serving, sessions>>
        /\ apc' = "stopping" /\ todo' = 0 /\ batch' = 0 /\ call' = "Step"
        /\ next' = 1 /\ shutdown' = TRUE
    BY <1>3 DEF Abandon
  <2>2. ControlTypeOK' /\ FlowInv'
    BY <1>2, <2>1 DEF ControlTypeOK, FlowInv, ClockTypeOK
  <2> QED
    BY <1>1, <1>2, <2>1, <2>2
<1>4. CASE serving # WallClock
  <2>1. Respond("err") /\ UNCHANGED <<left, turn, shutdown>>
    BY <1>4 DEF Abandon
  <2>2. ControlTypeOK' /\ SessionsTypeOK' /\ FlowInv'
    BY <1>2, <2>1, RespondType
  <2> QED
    BY <1>1, <1>2, <2>1, <2>2 DEF RestTypeOK
<1> QED
  BY <1>3, <1>4

LEMMA IssueType ==
  ASSUME TypeInv, NEW c \in Clients, NEW r \in Requests, Issue(c, r)
  PROVE  TypeInv'
<1> USE EnvConstantFacts
<1>1. UNCHANGED <<workerVars, control, clock, shutdown, canBus, tracing, lost, base>>
  BY DEF Issue
<1>2. SessionsTypeOK'
  <2> DEFINE m == [client |-> c, kind |-> r.kind, n |-> r.n, job |-> r.job]
  <2>1. m \in Messages
    BY DEF Messages
  <2>2. SessionsTypeOK
    BY Parts
  <2>3. requests' = requests \/ requests' = Append(requests, m)
    BY DEF Issue
  <2> HIDE DEF m
  <2>4. requests' \in Seq(Messages)
    BY <2>1, <2>2, <2>3 DEF SessionsTypeOK
  <2>5. answer' \in [Clients -> {"idle", "waiting", "ok", "err", "unavailable"}]
    BY <2>2 DEF Issue, SessionsTypeOK
  <2>6. issued' \in 0 .. MaxRequests
    BY <2>2 DEF Issue, SessionsTypeOK
  <2> QED
    BY <2>4, <2>5, <2>6 DEF SessionsTypeOK
<1> QED
  BY <1>1, <1>2, Frame, Parts DEF clock

(* The turns of the actor's loop.                                          *)
LEMMA LoopType ==
  ASSUME TypeInv,
         \/ TakeRequest \/ BatchEnds \/ Wakes
         \/ TakeWallClockTicks \/ WallClockTicksDone \/ TimeStepDone
  PROVE  TypeInv'
<1> USE EnvConstantFacts, Parts, Frame
<1>1. CASE TakeRequest
  <2>1. requests \in Seq(Messages) /\ requests # <<>>
    BY <1>1 DEF TakeRequest, SessionsTypeOK
  <2>2. Head(requests) \in Messages /\ Tail(requests) \in Seq(Messages)
    BY <2>1, HeadTailProperties
  <2>3. ControlTypeOK'
    BY <1>1, <2>2 DEF TakeRequest, ControlTypeOK
  <2>4. SessionsTypeOK'
    BY <1>1, <2>2 DEF TakeRequest, SessionsTypeOK
  <2>5. FlowInv'
    BY <1>1, <2>2, MessageFacts DEF TakeRequest, FlowInv
  <2> QED
    BY <1>1, <2>3, <2>4, <2>5 DEF TakeRequest
<1>2. CASE BatchEnds \/ Wakes
  <2>1. ControlTypeOK'
    BY <1>2 DEF BatchEnds, Wakes, ControlTypeOK
  <2>2. FlowInv'
    BY <1>2 DEF BatchEnds, Wakes, FlowInv, clock
  <2> QED
    BY <1>2, <2>1, <2>2 DEF BatchEnds, Wakes
<1>3. CASE TakeWallClockTicks
  <2>1. PICK due \in 0 .. MaxDue : backlog' = backlog + due
    BY <1>3 DEF TakeWallClockTicks
  <2>2. backlog' \in Nat
    BY <2>1 DEF ClockTypeOK
  <2>3. batch' \in Nat /\ batch' <= backlog' /\ todo' = batch'
    BY <1>3, <2>2 DEF TakeWallClockTicks, Least
  <2>4. ControlTypeOK' /\ ClockTypeOK' /\ FlowInv'
    BY <1>3, <2>2, <2>3 DEF TakeWallClockTicks, ControlTypeOK, ClockTypeOK, FlowInv
  <2> QED
    BY <1>3, <2>4 DEF TakeWallClockTicks
<1>4. CASE WallClockTicksDone
  <2>1. backlog \in Nat /\ batch \in Nat /\ batch <= backlog
    BY <1>4 DEF WallClockTicksDone, ControlTypeOK, ClockTypeOK, FlowInv
  <2>2. backlog' \in Nat /\ batch' = 0
    BY <1>4, <2>1 DEF WallClockTicksDone
  <2>3. ControlTypeOK' /\ ClockTypeOK' /\ FlowInv'
    BY <1>4, <2>2 DEF WallClockTicksDone, ControlTypeOK, ClockTypeOK, FlowInv
  <2> QED
    BY <1>4, <2>3 DEF WallClockTicksDone
<1>5. CASE TimeStepDone
  <2>1. Respond("ok") /\ UNCHANGED <<left, turn, clock>>
    BY <1>5 DEF TimeStepDone
  <2> QED
    BY <1>5, <2>1, RespondType DEF TimeStepDone
<1> QED
  BY <1>1, <1>2, <1>3, <1>4, <1>5

(* The requests that are answered at once.                                 *)
LEMMA AnsweredType ==
  ASSUME TypeInv,
         \/ HandleQuery \/ HandleTimeStart \/ HandleTimePause \/ HandleTraceStop
         \/ HandleClose
  PROVE  TypeInv'
<1> USE EnvConstantFacts, Parts, Frame DEF Handling
<1>1. CASE HandleQuery
  BY <1>1, RespondType DEF HandleQuery
<1>2. CASE HandleTimeStart \/ HandleTimePause
  <2>1. \/ UNCHANGED clock
        \/ running' = TRUE /\ backlog' = 0 /\ elapsed' = elapsed
        \/ running' = FALSE /\ backlog' = 0 /\ elapsed' = elapsed
    BY <1>2 DEF HandleTimeStart, HandleTimePause
  <2>2. ClockTypeOK'
    <3>1. running' \in BOOLEAN
      BY <2>1 DEF ClockTypeOK, clock
    <3>2. elapsed' \in Nat /\ backlog' \in Nat
      BY <2>1 DEF ClockTypeOK, clock
    <3> QED
      BY <3>1, <3>2 DEF ClockTypeOK
  <2> QED
    BY <1>2, <2>2, RespondType DEF HandleTimeStart, HandleTimePause
<1>3. CASE HandleTraceStop
  <2>1. NoTrace \in [active : BOOLEAN, period : Nat, due : Nat]
    BY DEF NoTrace
  <2>2. (trace' = trace \/ trace' = NoTrace) /\ row' = row
    BY <1>3 DEF HandleTraceStop
  <2>3. TraceTypeOK'
    BY <2>1, <2>2 DEF TraceTypeOK
  <2> QED
    BY <1>3, <2>3, RespondType DEF HandleTraceStop
<1>4. CASE HandleClose
  <2>1. RestTypeOK'
    BY <1>4 DEF HandleClose, RestTypeOK
  <2> QED
    BY <1>4, <2>1, RespondType DEF HandleClose
<1> QED
  BY <1>1, <1>2, <1>3, <1>4

(* The requests that are handled in several steps.                         *)
LEMMA BegunType ==
  ASSUME TypeInv,
         HandleTimeStep \/ HandleReset \/ HandleTraceStart \/ HandleGet
  PROVE  TypeInv'
<1> USE EnvConstantFacts, Parts, Frame DEF Handling
<1>0. serving.kind # "WallClock" => serving \in Messages /\ serving # WallClock
  BY DEF ControlTypeOK, WallClock
<1>1. CASE HandleTimeStep
  <2>1. serving \in Messages /\ serving # WallClock
    BY <1>0, <1>1 DEF HandleTimeStep
  <2>2. ClockTypeOK'
    BY <1>1 DEF HandleTimeStep, ClockTypeOK
  <2>3. RestTypeOK'
    BY <1>1 DEF HandleTimeStep, RestTypeOK, ClockTypeOK
  <2>4. CASE running
    BY <1>1, <2>2, <2>3, <2>4, RespondType DEF HandleTimeStep
  <2>5. CASE ~running
    <3>1. serving.n \in Nat
      BY <2>1, MessageFacts
    <3>2. ControlTypeOK' /\ FlowInv'
      BY <1>1, <2>1, <2>5, <3>1 DEF HandleTimeStep, ControlTypeOK, FlowInv
    <3> QED
      BY <1>1, <2>2, <2>3, <2>5, <3>2 DEF HandleTimeStep
  <2> QED
    BY <2>4, <2>5
<1>2. CASE HandleReset
  <2>1. serving # WallClock
    BY <1>0, <1>2 DEF HandleReset
  <2>2. ControlTypeOK' /\ FlowInv' /\ RestTypeOK'
    BY <1>2, <2>1 DEF HandleReset, FanOut, ControlTypeOK, FlowInv, RestTypeOK
  <2> QED
    BY <1>2, <2>2 DEF HandleReset
<1>3. CASE HandleTraceStart
  <2>1. serving # WallClock
    BY <1>0, <1>3 DEF HandleTraceStart
  <2>2. CASE Respond("err")
    BY <1>3, <2>2, RespondType DEF HandleTraceStart
  <2>3. CASE ReadAll("Read") /\ UNCHANGED <<serving, todo, batch, sessions>>
    <3>1. ControlTypeOK' /\ FlowInv'
      BY <1>3, <2>1, <2>3
         DEF HandleTraceStart, ReadAll, ControlTypeOK, FlowInv
    <3> QED
      BY <1>3, <2>3, <3>1 DEF HandleTraceStart
  <2> QED
    BY <1>3, <2>2, <2>3 DEF HandleTraceStart
<1>4. CASE HandleGet
  <2>1. serving # WallClock
    BY <1>0, <1>4 DEF HandleGet
  <2>2. ControlTypeOK' /\ FlowInv'
    BY <1>4, <2>1 DEF HandleGet, ReadAll, ControlTypeOK, FlowInv
  <2> QED
    BY <1>4, <2>2 DEF HandleGet
<1> QED
  BY <1>1, <1>2, <1>3, <1>4

-----------------------------------------------------------------------------
(* The schedules, as records.                                              *)

JobType == [present : BOOLEAN, enabled : BOOLEAN, every : Nat, due : Nat]

LEMMA JobChangeType ==
  ASSUME NEW job \in JobType, NEW n \in Nat, NEW tick \in Nat
  PROVE  /\ [job EXCEPT !.every = n, !.due = tick] \in JobType
         /\ [job EXCEPT !.due = tick] \in JobType
         /\ [job EXCEPT !.enabled = TRUE] \in JobType
         /\ [job EXCEPT !.enabled = FALSE] \in JobType
         /\ [present |-> TRUE, enabled |-> TRUE, every |-> n, due |-> tick] \in JobType
         /\ NoJob \in JobType
BY DEF JobType, NoJob

LEMMA SchedulesType ==
  ASSUME TypeInv, NEW kind \in {"Add", "Update", "Remove", "Stop", "Start"},
         NEW allowed, NEW job, Schedules(kind, allowed, job),
         serving \in Messages /\ serving.job \in Jobs => job \in JobType
  PROVE  /\ jobs' \in [Jobs -> JobType]
         /\ WorkersTypeOK' /\ ControlTypeOK' /\ ClockTypeOK' /\ TraceTypeOK'
         /\ SessionsTypeOK' /\ RestTypeOK' /\ FlowInv'
<1> USE Parts, Frame
<1>1. serving \in Messages /\ serving.kind = kind
  BY DEF Schedules, Handling, ControlTypeOK, WallClock
<1>2. serving.job \in Jobs
  BY <1>1, MessageFacts
<1>3. jobs \in [Jobs -> JobType]
  BY DEF CanTypeOK, JobType
<1>4. jobs' = jobs \/ jobs' = [jobs EXCEPT ![serving.job] = job]
  BY DEF Schedules
<1>5. jobs' \in [Jobs -> JobType]
  BY <1>1, <1>2, <1>3, <1>4
<1>6. UNCHANGED <<workerVars, clock, shutdown, tracing, lost, base, left, turn>>
  BY DEF Schedules, Handling
<1>7. Respond("ok") \/ Respond("err")
  BY DEF Schedules
<1> QED
  BY <1>5, <1>6, <1>7, RespondType

LEMMA PeriodBeginsType ==
  ASSUME TypeInv, NEW allowed, PeriodBegins(allowed) \/ UNCHANGED <<sentAt, early>>
  PROVE  sentAt' \in [Jobs -> [sent : BOOLEAN, tick : Nat]] /\ early' \in BOOLEAN
<1>1. Never \in [sent : BOOLEAN, tick : Nat]
  BY DEF Never
<1>2. \/ sentAt' = sentAt
      \/ sentAt' = [sentAt EXCEPT ![serving.job] = Never]
  BY DEF PeriodBegins
<1>3. early' = early
  BY DEF PeriodBegins
<1> QED
  BY <1>1, <1>2, <1>3, Parts DEF CanTypeOK

LEMMA ScheduleType ==
  ASSUME TypeInv,
         \/ ScheduleAdd \/ ScheduleUpdate \/ ScheduleRemove
         \/ ScheduleStop \/ ScheduleStart
  PROVE  TypeInv'
<1> USE Parts
<1>1. jobs \in [Jobs -> JobType] /\ elapsed \in Nat
  BY DEF CanTypeOK, JobType, ClockTypeOK
<1>2. serving \in Messages /\ serving.job \in Jobs
        => serving.n \in Nat /\ Named \in JobType
  BY <1>1, MessageFacts DEF Named
<1>3. ASSUME NEW kind \in {"Add", "Update", "Remove", "Stop", "Start"},
             NEW allowed, NEW job, Schedules(kind, allowed, job),
             serving \in Messages /\ serving.job \in Jobs => job \in JobType,
             PeriodBegins(allowed) \/ UNCHANGED <<sentAt, early>>
      PROVE  TypeInv'
  <2>1. /\ jobs' \in [Jobs -> JobType]
        /\ WorkersTypeOK' /\ ControlTypeOK' /\ ClockTypeOK' /\ TraceTypeOK'
        /\ SessionsTypeOK' /\ RestTypeOK' /\ FlowInv'
    BY <1>3, SchedulesType
  <2>2. sentAt' \in [Jobs -> [sent : BOOLEAN, tick : Nat]] /\ early' \in BOOLEAN
    BY <1>3, PeriodBeginsType
  <2>3. CanTypeOK'
    BY <2>1, <2>2 DEF CanTypeOK, JobType
  <2> QED
    BY <2>1, <2>3
<1>4. CASE ScheduleAdd
  BY <1>1, <1>2, <1>3, <1>4, JobChangeType DEF ScheduleAdd
<1>5. CASE ScheduleUpdate
  BY <1>1, <1>2, <1>3, <1>5, JobChangeType DEF ScheduleUpdate
<1>6. CASE ScheduleRemove
  BY <1>1, <1>2, <1>3, <1>6, JobChangeType DEF ScheduleRemove
<1>7. CASE ScheduleStop
  BY <1>1, <1>2, <1>3, <1>7, JobChangeType DEF ScheduleStop
<1>8. CASE ScheduleStart
  BY <1>1, <1>2, <1>3, <1>8, JobChangeType DEF ScheduleStart
<1> QED
  BY <1>4, <1>5, <1>6, <1>7, <1>8

LEMMA SendJobsType ==
  ASSUME TypeInv, NEW S \in SUBSET Jobs, SendJobs(S)
  PROVE  CanTypeOK'
<1> USE Parts
<1>1. jobs \in [Jobs -> JobType] /\ elapsed \in Nat
  BY DEF CanTypeOK, JobType, ClockTypeOK
<1>2. \A j \in Jobs : jobs[j].every \in Nat /\ NextDue(j) \in Nat
  BY <1>1 DEF NextDue, Greatest, JobType
<1>3. \A j \in Jobs : jobs'[j] \in JobType
  BY <1>1, <1>2, JobChangeType DEF SendJobs
<1>4. jobs' \in [Jobs -> JobType]
  BY <1>3 DEF SendJobs
<1>5. [sent |-> TRUE, tick |-> elapsed] \in [sent : BOOLEAN, tick : Nat]
  BY <1>1
<1>6. sentAt' \in [Jobs -> [sent : BOOLEAN, tick : Nat]]
  BY <1>5 DEF SendJobs, CanTypeOK
<1>7. early' \in BOOLEAN
  BY DEF SendJobs
<1> QED
  BY <1>4, <1>6, <1>7 DEF CanTypeOK, JobType

-----------------------------------------------------------------------------
(* The fan-out, and what it is for.                                        *)

LEMMA TakeReplyType ==
  ASSUME WorkersTypeOK, NEW i \in Instances, TakeReply(i) \/ DropReceivers,
         UNCHANGED instances
  PROVE  WorkersTypeOK'
BY DEF TakeReply, DropReceivers, WorkersTypeOK, instances

LEMMA FanOutType ==
  ASSUME TypeInv,
         \/ SendNext \/ AllSent \/ AwaitNext \/ ReadNext \/ ReadReply
         \/ WorkerRefuses
  PROVE  TypeInv'
<1> USE EnvConstantFacts, Parts, Frame
<1>0. /\ next \in Nat /\ next > 0
      /\ next <= NumInstances => next \in Instances
  BY DEF ControlTypeOK, Instances
<1>1. CASE SendNext
  <2>1. WorkersTypeOK'
    <3>1. call \in Ops
      BY <1>1 DEF SendNext, FlowInv, Ops
    <3> QED
      BY <1>0, <1>1, <3>1, BeginType DEF SendNext, Fanning
  <2>2. ControlTypeOK' /\ FlowInv'
    BY <1>0, <1>1 DEF SendNext, Fanning, ControlTypeOK, FlowInv, clock
  <2> QED
    BY <1>1, <2>1, <2>2 DEF SendNext, Fanning
<1>2. CASE AllSent
  <2>1. ControlTypeOK' /\ FlowInv'
    BY <1>2 DEF AllSent, Fanning, ControlTypeOK, FlowInv, clock
  <2> QED
    BY <1>2, <2>1 DEF AllSent, Fanning, workerVars
<1>3. CASE AwaitNext
  <2>1. WorkersTypeOK'
    BY <1>0, <1>3, TakeReplyType DEF AwaitNext, Fanning
  <2>2. ControlTypeOK' /\ FlowInv'
    BY <1>0, <1>3 DEF AwaitNext, Fanning, ControlTypeOK, FlowInv, clock
  <2> QED
    BY <1>3, <2>1, <2>2 DEF AwaitNext, Fanning
<1>4. CASE ReadNext
  <2>1. WorkersTypeOK'
    BY <1>0, <1>4, BeginType DEF ReadNext, Fanning, Ops
  <2>2. ControlTypeOK' /\ FlowInv'
    BY <1>0, <1>4 DEF ReadNext, Fanning, ControlTypeOK, FlowInv, clock
  <2> QED
    BY <1>4, <2>1, <2>2 DEF ReadNext, Fanning
<1>5. CASE ReadReply
  <2>1. next <= NumInstances
    BY <1>5 DEF ReadReply, FlowInv
  <2>2. WorkersTypeOK'
    BY <1>0, <1>5, <2>1, TakeReplyType DEF ReadReply, Fanning
  <2>3. ControlTypeOK' /\ FlowInv'
    BY <1>0, <1>5, <2>1 DEF ReadReply, Fanning, ControlTypeOK, FlowInv, clock
  <2> QED
    BY <1>5, <2>2, <2>3 DEF ReadReply, Fanning
<1>6. CASE WorkerRefuses
  <2>1. Abandon /\ UNCHANGED canBus /\ lost' \in BOOLEAN
    BY <1>6 DEF WorkerRefuses, RestTypeOK
  <2> QED
    BY <2>1, AbandonType DEF RestTypeOK
<1> QED
  BY <1>1, <1>2, <1>3, <1>4, <1>5, <1>6

LEMMA TimeAdvancesType ==
  ASSUME TypeInv, TimeAdvances, todo > 0
  PROVE  ControlTypeOK' /\ ClockTypeOK' /\ SessionsTypeOK' /\ FlowInv'
<1> USE EnvConstantFacts, Parts, Frame
<1>1. ControlTypeOK'
  BY DEF TimeAdvances, ControlTypeOK
<1>2. ClockTypeOK' /\ SessionsTypeOK' /\ FlowInv'
  BY DEF TimeAdvances, ClockTypeOK, FlowInv
<1> QED
  BY <1>1, <1>2

LEMMA SampleTypes ==
  ASSUME TypeInv
  PROVE  /\ \A tick \in Nat : RowOf(tick) \in [tick : Nat, values : [Instances -> Nat]]
         /\ SampleTick \in Nat /\ NextSample \in Nat
BY Parts DEF RowOf, SampleTick, NextSample, WorkersTypeOK, ClockTypeOK, TraceTypeOK

LEMMA TickType ==
  ASSUME TypeInv,
         \/ TickBegins \/ TickLosesBus \/ TickSampled \/ TickEnds
         \/ TickEndLosesBus \/ SampleWritten \/ SampleNotWritten
  PROVE  TypeInv'
<1> USE EnvConstantFacts, Parts, Frame
<1>0. AllAnswered("Step") \/ AllAnswered("Sample") => todo > 0
  BY DEF AllAnswered, FlowInv
<1>1. CASE TickBegins
  <2>1. CanTypeOK'
    BY <1>1, SendJobsType DEF TickBegins, DueJobs
  <2>2. ControlTypeOK' /\ FlowInv'
    BY <1>1 DEF TickBegins, FanOut, ControlTypeOK, FlowInv, clock
  <2> QED
    BY <1>1, <2>1, <2>2 DEF TickBegins
<1>2. CASE TickLosesBus
  <2>1. \E S \in SUBSET Jobs : SendJobs(S)
    <3>1. CASE SendJobs({})
      BY <3>1
    <3>2. ASSUME NEW j \in DueJobs, SendJobs({k \in DueJobs : k < j})
          PROVE  \E S \in SUBSET Jobs : SendJobs(S)
      <4>1. {k \in DueJobs : k < j} \in SUBSET Jobs
        BY DEF DueJobs
      <4> QED
        BY <3>2, <4>1
    <3> QED
      BY <1>2, <3>1, <3>2 DEF TickLosesBus
  <2>2. CanTypeOK'
    BY <2>1, SendJobsType
  <2>3. lost' \in BOOLEAN
    BY <1>2 DEF TickLosesBus, RestTypeOK
  <2> QED
    BY <1>2, <2>2, <2>3, AbandonType DEF TickLosesBus, RestTypeOK
<1>3. CASE TickSampled
  <2>1. ControlTypeOK' /\ FlowInv'
    BY <1>0, <1>3 DEF TickSampled, ReadAll, ControlTypeOK, FlowInv, clock
  <2> QED
    BY <1>3, <2>1 DEF TickSampled
<1>4. CASE TickEnds
  <2>1. ControlTypeOK' /\ ClockTypeOK' /\ SessionsTypeOK' /\ FlowInv'
    BY <1>0, <1>4, TimeAdvancesType DEF TickEnds
  <2> QED
    BY <1>4, <2>1 DEF TickEnds, TimeAdvances
<1>5. CASE TickEndLosesBus \/ SampleNotWritten
  <2>1. Abandon /\ lost' \in BOOLEAN /\ UNCHANGED canBus
    BY <1>5 DEF TickEndLosesBus, SampleNotWritten
  <2> QED
    BY <2>1, AbandonType DEF RestTypeOK
<1>6. CASE SampleWritten
  <2>1. ControlTypeOK' /\ ClockTypeOK' /\ SessionsTypeOK' /\ FlowInv'
    BY <1>0, <1>6, TimeAdvancesType DEF SampleWritten
  <2>2. TraceTypeOK'
    <3>1. row' = RowOf(SampleTick) /\ trace' = [trace EXCEPT !.due = NextSample]
      BY <1>6 DEF SampleWritten
    <3>2. trace \in [active : BOOLEAN, period : Nat, due : Nat]
      BY DEF TraceTypeOK
    <3> QED
      BY <3>1, <3>2, SampleTypes DEF TraceTypeOK
  <2> QED
    BY <1>6, <2>1, <2>2 DEF SampleWritten, TimeAdvances
<1> QED
  BY <1>1, <1>2, <1>3, <1>4, <1>5, <1>6

LEMMA ReadDoneType ==
  ASSUME TypeInv, GetDone \/ TraceStarts
  PROVE  TypeInv'
<1> USE EnvConstantFacts, Parts, Frame DEF ReadDone
<1>0. serving.kind # "WallClock" => serving \in Messages
  BY DEF ControlTypeOK, WallClock
<1>1. RowOf(elapsed) \in [tick : Nat, values : [Instances -> Nat]]
  BY SampleTypes DEF ClockTypeOK
<1>2. CASE GetDone
  <2>1. TraceTypeOK'
    BY <1>1, <1>2 DEF GetDone, TraceTypeOK
  <2> QED
    BY <1>2, <2>1, RespondType DEF GetDone
<1>3. CASE TraceStarts
  <2>1. serving.n \in Nat
    BY <1>0, <1>3, MessageFacts DEF TraceStarts
  <2>2. TraceTypeOK'
    <3>1. [active |-> TRUE, period |-> serving.n, due |-> elapsed + serving.n]
            \in [active : BOOLEAN, period : Nat, due : Nat]
      BY <2>1 DEF ClockTypeOK
    <3> QED
      BY <1>1, <1>3, <3>1 DEF TraceStarts, TraceTypeOK, tracing
  <2>3. Respond("ok") \/ Respond("err")
    BY <1>3 DEF TraceStarts
  <2> QED
    BY <1>3, <2>2, <2>3, RespondType DEF TraceStarts
<1> QED
  BY <1>2, <1>3

LEMMA ResetType ==
  ASSUME TypeInv, ResetDiscards \/ ResetEnds
  PROVE  TypeInv'
<1> USE EnvConstantFacts, Parts, Frame
<1>1. CASE ResetDiscards
  <2>1. ControlTypeOK' /\ FlowInv'
    BY <1>1 DEF ResetDiscards, FanOut, ControlTypeOK, FlowInv, clock
  <2> QED
    BY <1>1, <2>1 DEF ResetDiscards
<1>2. CASE ResetEnds
  <2>1. jobs' \in [Jobs -> JobType]
    <3>1. jobs \in [Jobs -> JobType]
      BY DEF CanTypeOK, JobType
    <3>2. \A j \in Jobs : [jobs[j] EXCEPT !.due = 0] \in JobType
      BY <3>1, JobChangeType
    <3> QED
      BY <1>2, <3>2 DEF ResetEnds, SchedulesReset
  <2>2. sentAt' \in [Jobs -> [sent : BOOLEAN, tick : Nat]]
    <3>1. Never \in [sent : BOOLEAN, tick : Nat]
      BY DEF Never
    <3> QED
      BY <1>2, <3>1 DEF ResetEnds
  <2>3. CanTypeOK'
    BY <1>2, <2>1, <2>2 DEF ResetEnds, CanTypeOK, JobType
  <2>4. ClockTypeOK'
    BY <1>2 DEF ResetEnds, TimeReset, ClockTypeOK
  <2>5. RestTypeOK'
    BY <1>2 DEF ResetEnds, RestTypeOK
  <2> QED
    BY <1>2, <2>3, <2>4, <2>5, RespondType DEF ResetEnds
<1> QED
  BY <1>1, <1>2

(* The end of the daemon.                                                  *)
LEMMA CloseType ==
  ASSUME TypeInv,
         ActorReturns \/ CloseNext \/ CloseSent \/ CloseAwaitNext \/ EnvStops
  PROVE  TypeInv'
<1> USE EnvConstantFacts, Parts, Frame
<1>0. /\ next \in Nat /\ next > 0
      /\ next <= NumInstances => next \in Instances
  BY DEF ControlTypeOK, Instances
<1>1. ASSUME NEW to \in {"close", "closeWait", "stopped"}, Closing(to),
             next' \in 1 .. NumInstances + 1, WorkersTypeOK', SessionsTypeOK'
      PROVE  TypeInv'
  <2>1. ControlTypeOK' /\ FlowInv'
    BY <1>1 DEF Closing, ControlTypeOK, FlowInv, clock
  <2> QED
    BY <1>1, <2>1 DEF Closing
<1>2. ASSUME NEW i \in Instances, Kill(i) \/ UNCHANGED alive
      PROVE  alive' \in [Instances -> BOOLEAN]
  BY <1>2 DEF Kill, WorkersTypeOK
<1>3. CASE ActorReturns
  <2>1. WorkersTypeOK'
    BY <1>3 DEF ActorReturns, Closing, workerVars, instances
  <2>2. SessionsTypeOK'
    BY <1>3, EmptySeq DEF ActorReturns, Closing, QueuedDropped, SessionsTypeOK
  <2> QED
    BY <1>1, <1>3, <2>1, <2>2 DEF ActorReturns
<1>4. CASE CloseNext
  <2>1. next \in Instances /\ Closing("close") /\ SessionsTypeOK'
    BY <1>0, <1>4 DEF CloseNext, Closing, sessions
  <2>2. CASE Begin(next, "Close") /\ UNCHANGED alive
    <3>1. WorkersTypeOK'
      BY <2>1, <2>2, BeginType DEF Closing, instances, Ops
    <3> QED
      BY <1>0, <1>1, <1>4, <2>1, <3>1 DEF CloseNext
  <2>3. CASE Kill(next) /\ UNCHANGED workers
    <3>1. WorkersTypeOK'
      BY <1>2, <2>1, <2>3 DEF Closing, workers, WorkersTypeOK
    <3> QED
      BY <1>0, <1>1, <1>4, <2>1, <3>1 DEF CloseNext
  <2> QED
    BY <1>4, <2>2, <2>3 DEF CloseNext
<1>5. CASE CloseSent \/ EnvStops
  <2>1. WorkersTypeOK'
    BY <1>5 DEF CloseSent, EnvStops, Closing, workerVars, instances
  <2>2. SessionsTypeOK'
    BY <1>5 DEF CloseSent, EnvStops, Closing, sessions
  <2>3. next' \in 1 .. NumInstances + 1
    BY <1>5 DEF CloseSent, EnvStops, ControlTypeOK
  <2> QED
    BY <1>1, <1>5, <2>1, <2>2, <2>3 DEF CloseSent, EnvStops
<1>6. CASE CloseAwaitNext
  <2>1. next \in Instances /\ Closing("closeWait") /\ SessionsTypeOK'
    BY <1>0, <1>6 DEF CloseAwaitNext, Closing, sessions
  <2>2. alive' \in [Instances -> BOOLEAN]
    BY <1>2, <1>6, <2>1 DEF CloseAwaitNext
  <2>3. WorkersTypeOK'
    BY <1>6, <2>1, <2>2 DEF CloseAwaitNext, TakeReply, Closing, WorkersTypeOK
  <2> QED
    BY <1>0, <1>1, <1>6, <2>1, <2>3 DEF CloseAwaitNext
<1> QED
  BY <1>3, <1>4, <1>5, <1>6

LEMMA OthersType ==
  ASSUME TypeInv, OthersStep
  PROVE  TypeInv'
<1> USE Parts, Frame
<1>1. PICK i \in Instances :
        \/ (WorkerStep(i) \/ InstanceStep(i)) /\ UNCHANGED lost
        \/ DirectReset(i) /\ lost' = TRUE
  BY DEF OthersStep
<1>2. WorkersTypeOK'
  BY <1>1, WorkerStepType, InstanceStepType
<1>3. RestTypeOK'
  BY <1>1 DEF OthersStep, RestTypeOK
<1> QED
  BY <1>2, <1>3 DEF OthersStep, clock

LEMMA TypeInvStep == TypeInv /\ [Next]_vars => TypeInv'
<1> SUFFICES ASSUME TypeInv, [Next]_vars PROVE TypeInv'
  OBVIOUS
<1>1. CASE \E c \in Clients, r \in Requests : Issue(c, r)
  BY <1>1, IssueType
<1>2. CASE ActorStep
  BY <1>2, LoopType, AnsweredType, BegunType, ScheduleType, FanOutType,
     TickType, ReadDoneType, ResetType, CloseType DEF ActorStep, HandleRequest
<1>3. CASE OthersStep
  BY <1>3, OthersType
<1>4. CASE UNCHANGED vars
  BY <1>4, Frame, Parts DEF vars, clock
<1> QED
  BY <1>1, <1>2, <1>3, <1>4 DEF Next, Terminated

(* Every variable keeps to its range in every behaviour.                   *)
THEOREM TypeCorrect == Spec => []TypeOK
<1>1. TypeInv => TypeOK
  BY DEF TypeInv
<1> QED
  BY <1>1, InitTypeInv, TypeInvStep, PTL DEF Spec

-----------------------------------------------------------------------------
(* An instance whose answer the actor has taken has nothing left to do, and*)
(* a worker with nothing to do cannot fail: when every answer is in, every *)
(* worker is in order.                                                     *)

Settled(i) == queue[i] = <<>> /\ wstate[i] = "idle"

SettledInv ==
  /\ \A i \in Instances : reply[i] = "ok" => Settled(i)
  /\ apc \in {"await", "read", "readWait"} =>
       \A i \in Instances : i < next => Settled(i)

LEMMA WorkersSettled ==
  ASSUME WorkersTypeOK, NEW i \in Instances,
         WorkerStep(i) \/ InstanceStep(i) \/ DirectReset(i)
  PROVE  /\ \A k \in Instances : Settled(k) => Settled(k)'
         /\ \A k \in Instances : reply'[k] = "ok" =>
              reply[k] = "ok" \/ Settled(k)'
<1> USE DEF Settled, WorkersTypeOK
<1>1. CASE WorkerSend(i)
  BY <1>1 DEF WorkerSend, Answer
<1>2. CASE WorkerReceive(i)
  BY <1>2 DEF WorkerReceive, Answer
<1>3. CASE WorkerGivesUp(i)
  BY <1>3 DEF WorkerGivesUp, Answer
<1>4. CASE WorkerCloses(i)
  BY <1>4 DEF WorkerCloses
<1>5. CASE InstanceStep(i) \/ DirectReset(i)
  <2>1. UNCHANGED workers
    BY <1>5 DEF InstanceStep, InstanceExecutes, InstanceCrashes, DirectReset
  <2> QED
    BY <2>1 DEF workers
<1> QED
  BY <1>1, <1>2, <1>3, <1>4, <1>5 DEF WorkerStep

(* The actor settles no instance but by taking its answer, and unsettles   *)
(* none but by sending it a request.                                       *)
LEMMA ActorSettled ==
  ASSUME TypeInv, SettledInv, ActorStep
  PROVE  SettledInv'
<1> USE EnvConstantFacts, Parts DEF Settled
<1>0. /\ next \in Nat /\ next > 0
      /\ next <= NumInstances => next \in Instances
      /\ \A i \in Instances : i \in Nat
      /\ reply \in [Instances -> {"none", "pending", "ok", "err"}]
      /\ queue \in [Instances -> Seq(Ops)]
  <2>1. next \in Nat /\ next > 0 /\ (next <= NumInstances => next \in Instances)
    BY DEF ControlTypeOK, Instances
  <2>2. WorkersTypeOK
    BY Parts
  <2>3. /\ reply \in [Instances -> {"none", "pending", "ok", "err"}]
        /\ queue \in [Instances -> Seq(Ops)]
    BY <2>2 DEF WorkersTypeOK
  <2> QED
    BY <2>1, <2>3 DEF Instances
<1>1. ASSUME UNCHANGED workers,
             apc' \in {"await", "read", "readWait"} => next' = 1
      PROVE  SettledInv'
  BY <1>0, <1>1 DEF SettledInv, workers, Instances
<1>2. ASSUME DropReceivers, apc' \notin {"await", "read", "readWait"}
      PROVE  SettledInv'
  BY <1>2 DEF SettledInv, DropReceivers
<1>3. ASSUME NEW status, Respond(status), UNCHANGED workers
      PROVE  SettledInv'
  BY <1>1, <1>3 DEF Respond
<1>4. ASSUME Abandon
      PROVE  SettledInv'
  BY <1>2, <1>4 DEF Abandon, Respond
<1>5. CASE TakeRequest \/ BatchEnds \/ Wakes \/ TakeWallClockTicks
           \/ WallClockTicksDone \/ TimeStepDone
  BY <1>1, <1>3, <1>5
     DEF TakeRequest, BatchEnds, Wakes, TakeWallClockTicks, WallClockTicksDone,
         TimeStepDone, workerVars
<1>6. CASE HandleRequest
  <2>1. UNCHANGED workers
    BY <1>6
       DEF HandleRequest, HandleQuery, HandleTimeStart, HandleTimePause,
           HandleTimeStep, HandleReset, HandleTraceStart, HandleTraceStop,
           HandleGet, HandleClose, ScheduleAdd, ScheduleUpdate, ScheduleRemove,
           ScheduleStop, ScheduleStart, Schedules, workerVars
  <2>2. apc' \in {"await", "read", "readWait"} => next' = 1
    BY <1>6
       DEF HandleRequest, HandleQuery, HandleTimeStart, HandleTimePause,
           HandleTimeStep, HandleReset, HandleTraceStart, HandleTraceStop,
           HandleGet, HandleClose, ScheduleAdd, ScheduleUpdate, ScheduleRemove,
           ScheduleStop, ScheduleStart, Schedules, Respond, FanOut, ReadAll
  <2> QED
    BY <1>1, <2>1, <2>2
<1>7. CASE SendNext
  <2>1. Begin(next, call) /\ apc' = "send" /\ next \in Instances
    BY <1>0, <1>7 DEF SendNext, Fanning
  <2>2. \A i \in Instances \ {next} :
          reply'[i] = reply[i] /\ queue'[i] = queue[i] /\ wstate'[i] = wstate[i]
    BY <1>0, <2>1 DEF Begin
  <2>3. reply'[next] = "pending"
    BY <1>0, <2>1 DEF Begin
  <2> QED
    BY <2>1, <2>2, <2>3 DEF SettledInv
<1>8. CASE AllSent
  BY <1>1, <1>8 DEF AllSent
<1>9. CASE AwaitNext \/ ReadReply
  <2>1. /\ next \in Instances /\ reply[next] = "ok" /\ TakeReply(next)
        /\ next' = next + 1 /\ apc \in {"await", "readWait"}
    BY <1>0, <1>9 DEF AwaitNext, ReadReply, FlowInv
  <2>2. \A i \in Instances : i < next' => Settled(i)
    BY <1>0, <2>1 DEF SettledInv
  <2>3. \A i \in Instances : reply'[i] = "ok" => reply[i] = "ok"
    BY <1>0, <2>1 DEF TakeReply
  <2> QED
    BY <2>1, <2>2, <2>3 DEF SettledInv, TakeReply
<1>10. CASE ReadNext
  <2>1. Begin(next, "Read") /\ next' = next /\ apc = "read" /\ next \in Instances
    BY <1>0, <1>10 DEF ReadNext
  <2>2. \A i \in Instances \ {next} :
          reply'[i] = reply[i] /\ queue'[i] = queue[i] /\ wstate'[i] = wstate[i]
    BY <1>0, <2>1 DEF Begin
  <2>3. reply'[next] = "pending"
    BY <1>0, <2>1 DEF Begin
  <2> QED
    <3>1. ASSUME NEW i \in Instances \ {next}, Settled(i)
          PROVE  Settled(i)'
      BY <2>2, <3>1
    <3>2. ASSUME NEW i \in Instances, reply'[i] = "ok"
          PROVE  Settled(i)'
      <4>1. i # next
        BY <2>3, <3>2
      <4>2. Settled(i)
        BY <2>2, <3>2, <4>1 DEF SettledInv
      <4> QED
        BY <3>1, <4>1, <4>2
    <3>3. ASSUME NEW i \in Instances, i < next'
          PROVE  Settled(i)'
      <4>1. i < next /\ i # next
        BY <1>0, <2>1, <3>3
      <4>2. Settled(i)
        BY <2>1, <4>1 DEF SettledInv
      <4> QED
        BY <3>1, <4>1, <4>2
    <3> QED
      BY <3>2, <3>3 DEF SettledInv
<1>11. CASE WorkerRefuses \/ TickLosesBus \/ TickEndLosesBus \/ SampleNotWritten
  BY <1>4, <1>11 DEF WorkerRefuses, TickLosesBus, TickEndLosesBus, SampleNotWritten
<1>12. CASE TickBegins \/ TickSampled \/ ResetDiscards
  BY <1>1, <1>12
     DEF TickBegins, TickSampled, ResetDiscards, FanOut, ReadAll, workerVars
<1>13. CASE TickEnds \/ SampleWritten
  BY <1>1, <1>13 DEF TickEnds, SampleWritten, TimeAdvances, workerVars
<1>14. CASE GetDone \/ TraceStarts \/ ResetEnds
  BY <1>3, <1>14 DEF GetDone, TraceStarts, ReadDone, ResetEnds, workerVars
<1>15. CASE ActorReturns \/ CloseSent \/ EnvStops
  BY <1>1, <1>15 DEF ActorReturns, CloseSent, EnvStops, Closing
<1>16. CASE CloseNext
  <2>1. next \in Instances /\ apc' = "close"
    BY <1>0, <1>16 DEF CloseNext, Closing
  <2>2. CASE UNCHANGED workers
    BY <1>1, <2>1, <2>2
  <2>3. CASE Begin(next, "Close")
    <3>1. \A i \in Instances \ {next} :
            reply'[i] = reply[i] /\ queue'[i] = queue[i] /\ wstate'[i] = wstate[i]
      BY <1>0, <2>1, <2>3 DEF Begin
    <3>2. reply'[next] = "pending"
      BY <1>0, <2>1, <2>3 DEF Begin
    <3> QED
      BY <2>1, <3>1, <3>2 DEF SettledInv
  <2> QED
    BY <1>16, <2>2, <2>3 DEF CloseNext
<1>17. CASE CloseAwaitNext
  <2>1. TakeReply(next) /\ apc' = "closeWait"
    BY <1>17 DEF CloseAwaitNext, Closing
  <2>2. \A i \in Instances : reply'[i] = "ok" => reply[i] = "ok"
    BY <1>0, <2>1 DEF TakeReply
  <2> QED
    BY <2>1, <2>2 DEF SettledInv, TakeReply
<1> QED
  BY <1>5, <1>6, <1>7, <1>8, <1>9, <1>10, <1>11, <1>12, <1>13, <1>14, <1>15,
     <1>16, <1>17 DEF ActorStep

LEMMA SettledInvStep ==
  ASSUME TypeInv, SettledInv, [Next]_vars
  PROVE  SettledInv'
<1>1. CASE \E c \in Clients, r \in Requests : Issue(c, r)
  <2>1. UNCHANGED <<workerVars, control>>
    BY <1>1 DEF Issue
  <2> QED
    BY <2>1 DEF SettledInv, Settled, workerVars, workers, control
<1>2. CASE ActorStep
  BY <1>2, ActorSettled
<1>3. CASE OthersStep
  <2>1. PICK i \in Instances : WorkerStep(i) \/ InstanceStep(i) \/ DirectReset(i)
    BY <1>3 DEF OthersStep
  <2>2. UNCHANGED control
    BY <1>3 DEF OthersStep
  <2>3. /\ \A k \in Instances : Settled(k) => Settled(k)'
        /\ \A k \in Instances : reply'[k] = "ok" =>
             reply[k] = "ok" \/ Settled(k)'
    BY <2>1, WorkersSettled, Parts
  <2> QED
    BY <2>2, <2>3 DEF SettledInv, control
<1>4. CASE UNCHANGED vars
  BY <1>4 DEF vars, workerVars, workers, control, SettledInv, Settled
<1> QED
  BY <1>1, <1>2, <1>3, <1>4 DEF Next, Terminated

(* When the answers to a fan-out or to the reads are all in, no worker has *)
(* failed.                                                                 *)
LEMMA AnsweredNotFailed ==
  ASSUME TypeInv, SettledInv, NEW op, AllAnswered(op)
  PROVE  \A i \in Instances : ~Failed(i)
<1>1. next > NumInstances /\ apc \in {"await", "read"} /\ next \in Nat
  BY Parts, EnvConstantFacts DEF AllAnswered, ControlTypeOK
<1>2. \A i \in Instances : i < next
  BY <1>1, EnvConstantFacts DEF Instances
<1> QED
  BY <1>1, <1>2 DEF SettledInv, Settled, Failed

LEMMA TimeMoves ==
  ASSUME TypeInv, [Next]_vars, elapsed' # elapsed
  PROVE  TickEnds \/ SampleWritten \/ ResetEnds
<1>1. CASE \E c \in Clients, r \in Requests : Issue(c, r)
  BY <1>1 DEF Issue, clock
<1>2. CASE OthersStep \/ UNCHANGED vars
  BY <1>2 DEF OthersStep, vars, clock
<1>3. CASE ActorStep
  <2>1. CASE HandleRequest
    BY <2>1
       DEF HandleRequest, HandleQuery, HandleTimeStart, HandleTimePause,
           HandleTimeStep, HandleReset, HandleTraceStart, HandleTraceStop,
           HandleGet, HandleClose, ScheduleAdd, ScheduleUpdate, ScheduleRemove,
           ScheduleStop, ScheduleStart, Schedules, clock
  <2>2. CASE ~HandleRequest
    BY <1>3, <2>2
       DEF ActorStep, TakeRequest, BatchEnds, Wakes, TakeWallClockTicks,
           WallClockTicksDone, TimeStepDone, SendNext, AllSent, AwaitNext,
           ReadNext, ReadReply, Fanning, WorkerRefuses, Abandon, TickBegins,
           TickLosesBus, TickSampled, TickEndLosesBus, SampleNotWritten,
           GetDone, TraceStarts, ReadDone, ResetDiscards, ActorReturns,
           CloseNext, CloseSent, CloseAwaitNext, EnvStops, Closing, clock
  <2> QED
    BY <2>1, <2>2
<1> QED
  BY <1>1, <1>2, <1>3 DEF Next, Terminated

LEMMA SettledInductive == Spec => [](TypeInv /\ SettledInv)
<1>1. Init => SettledInv
  BY EnvConstantFacts DEF Init, WorkersInit, SettledInv
<1>2. TypeInv /\ SettledInv /\ [Next]_vars => (TypeInv /\ SettledInv)'
  BY TypeInvStep, SettledInvStep
<1> QED
  BY <1>1, <1>2, InitTypeInv, PTL DEF Spec

(* Once a worker has failed the env's time stands still for good: neither  *)
(* a tick nor a reset is completed without all of the instances.           *)
THEOREM FrozenForGood == Spec => FrozenAfterFailure
<1>1. TypeInv /\ SettledInv /\ [Next]_vars =>
        [(\E i \in Instances : Failed(i)) => elapsed' = elapsed]_vars
  <2> SUFFICES ASSUME TypeInv, SettledInv, [Next]_vars, elapsed' # elapsed
               PROVE  \A i \in Instances : ~Failed(i)
    OBVIOUS
  <2>1. TickEnds \/ SampleWritten \/ ResetEnds
    BY TimeMoves
  <2>2. AllAnswered("Step") \/ AllAnswered("Sample") \/ AllAnswered("Discard")
    BY <2>1 DEF TickEnds, SampleWritten, ResetEnds
  <2> QED
    BY <2>2, AnsweredNotFailed
<1> QED
  BY <1>1, SettledInductive, PTL DEF Spec, FrozenAfterFailure

-----------------------------------------------------------------------------
(* The schedules.                                                          *)

LEMMA JobChangeFields ==
  ASSUME NEW job \in JobType, NEW n \in Nat, NEW tick \in Nat
  PROVE  /\ [job EXCEPT !.due = tick].present <=> job.present
         /\ [job EXCEPT !.due = tick].enabled <=> job.enabled
         /\ [job EXCEPT !.due = tick].every = job.every
         /\ [job EXCEPT !.due = tick].due = tick
         /\ [job EXCEPT !.every = n, !.due = tick].every = n
         /\ [job EXCEPT !.every = n, !.due = tick].due = tick
         /\ \A b \in BOOLEAN :
              /\ [job EXCEPT !.enabled = b].present <=> job.present
              /\ [job EXCEPT !.enabled = b].every = job.every
              /\ [job EXCEPT !.enabled = b].due = job.due
BY DEF JobType

(* A schedule that is there has a period, its next frame is within it, and *)
(* not within a period of the last one sent.                               *)
JobInv(j) ==
  jobs[j].present =>
    /\ jobs[j].every > 0
    /\ jobs[j].due <= elapsed + jobs[j].every
    /\ sentAt[j].sent => sentAt[j].tick + jobs[j].every <= jobs[j].due

(* Once the frames of a tick are sent, none is due in it.                  *)
TickSentInv ==
  apc \in {"send", "await", "read", "readWait"} /\ call \in {"Step", "Sample"} =>
    \A j \in Jobs : jobs[j].present /\ jobs[j].enabled => jobs[j].due > elapsed

SchedulesInv ==
  /\ \A j \in Jobs : JobInv(j)
  /\ TickSentInv
  /\ ~early

ScheduleRequest ==
  \/ ScheduleAdd \/ ScheduleUpdate \/ ScheduleRemove
  \/ ScheduleStop \/ ScheduleStart

LEMMA JobTypes ==
  ASSUME TypeInv
  PROVE  /\ jobs \in [Jobs -> JobType]
         /\ sentAt \in [Jobs -> [sent : BOOLEAN, tick : Nat]]
         /\ elapsed \in Nat
         /\ \A j \in Jobs : /\ jobs[j].every \in Nat /\ jobs[j].due \in Nat
                            /\ jobs[j].present \in BOOLEAN
                            /\ sentAt[j].tick \in Nat
<1>1. /\ jobs \in [Jobs -> JobType]
      /\ sentAt \in [Jobs -> [sent : BOOLEAN, tick : Nat]]
      /\ elapsed \in Nat
  BY Parts DEF CanTypeOK, JobType, ClockTypeOK
<1> QED
  BY <1>1 DEF JobType

LEMMA SchedulesJobInv ==
  ASSUME TypeInv, \A j \in Jobs : JobInv(j), ScheduleRequest
  PROVE  \A j \in Jobs : JobInv(j)'
<1> USE JobTypes
<1>0. ASSUME NEW kind \in {"Add", "Update", "Remove", "Stop", "Start"},
             Handling(kind)
      PROVE  /\ serving \in Messages /\ serving.job \in Jobs /\ serving.n \in Nat
             /\ kind \in {"Add", "Update"} => serving.n > 0
  <2>1. serving \in Messages /\ serving.kind = kind
    BY <1>0, Parts DEF Handling, ControlTypeOK, WallClock
  <2> QED
    BY <2>1, MessageFacts
<1>1. ASSUME NEW kind \in {"Add", "Update", "Remove", "Stop", "Start"},
             NEW allowed, NEW job, Schedules(kind, allowed, job)
      PROVE  /\ elapsed' = elapsed /\ serving.job \in Jobs
             /\ \A j \in Jobs \ {serving.job} : jobs'[j] = jobs[j]
             /\ ~allowed => jobs' = jobs
             /\ allowed => jobs'[serving.job] = job
  <2>1. serving.job \in Jobs /\ elapsed' = elapsed
    BY <1>0, <1>1 DEF Schedules, clock
  <2>2. IF allowed THEN jobs' = [jobs EXCEPT ![serving.job] = job] ELSE jobs' = jobs
    BY <1>1 DEF Schedules
  <2> QED
    BY <2>1, <2>2
<1>2. ASSUME NEW allowed, PeriodBegins(allowed)
      PROVE  /\ \A j \in Jobs \ {serving.job} : sentAt'[j] = sentAt[j]
             /\ ~allowed => sentAt' = sentAt
             /\ allowed /\ serving.job \in Jobs => ~sentAt'[serving.job].sent
  BY <1>2 DEF PeriodBegins, Never
<1>3. CASE ScheduleAdd
  <2>1. Handling("Add")
    BY <1>3 DEF ScheduleAdd, Schedules
  <2> DEFINE job == [present |-> TRUE, enabled |-> TRUE, every |-> serving.n,
                     due |-> elapsed]
  <2>2. serving.n > 0 /\ serving.n \in Nat
    BY <1>0, <2>1
  <2>3. job.every = serving.n /\ job.due = elapsed
    OBVIOUS
  <2>4. Schedules("Add", ~Named.present, job) /\ PeriodBegins(~Named.present)
    BY <1>3 DEF ScheduleAdd
  <2> HIDE DEF job
  <2> QED
    BY <1>1, <1>2, <2>2, <2>3, <2>4 DEF JobInv
<1>4. CASE ScheduleUpdate
  <2>1. Handling("Update")
    BY <1>4 DEF ScheduleUpdate, Schedules
  <2> DEFINE job == [Named EXCEPT !.every = serving.n, !.due = elapsed]
  <2>2. serving.n > 0 /\ serving.n \in Nat /\ Named \in JobType
    BY <1>0, <2>1 DEF Named
  <2>3. job.every = serving.n /\ job.due = elapsed
    BY <2>2, JobChangeFields
  <2>4. Schedules("Update", Named.present, job) /\ PeriodBegins(Named.present)
    BY <1>4 DEF ScheduleUpdate
  <2> HIDE DEF job
  <2> QED
    BY <1>1, <1>2, <2>2, <2>3, <2>4 DEF JobInv
<1>5. CASE ScheduleRemove
  <2>1. Schedules("Remove", Named.present, NoJob) /\ PeriodBegins(Named.present)
    BY <1>5 DEF ScheduleRemove
  <2>2. ~NoJob.present
    BY DEF NoJob
  <2> QED
    BY <1>1, <1>2, <2>1, <2>2 DEF JobInv
<1>6. ASSUME NEW b \in BOOLEAN, NEW kind \in {"Stop", "Start"},
             Schedules(kind, Named.present, [Named EXCEPT !.enabled = b]),
             UNCHANGED sentAt
      PROVE  \A j \in Jobs : JobInv(j)'
  <2> DEFINE job == [Named EXCEPT !.enabled = b]
  <2>1. serving.job \in Jobs /\ Named \in JobType
    BY <1>0, <1>6 DEF Schedules, Named
  <2>2. (job.present <=> Named.present) /\ job.every = Named.every /\ job.due = Named.due
    BY <2>1, JobChangeFields
  <2>3. Schedules(kind, Named.present, job)
    BY <1>6
  <2> HIDE DEF job
  <2> QED
    BY <1>1, <1>6, <2>1, <2>2, <2>3 DEF JobInv, Named
<1> QED
  BY <1>3, <1>4, <1>5, <1>6 DEF ScheduleRequest, ScheduleStop, ScheduleStart

(* Sending the frames of jobs that are due.                                *)
LEMMA SendJobsInv ==
  ASSUME TypeInv, \A j \in Jobs : JobInv(j), ~early,
         NEW S \in SUBSET DueJobs, SendJobs(S), UNCHANGED elapsed
  PROVE  /\ \A j \in Jobs : JobInv(j)'
         /\ ~early'
         /\ \A j \in S : jobs'[j].due > elapsed
         /\ \A j \in Jobs \ S : jobs'[j] = jobs[j]
<1>0. /\ jobs \in [Jobs -> JobType] /\ elapsed \in Nat
      /\ \A j \in Jobs : /\ jobs[j].every \in Nat /\ jobs[j].due \in Nat
                         /\ sentAt[j].tick \in Nat
  BY JobTypes
<1>1. \A j \in S : j \in Jobs /\ jobs[j].present /\ jobs[j].due <= elapsed
  BY DEF DueJobs
<1>2. ASSUME NEW j \in Jobs \ S
      PROVE  jobs'[j] = jobs[j] /\ sentAt'[j] = sentAt[j]
  BY DEF SendJobs
<1>3. ASSUME NEW j \in S
      PROVE  /\ NextDue(j) = elapsed + jobs[j].every /\ jobs[j].every > 0
             /\ sentAt[j].sent => sentAt[j].tick + jobs[j].every <= elapsed
  <2>1. j \in Jobs /\ jobs[j].present /\ jobs[j].due <= elapsed /\ JobInv(j)
    BY <1>1
  <2>2. jobs[j].every \in Nat /\ jobs[j].due \in Nat /\ sentAt[j].tick \in Nat
    BY <1>0, <2>1
  <2> QED
    BY <1>0, <2>1, <2>2 DEF NextDue, Greatest, JobInv
<1>4. ASSUME NEW j \in S
      PROVE  JobInv(j)' /\ jobs'[j].due > elapsed
  <2>0. j \in Jobs /\ jobs[j] \in JobType /\ jobs[j].every \in Nat
    BY <1>0, <1>1
  <2>1. jobs'[j] = [jobs[j] EXCEPT !.due = NextDue(j)]
    BY <2>0 DEF SendJobs
  <2>2. NextDue(j) \in Nat
    BY <1>0, <1>3, <2>0
  <2>3. jobs'[j].every = jobs[j].every /\ jobs'[j].due = NextDue(j)
    BY <2>0, <2>1, <2>2, JobChangeFields
  <2>4. sentAt'[j].tick = elapsed
    <3>1. sentAt'[j] = [sent |-> TRUE, tick |-> elapsed]
      BY <2>0 DEF SendJobs
    <3> QED
      BY <3>1
  <2> QED
    BY <1>0, <1>3, <2>0, <2>3, <2>4 DEF JobInv
<1>5. ASSUME NEW j \in Jobs \ S
      PROVE  JobInv(j)'
  BY <1>2, <1>5 DEF JobInv
<1>6. ~early'
  <2>1. \A j \in S : ~(sentAt[j].sent /\ elapsed < sentAt[j].tick + jobs[j].every)
    <3> SUFFICES ASSUME NEW j \in S
                 PROVE  ~(sentAt[j].sent /\ elapsed < sentAt[j].tick + jobs[j].every)
      OBVIOUS
    <3>1. j \in Jobs /\ sentAt[j].tick \in Nat /\ jobs[j].every \in Nat
      BY <1>0, <1>1
    <3>2. sentAt[j].sent => sentAt[j].tick + jobs[j].every <= elapsed
      BY <1>3
    <3> QED
      BY <1>0, <3>1, <3>2
  <2> QED
    BY <2>1 DEF SendJobs
<1> QED
  BY <1>2, <1>4, <1>5, <1>6

(* The actions that change the schedules or what is known of their frames. *)
LEMMA SchedulesMove ==
  ASSUME [Next]_vars, ~UNCHANGED canBus
  PROVE  ScheduleRequest \/ TickBegins \/ TickLosesBus \/ ResetEnds
<1>1. CASE \E c \in Clients, r \in Requests : Issue(c, r)
  BY <1>1 DEF Issue
<1>2. CASE OthersStep \/ UNCHANGED vars
  BY <1>2 DEF OthersStep, vars
<1>3. CASE ActorStep
  <2>1. CASE HandleRequest
    BY <2>1
       DEF HandleRequest, HandleQuery, HandleTimeStart, HandleTimePause,
           HandleTimeStep, HandleReset, HandleTraceStart, HandleTraceStop,
           HandleGet, HandleClose, ScheduleRequest
  <2>2. CASE ~HandleRequest
    BY <1>3, <2>2
       DEF ActorStep, TakeRequest, BatchEnds, Wakes, TakeWallClockTicks,
           WallClockTicksDone, TimeStepDone, SendNext, AllSent, AwaitNext,
           ReadNext, ReadReply, Fanning, WorkerRefuses, TickSampled, TickEnds,
           TickEndLosesBus, SampleWritten, SampleNotWritten, GetDone,
           TraceStarts, ReadDone, ResetDiscards, ActorReturns, CloseNext,
           CloseSent, CloseAwaitNext, EnvStops, Closing
  <2> QED
    BY <2>1, <2>2
<1> QED
  BY <1>1, <1>2, <1>3 DEF Next, Terminated

(* A tick that is being made was begun with its frames, and nothing of that*)
(* changes before time moves.                                              *)
LEMMA TickInProgress ==
  ASSUME [Next]_vars,
         apc' \in {"send", "await", "read", "readWait"},
         call' \in {"Step", "Sample"}, ~TickBegins
  PROVE  /\ apc \in {"send", "await", "read", "readWait"}
         /\ call \in {"Step", "Sample"}
         /\ UNCHANGED <<elapsed, canBus>>
<1>1. CASE \E c \in Clients, r \in Requests : Issue(c, r)
  BY <1>1 DEF Issue, clock, control
<1>2. CASE OthersStep \/ UNCHANGED vars
  BY <1>2 DEF OthersStep, vars, clock, control
<1>3. CASE ActorStep
  <2>1. ~HandleRequest
    BY DEF HandleRequest, HandleQuery, HandleTimeStart, HandleTimePause,
           HandleTimeStep, HandleReset, HandleTraceStart, HandleTraceStop,
           HandleGet, HandleClose, ScheduleAdd, ScheduleUpdate, ScheduleRemove,
           ScheduleStop, ScheduleStart, Schedules, Respond, FanOut, ReadAll
  <2>2. SendNext \/ AllSent \/ AwaitNext \/ ReadNext \/ ReadReply \/ TickSampled
    BY <1>3, <2>1
       DEF ActorStep, TakeRequest, BatchEnds, Wakes, TakeWallClockTicks,
           WallClockTicksDone, TimeStepDone, WorkerRefuses, Abandon, Respond,
           TickLosesBus, TickEnds, TimeAdvances, TickEndLosesBus,
           SampleWritten, SampleNotWritten, GetDone, TraceStarts, ResetDiscards,
           FanOut, ResetEnds, ActorReturns, CloseNext, CloseSent,
           CloseAwaitNext, EnvStops, Closing
  <2> QED
    BY <2>2 DEF SendNext, AllSent, AwaitNext, ReadNext, ReadReply, Fanning,
                TickSampled, AllAnswered, clock
<1> QED
  BY <1>1, <1>2, <1>3 DEF Next, Terminated

LEMMA TimeMovesOn ==
  ASSUME TypeInv, [Next]_vars, ~ResetEnds
  PROVE  elapsed' = elapsed \/ elapsed' = elapsed + 1
BY TimeMoves DEF TickEnds, SampleWritten, TimeAdvances

LEMMA SchedulesInvStep ==
  ASSUME TypeInv, SchedulesInv, [Next]_vars
  PROVE  SchedulesInv'
<1>0. /\ elapsed \in Nat
      /\ jobs \in [Jobs -> JobType]
      /\ \A j \in Jobs : /\ jobs[j].every \in Nat /\ jobs[j].due \in Nat
                         /\ sentAt[j].tick \in Nat
      /\ \A j \in Jobs : JobInv(j)
      /\ ~early
  BY JobTypes DEF SchedulesInv
<1>1. ASSUME ~TickBegins, \A j \in Jobs : JobInv(j)', ~early'
      PROVE  SchedulesInv'
  <2>1. TickSentInv'
    BY <1>1, TickInProgress DEF SchedulesInv, TickSentInv, canBus
  <2> QED
    BY <1>1, <2>1 DEF SchedulesInv
<1>2. CASE ResetEnds
  <2>1. /\ elapsed' = 0 /\ early' = early
        /\ \A j \in Jobs : /\ jobs'[j] = [jobs[j] EXCEPT !.due = 0]
                           /\ ~sentAt'[j].sent
    BY <1>2 DEF ResetEnds, TimeReset, SchedulesReset, Never
  <2>2. ASSUME NEW j \in Jobs
        PROVE  JobInv(j)'
    <3>1. jobs'[j] = [jobs[j] EXCEPT !.due = 0] /\ jobs[j] \in JobType
      BY <1>0, <2>1
    <3>2. /\ jobs'[j].present <=> jobs[j].present
          /\ jobs'[j].every = jobs[j].every /\ jobs'[j].due = 0
      BY <3>1, JobChangeFields
    <3>3. JobInv(j) /\ jobs[j].every \in Nat /\ ~sentAt'[j].sent /\ elapsed' = 0
      BY <1>0, <2>1
    <3> QED
      BY <3>2, <3>3 DEF JobInv
  <2>3. ~TickBegins
    BY <1>2 DEF ResetEnds, AllAnswered, TickBegins
  <2> QED
    BY <1>0, <1>1, <2>1, <2>2, <2>3
<1>3. CASE TickBegins
  <2>1. SendJobs(DueJobs) /\ UNCHANGED elapsed
    BY <1>3 DEF TickBegins, clock
  <2>2. /\ \A j \in Jobs : JobInv(j)'
        /\ ~early'
        /\ \A j \in DueJobs : jobs'[j].due > elapsed
        /\ \A j \in Jobs \ DueJobs : jobs'[j] = jobs[j]
    BY <1>0, <2>1, SendJobsInv
  <2>3. \A j \in Jobs \ DueJobs :
          jobs[j].present /\ jobs[j].enabled => jobs[j].due > elapsed
    BY <1>0 DEF DueJobs
  <2>4. TickSentInv'
    BY <2>1, <2>2, <2>3 DEF TickSentInv
  <2> QED
    BY <2>2, <2>4 DEF SchedulesInv
<1>4. CASE TickLosesBus
  <2>1. PICK S \in SUBSET DueJobs : SendJobs(S)
    <3>1. {} \in SUBSET DueJobs
          /\ \A j \in DueJobs : {k \in DueJobs : k < j} \in SUBSET DueJobs
      OBVIOUS
    <3> QED
      BY <1>4, <3>1 DEF TickLosesBus
  <2>2. UNCHANGED elapsed
    BY <1>4 DEF TickLosesBus, Abandon, clock
  <2>3. ~TickBegins
    BY <1>4 DEF TickLosesBus, Abandon, Respond, TickBegins, FanOut
  <2> QED
    BY <1>0, <1>1, <2>1, <2>2, <2>3, SendJobsInv
<1>5. CASE ScheduleRequest
  <2>1. \A j \in Jobs : JobInv(j)'
    BY <1>0, <1>5, SchedulesJobInv
  <2>2. early' = early /\ ~TickBegins
    BY <1>5
       DEF ScheduleRequest, ScheduleAdd, ScheduleUpdate, ScheduleRemove,
           ScheduleStop, ScheduleStart, PeriodBegins, Schedules, Handling,
           TickBegins
  <2> QED
    BY <1>0, <1>1, <2>1, <2>2
<1>6. CASE ~(ScheduleRequest \/ TickBegins \/ TickLosesBus \/ ResetEnds)
  <2>1. UNCHANGED canBus
    BY <1>6, SchedulesMove
  <2>2. elapsed' = elapsed \/ elapsed' = elapsed + 1
    BY <1>6, TimeMovesOn
  <2>3. \A j \in Jobs : JobInv(j)'
    BY <1>0, <2>1, <2>2 DEF JobInv, canBus
  <2>4. ~early'
    BY <1>0, <2>1 DEF canBus
  <2> QED
    BY <1>1, <1>6, <2>3, <2>4
<1> QED
  BY <1>2, <1>3, <1>4, <1>5, <1>6

LEMMA SchedulesInductive == Spec => [](TypeInv /\ SchedulesInv)
<1>1. Init => SchedulesInv
  BY DEF Init, NoJob, Never, SchedulesInv, JobInv, TickSentInv
<1>2. TypeInv /\ SchedulesInv /\ [Next]_vars => (TypeInv /\ SchedulesInv)'
  BY TypeInvStep, SchedulesInvStep
<1> QED
  BY <1>1, <1>2, InitTypeInv, PTL DEF Spec

(* The next frame of a schedule is at most one period away, also after a   *)
(* reset of the clock and after a change of the period.                    *)
THEOREM NextFrameWithinPeriod == Spec => []JobWithinPeriod
<1>1. SchedulesInv => JobWithinPeriod
  BY DEF SchedulesInv, JobInv, JobWithinPeriod
<1> QED
  BY <1>1, SchedulesInductive, PTL

(* No schedule sends two frames within one of its periods, whatever fails  *)
(* in the ticks.                                                           *)
THEOREM FramesSpaced == Spec => []JobsKeepTheirPeriod
<1>1. SchedulesInv => JobsKeepTheirPeriod
  BY DEF SchedulesInv, JobsKeepTheirPeriod
<1> QED
  BY <1>1, SchedulesInductive, PTL

(* Time does not move over a tick whose frames were not all sent.          *)
THEOREM FramesNotMissed == Spec => NoJobMissed
<1>1. TypeInv /\ SchedulesInv /\ [Next]_vars =>
        [elapsed' = elapsed + 1 =>
           \A j \in Jobs : jobs[j].present /\ jobs[j].enabled
                             => jobs[j].due > elapsed]_vars
  <2> SUFFICES ASSUME TypeInv, SchedulesInv, [Next]_vars, elapsed' = elapsed + 1
               PROVE  \A j \in Jobs : jobs[j].present /\ jobs[j].enabled
                                        => jobs[j].due > elapsed
    OBVIOUS
  <2>1. elapsed \in Nat /\ elapsed' # elapsed /\ elapsed' # 0
    BY Parts DEF ClockTypeOK
  <2>2. TickEnds \/ SampleWritten
    BY <2>1, TimeMoves DEF ResetEnds, TimeReset
  <2>3. AllAnswered("Step") \/ AllAnswered("Sample")
    BY <2>2 DEF TickEnds, SampleWritten
  <2> QED
    BY <2>3 DEF AllAnswered, SchedulesInv, TickSentInv
<1> QED
  BY <1>1, SchedulesInductive, PTL DEF Spec, NoJobMissed

-----------------------------------------------------------------------------
(* The trace.                                                              *)

(* The next sample of an active trace is ahead, a period after the last.   *)
TraceInv == trace.active => trace.period > 0 /\ elapsed < trace.due

LEMMA TraceMoves ==
  ASSUME [Next]_vars, trace' # trace
  PROVE  HandleTraceStop \/ SampleWritten \/ TraceStarts
<1>1. CASE \E c \in Clients, r \in Requests : Issue(c, r)
  BY <1>1 DEF Issue, tracing
<1>2. CASE OthersStep \/ UNCHANGED vars
  BY <1>2 DEF OthersStep, vars, tracing
<1>3. CASE ActorStep
  <2>1. CASE HandleRequest
    BY <2>1
       DEF HandleRequest, HandleQuery, HandleTimeStart, HandleTimePause,
           HandleTimeStep, HandleReset, HandleTraceStart, HandleGet,
           HandleClose, ScheduleAdd, ScheduleUpdate, ScheduleRemove,
           ScheduleStop, ScheduleStart, Schedules, tracing
  <2>2. CASE ~HandleRequest
    BY <1>3, <2>2
       DEF ActorStep, TakeRequest, BatchEnds, Wakes, TakeWallClockTicks,
           WallClockTicksDone, TimeStepDone, SendNext, AllSent, AwaitNext,
           ReadNext, ReadReply, Fanning, WorkerRefuses, Abandon, TickBegins,
           TickLosesBus, TickSampled, TickEnds, TickEndLosesBus,
           SampleNotWritten, GetDone, ReadDone, ResetDiscards, ResetEnds,
           ActorReturns, CloseNext, CloseSent, CloseAwaitNext, EnvStops,
           Closing, tracing
  <2> QED
    BY <2>1, <2>2
<1> QED
  BY <1>1, <1>2, <1>3 DEF Next, Terminated

LEMMA TraceInvStep ==
  ASSUME TypeInv, TraceInv, [Next]_vars
  PROVE  TraceInv'
<1>0. /\ elapsed \in Nat /\ trace.due \in Nat /\ trace.period \in Nat
      /\ trace \in [active : BOOLEAN, period : Nat, due : Nat]
  BY Parts DEF ClockTypeOK, TraceTypeOK
<1>1. CASE HandleTraceStop
  <2>1. trace' = trace \/ ~trace'.active
    BY <1>1 DEF HandleTraceStop, NoTrace
  <2>2. elapsed' = elapsed
    BY <1>1 DEF HandleTraceStop, clock
  <2> QED
    BY <2>1, <2>2 DEF TraceInv
<1>2. CASE SampleWritten
  <2>1. trace' = [trace EXCEPT !.due = NextSample] /\ elapsed' = elapsed + 1
    BY <1>2 DEF SampleWritten, TimeAdvances
  <2>2. NextSample = elapsed + 1 + trace.period
    BY DEF NextSample, SampleTick
  <2>3. /\ trace'.due = NextSample /\ trace'.period = trace.period
        /\ trace'.active <=> trace.active
    BY <1>0, <2>1
  <2> QED
    BY <1>0, <2>1, <2>2, <2>3 DEF TraceInv
<1>3. CASE TraceStarts
  <2>1. serving \in Messages /\ serving.kind = "TraceStart"
    BY <1>3, Parts DEF TraceStarts, ReadDone, ControlTypeOK, WallClock
  <2>2. serving.n > 0 /\ serving.n \in Nat
    BY <2>1, MessageFacts
  <2>3. elapsed' = elapsed
    BY <1>3 DEF TraceStarts, ReadDone, clock
  <2>4. \/ trace' = trace
        \/ trace' = [active |-> TRUE, period |-> serving.n,
                      due |-> elapsed + serving.n]
    BY <1>3 DEF TraceStarts, tracing
  <2>5. \/ trace' = trace
        \/ trace'.period = serving.n /\ trace'.due = elapsed + serving.n
    BY <2>4
  <2> QED
    BY <1>0, <2>2, <2>3, <2>5 DEF TraceInv
<1>4. CASE ~(HandleTraceStop \/ SampleWritten \/ TraceStarts)
  <2>1. trace' = trace
    BY <1>4, TraceMoves
  <2>2. elapsed' # elapsed => TickEnds \/ ResetEnds
    BY <1>4, TimeMoves
  <2>3. TickEnds => elapsed' = elapsed + 1 /\ (trace.active => elapsed + 1 < trace.due)
    BY <1>0 DEF TickEnds, TimeAdvances, SampleDue, SampleTick
  <2>4. ResetEnds => elapsed' = 0
    BY DEF ResetEnds, TimeReset
  <2> QED
    BY <1>0, <2>1, <2>2, <2>3, <2>4 DEF TraceInv
<1> QED
  BY <1>1, <1>2, <1>3, <1>4

(* Between two operations an active trace is never behind its schedule.    *)
THEOREM SamplesOnTime == Spec => []TraceNotOverdue
<1>1. Init => TraceInv
  BY DEF Init, NoTrace, TraceInv
<1>2. TypeInv /\ TraceInv /\ [Next]_vars => (TypeInv /\ TraceInv)'
  BY TypeInvStep, TraceInvStep
<1>3. TraceInv => TraceNotOverdue
  BY DEF TraceInv, TraceNotOverdue
<1> QED
  BY <1>1, <1>2, <1>3, InitTypeInv, PTL DEF Spec

-----------------------------------------------------------------------------
(* The requests and their answers.                                         *)

(* Where the actor serves no client.                                       *)
Between == {"batch", "poll", "select", "stopping", "close", "closeWait", "stopped"}

(* Where a request is carried out tick by tick.                            *)
Ticking == {"tick", "send", "await", "read", "readWait"}

(* A client has one request in flight: queued once, or served, and it waits*)
(* for as long as it is either.                                            *)
WaitingInv ==
  /\ apc \in Between => serving = WallClock
  /\ apc \in {"send", "await"} /\ call \in {"Reset", "Discard"} => serving # WallClock
  /\ serving # WallClock => answer[serving.client] = "waiting"
  /\ \A k \in 1 .. Len(requests) :
       /\ answer[requests[k].client] = "waiting"
       /\ serving # WallClock => requests[k].client # serving.client
       /\ \A j \in 1 .. Len(requests) :
            j # k => requests[j].client # requests[k].client

(* What a step request has still to make, and what it has made.            *)
StepCountInv ==
  apc \in Ticking /\ serving.kind = "TimeStep" => elapsed + todo = base + serving.n

(* Of an env that is to stop: the actor finishes its batch and makes no    *)
(* tick, and a step that is served there stays where it begins.            *)
ShutdownInv ==
  shutdown =>
    /\ apc \notin {"poll", "select"}
    /\ apc = "tick" => serving # WallClock
    /\ apc \in {"send", "await", "read", "readWait"} => call \notin {"Step", "Sample"}
    /\ serving.kind = "TimeStep" =>
         turn = "batch" /\ apc \in {"handle", "tick"} /\ (apc = "tick" => elapsed = base)

(* The steps by what they do to the requests.                              *)
LEMMA ServingMoves ==
  ASSUME WaitingInv, [Next]_vars
  PROVE  \/ \E c \in Clients, r \in Requests : Issue(c, r)
         \/ TakeRequest
         \/ serving # WallClock /\ \E status \in {"ok", "err"} : Respond(status)
         \/ ActorReturns
         \/ /\ UNCHANGED <<serving, sessions>>
            /\ apc' \in Between => apc \in Between \/ serving = WallClock
            /\ apc' \in {"send", "await"} /\ call' \in {"Reset", "Discard"}
                 => serving # WallClock
<1> USE DEF Between, WaitingInv
<1>w. WallClock.kind = "WallClock"
  BY DEF WallClock
<1>1. CASE OthersStep \/ UNCHANGED vars
  BY <1>1 DEF OthersStep, vars, control
<1>2. CASE HandleRequest
  <2>1. apc = "handle" /\ serving # WallClock
    BY <1>w, <1>2
       DEF HandleRequest, HandleQuery, HandleTimeStart, HandleTimePause,
           HandleTimeStep, HandleReset, HandleTraceStart, HandleTraceStop,
           HandleGet, HandleClose, ScheduleAdd, ScheduleUpdate, ScheduleRemove,
           ScheduleStop, ScheduleStart, Schedules, Handling
  <2>2. \/ \E status \in {"ok", "err"} : Respond(status)
        \/ UNCHANGED <<serving, sessions>> /\ apc' \in {"tick", "read", "send"}
    BY <1>2
       DEF HandleRequest, HandleQuery, HandleTimeStart, HandleTimePause,
           HandleTimeStep, HandleReset, HandleTraceStart, HandleTraceStop,
           HandleGet, HandleClose, ScheduleAdd, ScheduleUpdate, ScheduleRemove,
           ScheduleStop, ScheduleStart, Schedules, FanOut, ReadAll
  <2> QED
    BY <2>1, <2>2
<1>3. CASE WorkerRefuses \/ TickLosesBus \/ TickEndLosesBus \/ SampleNotWritten
  <2>1. Abandon
    BY <1>3 DEF WorkerRefuses, TickLosesBus, TickEndLosesBus, SampleNotWritten
  <2>2. CASE serving = WallClock
    BY <2>1, <2>2 DEF Abandon
  <2>3. CASE serving # WallClock
    BY <2>1, <2>3 DEF Abandon
  <2> QED
    BY <2>2, <2>3
<1>4. CASE SendNext \/ AllSent \/ AwaitNext \/ ReadNext \/ ReadReply
  BY <1>4 DEF SendNext, AllSent, AwaitNext, ReadNext, ReadReply, Fanning
<1>5. CASE TimeStepDone
  BY <1>5 DEF TimeStepDone
<1>6. CASE ResetEnds
  <2>1. apc = "await" /\ call = "Discard"
    BY <1>6 DEF ResetEnds, AllAnswered
  <2> QED
    BY <1>6, <2>1 DEF ResetEnds
<1>7. CASE GetDone \/ TraceStarts
  <2>1. serving # WallClock
    BY <1>w, <1>7 DEF GetDone, TraceStarts, ReadDone
  <2>2. \E status \in {"ok", "err"} : Respond(status)
    BY <1>7 DEF GetDone, TraceStarts
  <2> QED
    BY <2>1, <2>2
<1>8. CASE BatchEnds \/ Wakes \/ TakeWallClockTicks \/ WallClockTicksDone
  BY <1>8 DEF BatchEnds, Wakes, TakeWallClockTicks, WallClockTicksDone
<1>9. CASE TickBegins \/ TickSampled \/ TickEnds \/ SampleWritten
  BY <1>9 DEF TickBegins, FanOut, TickSampled, ReadAll, TickEnds, SampleWritten,
              TimeAdvances
<1>10. CASE ResetDiscards
  <2>1. apc = "await" /\ call = "Reset"
    BY <1>10 DEF ResetDiscards, AllAnswered
  <2> QED
    BY <1>10, <2>1 DEF ResetDiscards, FanOut
<1>11. CASE CloseNext \/ CloseSent \/ CloseAwaitNext \/ EnvStops
  BY <1>11 DEF CloseNext, CloseSent, CloseAwaitNext, EnvStops, Closing, sessions
<1> QED
  BY <1>1, <1>2, <1>3, <1>4, <1>5, <1>6, <1>7, <1>8, <1>9, <1>10, <1>11
     DEF Next, ActorStep, Terminated

LEMMA WaitingInvStep ==
  ASSUME TypeInv, WaitingInv, [Next]_vars
  PROVE  WaitingInv'
<1>0. /\ requests \in Seq(Messages)
      /\ answer \in [Clients -> {"idle", "waiting", "ok", "err", "unavailable"}]
      /\ serving \in Messages \cup {WallClock}
      /\ \A k \in 1 .. Len(requests) : requests[k] \in Messages
  BY Parts, ElementOfSeq DEF SessionsTypeOK, ControlTypeOK
<1>1. ASSUME NEW c \in Clients, NEW r \in Requests, Issue(c, r)
      PROVE  WaitingInv'
  <2>1. UNCHANGED <<apc, call, serving>> /\ answer[c] # "waiting"
    BY <1>1 DEF Issue, control
  <2>2. CASE Stopped
    <3>1. /\ requests' = requests
          /\ answer' = [answer EXCEPT ![c] = "unavailable"]
      BY <1>1, <2>2 DEF Issue
    <3> QED
      BY <1>0, <2>1, <3>1, MessageFacts DEF WaitingInv
  <2>3. CASE ~Stopped
    <3> DEFINE m == [client |-> c, kind |-> r.kind, n |-> r.n, job |-> r.job]
    <3>1. requests' = Append(requests, m) /\ answer' = [answer EXCEPT ![c] = "waiting"]
      BY <1>1, <2>3 DEF Issue
    <3>2. m \in Messages /\ m.client = c
      BY DEF Messages
    <3> HIDE DEF m
    <3>3. /\ Len(requests') = Len(requests) + 1 /\ Len(requests) \in Nat
          /\ \A k \in 1 .. Len(requests) : requests'[k] = requests[k]
          /\ requests'[Len(requests) + 1] = m
      BY <1>0, <3>1, <3>2, AppendProperties, LenProperties
    <3>4. \A k \in 1 .. Len(requests) : requests[k].client # c
      BY <2>1 DEF WaitingInv
    <3>5. serving # WallClock => serving.client # c
      BY <2>1 DEF WaitingInv
    <3>6. \A d \in Clients : answer[d] = "waiting" => answer'[d] = "waiting"
      BY <1>0, <3>1
    <3>7. ASSUME NEW k \in 1 .. Len(requests')
          PROVE  \/ k \in 1 .. Len(requests) /\ requests'[k] = requests[k]
                 \/ k = Len(requests) + 1 /\ requests'[k] = m
      BY <3>3
    <3>8. \A k \in 1 .. Len(requests') :
            /\ answer'[requests'[k].client] = "waiting"
            /\ serving # WallClock => requests'[k].client # serving.client
      BY <1>0, <3>1, <3>2, <3>5, <3>6, <3>7, MessageFacts DEF WaitingInv
    <3>9. \A k, j \in 1 .. Len(requests') :
            j # k => requests'[j].client # requests'[k].client
      BY <3>2, <3>4, <3>7 DEF WaitingInv
    <3>10. serving # WallClock => answer'[serving.client] = "waiting"
      BY <1>0, <3>6, MessageFacts DEF WaitingInv
    <3> QED
      BY <2>1, <3>8, <3>9, <3>10 DEF WaitingInv
  <2> QED
    BY <2>2, <2>3
<1>2. CASE TakeRequest
  <2>1. /\ requests # <<>> /\ serving' = Head(requests) /\ requests' = Tail(requests)
        /\ apc' = "handle" /\ answer' = answer
    BY <1>2 DEF TakeRequest
  <2>2. /\ Len(requests) \in Nat /\ Len(requests) > 0 /\ serving' = requests[1]
        /\ Len(requests') = Len(requests) - 1
        /\ \A k \in 1 .. Len(requests') : requests'[k] = requests[k + 1]
    BY <1>0, <2>1, HeadTailProperties, EmptySeq, LenProperties
  <2>3. \A k \in 1 .. Len(requests') :
          k + 1 \in 1 .. Len(requests) /\ k + 1 # 1 /\ requests'[k] = requests[k + 1]
    BY <2>2
  <2>4. 1 \in 1 .. Len(requests)
    BY <2>2
  <2>5. \A k, j \in 1 .. Len(requests') : j # k => j + 1 # k + 1
    OBVIOUS
  <2> QED
    BY <2>1, <2>2, <2>3, <2>4, <2>5 DEF WaitingInv, Between
<1>3. CASE serving # WallClock /\ \E status \in {"ok", "err"} : Respond(status)
  <2>1. /\ serving' = WallClock /\ requests' = requests /\ call' = "Step"
        /\ \A d \in Clients : d # serving.client => answer'[d] = answer[d]
    BY <1>0, <1>3 DEF Respond
  <2> QED
    BY <1>0, <1>3, <2>1, MessageFacts DEF WaitingInv
<1>4. CASE ActorReturns
  <2>1. /\ requests' = <<>> /\ serving' = serving /\ apc = "stopping"
        /\ apc' = "close" /\ Len(<<>>) = 0
    BY <1>4, EmptySeq DEF ActorReturns, Closing
  <2>2. \A k \in 1 .. Len(requests') : FALSE
    BY <2>1
  <2>3. serving = WallClock
    BY <2>1 DEF WaitingInv, Between
  <2> QED
    BY <2>1, <2>2, <2>3 DEF WaitingInv
<1>5. CASE /\ UNCHANGED <<serving, sessions>>
           /\ apc' \in Between => apc \in Between \/ serving = WallClock
           /\ apc' \in {"send", "await"} /\ call' \in {"Reset", "Discard"}
                => serving # WallClock
  BY <1>5 DEF WaitingInv, sessions
<1> QED
  BY <1>1, <1>2, <1>3, <1>4, <1>5, ServingMoves

LEMMA StepCountInvStep ==
  ASSUME TypeInv, WaitingInv, StepCountInv, [Next]_vars
  PROVE  StepCountInv'
<1> USE DEF Ticking, StepCountInv
<1>1. CASE \/ \E c \in Clients, r \in Requests : Issue(c, r)
           \/ OthersStep \/ UNCHANGED vars
  BY <1>1 DEF Issue, OthersStep, vars, control, clock
<1>2. CASE HandleRequest
  <2>1. CASE HandleTimeStep
    <3>1. \/ \E status : Respond(status)
          \/ /\ todo' = serving.n /\ base' = elapsed /\ elapsed' = elapsed
             /\ serving' = serving
      BY <2>1 DEF HandleTimeStep
    <3>2. serving.kind = "TimeStep" => serving.n \in Nat
      BY MessageFacts, Parts DEF ControlTypeOK, WallClock
    <3>3. elapsed \in Nat
      BY Parts DEF ClockTypeOK
    <3> QED
      BY <3>1, <3>2, <3>3 DEF Respond
  <2>2. CASE ~HandleTimeStep
    <3>1. \/ \E status : Respond(status)
          \/ serving' = serving /\ serving.kind \in {"Reset", "TraceStart", "Get"}
      BY <1>2, <2>2
         DEF HandleRequest, HandleQuery, HandleTimeStart, HandleTimePause,
             HandleReset, HandleTraceStart, HandleTraceStop, HandleGet,
             HandleClose, ScheduleAdd, ScheduleUpdate, ScheduleRemove,
             ScheduleStop, ScheduleStart, Schedules, Handling
    <3> QED
      BY <3>1 DEF Respond
  <2> QED
    BY <2>1, <2>2
<1>3. CASE WorkerRefuses \/ TickLosesBus \/ TickEndLosesBus \/ SampleNotWritten
  BY <1>3 DEF WorkerRefuses, TickLosesBus, TickEndLosesBus, SampleNotWritten,
              Abandon, Respond
<1>4. CASE SendNext \/ AllSent \/ AwaitNext \/ ReadNext \/ ReadReply
  BY <1>4 DEF SendNext, AllSent, AwaitNext, ReadNext, ReadReply, Fanning, clock
<1>5. CASE \/ TakeRequest \/ BatchEnds \/ Wakes \/ WallClockTicksDone
           \/ TimeStepDone \/ GetDone \/ TraceStarts \/ ResetEnds
  BY <1>5 DEF TakeRequest, BatchEnds, Wakes, WallClockTicksDone, TimeStepDone,
              GetDone, TraceStarts, ResetEnds, Respond
<1>6. CASE TakeWallClockTicks
  <2>1. serving' = WallClock /\ WallClock.kind = "WallClock"
    BY <1>6 DEF TakeWallClockTicks, WaitingInv, Between, WallClock
  <2> QED
    BY <2>1
<1>7. CASE TickBegins \/ TickSampled \/ ResetDiscards
  BY <1>7 DEF TickBegins, TickSampled, ResetDiscards, FanOut, ReadAll,
              AllAnswered, clock
<1>8. CASE TickEnds \/ SampleWritten
  <2>1. /\ elapsed' = elapsed + 1 /\ todo' = todo - 1
        /\ UNCHANGED <<serving, base>>
        /\ apc \in {"await", "read"} /\ call \in {"Step", "Sample"}
    BY <1>8 DEF TickEnds, SampleWritten, TimeAdvances, AllAnswered
  <2>2. elapsed \in Nat /\ todo \in Nat
    BY Parts DEF ClockTypeOK, ControlTypeOK
  <2> QED
    BY <2>1, <2>2
<1>9. CASE ActorReturns \/ CloseNext \/ CloseSent \/ CloseAwaitNext \/ EnvStops
  BY <1>9 DEF ActorReturns, CloseNext, CloseSent, CloseAwaitNext, EnvStops,
              Closing
<1> QED
  BY <1>1, <1>2, <1>3, <1>4, <1>5, <1>6, <1>7, <1>8, <1>9
     DEF Next, ActorStep, Terminated

LEMMA ShutdownInvStep ==
  ASSUME TypeInv, WaitingInv, ShutdownInv, [Next]_vars
  PROVE  ShutdownInv'
<1> USE DEF ShutdownInv
<1>w. WallClock.kind = "WallClock"
  BY DEF WallClock
<1>t. shutdown \in BOOLEAN /\ elapsed \in Nat
  BY Parts DEF RestTypeOK, ClockTypeOK
<1>r. ASSUME \E status : Respond(status)
      PROVE  apc' \in {"stopping", "batch"} /\ serving'.kind # "TimeStep"
  BY <1>w, <1>r DEF Respond
<1>1. CASE \/ \E c \in Clients, r \in Requests : Issue(c, r)
           \/ OthersStep \/ UNCHANGED vars
  BY <1>1 DEF Issue, OthersStep, vars, control, clock
<1>2. CASE HandleRequest
  <2>1. CASE HandleTimeStep
    <3>1. \/ \E status : Respond(status)
          \/ /\ apc = "handle" /\ apc' = "tick" /\ base' = elapsed
             /\ serving.kind = "TimeStep" /\ UNCHANGED <<serving, turn>>
      BY <2>1 DEF HandleTimeStep, Handling
    <3>2. UNCHANGED <<shutdown, elapsed>>
      BY <2>1 DEF HandleTimeStep
    <3> QED
      BY <1>r, <1>w, <3>1, <3>2
  <2>2. CASE ~HandleTimeStep
    <3>1. \/ \E status : Respond(status)
          \/ /\ serving' = serving /\ serving.kind \in {"Reset", "TraceStart", "Get"}
             /\ apc' \in {"send", "read"} /\ call' \in {"Reset", "Read"}
      BY <1>2, <2>2
         DEF HandleRequest, HandleQuery, HandleTimeStart, HandleTimePause,
             HandleReset, HandleTraceStart, HandleTraceStop, HandleGet,
             HandleClose, ScheduleAdd, ScheduleUpdate, ScheduleRemove,
             ScheduleStop, ScheduleStart, Schedules, Handling, FanOut, ReadAll
    <3> QED
      BY <1>r, <3>1
  <2> QED
    BY <2>1, <2>2
<1>3. CASE WorkerRefuses \/ TickLosesBus \/ TickEndLosesBus \/ SampleNotWritten
  <2>1. Abandon
    BY <1>3 DEF WorkerRefuses, TickLosesBus, TickEndLosesBus, SampleNotWritten
  <2>2. CASE serving = WallClock
    BY <1>w, <2>1, <2>2 DEF Abandon
  <2>3. CASE serving # WallClock
    BY <1>r, <2>1, <2>3 DEF Abandon
  <2> QED
    BY <2>2, <2>3
<1>4. CASE SendNext \/ AllSent \/ AwaitNext \/ ReadNext \/ ReadReply
  BY <1>4 DEF SendNext, AllSent, AwaitNext, ReadNext, ReadReply, Fanning, clock
<1>5. CASE TakeRequest
  BY <1>5 DEF TakeRequest, clock
<1>6. CASE \/ BatchEnds \/ Wakes \/ TakeWallClockTicks \/ WallClockTicksDone
  <2>1. apc # "tick" => serving = WallClock
    BY <1>6 DEF BatchEnds, Wakes, TakeWallClockTicks, WallClockTicksDone,
                WaitingInv, Between
  <2> QED
    BY <1>6, <1>w, <2>1
       DEF BatchEnds, Wakes, TakeWallClockTicks, WallClockTicksDone, clock
<1>7. CASE TimeStepDone \/ GetDone \/ TraceStarts \/ ResetEnds
  BY <1>7, <1>r DEF TimeStepDone, GetDone, TraceStarts, ResetEnds
<1>8. CASE TickBegins \/ TickSampled \/ ResetDiscards
  BY <1>8 DEF TickBegins, TickSampled, ResetDiscards, FanOut, ReadAll,
              AllAnswered, clock
<1>9. CASE TickEnds \/ SampleWritten
  <2>1. /\ UNCHANGED <<serving, turn, shutdown>> /\ apc \in {"await", "read"}
        /\ call \in {"Step", "Sample"}
    BY <1>9 DEF TickEnds, SampleWritten, TimeAdvances, AllAnswered
  <2> QED
    BY <2>1
<1>10. CASE ActorReturns \/ CloseNext \/ CloseSent \/ CloseAwaitNext \/ EnvStops
  BY <1>10 DEF ActorReturns, CloseNext, CloseSent, CloseAwaitNext, EnvStops,
               Closing
<1> QED
  BY <1>1, <1>2, <1>3, <1>4, <1>5, <1>6, <1>7, <1>8, <1>9, <1>10
     DEF Next, ActorStep, Terminated

LEMMA SessionsInductive ==
  Spec => [](TypeInv /\ WaitingInv /\ StepCountInv /\ ShutdownInv)
<1>1. Init => WaitingInv /\ StepCountInv /\ ShutdownInv
  <2> SUFFICES ASSUME Init PROVE WaitingInv /\ StepCountInv /\ ShutdownInv
    OBVIOUS
  <2>1. /\ apc = "batch" /\ serving = WallClock /\ requests = <<>> /\ Len(<<>>) = 0
        /\ ~shutdown
    BY EmptySeq DEF Init
  <2>2. \A k \in 1 .. Len(requests) : FALSE
    BY <2>1
  <2> QED
    BY <2>1, <2>2 DEF WaitingInv, StepCountInv, ShutdownInv, Ticking
<1> QED
  BY <1>1, InitTypeInv, TypeInvStep, WaitingInvStep, StepCountInvStep,
     ShutdownInvStep, PTL DEF Spec

(* A client that is told its step was made got every tick of it, counted   *)
(* from the clock it began at: nothing that happens between its ticks moves*)
(* the clock, and no other request's answer reaches it.  A step that is    *)
(* still served when the env is to stop (server.rs:266, tick.rs:13) gets   *)
(* none of its ticks, and with its answer the env stops.                   *)
THEOREM StepsMadeInFull == Spec => StepDoneInFull
<1> USE DEF StepAnswered
<1>1. ASSUME TypeInv, WaitingInv, StepCountInv, ShutdownInv, [Next]_vars,
             apc = "tick", serving.kind = "TimeStep",
             answer'[serving.client] = "ok"
      PROVE  \/ elapsed = base + serving.n
             \/ shutdown /\ elapsed = base /\ apc' = "stopping"
  <2>1. serving \in Messages /\ serving # WallClock /\ serving.client \in Clients
    BY <1>1, MessageFacts, Parts DEF ControlTypeOK, WallClock
  <2>2. answer[serving.client] = "waiting" /\ "waiting" # "ok"
    BY <1>1, <2>1 DEF WaitingInv
  <2>3. answer \in [Clients -> {"idle", "waiting", "ok", "err", "unavailable"}]
    BY <1>1, Parts DEF SessionsTypeOK
  <2>4. ~\E c \in Clients, r \in Requests : Issue(c, r)
    BY <1>1, <2>1, <2>2, <2>3 DEF Issue
  <2>5. ~TakeRequest /\ ~ActorReturns
    BY <1>1 DEF TakeRequest, ActorReturns
  <2>6. ~UNCHANGED <<serving, sessions>>
    BY <1>1, <2>2 DEF sessions
  <2>7. PICK status : Respond(status)
    BY <1>1, <2>4, <2>5, <2>6, ServingMoves
  <2>8. TimeStepDone
    <3>1. status = "ok" /\ serving' = WallClock
      BY <1>1, <2>1, <2>3, <2>7 DEF Respond
    <3>2. ~TickLosesBus
      <4>1. ASSUME Respond("err") PROVE FALSE
        BY <1>1, <2>1, <2>3, <4>1 DEF Respond
      <4> QED
        BY <2>1, <4>1 DEF TickLosesBus, Abandon
    <3>3. serving' # serving
      BY <2>1, <3>1
    <3>4. ~OthersStep /\ ~UNCHANGED vars
      BY <3>3 DEF OthersStep, control, vars
    <3>5. ~HandleRequest
      BY <1>1
         DEF HandleRequest, HandleQuery, HandleTimeStart, HandleTimePause,
             HandleTimeStep, HandleReset, HandleTraceStart, HandleTraceStop,
             HandleGet, HandleClose, ScheduleAdd, ScheduleUpdate, ScheduleRemove,
             ScheduleStop, ScheduleStart, Schedules, Handling
    <3>6. /\ ~BatchEnds /\ ~Wakes /\ ~SendNext /\ ~AllSent /\ ~AwaitNext
          /\ ~ReadNext /\ ~ReadReply /\ ~TakeWallClockTicks /\ ~WallClockTicksDone
          /\ ~CloseNext /\ ~CloseSent /\ ~CloseAwaitNext /\ ~EnvStops
      BY <1>1, <2>1
         DEF BatchEnds, Wakes, SendNext, AllSent, AwaitNext, ReadNext, ReadReply,
             TakeWallClockTicks, WallClockTicksDone, CloseNext, CloseSent,
             CloseAwaitNext, EnvStops
    <3>7. /\ ~WorkerRefuses /\ ~TickSampled /\ ~TickEnds /\ ~TickEndLosesBus
          /\ ~SampleWritten /\ ~SampleNotWritten /\ ~GetDone /\ ~TraceStarts
          /\ ~ResetDiscards /\ ~ResetEnds
      BY <1>1
         DEF WorkerRefuses, TickSampled, TickEnds, TickEndLosesBus,
             SampleWritten, SampleNotWritten, GetDone, TraceStarts, ReadDone,
             ResetDiscards, ResetEnds, AllAnswered
    <3>8. ~TickBegins
      BY <3>3 DEF TickBegins
    <3> QED
      BY <1>1, <2>4, <2>5, <3>2, <3>4, <3>5, <3>6, <3>7, <3>8
         DEF Next, ActorStep, Terminated
  <2>9. todo = 0 \/ shutdown
    BY <2>8 DEF TimeStepDone
  <2>10. elapsed + todo = base + serving.n /\ elapsed \in Nat
    BY <1>1, Parts DEF StepCountInv, Ticking, ClockTypeOK
  <2>11. CASE shutdown
    <3>1. elapsed = base /\ turn = "batch"
      BY <1>1, <2>11 DEF ShutdownInv
    <3> QED
      BY <2>7, <2>11, <3>1 DEF Respond
  <2> QED
    BY <2>9, <2>10, <2>11
<1>2. TypeInv /\ WaitingInv /\ StepCountInv /\ ShutdownInv /\ [Next]_vars =>
        [ StepAnswered =>
            \/ elapsed = base + serving.n
            \/ shutdown /\ elapsed = base /\ apc' = "stopping" ]_vars
  BY <1>1
<1> QED
  BY <1>2, SessionsInductive, PTL DEF Spec, StepDoneInFull

-----------------------------------------------------------------------------
(* The lockstep: EnvDaemon implements LockstepClock, for every number of   *)
(* instances, every fault and every bound.  A step moves every instance    *)
(* once and then the clock, and nothing but a reset that every instance    *)
(* carried out finds a lost lockstep again, whatever requests were left    *)
(* behind in between.                                                      *)

Moving == {"Step", "Reset"}

(* Nothing on its way to instance i moves it.                              *)
Quiet(i) ==
  /\ inbox[i] \notin Moving
  /\ \A k \in 1 .. Len(queue[i]) : queue[i][k] \notin Moving

(* A worker has one request on its line at a time.                         *)
Line(i) ==
  /\ wstate[i] = "idle" => inbox[i] = "none" /\ outbox[i] = "none"
  /\ wstate[i] = "waiting" /\ outbox[i] # "none" => inbox[i] = "none"
  /\ reply[i] \in {"ok", "err"} => queue[i] = <<>>

(* Where instance i can be from the sending of a reset to its answer: older*)
(* requests may be queued before the reset, but none after it.             *)
ResetSent(i) ==
  \/ /\ reply[i] = "pending" /\ queue[i] # <<>>
     /\ queue[i][Len(queue[i])] = "Reset"
  \/ /\ reply[i] = "pending" /\ queue[i] = <<>> /\ wstate[i] = "waiting"
     /\ \/ inbox[i] = "Reset"
        \/ inbox[i] = "none" /\ (outbox[i] = "ok" => ticks[i] = 0)
  \/ reply[i] = "ok" /\ ticks[i] = 0
  \/ reply[i] = "err"

(* The same for a step, while the lockstep is not lost.                    *)
StepSent(i, n) ==
  \/ /\ queue[i] = <<"Step">> /\ reply[i] = "pending"
     /\ inbox[i] \notin Moving /\ ticks[i] = n
  \/ /\ queue[i] = <<>> /\ inbox[i] = "Step" /\ ticks[i] = n
     /\ \/ reply[i] = "pending" /\ wstate[i] = "waiting"
        \/ reply[i] = "err"
  \/ /\ queue[i] = <<>> /\ inbox[i] \notin Moving
     /\ ticks[i] \in {n, n + 1}
     /\ \/ /\ reply[i] = "pending" /\ wstate[i] = "waiting" /\ inbox[i] = "none"
           /\ outbox[i] = "ok" => ticks[i] = n + 1
        \/ reply[i] = "ok" /\ ticks[i] = n + 1
        \/ reply[i] = "err"

At(i, n) == Quiet(i) /\ ticks[i] = n

(* What a reset has done so far.                                           *)
ResetInv(i) ==
  /\ apc = "send" /\ call = "Reset" /\ i < next => ResetSent(i)
  /\ apc = "await" /\ call = "Reset" =>
       IF i < next THEN ticks[i] = 0 ELSE ResetSent(i)
  /\ apc \in {"send", "await"} /\ call = "Discard" => At(i, 0)

Closed == apc \in {"close", "closeWait", "stopped"}

(* The request in flight when the actor awaits a read.                     *)
ReadOf(i) == apc = "readWait" /\ i = next

(* What the lockstep is made of while it is not lost.                      *)
RestInv(i) ==
  Mode = "rest" =>
    /\ At(i, elapsed)
    /\ Closed \/ ReadOf(i) \/ queue[i] = <<>>

StepInv(i) ==
  Mode = "step" =>
    /\ apc = "send" =>
         IF i < next THEN StepSent(i, elapsed) ELSE At(i, elapsed) /\ queue[i] = <<>>
    /\ apc = "await" => IF i < next THEN At(i, elapsed + 1) ELSE StepSent(i, elapsed)
    /\ apc \in {"read", "readWait"} =>
         At(i, elapsed + 1) /\ (ReadOf(i) \/ queue[i] = <<>>)

InstanceInv(i) == Line(i) /\ ResetInv(i) /\ RestInv(i) /\ StepInv(i)

(* Which operation is fanned out where, and when the lockstep is lost.     *)
CallInv ==
  /\ apc \in {"send", "await"} => call \in {"Step", "Reset", "Discard"}
  /\ apc \in {"read", "readWait"} => call \in {"Read", "Sample"}
  /\ apc \in {"send", "await"} /\ call \in {"Reset", "Discard"} => lost

EnvInv ==
  TypeInv /\ SettledInv /\ CallInv /\ \A i \in Instances : InstanceInv(i)

-----------------------------------------------------------------------------
(* Requests on their way.                                                  *)

LEMMA TailFacts ==
  ASSUME NEW q \in Seq(Ops), q # <<>>
  PROVE  /\ Head(q) = q[1] /\ 1 \in 1 .. Len(q)
         /\ Tail(q) # <<>> => Tail(q)[Len(Tail(q))] = q[Len(q)]
         /\ Tail(q) = <<>> => q[Len(q)] = Head(q)
         /\ \A k \in 1 .. Len(Tail(q)) : k + 1 \in 1 .. Len(q) /\ Tail(q)[k] = q[k + 1]
<1>1. /\ Len(q) \in Nat /\ Len(q) > 0 /\ Head(q) = q[1]
      /\ Tail(q) \in Seq(Ops) /\ Len(Tail(q)) = Len(q) - 1
      /\ \A k \in 1 .. Len(Tail(q)) : Tail(q)[k] = q[k + 1]
  BY HeadTailProperties, EmptySeq, LenProperties
<1>2. Tail(q) # <<>> => Len(Tail(q)) \in 1 .. Len(Tail(q))
  BY <1>1, EmptySeq
<1>3. Tail(q) = <<>> => Len(q) = 1
  <2> DEFINE t == Tail(q)
  <2>1. Len(t) = Len(q) - 1 /\ Len(<<>>) = 0
    BY <1>1, EmptySeq
  <2> HIDE DEF t
  <2>2. t = <<>> => Len(t) = 0
    BY <2>1
  <2>3. Len(q) \in Nat
    BY <1>1
  <2>4. t = <<>> => Len(q) = 1
    BY <2>1, <2>2, <2>3
  <2> QED
    BY <2>4 DEF t
<1> QED
  BY <1>1, <1>2, <1>3

(* All that the worker and the daemon of instance i know of it.            *)
Same(i) ==
  /\ queue'[i] = queue[i] /\ wstate'[i] = wstate[i] /\ reply'[i] = reply[i]
  /\ inbox'[i] = inbox[i] /\ outbox'[i] = outbox[i] /\ ticks'[i] = ticks[i]

(* What one step of a worker or a daemon does to its instance.             *)
Answered(i, rest, outcome) ==
  reply'[i] = IF rest = <<>> /\ reply[i] = "pending" THEN outcome ELSE reply[i]

Heard(i, outcome) ==
  outbox'[i] = IF wstate[i] = "waiting" THEN outcome ELSE outbox[i]

Sends(i) ==
  /\ wstate[i] = "idle" /\ queue[i] # <<>> /\ queue'[i] = Tail(queue[i])
  /\ \/ /\ inbox'[i] = Head(queue[i]) /\ wstate'[i] = "waiting"
        /\ reply'[i] = reply[i]
     \/ /\ Answered(i, Tail(queue[i]), "err") /\ wstate'[i] = "failing"
        /\ inbox'[i] = inbox[i]
  /\ outbox'[i] = outbox[i] /\ ticks'[i] = ticks[i]

Receives(i) ==
  /\ wstate[i] = "waiting" /\ queue'[i] = queue[i]
  /\ inbox'[i] = inbox[i] /\ ticks'[i] = ticks[i] /\ outbox'[i] = "none"
  /\ \/ outbox[i] = "ok" /\ wstate'[i] = "idle" /\ Answered(i, queue[i], "ok")
     \/ outbox[i] = "err" /\ wstate'[i] = "failing" /\ Answered(i, queue[i], "err")

GivesUp(i) ==
  /\ wstate[i] = "waiting" /\ wstate'[i] = "failing"
  /\ Answered(i, queue[i], "err")
  /\ queue'[i] = queue[i] /\ inbox'[i] = inbox[i] /\ outbox'[i] = outbox[i]
  /\ ticks'[i] = ticks[i]

Closes(i) ==
  /\ wstate[i] = "failing" /\ wstate'[i] = "closed" /\ queue'[i] = <<>>
  /\ reply'[i] = IF queue[i] # <<>> /\ reply[i] = "pending" THEN "err" ELSE reply[i]
  /\ inbox'[i] = inbox[i] /\ outbox'[i] = outbox[i] /\ ticks'[i] = ticks[i]

Executes(i) ==
  /\ queue'[i] = queue[i] /\ wstate'[i] = wstate[i] /\ reply'[i] = reply[i]
  /\ inbox'[i] = "none"
  /\ \/ inbox[i] = "Step" /\ ticks'[i] = ticks[i] + 1 /\ Heard(i, "ok")
     \/ inbox[i] = "Step" /\ ticks'[i] \in {ticks[i], ticks[i] + 1} /\ Heard(i, "err")
     \/ inbox[i] = "Reset" /\ ticks'[i] = 0 /\ Heard(i, "ok")
     \/ inbox[i] = "Reset" /\ ticks'[i] = ticks[i] /\ Heard(i, "err")
     \/ /\ inbox[i] \in {"Discard", "Read", "Close"} /\ ticks'[i] = ticks[i]
        /\ Heard(i, "ok") \/ Heard(i, "err") \/ outbox'[i] = outbox[i]

Crashes(i) ==
  /\ queue'[i] = queue[i] /\ wstate'[i] = wstate[i] /\ reply'[i] = reply[i]
  /\ inbox'[i] = "none" /\ outbox'[i] = outbox[i] /\ ticks'[i] = ticks[i]

IsReset(i) ==
  /\ queue'[i] = queue[i] /\ wstate'[i] = wstate[i] /\ reply'[i] = reply[i]
  /\ inbox'[i] = inbox[i] /\ outbox'[i] = outbox[i] /\ ticks'[i] = 0

LocalStep(i) ==
  Sends(i) \/ Receives(i) \/ GivesUp(i) \/ Closes(i) \/ Executes(i) \/ Crashes(i)

LEMMA WorkerEffect ==
  ASSUME WorkersTypeOK, NEW i \in Instances, WorkerStep(i)
  PROVE  LocalStep(i) /\ \A k \in Instances \ {i} : Same(k)
<1> USE DEF WorkersTypeOK, Same, LocalStep, instances
<1>1. ASSUME NEW rest, NEW outcome, Answer(i, rest, outcome)
      PROVE  Answered(i, rest, outcome) /\ \A k \in Instances \ {i} : reply'[k] = reply[k]
  BY <1>1 DEF Answer, Answered
<1>2. CASE WorkerSend(i)
  <2>1. Sends(i)
    BY <1>1, <1>2 DEF WorkerSend, Sends
  <2>2. \A k \in Instances \ {i} : Same(k)
    BY <1>1, <1>2 DEF WorkerSend
  <2> QED
    BY <2>1, <2>2
<1>3. CASE WorkerReceive(i)
  <2>1. outbox[i] \in {"ok", "err"}
    BY <1>3 DEF WorkerReceive
  <2>2. Receives(i)
    BY <1>1, <1>3, <2>1 DEF WorkerReceive, Receives
  <2>3. \A k \in Instances \ {i} : Same(k)
    BY <1>1, <1>3 DEF WorkerReceive
  <2> QED
    BY <2>2, <2>3
<1>4. CASE WorkerGivesUp(i)
  BY <1>1, <1>4 DEF WorkerGivesUp, GivesUp
<1>5. CASE WorkerCloses(i)
  <2>1. Closes(i)
    BY <1>5 DEF WorkerCloses, Closes
  <2>2. \A k \in Instances \ {i} : Same(k)
    BY <1>5 DEF WorkerCloses
  <2> QED
    BY <2>1, <2>2
<1> QED
  BY <1>2, <1>3, <1>4, <1>5 DEF WorkerStep

LEMMA DeliverEffect ==
  ASSUME WorkersTypeOK, NEW i \in Instances, NEW outcome, Deliver(i, outcome)
  PROVE  Heard(i, outcome) /\ \A k \in Instances \ {i} : outbox'[k] = outbox[k]
BY DEF WorkersTypeOK, Deliver, Heard

LEMMA InstanceEffect ==
  ASSUME WorkersTypeOK, NEW i \in Instances, InstanceStep(i)
  PROVE  LocalStep(i) /\ \A k \in Instances \ {i} : Same(k)
<1> USE DEF LocalStep
<1>1. CASE InstanceExecutes(i)
  <2>1. /\ UNCHANGED workers
        /\ inbox'[i] = "none" /\ \A k \in Instances \ {i} : inbox'[k] = inbox[k]
    BY <1>1 DEF InstanceExecutes, WorkersTypeOK
  <2>2. ASSUME Executes(i),
               \A k \in Instances \ {i} : ticks'[k] = ticks[k] /\ outbox'[k] = outbox[k]
        PROVE  LocalStep(i) /\ \A k \in Instances \ {i} : Same(k)
    BY <2>1, <2>2 DEF workers, Same
  <2>3. ASSUME NEW t, ticks' = [ticks EXCEPT ![i] = t] \/ (ticks' = ticks /\ t = ticks[i])
        PROVE  ticks'[i] = t /\ \A k \in Instances \ {i} : ticks'[k] = ticks[k]
    BY <2>3 DEF WorkersTypeOK
  <2> USE <2>1, DeliverEffect DEF Executes, workers
  <2>4. CASE InstanceSteps(i)
    BY <2>2, <2>3, <2>4 DEF InstanceSteps
  <2>5. CASE InstanceResets(i)
    BY <2>2, <2>3, <2>5 DEF InstanceResets
  <2>6. CASE InstanceDiscards(i)
    BY <2>2, <2>6 DEF InstanceDiscards
  <2>7. CASE InstanceReads(i)
    BY <2>2, <2>7 DEF InstanceReads
  <2>8. CASE InstanceCloses(i)
    BY <2>2, <2>8 DEF InstanceCloses
  <2> QED
    BY <1>1, <2>4, <2>5, <2>6, <2>7, <2>8 DEF InstanceExecutes
<1>2. CASE InstanceCrashes(i)
  BY <1>2 DEF InstanceCrashes, Crashes, Same, WorkersTypeOK, workers
<1> QED
  BY <1>1, <1>2 DEF InstanceStep

LEMMA DirectResetEffect ==
  ASSUME WorkersTypeOK, NEW i \in Instances, DirectReset(i)
  PROVE  IsReset(i) /\ \A k \in Instances \ {i} : Same(k)
BY DEF DirectReset, IsReset, Same, WorkersTypeOK, workers

-----------------------------------------------------------------------------
(* What a step of a worker or a daemon preserves, at its own instance.     *)

LEMMA InstanceTypes ==
  ASSUME WorkersTypeOK, NEW i \in Instances
  PROVE  /\ queue[i] \in Seq(Ops)
         /\ wstate[i] \in {"idle", "waiting", "failing", "closed"}
         /\ reply[i] \in {"none", "pending", "ok", "err"}
         /\ inbox[i] \in Ops \cup {"none"}
         /\ outbox[i] \in {"none", "ok", "err"}
         /\ ticks[i] \in Nat
BY DEF WorkersTypeOK

LEMMA LocalLine ==
  ASSUME WorkersTypeOK, NEW i \in Instances, Line(i), LocalStep(i) \/ IsReset(i)
  PROVE  Line(i)'
<1> USE InstanceTypes DEF Line
<1>1. CASE Sends(i)
  BY <1>1 DEF Sends, Answered
<1>2. CASE Receives(i)
  BY <1>2 DEF Receives, Answered
<1>3. CASE GivesUp(i)
  BY <1>3 DEF GivesUp, Answered
<1>4. CASE Closes(i)
  BY <1>4 DEF Closes
<1>5. CASE Executes(i)
  BY <1>5 DEF Executes, Heard
<1>6. CASE Crashes(i) \/ IsReset(i)
  BY <1>6 DEF Crashes, IsReset
<1> QED
  BY <1>1, <1>2, <1>3, <1>4, <1>5, <1>6 DEF LocalStep

LEMMA LocalEmpty ==
  ASSUME NEW i \in Instances, LocalStep(i) \/ IsReset(i), queue[i] = <<>>
  PROVE  queue'[i] = <<>>
BY DEF LocalStep, Sends, Receives, GivesUp, Closes, Executes, Crashes, IsReset

LEMMA LocalQuiet ==
  ASSUME WorkersTypeOK, NEW i \in Instances, Quiet(i), LocalStep(i)
  PROVE  Quiet(i)' /\ ticks'[i] = ticks[i]
<1> USE DEF Quiet, Moving
<1>1. CASE Sends(i)
  <2>1. /\ queue[i] \in Seq(Ops) /\ queue[i] # <<>> /\ queue'[i] = Tail(queue[i])
        /\ ticks'[i] = ticks[i]
        /\ inbox'[i] = inbox[i] \/ inbox'[i] = Head(queue[i])
    BY <1>1, InstanceTypes DEF Sends
  <2>2. \A k \in 1 .. Len(queue'[i]) :
          k + 1 \in 1 .. Len(queue[i]) /\ queue'[i][k] = queue[i][k + 1]
    BY <2>1, TailFacts
  <2>3. inbox'[i] \notin Moving
    BY <2>1, TailFacts
  <2> QED
    BY <2>1, <2>2, <2>3
<1>2. CASE Closes(i)
  <2>1. \A k \in 1 .. Len(<<>>) : FALSE
    BY EmptySeq
  <2> QED
    BY <1>2, <2>1 DEF Closes
<1>3. CASE Receives(i) \/ GivesUp(i) \/ Crashes(i)
  BY <1>3 DEF Receives, GivesUp, Crashes
<1>4. CASE Executes(i)
  BY <1>4 DEF Executes
<1> QED
  BY <1>1, <1>2, <1>3, <1>4 DEF LocalStep

LEMMA LocalReset ==
  ASSUME WorkersTypeOK, NEW i \in Instances, Line(i), ResetSent(i),
         reply[i] = "ok" => Settled(i), LocalStep(i) \/ IsReset(i)
  PROVE  ResetSent(i)'
<1> USE InstanceTypes DEF Line, ResetSent
<1>1. CASE Sends(i)
  <2>1. queue[i] \in Seq(Ops) /\ queue[i] # <<>> /\ wstate[i] = "idle"
        /\ queue'[i] = Tail(queue[i]) /\ outbox'[i] = "none"
    BY <1>1 DEF Sends
  <2>2. CASE reply[i] = "pending" /\ queue[i][Len(queue[i])] = "Reset"
    BY <1>1, <2>1, <2>2, TailFacts DEF Sends, Answered
  <2>3. CASE reply[i] # "pending"
    BY <1>1, <2>1, <2>3
  <2> QED
    BY <2>1, <2>2, <2>3
<1>2. CASE Receives(i)
  BY <1>2 DEF Receives, Answered
<1>3. CASE GivesUp(i)
  BY <1>3 DEF GivesUp, Answered
<1>4. CASE Closes(i)
  BY <1>4 DEF Closes
<1>5. CASE Executes(i)
  <2>1. CASE reply[i] = "pending" /\ queue[i] # <<>>
    BY <1>5, <2>1 DEF Executes
  <2>2. CASE reply[i] = "pending" /\ queue[i] = <<>>
    BY <1>5, <2>2 DEF Executes, Heard
  <2>3. CASE reply[i] = "ok"
    BY <1>5, <2>3 DEF Executes, Settled
  <2>4. CASE reply[i] = "err"
    BY <1>5, <2>4 DEF Executes
  <2> QED
    BY <2>1, <2>2, <2>3, <2>4
<1>6. CASE Crashes(i)
  BY <1>6 DEF Crashes
<1>7. CASE IsReset(i)
  BY <1>7 DEF IsReset
<1> QED
  BY <1>1, <1>2, <1>3, <1>4, <1>5, <1>6, <1>7 DEF LocalStep

LEMMA LocalStepSent ==
  ASSUME WorkersTypeOK, NEW i \in Instances, NEW n \in Nat,
         Line(i), StepSent(i, n), LocalStep(i)
  PROVE  /\ StepSent(i, n)'
         /\ \/ ticks'[i] = ticks[i]
            \/ ticks[i] = n /\ ticks'[i] = n + 1
<1> USE InstanceTypes DEF Line, StepSent, Moving
<1>1. CASE Sends(i)
  <2>1. Tail(<<"Step">>) = <<>> /\ Head(<<"Step">>) = "Step"
    OBVIOUS
  <2> QED
    BY <1>1, <2>1 DEF Sends, Answered
<1>2. CASE Receives(i)
  <2>1. /\ wstate[i] = "waiting" /\ outbox[i] # "none" /\ inbox[i] = "none"
        /\ queue'[i] = queue[i] /\ inbox'[i] = "none" /\ ticks'[i] = ticks[i]
        /\ \/ outbox[i] = "ok" /\ Answered(i, queue[i], "ok")
           \/ outbox[i] = "err" /\ Answered(i, queue[i], "err")
    BY <1>2 DEF Receives
  <2>2. CASE queue[i] = <<"Step">> /\ reply[i] = "pending"
    <3>1. <<"Step">> # <<>>
      OBVIOUS
    <3>2. reply'[i] = reply[i]
      BY <2>1, <2>2, <3>1 DEF Answered
    <3> QED
      BY <2>1, <2>2, <3>2
  <2>3. CASE queue[i] = <<>> /\ inbox[i] \notin Moving
    BY <2>1, <2>3 DEF Answered
  <2> QED
    BY <2>1, <2>2, <2>3
<1>3. CASE GivesUp(i)
  BY <1>3 DEF GivesUp, Answered
<1>4. CASE Closes(i)
  BY <1>4 DEF Closes
<1>5. CASE Executes(i)
  <2>1. CASE queue[i] = <<"Step">> /\ reply[i] = "pending" /\ inbox[i] \notin Moving
    BY <1>5, <2>1 DEF Executes
  <2>2. CASE queue[i] = <<>> /\ inbox[i] = "Step" /\ ticks[i] = n
    <3>1. \/ ticks'[i] = n + 1
          \/ ticks'[i] = n /\ Heard(i, "err")
      BY <1>5, <2>2 DEF Executes
    <3>2. inbox'[i] = "none" /\ queue'[i] = <<>>
          /\ reply'[i] = reply[i] /\ wstate'[i] = wstate[i]
      BY <1>5, <2>2 DEF Executes
    <3>3. \/ reply[i] = "pending" /\ wstate[i] = "waiting"
          \/ reply[i] = "err"
      BY <2>2
    <3> QED
      BY <2>2, <3>1, <3>2, <3>3 DEF Heard
  <2>3. CASE queue[i] = <<>> /\ inbox[i] \notin Moving
    <3>1. ticks'[i] = ticks[i] /\ inbox'[i] = "none" /\ queue'[i] = <<>>
          /\ reply'[i] = reply[i] /\ wstate'[i] = wstate[i]
          /\ inbox[i] # "none"
      BY <1>5, <2>3 DEF Executes
    <3> QED
      BY <2>3, <3>1
  <2> QED
    BY <2>1, <2>2, <2>3
<1>6. CASE Crashes(i)
  BY <1>6 DEF Crashes
<1> QED
  BY <1>1, <1>2, <1>3, <1>4, <1>5, <1>6 DEF LocalStep

-----------------------------------------------------------------------------
(* The steps of workers and daemons preserve the invariant.                *)

LEMMA InstanceIndex ==
  ASSUME TypeInv
  PROVE  /\ elapsed \in Nat /\ next \in Nat /\ next > 0
         /\ next <= NumInstances => next \in Instances
         /\ \A i \in Instances : i \in Nat /\ i > 0 /\ i <= NumInstances
         /\ WorkersTypeOK /\ lost \in BOOLEAN
<1> USE Parts, EnvConstantFacts
<1>1. elapsed \in Nat /\ WorkersTypeOK /\ lost \in BOOLEAN
  BY DEF ClockTypeOK, RestTypeOK
<1>2. next \in 1 .. NumInstances + 1
  BY DEF ControlTypeOK
<1> QED
  BY <1>1, <1>2 DEF Instances

LEMMA ModeFacts ==
  /\ Mode = "lost" <=> lost
  /\ Mode = "step" <=> /\ ~lost
                       /\ apc \in {"send", "await", "read", "readWait"}
                       /\ call \in {"Step", "Sample"}
  /\ Mode = "rest" <=> ~lost /\ Mode # "step"
  /\ Mode' = "lost" <=> lost'
  /\ Mode' = "step" <=> /\ ~lost'
                        /\ apc' \in {"send", "await", "read", "readWait"}
                        /\ call' \in {"Step", "Sample"}
  /\ Mode' = "rest" <=> ~lost' /\ Mode' # "step"
BY DEF Mode

LEMMA SettledQuiet ==
  ASSUME NEW i \in Instances, Line(i), Settled(i)
  PROVE  Quiet(i) /\ inbox[i] = "none" /\ queue[i] = <<>>
<1>1. Len(<<>>) = 0
  BY EmptySeq
<1> QED
  BY <1>1 DEF Line, Settled, Quiet, Moving

LEMMA SameInv ==
  ASSUME NEW i \in Instances, InstanceInv(i), Same(i),
         UNCHANGED <<apc, call, next, elapsed>>, lost' = lost \/ lost'
  PROVE  InstanceInv(i)'
<1> USE DEF Same
<1>0. Mode' = Mode \/ Mode' = "lost"
  BY DEF Mode
<1>1. Line(i)'
  BY DEF InstanceInv, Line
<1>2. ResetInv(i)'
  BY DEF InstanceInv, ResetInv, ResetSent, At, Quiet
<1>3. RestInv(i)'
  BY <1>0 DEF InstanceInv, RestInv, At, Quiet, Closed, ReadOf
<1>4. StepInv(i)'
  BY <1>0 DEF InstanceInv, StepInv, At, Quiet, ReadOf, StepSent
<1> QED
  BY <1>1, <1>2, <1>3, <1>4 DEF InstanceInv

LEMMA LocalInv ==
  ASSUME EnvInv, NEW i \in Instances, UNCHANGED <<apc, call, next, elapsed>>,
         \/ LocalStep(i) /\ lost' = lost
         \/ IsReset(i) /\ lost' = TRUE
  PROVE  InstanceInv(i)'
<1>0. /\ WorkersTypeOK /\ elapsed \in Nat /\ i \in Nat /\ next \in Nat
      /\ InstanceInv(i) /\ Line(i)
      /\ reply[i] = "ok" => Settled(i)
      /\ apc = "await" /\ i < next => Settled(i)
  BY InstanceIndex DEF EnvInv, InstanceInv, SettledInv
<1>1. Line(i)'
  BY <1>0, LocalLine
<1>2. IsReset(i) => ticks'[i] = 0 /\ (Quiet(i) => Quiet(i)')
  BY DEF IsReset, Quiet
<1>3. Quiet(i) /\ LocalStep(i) => Quiet(i)' /\ ticks'[i] = ticks[i]
  BY <1>0, LocalQuiet
<1>4. ResetInv(i)'
  <2>1. ResetSent(i) => ResetSent(i)'
    BY <1>0, LocalReset
  <2>2. Settled(i) /\ ticks[i] = 0 => ticks'[i] = 0
    BY <1>0, <1>2, <1>3, SettledQuiet
  <2>3. At(i, 0) => At(i, 0)'
    BY <1>2, <1>3 DEF At
  <2> QED
    BY <1>0, <2>1, <2>2, <2>3 DEF InstanceInv, ResetInv
<1>5. CASE lost'
  BY <1>1, <1>4, <1>5, ModeFacts DEF InstanceInv, RestInv, StepInv
<1>6. CASE ~lost'
  <2>1. LocalStep(i) /\ lost' = lost
    BY <1>6
  <2>2. Mode' = Mode
    BY <2>1 DEF Mode
  <2>3. \A n : At(i, n) => At(i, n)'
    BY <1>3, <2>1 DEF At
  <2>4. At(i, elapsed) => At(i, elapsed)'
    BY <1>3, <2>1 DEF At
  <2>5. At(i, elapsed + 1) => At(i, elapsed + 1)'
    BY <1>3, <2>1 DEF At
  <2>6. queue[i] = <<>> => queue'[i] = <<>>
    BY <2>1, LocalEmpty
  <2>7. StepSent(i, elapsed) => StepSent(i, elapsed)'
    BY <1>0, <2>1, LocalStepSent
  <2>8. RestInv(i)'
    BY <1>0, <2>2, <2>4, <2>6 DEF InstanceInv, RestInv, Closed, ReadOf
  <2>9. StepInv(i)'
    BY <1>0, <2>2, <2>4, <2>5, <2>6, <2>7 DEF InstanceInv, StepInv, ReadOf
  <2> QED
    BY <1>1, <1>4, <2>8, <2>9 DEF InstanceInv
<1> QED
  BY <1>5, <1>6

LEMMA OthersInv ==
  ASSUME EnvInv, OthersStep
  PROVE  CallInv' /\ \A i \in Instances : InstanceInv(i)'
<1>0. UNCHANGED <<apc, call, next, elapsed>> /\ WorkersTypeOK /\ lost \in BOOLEAN
  BY InstanceIndex DEF OthersStep, control, clock, EnvInv
<1>1. PICK i \in Instances :
        \/ (WorkerStep(i) \/ InstanceStep(i)) /\ UNCHANGED lost
        \/ DirectReset(i) /\ lost' = TRUE
  BY DEF OthersStep
<1>2. /\ \A k \in Instances \ {i} : Same(k)
      /\ \/ LocalStep(i) /\ lost' = lost
         \/ IsReset(i) /\ lost' = TRUE
  BY <1>0, <1>1, WorkerEffect, InstanceEffect, DirectResetEffect
<1>3. CallInv'
  BY <1>0, <1>2 DEF EnvInv, CallInv
<1>4. \A k \in Instances \ {i} : InstanceInv(k)'
  BY <1>0, <1>2, SameInv DEF EnvInv
<1>5. InstanceInv(i)'
  BY <1>0, <1>2, LocalInv
<1> QED
  BY <1>3, <1>4, <1>5

-----------------------------------------------------------------------------
(* The actor's steps preserve the invariant.                               *)

(* Where no request of the actor is on its way.                            *)
Resting == {"batch", "select", "poll", "tick", "handle", "stopping"}

(* The actor leaves instance i alone, or drops the receiver it holds.      *)
Untouched(i) ==
  /\ queue'[i] = queue[i] /\ wstate'[i] = wstate[i] /\ inbox'[i] = inbox[i]
  /\ outbox'[i] = outbox[i] /\ ticks'[i] = ticks[i]
  /\ reply'[i] \in {reply[i], "none"}

Gets(i, op) ==
  /\ queue'[i] = Append(queue[i], op) /\ reply'[i] = "pending"
  /\ wstate'[i] = wstate[i] /\ inbox'[i] = inbox[i] /\ outbox'[i] = outbox[i]
  /\ ticks'[i] = ticks[i]

LEMMA UntouchedFacts ==
  ASSUME NEW i \in Instances, Untouched(i)
  PROVE  /\ Line(i) => Line(i)'
         /\ Quiet(i) => Quiet(i)'
BY DEF Untouched, Line, Quiet

LEMMA TouchNone ==
  ASSUME TypeInv,
         UNCHANGED workers \/ DropReceivers, UNCHANGED <<inbox, outbox, ticks>>
  PROVE  \A i \in Instances : Untouched(i)
BY DEF workers, DropReceivers, Untouched

LEMMA GetsFacts ==
  ASSUME TypeInv, NEW i \in Instances, NEW op \in Ops, Gets(i, op), Line(i)
  PROVE  /\ Line(i)'
         /\ Quiet(i) /\ op \notin Moving => Quiet(i)'
         /\ queue'[i] # <<>> /\ queue'[i][Len(queue'[i])] = op
         /\ queue[i] = <<>> => queue'[i] = <<op>>
<1>1. queue[i] \in Seq(Ops)
  BY InstanceIndex, InstanceTypes
<1>2. /\ queue'[i] # <<>> /\ Len(queue'[i]) = Len(queue[i]) + 1
      /\ \A k \in 1 .. Len(queue[i]) : queue'[i][k] = queue[i][k]
      /\ queue'[i][Len(queue[i]) + 1] = op /\ Len(queue[i]) \in Nat
  BY <1>1, AppendProperties, LenProperties DEF Gets
<1>3. queue[i] = <<>> => queue'[i] = <<op>>
  BY DEF Gets
<1>4. Line(i)'
  BY DEF Gets, Line
<1>5. Quiet(i) /\ op \notin Moving => Quiet(i)'
  BY <1>2 DEF Gets, Quiet
<1> QED
  BY <1>2, <1>3, <1>4, <1>5

LEMMA BeginEffect ==
  ASSUME TypeInv, NEW i \in Instances, NEW op, Begin(i, op),
         UNCHANGED <<inbox, outbox, ticks>>
  PROVE  Gets(i, op) /\ \A k \in Instances \ {i} : Same(k)
<1>1. WorkersTypeOK
  BY InstanceIndex
<1> QED
  BY <1>1 DEF Begin, Gets, Same, WorkersTypeOK

LEMMA TakeReplyEffect ==
  ASSUME TypeInv, NEW i \in Instances, TakeReply(i),
         UNCHANGED <<inbox, outbox, ticks>>
  PROVE  /\ reply'[i] = "none"
         /\ \A k \in Instances : Untouched(k)
         /\ \A k \in Instances \ {i} : Same(k)
<1>1. WorkersTypeOK
  BY InstanceIndex
<1> QED
  BY <1>1 DEF TakeReply, Untouched, Same, WorkersTypeOK

LEMMA FromRest ==
  ASSUME EnvInv, apc \in Resting, UNCHANGED workers \/ DropReceivers,
         UNCHANGED <<inbox, outbox, ticks, elapsed>>,
         lost' = lost \/ lost',
         \/ apc' \in Resting \cup {"close"}
         \/ apc' = "read" /\ call' = "Read"
         \/ apc' = "send" /\ next' = 1 /\ call' = "Step"
         \/ apc' = "send" /\ next' = 1 /\ call' = "Reset" /\ lost'
  PROVE  CallInv' /\ \A i \in Instances : InstanceInv(i)'
<1>1. CallInv'
  BY DEF CallInv, Resting
<1>2. ASSUME NEW i \in Instances
      PROVE  InstanceInv(i)'
  <2>1. Untouched(i) /\ InstanceInv(i) /\ i > 0 /\ i \in Nat
    BY TouchNone, InstanceIndex DEF EnvInv
  <2>2. Mode # "step"
    BY DEF Mode, Resting
  <2>3. ~lost => At(i, elapsed) /\ queue[i] = <<>>
    BY <2>1, <2>2, ModeFacts DEF InstanceInv, RestInv, Closed, ReadOf, Resting
  <2>4. ~lost' => At(i, elapsed)' /\ queue'[i] = <<>>
    <3>1. ~lost' => ~lost
      OBVIOUS
    <3> QED
      BY <2>1, <2>3, <3>1, UntouchedFacts DEF At, Untouched
  <2>5. Line(i)'
    BY <2>1, UntouchedFacts DEF InstanceInv
  <2>6. ResetInv(i)'
    BY <2>1 DEF ResetInv, Resting
  <2>7. RestInv(i)'
    BY <2>4, ModeFacts DEF RestInv
  <2>8. StepInv(i)'
    BY <2>1, <2>4, ModeFacts DEF StepInv, Resting
  <2> QED
    BY <2>5, <2>6, <2>7, <2>8 DEF InstanceInv
<1> QED
  BY <1>1, <1>2

LEMMA RestingInv ==
  ASSUME EnvInv,
         \/ TakeRequest \/ BatchEnds \/ Wakes \/ TakeWallClockTicks
         \/ WallClockTicksDone \/ TimeStepDone \/ HandleRequest
         \/ TickBegins \/ TickLosesBus \/ ActorReturns
  PROVE  CallInv' /\ \A i \in Instances : InstanceInv(i)'
<1> USE FromRest DEF Resting, workerVars, instances, clock
<1>1. CASE TakeRequest \/ BatchEnds \/ Wakes
  BY <1>1 DEF TakeRequest, BatchEnds, Wakes
<1>2. CASE TakeWallClockTicks \/ WallClockTicksDone \/ TimeStepDone
  BY <1>2 DEF TakeWallClockTicks, WallClockTicksDone, TimeStepDone, Respond
<1>3. CASE HandleRequest
  <2>1. apc = "handle" /\ UNCHANGED <<workerVars, elapsed>>
    BY <1>3
       DEF HandleRequest, HandleQuery, HandleTimeStart, HandleTimePause,
           HandleTimeStep, HandleReset, HandleTraceStart, HandleTraceStop,
           HandleGet, HandleClose, ScheduleAdd, ScheduleUpdate, ScheduleRemove,
           ScheduleStop, ScheduleStart, Schedules, Handling
  <2>2. CASE HandleReset
    BY <2>1, <2>2 DEF HandleReset, FanOut
  <2>3. CASE ~HandleReset
    <3>1. lost' = lost
      BY <1>3, <2>3
         DEF HandleRequest, HandleQuery, HandleTimeStart, HandleTimePause,
             HandleTimeStep, HandleTraceStart, HandleTraceStop, HandleGet,
             HandleClose, ScheduleAdd, ScheduleUpdate, ScheduleRemove,
             ScheduleStop, ScheduleStart, Schedules
    <3>2. \/ apc' \in {"batch", "stopping", "tick"}
          \/ apc' = "read" /\ call' = "Read"
      BY <1>3, <2>3
         DEF HandleRequest, HandleQuery, HandleTimeStart, HandleTimePause,
             HandleTimeStep, HandleTraceStart, HandleTraceStop, HandleGet,
             HandleClose, ScheduleAdd, ScheduleUpdate, ScheduleRemove,
             ScheduleStop, ScheduleStart, Schedules, Respond, ReadAll
    <3> QED
      BY <2>1, <3>1, <3>2
  <2> QED
    BY <2>2, <2>3
<1>4. CASE TickBegins
  BY <1>4 DEF TickBegins, FanOut
<1>5. CASE TickLosesBus
  <2>1. /\ DropReceivers /\ UNCHANGED <<instances, clock, lost>>
        /\ apc = "tick" /\ apc' \in {"stopping", "batch"}
    BY <1>5 DEF TickLosesBus, Abandon, Respond
  <2> QED
    BY <2>1
<1>6. CASE ActorReturns
  BY <1>6 DEF ActorReturns, Closing
<1> QED
  BY <1>1, <1>2, <1>3, <1>4, <1>5, <1>6

LEMMA ClosingInv ==
  ASSUME EnvInv, CloseNext \/ CloseSent \/ CloseAwaitNext \/ EnvStops
  PROVE  CallInv' /\ \A i \in Instances : InstanceInv(i)'
<1>0. /\ TypeInv /\ Closed /\ Closed'
      /\ UNCHANGED <<inbox, outbox, ticks, call, elapsed, lost>>
  BY DEF EnvInv, CloseNext, CloseSent, CloseAwaitNext, EnvStops, Closing, Closed,
         clock
<1>1. CallInv'
  BY <1>0 DEF CallInv, Closed
<1>2. ASSUME NEW i \in Instances, Untouched(i) \/ Gets(i, "Close")
      PROVE  InstanceInv(i)'
  <2>1. InstanceInv(i) /\ Line(i) /\ "Close" \in Ops /\ "Close" \notin Moving
    BY DEF EnvInv, InstanceInv, Ops, Moving
  <2>2. Line(i)' /\ (Quiet(i) => Quiet(i)')
    BY <1>0, <1>2, <2>1, UntouchedFacts, GetsFacts
  <2>3. ResetInv(i)' /\ StepInv(i)'
    BY <1>0, ModeFacts DEF ResetInv, StepInv, Closed
  <2>4. ~lost => At(i, elapsed)
    BY <1>0, <2>1, ModeFacts DEF InstanceInv, RestInv, Closed
  <2>5. RestInv(i)'
    BY <1>0, <1>2, <2>2, <2>4, ModeFacts DEF RestInv, At, Untouched, Gets
  <2> QED
    BY <2>2, <2>3, <2>5 DEF InstanceInv
<1>3. ASSUME NEW i \in Instances, Same(i)
      PROVE  Untouched(i)
  BY <1>3 DEF Same, Untouched
<1>4. CASE CloseNext
  <2>1. next \in Instances
    BY <1>0, <1>4, InstanceIndex DEF CloseNext
  <2>2. Begin(next, "Close") \/ UNCHANGED workers
    BY <1>4 DEF CloseNext
  <2>3. \A i \in Instances : Untouched(i) \/ Gets(i, "Close")
    BY <1>0, <1>3, <2>1, <2>2, BeginEffect, TouchNone
  <2> QED
    BY <1>1, <1>2, <2>3
<1>5. CASE CloseAwaitNext
  <2>1. next \in Instances /\ TakeReply(next)
    BY <1>0, <1>5, InstanceIndex DEF CloseAwaitNext
  <2>2. \A i \in Instances : Untouched(i)
    BY <1>0, <2>1, TakeReplyEffect
  <2> QED
    BY <1>1, <1>2, <2>2
<1>6. CASE CloseSent \/ EnvStops
  BY <1>0, <1>1, <1>2, <1>6, TouchNone DEF CloseSent, EnvStops
<1> QED
  BY <1>4, <1>5, <1>6

(* An instance that the actor's step leaves alone, while the fan-out moves *)
(* past another.                                                           *)
LEMMA PassedBy ==
  ASSUME EnvInv, NEW i \in Instances, i # next, Same(i),
         UNCHANGED <<call, elapsed, lost>>,
         \/ apc' = apc /\ next' = next + 1 /\ apc \in {"send", "await"}
         \/ apc = "read" /\ apc' = "readWait" /\ next' = next
         \/ apc = "readWait" /\ apc' = "read" /\ next' = next + 1
  PROVE  InstanceInv(i)'
<1>0. /\ i \in Nat /\ next \in Nat /\ InstanceInv(i) /\ CallInv
      /\ i < next + 1 <=> i < next
  BY InstanceIndex DEF EnvInv
<1>1. Line(i)' /\ (ResetSent(i) => ResetSent(i)') /\ (StepSent(i, elapsed) => StepSent(i, elapsed)')
  BY <1>0 DEF Same, InstanceInv, Line, ResetSent, StepSent
<1>2. \A n : At(i, n) => Quiet(i)' /\ ticks'[i] = n
  BY DEF At, Quiet, Same
<1>3. ResetInv(i)'
  BY <1>0, <1>1, <1>2 DEF InstanceInv, ResetInv, At, Same
<1>4. RestInv(i)'
  <2>1. Mode' = "rest" => Mode = "rest"
    BY ModeFacts
  <2> QED
    BY <1>0, <1>2, <2>1 DEF InstanceInv, RestInv, At, Same, Closed, ReadOf
<1>5. StepInv(i)'
  <2>1. Mode' = "step" => Mode = "step"
    BY ModeFacts
  <2>2. CASE apc' = apc
    BY <1>0, <1>1, <1>2, <2>1, <2>2 DEF InstanceInv, StepInv, At, Same, ReadOf
  <2>3. CASE apc' # apc
    BY <1>0, <1>1, <1>2, <2>1, <2>3 DEF InstanceInv, StepInv, At, Same, ReadOf
  <2> QED
    BY <2>2, <2>3
<1> QED
  BY <1>1, <1>3, <1>4, <1>5 DEF InstanceInv

LEMMA SendInv ==
  ASSUME EnvInv, SendNext
  PROVE  CallInv' /\ \A i \in Instances : InstanceInv(i)'
<1>a. PICK n \in Instances : n = next
  BY InstanceIndex, Parts DEF EnvInv, SendNext
<1>0. /\ TypeInv /\ CallInv /\ n = next /\ n \in Nat /\ n < next + 1
      /\ apc = "send" /\ apc' = "send" /\ next' = next + 1
      /\ UNCHANGED <<call, elapsed, lost, inbox, outbox, ticks>>
      /\ Begin(n, call) /\ call \in {"Step", "Reset", "Discard"} /\ call \in Ops
      /\ InstanceInv(n)
  BY <1>a, InstanceIndex DEF EnvInv, SendNext, Fanning, instances, clock, CallInv, Ops
<1>1. Gets(n, call) /\ \A k \in Instances \ {n} : Same(k)
  BY <1>0, BeginEffect
<1>2. CallInv'
  BY <1>0 DEF CallInv
<1>3. \A i \in Instances \ {n} : InstanceInv(i)'
  BY <1>0, <1>1, PassedBy
<1>4. /\ Line(n)'
      /\ Quiet(n) /\ call \notin Moving => Quiet(n)'
      /\ queue'[n] # <<>> /\ queue'[n][Len(queue'[n])] = call
      /\ queue[n] = <<>> => queue'[n] = <<call>>
  BY <1>0, <1>1, GetsFacts DEF InstanceInv
<1>5. /\ reply'[n] = "pending" /\ wstate'[n] = wstate[n]
      /\ inbox'[n] = inbox[n] /\ outbox'[n] = outbox[n] /\ ticks'[n] = ticks[n]
  BY <1>1 DEF Gets
<1>7. ResetInv(n)'
  <2>1. call = "Reset" => ResetSent(n)'
    BY <1>4, <1>5 DEF ResetSent
  <2>2. call = "Discard" => At(n, 0)'
    BY <1>0, <1>4, <1>5 DEF InstanceInv, ResetInv, At, Moving
  <2> QED
    BY <1>0, <2>1, <2>2 DEF ResetInv
<1>8. Mode' # "rest"
  BY <1>0, ModeFacts DEF CallInv
<1>9. StepInv(n)'
  <2> SUFFICES ASSUME ~lost PROVE StepSent(n, elapsed)'
    BY <1>0, ModeFacts DEF StepInv
  <2>1. call = "Step" /\ Mode = "step"
    BY <1>0, ModeFacts DEF CallInv
  <2>2. At(n, elapsed) /\ queue[n] = <<>>
    BY <1>0, <2>1 DEF InstanceInv, StepInv
  <2> QED
    BY <1>0, <1>4, <1>5, <2>1, <2>2 DEF StepSent, At, Quiet
<1>10. InstanceInv(n)'
  BY <1>4, <1>7, <1>8, <1>9 DEF InstanceInv, RestInv
<1> QED
  BY <1>2, <1>3, <1>10

LEMMA AllSentInv ==
  ASSUME EnvInv, AllSent
  PROVE  CallInv' /\ \A i \in Instances : InstanceInv(i)'
<1>0. /\ CallInv /\ next > NumInstances /\ next' = 1
      /\ apc = "send" /\ apc' = "await"
      /\ UNCHANGED <<call, elapsed, lost, inbox, outbox, ticks, workers>>
      /\ NumInstances \in Nat /\ next \in Nat
  BY InstanceIndex, EnvConstantFacts DEF EnvInv, AllSent, Fanning, instances, clock
<1>1. CallInv'
  BY <1>0 DEF CallInv
<1>2. ASSUME NEW i \in Instances
      PROVE  InstanceInv(i)'
  <2>1. i < next /\ ~(i < 1) /\ InstanceInv(i) /\ Same(i)
    BY <1>0, InstanceIndex DEF EnvInv, workers, Same
  <2>2. Line(i)' /\ (ResetSent(i) => ResetSent(i)') /\ (StepSent(i, elapsed) => StepSent(i, elapsed)')
    BY <1>0, <2>1 DEF Same, InstanceInv, Line, ResetSent, StepSent
  <2>3. At(i, 0) => At(i, 0)'
    BY <2>1 DEF Same, At, Quiet
  <2>4. ResetInv(i)'
    BY <1>0, <2>1, <2>2, <2>3 DEF InstanceInv, ResetInv
  <2>5. RestInv(i)' /\ StepInv(i)'
    BY <1>0, <2>1, <2>2, ModeFacts DEF InstanceInv, RestInv, StepInv, CallInv
  <2> QED
    BY <2>2, <2>4, <2>5 DEF InstanceInv
<1> QED
  BY <1>1, <1>2

LEMMA AwaitInv ==
  ASSUME EnvInv, AwaitNext
  PROVE  CallInv' /\ \A i \in Instances : InstanceInv(i)'
<1>a. PICK n \in Instances : n = next
  BY InstanceIndex, Parts DEF EnvInv, AwaitNext
<1>0. /\ TypeInv /\ CallInv /\ n = next /\ n \in Nat /\ n < next + 1
      /\ apc = "await" /\ apc' = "await" /\ next' = next + 1
      /\ UNCHANGED <<call, elapsed, lost, inbox, outbox, ticks>>
      /\ TakeReply(n) /\ reply[n] = "ok" /\ InstanceInv(n) /\ Settled(n)
      /\ elapsed \in Nat /\ ~(n < next)
  BY <1>a, InstanceIndex
     DEF EnvInv, AwaitNext, Fanning, instances, clock, SettledInv
<1>1. Untouched(n) /\ \A k \in Instances \ {n} : Same(k)
  BY <1>0, TakeReplyEffect
<1>2. CallInv'
  BY <1>0 DEF CallInv
<1>3. \A i \in Instances \ {n} : InstanceInv(i)'
  BY <1>0, <1>1, PassedBy
<1>4. Line(n)' /\ Quiet(n)' /\ ticks'[n] = ticks[n]
  BY <1>0, <1>1, UntouchedFacts, SettledQuiet DEF InstanceInv, Untouched
<1>5. ResetInv(n)'
  <2>1. call = "Reset" => ticks[n] = 0
    BY <1>0 DEF InstanceInv, ResetInv, ResetSent
  <2>2. call = "Discard" => ticks[n] = 0
    BY <1>0 DEF InstanceInv, ResetInv, At
  <2> QED
    BY <1>0, <1>4, <2>1, <2>2 DEF ResetInv, At
<1>6. Mode' # "rest"
  BY <1>0, ModeFacts DEF CallInv
<1>7. StepInv(n)'
  <2> SUFFICES ASSUME ~lost PROVE At(n, elapsed + 1)'
    BY <1>0, ModeFacts DEF StepInv
  <2>1. Mode = "step"
    BY <1>0, ModeFacts DEF CallInv
  <2>2. StepSent(n, elapsed)
    BY <1>0, <2>1 DEF InstanceInv, StepInv
  <2>3. ticks[n] = elapsed + 1
    BY <1>0, <2>2 DEF StepSent
  <2> QED
    BY <1>0, <1>4, <2>3 DEF At
<1>8. InstanceInv(n)'
  BY <1>4, <1>5, <1>6, <1>7 DEF InstanceInv, RestInv
<1> QED
  BY <1>2, <1>3, <1>8

LEMMA ReadInv ==
  ASSUME EnvInv, ReadNext \/ ReadReply
  PROVE  CallInv' /\ \A i \in Instances : InstanceInv(i)'
<1>a. PICK n \in Instances : n = next
  BY InstanceIndex, Parts DEF EnvInv, ReadNext, ReadReply, FlowInv
<1>0. /\ TypeInv /\ CallInv /\ n = next
      /\ UNCHANGED <<call, elapsed, lost, inbox, outbox, ticks>>
      /\ InstanceInv(n) /\ "Read" \in Ops /\ "Read" \notin Moving
  BY <1>a
     DEF EnvInv, ReadNext, ReadReply, Fanning, instances, clock, Ops, Moving
<1>1. \/ /\ apc = "read" /\ apc' = "readWait" /\ next' = next
         /\ Gets(n, "Read") /\ ReadOf(n)'
      \/ /\ apc = "readWait" /\ apc' = "read" /\ next' = next + 1
         /\ Untouched(n) /\ queue'[n] = <<>>
  <2>1. CASE ReadNext
    BY <1>0, <2>1, BeginEffect DEF ReadNext, Fanning, ReadOf
  <2>2. CASE ReadReply
    <3>1. queue[n] = <<>>
      BY <1>0, <2>2 DEF ReadReply, InstanceInv, Line
    <3> QED
      BY <1>0, <2>2, <3>1, TakeReplyEffect DEF ReadReply, Fanning, Untouched
  <2> QED
    BY <2>1, <2>2
<1>2. \A k \in Instances \ {n} : Same(k)
  BY <1>0, BeginEffect, TakeReplyEffect DEF ReadNext, ReadReply
<1>3. CallInv'
  BY <1>0, <1>1 DEF CallInv
<1>4. \A i \in Instances \ {n} : InstanceInv(i)'
  BY <1>0, <1>1, <1>2, PassedBy
<1>5. Line(n)' /\ (Quiet(n) => Quiet(n)') /\ ticks'[n] = ticks[n]
  BY <1>0, <1>1, UntouchedFacts, GetsFacts DEF InstanceInv, Untouched, Gets
<1>6. ResetInv(n)'
  BY <1>1 DEF ResetInv
<1>7. RestInv(n)' /\ StepInv(n)'
  BY <1>0, <1>1, <1>5, ModeFacts DEF InstanceInv, RestInv, StepInv, At
<1>8. InstanceInv(n)'
  BY <1>5, <1>6, <1>7 DEF InstanceInv
<1> QED
  BY <1>3, <1>4, <1>8

(* The end of a fan-out, good or bad, leaves nothing on its way while the  *)
(* lockstep is not lost.                                                   *)
LEMMA ToRest ==
  ASSUME EnvInv, apc' \in Resting, UNCHANGED workers \/ DropReceivers,
         UNCHANGED <<inbox, outbox, ticks>>,
         ~lost' => \A i \in Instances : At(i, elapsed') /\ queue[i] = <<>>
  PROVE  CallInv' /\ \A i \in Instances : InstanceInv(i)'
<1>1. CallInv'
  BY DEF CallInv, Resting
<1>2. ASSUME NEW i \in Instances
      PROVE  InstanceInv(i)'
  <2>1. Untouched(i) /\ InstanceInv(i)
    BY TouchNone DEF EnvInv
  <2>2. Line(i)'
    BY <2>1, UntouchedFacts DEF InstanceInv
  <2>3. ~lost' => At(i, elapsed)' /\ queue'[i] = <<>>
    BY <2>1, UntouchedFacts DEF At, Untouched
  <2>4. ResetInv(i)' /\ RestInv(i)' /\ StepInv(i)'
    BY <2>3, ModeFacts DEF ResetInv, RestInv, StepInv, Resting
  <2> QED
    BY <2>2, <2>4 DEF InstanceInv
<1> QED
  BY <1>1, <1>2

LEMMA AllAnsweredFacts ==
  ASSUME EnvInv, NEW op, AllAnswered(op)
  PROVE  /\ call = op /\ apc = IF op \in {"Read", "Sample"} THEN "read" ELSE "await"
         /\ \A i \in Instances : /\ i < next /\ Settled(i) /\ InstanceInv(i)
                                 /\ Quiet(i) /\ queue[i] = <<>>
<1>1. /\ call = op /\ apc = IF op \in {"Read", "Sample"} THEN "read" ELSE "await"
      /\ next > NumInstances
  BY DEF AllAnswered
<1>2. \A i \in Instances : i < next /\ InstanceInv(i)
  BY <1>1, InstanceIndex, EnvConstantFacts DEF EnvInv
<1>3. \A i \in Instances : Settled(i)
  BY <1>1, <1>2 DEF EnvInv, SettledInv
<1>4. \A i \in Instances : Quiet(i) /\ queue[i] = <<>>
  BY <1>2, <1>3, SettledQuiet DEF InstanceInv
<1> QED
  BY <1>1, <1>2, <1>3, <1>4

LEMMA FanOutEndsInv ==
  ASSUME EnvInv,
         \/ TickSampled \/ TickEnds \/ SampleWritten \/ GetDone \/ TraceStarts
         \/ ResetDiscards \/ ResetEnds
  PROVE  CallInv' /\ \A i \in Instances : InstanceInv(i)'
<1>0. UNCHANGED <<workers, inbox, outbox, ticks>>
  BY DEF TickSampled, TickEnds, SampleWritten, GetDone, TraceStarts, ReadDone,
         ResetDiscards, ResetEnds, workerVars, instances
<1>a. \A i \in Instances : i > 0 /\ i \in Nat
  BY InstanceIndex DEF EnvInv
<1>1. CASE TickSampled
  <2>1. /\ AllAnswered("Step") /\ UNCHANGED <<lost, elapsed>>
        /\ apc' = "read" /\ call' = "Sample"
    BY <1>1 DEF TickSampled, ReadAll, clock
  <2>2. CallInv'
    BY <2>1 DEF CallInv
  <2>3. ASSUME NEW i \in Instances
        PROVE  InstanceInv(i)'
    <3>1. /\ call = "Step" /\ apc = "await" /\ i < next /\ Quiet(i)
          /\ queue[i] = <<>> /\ InstanceInv(i)
      BY <2>1, AllAnsweredFacts
    <3>2. Line(i)' /\ Quiet(i)' /\ queue'[i] = <<>> /\ ticks'[i] = ticks[i]
      BY <1>0, <3>1 DEF InstanceInv, Line, Quiet, workers
    <3>3. ~lost => At(i, elapsed + 1)
      BY <3>1, ModeFacts DEF InstanceInv, StepInv
    <3>4. ResetInv(i)' /\ RestInv(i)' /\ StepInv(i)'
      BY <2>1, <3>2, <3>3, ModeFacts DEF ResetInv, RestInv, StepInv, At
    <3> QED
      BY <3>2, <3>4 DEF InstanceInv
  <2> QED
    BY <2>2, <2>3
<1>2. CASE TickEnds \/ SampleWritten
  <2>1. /\ elapsed' = elapsed + 1 /\ apc' = "tick" /\ lost' = lost
        /\ AllAnswered("Step") \/ AllAnswered("Sample")
    BY <1>2 DEF TickEnds, SampleWritten, TimeAdvances
  <2>2. ASSUME NEW i \in Instances, ~lost
        PROVE  At(i, elapsed') /\ queue[i] = <<>>
    <3>1. /\ call \in {"Step", "Sample"} /\ apc \in {"await", "read"} /\ i < next
          /\ queue[i] = <<>> /\ InstanceInv(i)
      BY <2>1, AllAnsweredFacts
    <3> QED
      BY <2>1, <2>2, <3>1, ModeFacts DEF InstanceInv, StepInv
  <2> QED
    BY <1>0, <2>1, <2>2, ToRest DEF Resting
<1>3. CASE GetDone \/ TraceStarts
  <2>1. /\ elapsed' = elapsed /\ lost' = lost /\ AllAnswered("Read")
        /\ apc' \in {"batch", "stopping"}
    BY <1>3 DEF GetDone, TraceStarts, ReadDone, Respond, clock
  <2>2. ASSUME NEW i \in Instances, ~lost
        PROVE  At(i, elapsed') /\ queue[i] = <<>>
    BY <2>1, <2>2, AllAnsweredFacts, ModeFacts DEF InstanceInv, RestInv
  <2> QED
    BY <1>0, <2>1, <2>2, ToRest DEF Resting
<1>4. CASE ResetDiscards
  <2>1. /\ AllAnswered("Reset") /\ UNCHANGED <<lost, elapsed>>
        /\ apc' = "send" /\ call' = "Discard" /\ next' = 1
    BY <1>4 DEF ResetDiscards, FanOut, clock
  <2>2. lost /\ call = "Reset" /\ apc = "await"
    BY <2>1, AllAnsweredFacts DEF EnvInv, CallInv
  <2>3. CallInv'
    BY <2>1, <2>2 DEF CallInv
  <2>4. ASSUME NEW i \in Instances
        PROVE  InstanceInv(i)'
    <3>1. i < next /\ Quiet(i) /\ queue[i] = <<>> /\ InstanceInv(i)
      BY <2>1, AllAnsweredFacts
    <3>2. Line(i)' /\ Quiet(i)' /\ ticks'[i] = 0
      BY <1>0, <2>2, <3>1 DEF InstanceInv, ResetInv, Line, Quiet, workers
    <3>3. ResetInv(i)'
      BY <1>a, <2>1, <3>2 DEF ResetInv, At
    <3>4. RestInv(i)' /\ StepInv(i)'
      BY <2>1, <2>2, ModeFacts DEF RestInv, StepInv
    <3> QED
      BY <3>2, <3>3, <3>4 DEF InstanceInv
  <2> QED
    BY <2>3, <2>4
<1>5. CASE ResetEnds
  <2>1. elapsed' = 0 /\ AllAnswered("Discard") /\ apc' \in {"batch", "stopping"}
    BY <1>5 DEF ResetEnds, TimeReset, Respond
  <2>2. ASSUME NEW i \in Instances
        PROVE  At(i, elapsed') /\ queue[i] = <<>>
    BY <2>1, AllAnsweredFacts DEF InstanceInv, ResetInv
  <2> QED
    BY <1>0, <2>1, <2>2, ToRest DEF Resting
<1> QED
  BY <1>1, <1>2, <1>3, <1>4, <1>5

LEMMA AbandonInv ==
  ASSUME EnvInv, WorkerRefuses \/ TickEndLosesBus \/ SampleNotWritten
  PROVE  CallInv' /\ \A i \in Instances : InstanceInv(i)'
<1>1. /\ DropReceivers /\ UNCHANGED <<inbox, outbox, ticks, elapsed>>
      /\ apc' \in {"stopping", "batch"}
  BY DEF WorkerRefuses, TickEndLosesBus, SampleNotWritten, Abandon, Respond,
         instances, clock
<1>2. ASSUME NEW i \in Instances, ~lost'
      PROVE  At(i, elapsed) /\ queue[i] = <<>>
  <2>1. /\ ~lost /\ call = "Read"
        /\ \/ apc \in {"send", "read"}
           \/ apc \in {"await", "readWait"} /\ reply[next] = "err"
    BY <1>2 DEF WorkerRefuses, TickEndLosesBus, SampleNotWritten
  <2>2. apc \in {"read", "readWait"} /\ InstanceInv(i)
    BY <2>1 DEF EnvInv, CallInv
  <2>3. At(i, elapsed) /\ (ReadOf(i) \/ queue[i] = <<>>)
    BY <2>1, <2>2, ModeFacts DEF InstanceInv, RestInv, Closed
  <2>4. ReadOf(i) => queue[i] = <<>>
    BY <2>1, <2>2 DEF ReadOf, InstanceInv, Line
  <2> QED
    BY <2>3, <2>4
<1> QED
  BY <1>1, <1>2, ToRest DEF Resting

LEMMA StaysInv ==
  ASSUME EnvInv,
         \/ \E c \in Clients, r \in Requests : Issue(c, r)
         \/ UNCHANGED vars
  PROVE  CallInv' /\ \A i \in Instances : InstanceInv(i)'
<1>1. UNCHANGED <<workerVars, control, clock, lost>>
  BY DEF Issue, vars
<1>2. /\ \A i \in Instances : Same(i)
      /\ UNCHANGED <<apc, call, next, elapsed, lost>>
  BY <1>1 DEF workerVars, workers, instances, control, clock, Same
<1> QED
  BY <1>2, SameInv DEF EnvInv, CallInv

LEMMA EnvInvStep == EnvInv /\ [Next]_vars => EnvInv'
<1> SUFFICES ASSUME EnvInv, [Next]_vars PROVE EnvInv'
  OBVIOUS
<1>1. TypeInv' /\ SettledInv'
  BY TypeInvStep, SettledInvStep DEF EnvInv
<1>2. CASE ActorStep
  <2>1. CallInv' /\ \A i \in Instances : InstanceInv(i)'
    BY <1>2, RestingInv, ClosingInv, SendInv, AllSentInv, AwaitInv, ReadInv,
       FanOutEndsInv, AbandonInv DEF ActorStep
  <2> QED
    BY <1>1, <2>1 DEF EnvInv
<1>3. CASE ~ActorStep
  <2>1. \/ \E c \in Clients, r \in Requests : Issue(c, r)
        \/ OthersStep
        \/ UNCHANGED vars
    BY <1>3 DEF Next, Terminated
  <2>2. CallInv' /\ \A i \in Instances : InstanceInv(i)'
    BY <2>1, StaysInv, OthersInv
  <2> QED
    BY <1>1, <2>2 DEF EnvInv
<1> QED
  BY <1>2, <1>3

LEMMA EnvInvInit == Init => EnvInv
<1> SUFFICES ASSUME Init PROVE EnvInv
  OBVIOUS
<1>1. TypeInv
  BY InitTypeInv
<1>2. /\ apc = "batch" /\ call = "Step" /\ elapsed = 0 /\ ~lost
      /\ \A i \in Instances :
           /\ queue[i] = <<>> /\ wstate[i] = "idle" /\ reply[i] = "none"
           /\ inbox[i] = "none" /\ outbox[i] = "none" /\ ticks[i] = 0
  BY DEF Init, WorkersInit
<1>3. SettledInv /\ CallInv
  BY <1>2 DEF SettledInv, CallInv
<1>4. Len(<<>>) = 0
  BY EmptySeq
<1>5. ASSUME NEW i \in Instances
      PROVE  InstanceInv(i)
  <2>1. Line(i) /\ At(i, elapsed)
    BY <1>2, <1>4 DEF Line, At, Quiet, Moving
  <2> QED
    BY <1>2, <2>1, ModeFacts DEF InstanceInv, ResetInv, RestInv, StepInv
<1> QED
  BY <1>1, <1>3, <1>5 DEF EnvInv

LEMMA EnvInvInductive == Spec => []EnvInv
BY EnvInvInit, EnvInvStep, PTL DEF Spec

-----------------------------------------------------------------------------
(* Every step of the env is a step of the lockstep clock, or none.         *)

(* What the actor leaves to the instances, and when it finds the lockstep. *)
LEMMA ActorMoves ==
  ASSUME ActorStep
  PROVE  /\ ticks' = ticks
         /\ lost /\ ~ResetEnds => lost'
<1>1. CASE HandleRequest
  BY <1>1
     DEF HandleRequest, HandleQuery, HandleTimeStart, HandleTimePause,
         HandleTimeStep, HandleReset, HandleTraceStart, HandleTraceStop,
         HandleGet, HandleClose, ScheduleAdd, ScheduleUpdate, ScheduleRemove,
         ScheduleStop, ScheduleStart, Schedules, workerVars, instances
<1>2. CASE WorkerRefuses \/ TickLosesBus \/ TickEndLosesBus \/ SampleNotWritten
  <2>1. ticks' = ticks
    BY <1>2 DEF WorkerRefuses, TickLosesBus, TickEndLosesBus, SampleNotWritten,
                Abandon, instances
  <2>2. lost => lost'
    BY <1>2 DEF WorkerRefuses, TickLosesBus, TickEndLosesBus, SampleNotWritten
  <2> QED
    BY <2>1, <2>2
<1>3. CASE SendNext \/ AllSent \/ AwaitNext \/ ReadNext \/ ReadReply
  BY <1>3 DEF SendNext, AllSent, AwaitNext, ReadNext, ReadReply, Fanning,
              instances
<1>4. CASE \/ TakeRequest \/ BatchEnds \/ Wakes \/ TakeWallClockTicks
           \/ WallClockTicksDone \/ TimeStepDone \/ TickBegins \/ TickSampled
           \/ TickEnds \/ SampleWritten \/ GetDone \/ TraceStarts
           \/ ResetDiscards \/ ResetEnds
  BY <1>4
     DEF TakeRequest, BatchEnds, Wakes, TakeWallClockTicks, WallClockTicksDone,
         TimeStepDone, TickBegins, TickSampled, TickEnds, SampleWritten,
         GetDone, TraceStarts, ReadDone, ResetDiscards, ResetEnds, workerVars,
         instances
<1>5. CASE ActorReturns \/ CloseNext \/ CloseSent \/ CloseAwaitNext \/ EnvStops
  BY <1>5 DEF ActorReturns, CloseNext, CloseSent, CloseAwaitNext, EnvStops,
              Closing
<1> QED
  BY <1>1, <1>2, <1>3, <1>4, <1>5 DEF ActorStep

(* A step of the env that has begun goes on, ends, or is lost.             *)
LEMMA StepGoesOn ==
  ASSUME EnvInv, ActorStep, Mode = "step", ~lost', ~TickEnds, ~SampleWritten
  PROVE  Mode' = "step"
<1>0. apc \in {"send", "await", "read", "readWait"} /\ call \in {"Step", "Sample"}
  BY ModeFacts
<1> SUFFICES /\ apc' \in {"send", "await", "read", "readWait"}
             /\ call' \in {"Step", "Sample"}
  BY ModeFacts
<1>1. CASE SendNext \/ AllSent \/ AwaitNext \/ ReadNext \/ ReadReply
  BY <1>0, <1>1 DEF SendNext, AllSent, AwaitNext, ReadNext, ReadReply, Fanning
<1>2. CASE TickSampled
  BY <1>2 DEF TickSampled, ReadAll
<1>3. ~HandleRequest
  BY <1>0
     DEF HandleRequest, HandleQuery, HandleTimeStart, HandleTimePause,
         HandleTimeStep, HandleReset, HandleTraceStart, HandleTraceStop,
         HandleGet, HandleClose, ScheduleAdd, ScheduleUpdate, ScheduleRemove,
         ScheduleStop, ScheduleStart, Schedules, Handling
<1>4. ~WorkerRefuses /\ ~TickEndLosesBus /\ ~SampleNotWritten
  BY <1>0 DEF WorkerRefuses, TickEndLosesBus, SampleNotWritten
<1>5. ~GetDone /\ ~TraceStarts /\ ~ResetDiscards /\ ~ResetEnds
  BY <1>0 DEF GetDone, TraceStarts, ReadDone, ResetDiscards, ResetEnds, AllAnswered
<1>6. /\ ~TakeRequest /\ ~BatchEnds /\ ~Wakes /\ ~TakeWallClockTicks
      /\ ~WallClockTicksDone /\ ~TimeStepDone /\ ~TickBegins /\ ~TickLosesBus
      /\ ~ActorReturns /\ ~CloseNext /\ ~CloseSent /\ ~CloseAwaitNext /\ ~EnvStops
  BY <1>0
     DEF TakeRequest, BatchEnds, Wakes, TakeWallClockTicks, WallClockTicksDone,
         TimeStepDone, TickBegins, TickLosesBus, ActorReturns, CloseNext,
         CloseSent, CloseAwaitNext, EnvStops
<1> QED
  BY <1>1, <1>2, <1>3, <1>4, <1>5, <1>6 DEF ActorStep

(* An instance moves only in a step, and at most once.                     *)
LEMMA InstanceMoves ==
  ASSUME EnvInv, NEW i \in Instances, LocalStep(i), ~lost,
         UNCHANGED <<elapsed, lost>>
  PROVE  \/ ticks'[i] = ticks[i]
         \/ Mode = "step" /\ ticks[i] = elapsed /\ ticks'[i] = elapsed + 1
<1>0. WorkersTypeOK /\ elapsed \in Nat /\ InstanceInv(i) /\ Line(i)
  BY InstanceIndex DEF EnvInv, InstanceInv
<1>1. Quiet(i) => ticks'[i] = ticks[i]
  BY <1>0, LocalQuiet
<1>2. ASSUME StepSent(i, elapsed)
      PROVE  \/ ticks'[i] = ticks[i]
             \/ ticks[i] = elapsed /\ ticks'[i] = elapsed + 1
  <2> HIDE DEF StepSent
  <2> QED
    BY <1>0, <1>2, LocalStepSent
<1>3. Mode = "rest" => Quiet(i)
  BY <1>0 DEF InstanceInv, RestInv, At
<1>4. Mode = "step" => Quiet(i) \/ StepSent(i, elapsed)
  BY <1>0, ModeFacts DEF InstanceInv, StepInv, At
<1> QED
  BY <1>1, <1>2, <1>3, <1>4, ModeFacts

LEMMA OthersSimulate ==
  ASSUME EnvInv, TypeInv', OthersStep
  PROVE  [Lockstep!Next]_<<Mode, elapsed, ticks>>
<1>0. /\ UNCHANGED <<apc, call, elapsed>> /\ lost \in BOOLEAN /\ WorkersTypeOK
      /\ ticks \in [Instances -> Nat] /\ ticks' \in [Instances -> Nat]
  BY InstanceIndex, Parts DEF OthersStep, control, clock, EnvInv, WorkersTypeOK
<1>1. PICK i \in Instances :
        \/ (WorkerStep(i) \/ InstanceStep(i)) /\ UNCHANGED lost
        \/ DirectReset(i) /\ lost' = TRUE
  BY DEF OthersStep
<1>2. /\ \A k \in Instances \ {i} : ticks'[k] = ticks[k]
      /\ (LocalStep(i) /\ lost' = lost) \/ lost' = TRUE
  BY <1>0, <1>1, WorkerEffect, InstanceEffect, DirectResetEffect DEF Same
<1>3. CASE lost'
  BY <1>0, <1>3, ModeFacts DEF Lockstep!Next, Lockstep!Loses
<1>4. CASE ~lost'
  <2>1. LocalStep(i) /\ UNCHANGED <<lost, elapsed>> /\ ~lost
    BY <1>0, <1>2, <1>4
  <2>2. Mode' = Mode
    BY <1>0, <2>1 DEF Mode
  <2>3. CASE ticks'[i] = ticks[i]
    <3>1. ticks' = ticks
      BY <1>0, <1>2, <2>3
    <3> QED
      BY <2>1, <2>2, <3>1
  <2>4. CASE Mode = "step" /\ ticks[i] = elapsed /\ ticks'[i] = elapsed + 1
    <3>1. ticks' = [ticks EXCEPT ![i] = elapsed + 1]
      BY <1>0, <1>2, <2>4
    <3> QED
      BY <2>1, <2>2, <2>4, <3>1 DEF Lockstep!Next, Lockstep!Moves
  <2> QED
    BY <2>1, <2>3, <2>4, InstanceMoves
<1> QED
  BY <1>3, <1>4

LEMMA ActorSimulates ==
  ASSUME EnvInv, TypeInv', ActorStep
  PROVE  [Lockstep!Next]_<<Mode, elapsed, ticks>>
<1>0. /\ TypeInv /\ [Next]_vars /\ lost \in BOOLEAN /\ ticks' = ticks
      /\ ticks \in [Instances -> Nat] /\ elapsed \in Nat
  BY ActorMoves, InstanceIndex DEF EnvInv, Next, WorkersTypeOK
<1>1. CASE lost'
  <2>1. elapsed' \in {elapsed, elapsed + 1}
    BY <1>0, <1>1, TimeMovesOn DEF ResetEnds
  <2>2. ~lost => elapsed' = elapsed
    BY <1>0, <1>1, TimeMoves DEF TickEnds, SampleWritten, ResetEnds
  <2> QED
    BY <1>0, <1>1, <2>1, <2>2, ModeFacts DEF Lockstep!Next, Lockstep!Loses
<1>2. CASE ResetEnds
  <2>1. AllAnswered("Discard") /\ elapsed' = 0 /\ apc' \in {"batch", "stopping"} /\ ~lost'
    BY <1>2 DEF ResetEnds, TimeReset, Respond
  <2>2. \A i \in Instances : ticks[i] = 0
    BY <2>1, AllAnsweredFacts DEF InstanceInv, ResetInv, At
  <2>3. ticks' = [i \in Instances |-> 0]
    BY <1>0, <2>2
  <2>4. lost
    BY <2>1, AllAnsweredFacts DEF EnvInv, CallInv
  <2>5. Mode = "lost" /\ Mode' = "rest"
    BY <2>1, <2>4, ModeFacts
  <2> QED
    BY <2>1, <2>3, <2>5 DEF Lockstep!Next, Lockstep!Recovers
<1>3. CASE ~lost' /\ ~ResetEnds
  <2>0. ~lost
    BY <1>0, <1>3, ActorMoves
  <2>1. CASE TickEnds \/ SampleWritten
    <3>1. /\ elapsed' = elapsed + 1 /\ apc' = "tick"
          /\ AllAnswered("Step") \/ AllAnswered("Sample")
      BY <2>1 DEF TickEnds, SampleWritten, TimeAdvances
    <3>2. Mode = "step" /\ Mode' = "rest"
      BY <1>3, <2>0, <3>1, AllAnsweredFacts, ModeFacts
    <3>3. \A i \in Instances : ticks[i] = elapsed + 1
      BY <3>1, <3>2, AllAnsweredFacts DEF InstanceInv, StepInv, At
    <3> QED
      BY <1>0, <3>1, <3>2, <3>3 DEF Lockstep!Next, Lockstep!StepEnds
  <2>2. CASE TickBegins
    <3>1. apc = "tick" /\ apc' = "send" /\ call' = "Step" /\ elapsed' = elapsed
      BY <2>2 DEF TickBegins, FanOut, clock
    <3>2. Mode = "rest" /\ Mode' = "step"
      BY <1>3, <2>0, <3>1, ModeFacts
    <3> QED
      BY <1>0, <3>1, <3>2 DEF Lockstep!Next, Lockstep!StepBegins
  <2>3. CASE ~TickEnds /\ ~SampleWritten /\ ~TickBegins
    <3>1. elapsed' = elapsed
      BY <1>0, <1>3, <2>3, TimeMoves
    <3>2. Mode' = "step" => Mode = "step"
      BY <1>0, <2>0, <2>3, ModeFacts, TickInProgress
    <3>3. Mode = "step" => Mode' = "step"
      BY <1>3, <2>3, StepGoesOn
    <3>4. Mode' = Mode
      BY <1>3, <2>0, <3>2, <3>3, ModeFacts
    <3> QED
      BY <1>0, <3>1, <3>4
  <2> QED
    BY <2>1, <2>2, <2>3
<1> QED
  BY <1>1, <1>2, <1>3

(* The env implements the lockstep clock: in a step each instance moves    *)
(* once and then the clock, at rest every instance is at the clock, and    *)
(* once a tick or a reset has failed only a reset that every instance      *)
(* carried out brings them together again.                                 *)
THEOREM ImplementsLockstep == Spec => LockstepSpec
<1>1. Init => Lockstep!Init
  BY DEF Init, WorkersInit, Mode, Lockstep!Init
<1>2. EnvInv /\ TypeInv' /\ [Next]_vars
        => [Lockstep!Next]_<<Mode, elapsed, ticks>>
  <2> SUFFICES ASSUME EnvInv, TypeInv', [Next]_vars
               PROVE  [Lockstep!Next]_<<Mode, elapsed, ticks>>
    OBVIOUS
  <2>1. CASE \/ \E c \in Clients, r \in Requests : Issue(c, r)
             \/ UNCHANGED vars
    <3>1. UNCHANGED <<workerVars, control, clock, lost>>
      BY <2>1 DEF Issue, vars
    <3>2. UNCHANGED <<Mode, elapsed, ticks>>
      BY <3>1 DEF workerVars, instances, control, clock, Mode
    <3> QED
      BY <3>2
  <2> QED
    BY <2>1, OthersSimulate, ActorSimulates DEF Next, Terminated
<1>3. EnvInv => TypeInv
  BY DEF EnvInv
<1> QED
  BY <1>1, <1>2, <1>3, EnvInvInductive, PTL DEF Spec, LockstepSpec, Lockstep!Spec

-----------------------------------------------------------------------------
(* The rows of the trace and the answers to get.                           *)

(* Where instance i can be from the sending of a read to its answer.       *)
ReadSent(i) ==
  \/ /\ reply[i] = "pending" /\ queue[i] # <<>>
     /\ queue[i][Len(queue[i])] = "Read"
  \/ /\ reply[i] = "pending" /\ queue[i] = <<>> /\ wstate[i] = "waiting"
     /\ \/ inbox[i] = "Read"
        \/ inbox[i] = "none" /\ (outbox[i] = "ok" => sample[i] = ticks[i])
  \/ reply[i] = "ok" /\ sample[i] = ticks[i]
  \/ reply[i] = "err"

(* An instance that was read has not moved since.                          *)
SampleInv(i) ==
  /\ apc \in {"read", "readWait"} /\ i < next => sample[i] = ticks[i]
  /\ ReadOf(i) => ReadSent(i)

(* Nobody moves the instances behind the env's back.                       *)
Undisturbed == "direct" \notin Faults \/ ~lost

RowsInv == Undisturbed => \A i \in Instances : SampleInv(i)

(* An error is the answer of a worker that has failed.                     *)
ErrInv == \A i \in Instances : reply[i] = "err" => Failed(i)

AllUp == \A i \in Instances : ~Failed(i)

(* Where instance i is when the instances were last together at tick n.    *)
Together(i, n) ==
  /\ apc = "send" /\ call = "Step" =>
       IF i < next THEN StepSent(i, n) ELSE At(i, n) /\ queue[i] = <<>>
  /\ apc = "await" /\ call = "Step" =>
       IF i < next THEN At(i, n + 1) ELSE StepSent(i, n)
  /\ apc \notin {"send", "await"} =>
       At(i, n) /\ (Closed \/ ReadOf(i) \/ queue[i] = <<>>)

(* As long as no worker has failed the instances are together, also when   *)
(* the env's clock is behind them.                                         *)
TogetherInv == AllUp => \E n \in Nat : \A i \in Instances : Together(i, n)

(* What one step of a worker or a daemon does to its instance's sample.    *)
SampleMoves(i) ==
  /\ sample'[i] \in {sample[i], ticks[i]}
  /\ inbox[i] = "Read" /\ inbox'[i] = "none" /\ outbox[i] = "none" /\ outbox'[i] = "ok"
       => sample'[i] = ticks[i]

LEMMA SampleEffect ==
  ASSUME WorkersTypeOK, NEW i \in Instances, WorkerStep(i) \/ InstanceStep(i)
  PROVE  SampleMoves(i) /\ \A k \in Instances \ {i} : sample'[k] = sample[k]
<1> USE DEF SampleMoves
<1>1. CASE WorkerStep(i)
  <2>1. sample' = sample /\ outbox'[i] \in {outbox[i], "none"}
    BY <1>1 DEF WorkerStep, WorkerSend, WorkerReceive, WorkerGivesUp,
                WorkerCloses, instances, WorkersTypeOK
  <2> QED
    BY <2>1
<1>2. CASE InstanceCrashes(i)
  BY <1>2 DEF InstanceCrashes
<1>3. CASE InstanceExecutes(i) /\ inbox[i] # "Read"
  <2>1. sample' = sample
    BY <1>3 DEF InstanceExecutes, InstanceSteps, InstanceResets,
                InstanceDiscards, InstanceReads, InstanceCloses
  <2> QED
    BY <1>3, <2>1
<1>4. CASE InstanceExecutes(i) /\ inbox[i] = "Read"
  <2>1. InstanceReads(i)
    BY <1>4 DEF InstanceExecutes, InstanceSteps, InstanceResets,
                InstanceDiscards, InstanceCloses
  <2>2. CASE sample' = [sample EXCEPT ![i] = ticks[i]]
    BY <2>2 DEF WorkersTypeOK
  <2>3. CASE sample' = sample /\ Deliver(i, "err")
    BY <2>3 DEF Deliver, WorkersTypeOK
  <2> QED
    BY <2>1, <2>2, <2>3 DEF InstanceReads
<1> QED
  BY <1>1, <1>2, <1>3, <1>4 DEF InstanceStep

LEMMA LocalReadSent ==
  ASSUME WorkersTypeOK, NEW i \in Instances, Line(i), ReadSent(i),
         reply[i] = "ok" => Settled(i), LocalStep(i), SampleMoves(i)
  PROVE  ReadSent(i)'
<1> USE InstanceTypes DEF Line, ReadSent
<1>1. CASE Sends(i)
  <2>1. queue[i] \in Seq(Ops) /\ queue[i] # <<>> /\ wstate[i] = "idle"
        /\ queue'[i] = Tail(queue[i]) /\ outbox'[i] = "none"
    BY <1>1 DEF Sends
  <2>2. CASE reply[i] = "pending" /\ queue[i][Len(queue[i])] = "Read"
    BY <1>1, <2>1, <2>2, TailFacts DEF Sends, Answered
  <2>3. CASE reply[i] # "pending"
    <3>1. reply'[i] = reply[i] /\ reply[i] # "ok"
      BY <1>1, <2>1, <2>3 DEF Sends, Answered, Settled
    <3> QED
      BY <2>3, <3>1
  <2> QED
    BY <2>1, <2>2, <2>3
<1>2. CASE Receives(i) \/ GivesUp(i)
  <2>1. /\ wstate[i] = "waiting" /\ queue'[i] = queue[i] /\ ticks'[i] = ticks[i]
        /\ \/ outbox[i] = "ok" /\ Answered(i, queue[i], "ok")
           \/ Answered(i, queue[i], "err")
    BY <1>2 DEF Receives, GivesUp
  <2>2. CASE reply[i] = "pending" /\ queue[i] = <<>>
    <3>1. inbox[i] = "Read" => outbox[i] = "none"
      BY <2>1
    <3> QED
      BY <2>1, <2>2, <3>1 DEF Answered, SampleMoves
  <2>3. CASE ~(reply[i] = "pending" /\ queue[i] = <<>>)
    <3>1. reply'[i] = reply[i]
      BY <2>1, <2>3 DEF Answered
    <3> QED
      BY <2>1, <2>3, <3>1 DEF Settled
  <2> QED
    BY <2>2, <2>3
<1>3. CASE Closes(i)
  BY <1>3 DEF Closes, Settled
<1>4. CASE Executes(i) \/ Crashes(i)
  <2>1. /\ queue'[i] = queue[i] /\ wstate'[i] = wstate[i] /\ reply'[i] = reply[i]
        /\ inbox'[i] = "none"
    BY <1>4 DEF Executes, Crashes
  <2>2. CASE reply[i] = "pending" /\ queue[i] = <<>>
    <3>1. CASE inbox[i] = "Read"
      <4>1. outbox[i] = "none" /\ ticks'[i] = ticks[i]
        BY <1>4, <2>2, <3>1 DEF Executes, Crashes
      <4> QED
        BY <2>1, <2>2, <3>1, <4>1 DEF SampleMoves
    <3>2. CASE inbox[i] = "none"
      <4>1. ticks'[i] = ticks[i] /\ outbox'[i] = outbox[i]
        BY <1>4, <3>2 DEF Executes, Crashes
      <4> QED
        BY <2>1, <2>2, <3>2, <4>1 DEF SampleMoves
    <3> QED
      BY <2>2, <3>1, <3>2
  <2>3. CASE reply[i] = "ok"
    <3>1. ticks'[i] = ticks[i]
      BY <1>4, <2>3 DEF Executes, Crashes, Settled
    <3> QED
      BY <2>1, <2>3, <3>1 DEF SampleMoves
  <2>4. CASE reply[i] = "err" \/ (reply[i] = "pending" /\ queue[i] # <<>>)
    BY <2>1, <2>4
  <2> QED
    BY <2>2, <2>3, <2>4
<1> QED
  BY <1>1, <1>2, <1>3, <1>4 DEF LocalStep

LEMMA OthersRows ==
  ASSUME EnvInv, RowsInv, OthersStep
  PROVE  RowsInv'
<1> SUFFICES ASSUME Undisturbed', NEW i \in Instances
             PROVE  SampleInv(i)'
  BY DEF RowsInv
<1>0. /\ UNCHANGED <<apc, call, next>> /\ WorkersTypeOK /\ lost \in BOOLEAN
      /\ i \in Nat /\ next \in Nat
      /\ Line(i) /\ (reply[i] = "ok" => Settled(i))
      /\ apc \in {"read", "readWait"} /\ i < next => Settled(i)
  BY InstanceIndex DEF OthersStep, control, EnvInv, InstanceInv, SettledInv
<1>1. PICK k \in Instances :
        \/ (WorkerStep(k) \/ InstanceStep(k)) /\ UNCHANGED lost
        \/ DirectReset(k) /\ lost' = TRUE
  BY DEF OthersStep
<1>2. ~(DirectReset(k) /\ lost' = TRUE)
  BY DEF DirectReset, Undisturbed
<1>3. SampleInv(i)
  BY <1>1, <1>2 DEF RowsInv, Undisturbed
<1>4. CASE i # k
  <2>1. Same(i) /\ sample'[i] = sample[i]
    BY <1>0, <1>1, <1>2, <1>4, WorkerEffect, InstanceEffect, SampleEffect
  <2> QED
    BY <1>0, <1>3, <2>1 DEF SampleInv, ReadOf, ReadSent, Same
<1>5. CASE i = k
  <2>1. LocalStep(i) /\ SampleMoves(i)
    BY <1>0, <1>1, <1>2, <1>5, WorkerEffect, InstanceEffect, SampleEffect
  <2>2. ReadSent(i) => ReadSent(i)'
    BY <1>0, <2>1, LocalReadSent
  <2>3. Settled(i) /\ sample[i] = ticks[i] => sample'[i] = ticks'[i]
    <3>1. Settled(i) => ticks'[i] = ticks[i]
      BY <1>0, <2>1, SettledQuiet, LocalQuiet
    <3> QED
      BY <2>1, <3>1 DEF SampleMoves
  <2> QED
    BY <1>0, <1>3, <2>2, <2>3 DEF SampleInv, ReadOf
<1> QED
  BY <1>4, <1>5

(* The actor reads nothing itself.                                         *)
LEMMA ActorLeavesSample ==
  ASSUME ActorStep
  PROVE  sample' = sample
<1>1. CASE HandleRequest
  BY <1>1
     DEF HandleRequest, HandleQuery, HandleTimeStart, HandleTimePause,
         HandleTimeStep, HandleReset, HandleTraceStart, HandleTraceStop,
         HandleGet, HandleClose, ScheduleAdd, ScheduleUpdate, ScheduleRemove,
         ScheduleStop, ScheduleStart, Schedules, workerVars, instances
<1>2. CASE WorkerRefuses \/ TickLosesBus \/ TickEndLosesBus \/ SampleNotWritten
  BY <1>2 DEF WorkerRefuses, TickLosesBus, TickEndLosesBus, SampleNotWritten,
              Abandon, instances
<1>3. CASE SendNext \/ AllSent \/ AwaitNext \/ ReadNext \/ ReadReply
  BY <1>3 DEF SendNext, AllSent, AwaitNext, ReadNext, ReadReply, Fanning,
              instances
<1>4. CASE \/ TakeRequest \/ BatchEnds \/ Wakes \/ TakeWallClockTicks
           \/ WallClockTicksDone \/ TimeStepDone \/ TickBegins \/ TickSampled
           \/ TickEnds \/ SampleWritten \/ GetDone \/ TraceStarts
           \/ ResetDiscards \/ ResetEnds
  BY <1>4
     DEF TakeRequest, BatchEnds, Wakes, TakeWallClockTicks, WallClockTicksDone,
         TimeStepDone, TickBegins, TickSampled, TickEnds, SampleWritten,
         GetDone, TraceStarts, ReadDone, ResetDiscards, ResetEnds, workerVars,
         instances
<1>5. CASE ActorReturns \/ CloseNext \/ CloseSent \/ CloseAwaitNext \/ EnvStops
  BY <1>5 DEF ActorReturns, CloseNext, CloseSent, CloseAwaitNext, EnvStops,
              Closing
<1> QED
  BY <1>1, <1>2, <1>3, <1>4, <1>5 DEF ActorStep

(* Reading goes on, or begins with the first instance.                     *)
LEMMA ReadingFrom ==
  ASSUME ActorStep, apc' \in {"read", "readWait"}
  PROVE  ReadNext \/ ReadReply \/ (apc' = "read" /\ next' = 1)
<1>1. CASE HandleRequest
  BY <1>1
     DEF HandleRequest, HandleQuery, HandleTimeStart, HandleTimePause,
         HandleTimeStep, HandleReset, HandleTraceStart, HandleTraceStop,
         HandleGet, HandleClose, ScheduleAdd, ScheduleUpdate, ScheduleRemove,
         ScheduleStop, ScheduleStart, Schedules, Respond, FanOut, ReadAll
<1>2. CASE WorkerRefuses \/ TickLosesBus \/ TickEndLosesBus \/ SampleNotWritten
  BY <1>2 DEF WorkerRefuses, TickLosesBus, TickEndLosesBus, SampleNotWritten,
              Abandon, Respond
<1>3. CASE \/ SendNext \/ AllSent \/ AwaitNext \/ TakeRequest \/ BatchEnds \/ Wakes
           \/ TakeWallClockTicks \/ WallClockTicksDone \/ TimeStepDone
  BY <1>3 DEF SendNext, AllSent, AwaitNext, Fanning, TakeRequest, BatchEnds,
              Wakes, TakeWallClockTicks, WallClockTicksDone, TimeStepDone, Respond
<1>4. CASE \/ TickBegins \/ TickSampled \/ TickEnds \/ SampleWritten \/ GetDone
           \/ TraceStarts \/ ResetDiscards \/ ResetEnds
  BY <1>4
     DEF TickBegins, TickSampled, TickEnds, SampleWritten, GetDone, TraceStarts,
         ResetDiscards, ResetEnds, FanOut, ReadAll, TimeAdvances, Respond
<1>5. CASE ActorReturns \/ CloseNext \/ CloseSent \/ CloseAwaitNext \/ EnvStops
  BY <1>5 DEF ActorReturns, CloseNext, CloseSent, CloseAwaitNext, EnvStops,
              Closing
<1> QED
  BY <1>1, <1>2, <1>3, <1>4, <1>5 DEF ActorStep

LEMMA ActorRows ==
  ASSUME EnvInv, RowsInv, ActorStep
  PROVE  RowsInv'
<1> SUFFICES ASSUME Undisturbed', NEW i \in Instances,
                    apc' \in {"read", "readWait"}
             PROVE  SampleInv(i)'
  BY DEF RowsInv, SampleInv, ReadOf
<1>0. /\ i \in Nat /\ i > 0 /\ next \in Nat /\ TypeInv /\ lost \in BOOLEAN
      /\ sample' = sample /\ ticks' = ticks
  BY InstanceIndex, ActorLeavesSample, ActorMoves DEF EnvInv
<1>1. ~ResetEnds
  BY DEF ResetEnds, Respond
<1>2. SampleInv(i)
  BY <1>0, <1>1, ActorMoves DEF RowsInv, Undisturbed
<1>3. CASE apc' = "read" /\ next' = 1
  BY <1>0, <1>3 DEF SampleInv, ReadOf
<1>4. CASE ReadNext
  <2>1. /\ apc = "read" /\ apc' = "readWait" /\ next' = next
        /\ UNCHANGED <<inbox, outbox, ticks>>
    BY <1>4 DEF ReadNext, Fanning, instances
  <2>2. CASE i = next
    <3>1. Gets(i, "Read") /\ Line(i) /\ "Read" \in Ops
      BY <1>0, <1>4, <2>1, <2>2, BeginEffect DEF ReadNext, EnvInv, InstanceInv, Ops
    <3>2. queue'[i] # <<>> /\ queue'[i][Len(queue'[i])] = "Read"
      BY <1>0, <3>1, GetsFacts
    <3>3. ReadSent(i)'
      BY <3>1, <3>2 DEF ReadSent, Gets
    <3> QED
      BY <1>0, <2>1, <2>2, <3>3 DEF SampleInv
  <2>3. CASE i # next
    BY <1>0, <1>2, <2>1, <2>3 DEF SampleInv, ReadOf
  <2> QED
    BY <2>2, <2>3
<1>5. CASE ReadReply
  <2>1. apc = "readWait" /\ apc' = "read" /\ next' = next + 1 /\ reply[next] = "ok"
    BY <1>5 DEF ReadReply, Fanning
  <2>2. CASE i = next
    <3>1. sample[i] = ticks[i]
      BY <1>2, <2>1, <2>2 DEF SampleInv, ReadOf, ReadSent
    <3> QED
      BY <1>0, <2>1, <3>1 DEF SampleInv, ReadOf
  <2>3. CASE i # next
    BY <1>0, <1>2, <2>1, <2>3 DEF SampleInv, ReadOf
  <2> QED
    BY <2>2, <2>3
<1> QED
  BY <1>3, <1>4, <1>5, ReadingFrom

LEMMA RowsInvStep == EnvInv /\ RowsInv /\ [Next]_vars => RowsInv'
<1> SUFFICES ASSUME EnvInv, RowsInv, [Next]_vars PROVE RowsInv'
  OBVIOUS
<1>1. CASE \/ \E c \in Clients, r \in Requests : Issue(c, r)
           \/ UNCHANGED vars
  <2>1. UNCHANGED <<workerVars, control, lost>>
    BY <1>1 DEF Issue, vars
  <2> QED
    BY <2>1 DEF RowsInv, Undisturbed, SampleInv, ReadOf, ReadSent, workerVars,
                workers, instances, control
<1> QED
  BY <1>1, OthersRows, ActorRows DEF Next, Terminated

LEMMA RowsInvInductive == Spec => [](EnvInv /\ RowsInv)
<1>1. Init => RowsInv
  BY DEF Init, WorkersInit, RowsInv, SampleInv, ReadOf
<1> QED
  BY <1>1, EnvInvInit, EnvInvStep, RowsInvStep, PTL DEF Spec

(* Who writes a row, and of which tick.                                    *)
LEMMA RowMoves ==
  ASSUME [Next]_vars, row' # row
  PROVE  \/ SampleWritten /\ row' = RowOf(SampleTick)
         \/ (GetDone \/ TraceStarts) /\ row' = RowOf(elapsed)
<1>1. CASE \/ \E c \in Clients, r \in Requests : Issue(c, r)
           \/ OthersStep \/ UNCHANGED vars
  BY <1>1 DEF Issue, OthersStep, vars, tracing
<1>2. CASE HandleRequest
  BY <1>2
     DEF HandleRequest, HandleQuery, HandleTimeStart, HandleTimePause,
         HandleTimeStep, HandleReset, HandleTraceStart, HandleTraceStop,
         HandleGet, HandleClose, ScheduleAdd, ScheduleUpdate, ScheduleRemove,
         ScheduleStop, ScheduleStart, Schedules, tracing
<1>3. CASE ActorStep /\ ~HandleRequest
  BY <1>3
     DEF ActorStep, TakeRequest, BatchEnds, Wakes, TakeWallClockTicks,
         WallClockTicksDone, TimeStepDone, SendNext, AllSent, AwaitNext,
         ReadNext, ReadReply, Fanning, WorkerRefuses, Abandon, TickBegins,
         TickLosesBus, TickSampled, TickEnds, TickEndLosesBus, SampleWritten,
         SampleNotWritten, GetDone, TraceStarts, ReadDone, ResetDiscards,
         ResetEnds, ActorReturns, CloseNext, CloseSent, CloseAwaitNext,
         EnvStops, Closing, tracing
<1> QED
  BY <1>1, <1>2, <1>3 DEF Next, Terminated

(* A row of the trace, or an answer to get, that is written while the      *)
(* lockstep is not lost holds the values of every instance at the very tick*)
(* it names, whatever the instances do while they are read one by one; and *)
(* none that was due is left out.                                          *)
THEOREM RowsAtTheirTick == Spec => RowMatchesClock
<1>1. ASSUME EnvInv, RowsInv, [Next]_vars, row' # row, ~lost, NEW i \in Instances
      PROVE  row'.values[i] = row'.tick
  <2>1. \A t : RowOf(t).values[i] = sample[i] /\ RowOf(t).tick = t
    BY DEF RowOf
  <2>2. AllAnswered("Sample") \/ AllAnswered("Read")
    BY <1>1, RowMoves DEF SampleWritten, GetDone, TraceStarts, ReadDone
  <2>3. /\ apc = "read" /\ call \in {"Read", "Sample"} /\ i < next
        /\ InstanceInv(i) /\ sample[i] = ticks[i]
    BY <1>1, <2>2, AllAnsweredFacts DEF RowsInv, Undisturbed, SampleInv
  <2>4. CASE SampleWritten /\ row' = RowOf(SampleTick)
    <3>1. call = "Sample"
      BY <2>4 DEF SampleWritten, AllAnswered
    <3>2. ticks[i] = SampleTick
      BY <1>1, <2>3, <3>1, ModeFacts DEF InstanceInv, StepInv, At, SampleTick
    <3> QED
      BY <2>1, <2>3, <2>4, <3>2
  <2>5. CASE (GetDone \/ TraceStarts) /\ row' = RowOf(elapsed)
    <3>1. call = "Read"
      BY <2>5 DEF GetDone, TraceStarts, ReadDone, AllAnswered
    <3>2. ticks[i] = elapsed
      BY <1>1, <2>3, <3>1, ModeFacts DEF InstanceInv, RestInv, At
    <3> QED
      BY <2>1, <2>3, <2>5, <3>2
  <2> QED
    BY <1>1, <2>4, <2>5, RowMoves
<1>2. EnvInv /\ RowsInv /\ TraceNotOverdue' /\ [Next]_vars =>
        [/\ row' # row /\ ~lost => \A i \in Instances : row'.values[i] = row'.tick
         /\ TraceNotOverdue']_vars
  BY <1>1
<1> QED
  BY <1>2, RowsInvInductive, SamplesOnTime, PTL DEF Spec, RowMatchesClock

-----------------------------------------------------------------------------
(* A row is of one instant, also while the lockstep is lost.               *)

LEMMA OthersTogether ==
  ASSUME EnvInv, ErrInv, TogetherInv, OthersStep, "direct" \notin Faults
  PROVE  ErrInv' /\ TogetherInv'
<1>0. /\ UNCHANGED <<apc, call, next>> /\ WorkersTypeOK
      /\ \A k \in Instances : Line(k) /\ (reply[k] = "ok" => Settled(k))
  BY InstanceIndex DEF OthersStep, control, EnvInv, InstanceInv, SettledInv
<1>1. PICK i \in Instances : WorkerStep(i) \/ InstanceStep(i)
  BY DEF OthersStep, DirectReset
<1>2. LocalStep(i) /\ \A k \in Instances \ {i} : Same(k)
  BY <1>0, <1>1, WorkerEffect, InstanceEffect
<1>3. /\ Failed(i) => Failed(i)'
      /\ reply'[i] = "err" => reply[i] = "err" \/ Failed(i)'
  BY <1>2 DEF LocalStep, Sends, Receives, GivesUp, Closes, Executes, Crashes,
              Answered, Failed
<1>4. \A k \in Instances \ {i} : /\ Failed(k)' <=> Failed(k)
                                 /\ reply'[k] = reply[k]
  BY <1>2 DEF Same, Failed
<1>5. ErrInv'
  BY <1>3, <1>4 DEF ErrInv
<1>6. AllUp' => AllUp
  BY <1>3, <1>4 DEF AllUp
<1>7. ASSUME NEW n \in Nat, Together(i, n)
      PROVE  Together(i, n)'
  <2>1. Quiet(i) => Quiet(i)' /\ ticks'[i] = ticks[i]
    BY <1>0, <1>2, LocalQuiet
  <2>2. StepSent(i, n) => StepSent(i, n)'
    <3> SUFFICES ASSUME StepSent(i, n) PROVE StepSent(i, n)'
      OBVIOUS
    <3> QED
      BY <1>0, <1>2, LocalStepSent
  <2>3. queue[i] = <<>> => queue'[i] = <<>>
    BY <1>2, LocalEmpty
  <2>4. (At(i, n) => At(i, n)') /\ (At(i, n + 1) => At(i, n + 1)')
    BY <2>1 DEF At
  <2> QED
    BY <1>0, <1>7, <2>2, <2>3, <2>4 DEF Together, Closed, ReadOf
<1>8. ASSUME NEW n \in Nat, NEW k \in Instances, Together(k, n), Same(k)
      PROVE  Together(k, n)'
  BY <1>0, <1>8 DEF Together, Closed, ReadOf, At, Quiet, StepSent, Same
<1> QED
  BY <1>2, <1>5, <1>6, <1>7, <1>8 DEF TogetherInv

(* The actor leaves the workers' states alone, and no error comes from it. *)
LEMMA ActorLeavesWorkers ==
  ASSUME TypeInv, ActorStep
  PROVE  /\ wstate' = wstate
         /\ \A i \in Instances : reply'[i] \in {reply[i], "none", "pending"}
<1>0. WorkersTypeOK
  BY InstanceIndex
<1>1. ASSUME \/ UNCHANGED workers \/ DropReceivers
             \/ \E i, op : Begin(i, op)
             \/ \E i : TakeReply(i)
      PROVE  /\ wstate' = wstate
             /\ \A i \in Instances : reply'[i] \in {reply[i], "none", "pending"}
  BY <1>0, <1>1 DEF workers, DropReceivers, Begin, TakeReply, WorkersTypeOK
<1>2. CASE HandleRequest
  <2>1. UNCHANGED workers
    BY <1>2
       DEF HandleRequest, HandleQuery, HandleTimeStart, HandleTimePause,
           HandleTimeStep, HandleReset, HandleTraceStart, HandleTraceStop,
           HandleGet, HandleClose, ScheduleAdd, ScheduleUpdate, ScheduleRemove,
           ScheduleStop, ScheduleStart, Schedules, workerVars
  <2> QED
    BY <1>1, <2>1
<1>3. CASE WorkerRefuses \/ TickLosesBus \/ TickEndLosesBus \/ SampleNotWritten
  BY <1>1, <1>3 DEF WorkerRefuses, TickLosesBus, TickEndLosesBus,
                    SampleNotWritten, Abandon
<1>4. CASE SendNext \/ AllSent \/ AwaitNext \/ ReadNext \/ ReadReply
  BY <1>1, <1>4 DEF SendNext, AllSent, AwaitNext, ReadNext, ReadReply
<1>5. CASE \/ TakeRequest \/ BatchEnds \/ Wakes \/ TakeWallClockTicks
           \/ WallClockTicksDone \/ TimeStepDone \/ TickBegins \/ TickSampled
           \/ TickEnds \/ SampleWritten \/ GetDone \/ TraceStarts
           \/ ResetDiscards \/ ResetEnds
  <2>1. UNCHANGED workers
    BY <1>5
       DEF TakeRequest, BatchEnds, Wakes, TakeWallClockTicks, WallClockTicksDone,
           TimeStepDone, TickBegins, TickSampled, TickEnds, SampleWritten,
           GetDone, TraceStarts, ReadDone, ResetDiscards, ResetEnds, workerVars
  <2> QED
    BY <1>1, <2>1
<1>6. CASE ActorReturns \/ CloseNext \/ CloseSent \/ CloseAwaitNext \/ EnvStops
  BY <1>1, <1>6 DEF ActorReturns, CloseNext, CloseSent, CloseAwaitNext, EnvStops
<1> QED
  BY <1>2, <1>3, <1>4, <1>5, <1>6 DEF ActorStep

(* What the actor finds at the end of a fan-out, or leaves where none is.  *)
LEMMA RestTogether ==
  ASSUME EnvInv, NEW n \in Nat, \A i \in Instances : At(i, n) /\ queue[i] = <<>>,
         UNCHANGED workers \/ DropReceivers, UNCHANGED <<inbox, outbox, ticks>>,
         apc' # "await", apc' = "send" => next' = 1
  PROVE  \A i \in Instances : Together(i, n)'
<1> SUFFICES ASSUME NEW i \in Instances PROVE Together(i, n)'
  OBVIOUS
<1>1. Untouched(i) /\ i > 0 /\ i \in Nat
  BY TouchNone, InstanceIndex DEF EnvInv
<1>2. At(i, n)' /\ queue'[i] = <<>>
  BY <1>1, UntouchedFacts DEF At, Untouched
<1> QED
  BY <1>1, <1>2 DEF Together

LEMMA SendTogether ==
  ASSUME EnvInv, SendNext, NEW n \in Nat, \A i \in Instances : Together(i, n)
  PROVE  \A i \in Instances : Together(i, n)'
<1>a. PICK m \in Instances : m = next
  BY InstanceIndex, Parts DEF EnvInv, SendNext
<1>0. /\ TypeInv /\ m = next /\ m \in Nat /\ m < next + 1 /\ Line(m)
      /\ apc = "send" /\ apc' = "send" /\ next' = next + 1 /\ call' = call
      /\ UNCHANGED <<inbox, outbox, ticks>> /\ Begin(m, call) /\ call \in Ops
  BY <1>a, InstanceIndex
     DEF EnvInv, InstanceInv, SendNext, Fanning, instances, CallInv, Ops
<1>1. Gets(m, call) /\ \A k \in Instances \ {m} : Same(k)
  BY <1>0, BeginEffect
<1>2. ASSUME NEW k \in Instances \ {m}
      PROVE  Together(k, n)'
  <2>1. Same(k) /\ Together(k, n) /\ k \in Nat /\ next \in Nat /\ k # next
    BY <1>0, <1>1, InstanceIndex
  <2> QED
    BY <1>0, <2>1 DEF Together, At, Quiet, StepSent, Same
<1>3. ASSUME call = "Step"
      PROVE  StepSent(m, n)'
  <2>1. At(m, n) /\ queue[m] = <<>>
    BY <1>0, <1>3 DEF Together
  <2>2. queue'[m] = <<"Step">>
    BY <1>0, <1>1, <1>3, <2>1, GetsFacts
  <2> QED
    BY <1>1, <2>1, <2>2 DEF StepSent, At, Quiet, Gets
<1>4. Together(m, n)'
  BY <1>0, <1>3 DEF Together
<1> QED
  BY <1>2, <1>4

LEMMA AwaitTogether ==
  ASSUME EnvInv, AllSent \/ AwaitNext, NEW n \in Nat,
         \A i \in Instances : Together(i, n)
  PROVE  \A i \in Instances : Together(i, n)'
<1>0. TypeInv /\ UNCHANGED <<inbox, outbox, ticks, call>> /\ apc' = "await"
  BY DEF EnvInv, AllSent, AwaitNext, Fanning, instances
<1>1. CASE AllSent
  <2>1. UNCHANGED workers /\ apc = "send" /\ next > NumInstances /\ next' = 1
    BY <1>1 DEF AllSent
  <2>2. ASSUME NEW i \in Instances
        PROVE  i < next /\ ~(i < 1)
    BY <1>0, <2>1, InstanceIndex, EnvConstantFacts
  <2> QED
    BY <1>0, <2>1, <2>2 DEF Together, At, Quiet, StepSent, workers
<1>2. CASE AwaitNext
  <2>a. PICK m \in Instances : m = next
    BY <1>0, <1>2, InstanceIndex DEF AwaitNext
  <2>1. /\ apc = "await" /\ m = next /\ reply[m] = "ok" /\ m \in Nat /\ m < next + 1
        /\ TakeReply(m) /\ next' = next + 1 /\ ~(m < next) /\ Together(m, n)
    BY <1>0, <1>2, <2>a, InstanceIndex DEF AwaitNext
  <2>2. Untouched(m) /\ \A k \in Instances \ {m} : Same(k)
    BY <1>0, <2>1, TakeReplyEffect
  <2>3. ASSUME NEW k \in Instances \ {m}
        PROVE  Together(k, n)'
    <3>1. Same(k) /\ Together(k, n) /\ k \in Nat /\ k # next /\ next \in Nat
      BY <1>0, <2>1, <2>2, InstanceIndex
    <3>2. k < next + 1 <=> k < next
      BY <3>1
    <3> QED
      BY <1>0, <2>1, <3>1, <3>2 DEF Together, At, Quiet, StepSent, Same
  <2>4. Together(m, n)'
    <3>1. Settled(m) /\ Line(m)
      BY <2>1 DEF EnvInv, SettledInv, InstanceInv
    <3>2. Quiet(m)' /\ ticks'[m] = ticks[m]
      BY <2>2, <3>1, SettledQuiet, UntouchedFacts DEF Untouched
    <3>3. call = "Step" => ticks[m] = n + 1
      BY <2>1 DEF Together, StepSent
    <3> QED
      BY <1>0, <2>1, <3>2, <3>3 DEF Together, At
  <2> QED
    BY <2>3, <2>4
<1> QED
  BY <1>1, <1>2

LEMMA ReadTogether ==
  ASSUME EnvInv, ReadNext \/ ReadReply, NEW n \in Nat,
         \A i \in Instances : Together(i, n)
  PROVE  \A i \in Instances : Together(i, n)'
<1>a. PICK m \in Instances : m = next
  BY InstanceIndex, Parts DEF EnvInv, ReadNext, ReadReply, FlowInv
<1>0. /\ TypeInv /\ m = next /\ Line(m) /\ Together(m, n)
      /\ UNCHANGED <<inbox, outbox, ticks>>
      /\ "Read" \in Ops /\ "Read" \notin Moving
  BY <1>a
     DEF EnvInv, InstanceInv, ReadNext, ReadReply, Fanning, instances, Ops, Moving
<1>1. \/ /\ apc = "read" /\ apc' = "readWait" /\ next' = next
         /\ Gets(m, "Read")
      \/ /\ apc = "readWait" /\ apc' = "read" /\ next' = next + 1
         /\ Untouched(m) /\ queue'[m] = <<>>
  <2>1. CASE ReadNext
    BY <1>0, <2>1, BeginEffect DEF ReadNext, Fanning
  <2>2. CASE ReadReply
    <3>1. queue[m] = <<>>
      BY <1>0, <2>2 DEF ReadReply, Line
    <3> QED
      BY <1>0, <2>2, <3>1, TakeReplyEffect DEF ReadReply, Fanning, Untouched
  <2> QED
    BY <2>1, <2>2
<1>2. ASSUME NEW k \in Instances \ {m}
      PROVE  Together(k, n)'
  <2>1. Same(k) /\ Together(k, n) /\ k # next
    BY <1>0, BeginEffect, TakeReplyEffect DEF ReadNext, ReadReply
  <2> QED
    BY <1>1, <2>1 DEF Together, At, Quiet, Same, Closed, ReadOf
<1>3. Together(m, n)'
  <2>1. Quiet(m)' /\ ticks'[m] = n
    BY <1>0, <1>1, UntouchedFacts, GetsFacts DEF Together, At, Untouched, Gets
  <2> QED
    BY <1>0, <1>1, <2>1 DEF Together, At, ReadOf
<1> QED
  BY <1>2, <1>3

LEMMA CloseTogether ==
  ASSUME EnvInv, CloseNext \/ CloseSent \/ CloseAwaitNext \/ EnvStops,
         NEW n \in Nat, \A i \in Instances : Together(i, n)
  PROVE  \A i \in Instances : Together(i, n)'
<1>0. TypeInv /\ Closed /\ Closed' /\ UNCHANGED <<inbox, outbox, ticks>>
  BY DEF EnvInv, CloseNext, CloseSent, CloseAwaitNext, EnvStops, Closing, Closed
<1>1. \A i \in Instances : Untouched(i) \/ Gets(i, "Close")
  <2>1. \A i \in Instances : Same(i) => Untouched(i)
    BY DEF Same, Untouched
  <2>2. CASE \E m \in Instances : Begin(m, "Close")
    BY <1>0, <2>1, <2>2, BeginEffect
  <2>3. CASE UNCHANGED workers
    BY <1>0, <2>3, TouchNone
  <2>4. CASE \E m \in Instances : TakeReply(m)
    BY <1>0, <2>4, TakeReplyEffect
  <2> QED
    BY <1>0, <2>2, <2>3, <2>4, InstanceIndex
       DEF CloseNext, CloseSent, CloseAwaitNext, EnvStops
<1>2. ASSUME NEW i \in Instances
      PROVE  Together(i, n)'
  <2>1. At(i, n) /\ Line(i) /\ "Close" \in Ops /\ "Close" \notin Moving
    BY <1>0 DEF EnvInv, InstanceInv, Together, Closed, Ops, Moving
  <2>2. At(i, n)'
    BY <1>0, <1>1, <2>1, UntouchedFacts, GetsFacts DEF At, Untouched, Gets
  <2> QED
    BY <1>0, <2>2 DEF Together, Closed
<1> QED
  BY <1>2

(* Where the actor has nothing on its way, it has nothing queued either.   *)
LEMMA RestingTogether ==
  ASSUME EnvInv, NEW n \in Nat, \A i \in Instances : Together(i, n),
         apc \in Resting,
         \/ TakeRequest \/ BatchEnds \/ Wakes \/ TakeWallClockTicks
         \/ WallClockTicksDone \/ TimeStepDone \/ HandleRequest
         \/ TickBegins \/ TickLosesBus \/ ActorReturns
  PROVE  \A i \in Instances : Together(i, n)'
<1>1. \A i \in Instances : At(i, n) /\ queue[i] = <<>>
  BY DEF Together, Resting, Closed, ReadOf
<1>2. CASE HandleRequest
  <2>1. UNCHANGED workerVars
    BY <1>2
       DEF HandleRequest, HandleQuery, HandleTimeStart, HandleTimePause,
           HandleTimeStep, HandleReset, HandleTraceStart, HandleTraceStop,
           HandleGet, HandleClose, ScheduleAdd, ScheduleUpdate, ScheduleRemove,
           ScheduleStop, ScheduleStart, Schedules
  <2>2. apc' # "await" /\ (apc' = "send" => next' = 1)
    BY <1>2
       DEF HandleRequest, HandleQuery, HandleTimeStart, HandleTimePause,
           HandleTimeStep, HandleReset, HandleTraceStart, HandleTraceStop,
           HandleGet, HandleClose, ScheduleAdd, ScheduleUpdate, ScheduleRemove,
           ScheduleStop, ScheduleStart, Schedules, Respond, FanOut, ReadAll
  <2> QED
    BY <1>1, <2>1, <2>2, RestTogether DEF workerVars, instances
<1>3. CASE \/ TakeRequest \/ BatchEnds \/ Wakes \/ TakeWallClockTicks
           \/ WallClockTicksDone \/ TimeStepDone \/ TickBegins
  BY <1>1, <1>3, RestTogether
     DEF TakeRequest, BatchEnds, Wakes, TakeWallClockTicks, WallClockTicksDone,
         TimeStepDone, TickBegins, FanOut, Respond, workerVars, instances
<1>4. CASE TickLosesBus
  BY <1>1, <1>4, RestTogether DEF TickLosesBus, Abandon, Respond, instances
<1>5. CASE ActorReturns
  BY <1>1, <1>5, RestTogether DEF ActorReturns, Closing
<1> QED
  BY <1>2, <1>3, <1>4, <1>5

(* A fan-out that ends brings the instances to the next tick, or to none.  *)
LEMMA EndTogether ==
  ASSUME EnvInv, NEW n \in Nat, \A i \in Instances : Together(i, n),
         \/ TickSampled \/ TickEnds \/ TickEndLosesBus \/ SampleWritten
         \/ SampleNotWritten \/ GetDone \/ TraceStarts
         \/ ResetDiscards \/ ResetEnds
  PROVE  \E m \in Nat : \A i \in Instances : Together(i, m)'
<1>1. CASE TickSampled \/ TickEnds \/ TickEndLosesBus
  <2>1. /\ AllAnswered("Step") /\ apc' \notin {"await", "send"}
        /\ UNCHANGED workers \/ DropReceivers
        /\ UNCHANGED <<inbox, outbox, ticks>>
    BY <1>1 DEF TickSampled, TickEnds, TickEndLosesBus, TimeAdvances, ReadAll,
                Abandon, Respond, workerVars, instances
  <2>2. \A i \in Instances : At(i, n + 1) /\ queue[i] = <<>>
    BY <2>1, AllAnsweredFacts DEF Together
  <2>3. n + 1 \in Nat
    OBVIOUS
  <2> QED
    BY <2>1, <2>2, <2>3, RestTogether
<1>2. CASE SampleWritten \/ SampleNotWritten \/ GetDone \/ TraceStarts
  <2>1. /\ AllAnswered("Sample") \/ AllAnswered("Read")
        /\ apc' \notin {"await", "send"}
        /\ UNCHANGED workers \/ DropReceivers
        /\ UNCHANGED <<inbox, outbox, ticks>>
    BY <1>2 DEF SampleWritten, SampleNotWritten, GetDone, TraceStarts, ReadDone,
                TimeAdvances, Abandon, Respond, workerVars, instances
  <2>2. \A i \in Instances : At(i, n) /\ queue[i] = <<>>
    BY <2>1, AllAnsweredFacts DEF Together
  <2> QED
    BY <2>1, <2>2, RestTogether
<1>3. CASE ResetDiscards
  BY <1>3 DEF ResetDiscards, FanOut, Together
<1>4. CASE ResetEnds
  <2>1. /\ AllAnswered("Discard") /\ apc' \notin {"await", "send"}
        /\ UNCHANGED workers /\ UNCHANGED <<inbox, outbox, ticks>>
    BY <1>4 DEF ResetEnds, Respond, workerVars, instances
  <2>2. \A i \in Instances : At(i, 0) /\ queue[i] = <<>>
    BY <2>1, AllAnsweredFacts DEF InstanceInv, ResetInv
  <2> QED
    BY <2>1, <2>2, RestTogether
<1> QED
  BY <1>1, <1>2, <1>3, <1>4

LEMMA ActorTogether ==
  ASSUME EnvInv, ErrInv, TogetherInv, ActorStep
  PROVE  ErrInv' /\ TogetherInv'
<1>0. /\ wstate' = wstate
      /\ \A i \in Instances : reply'[i] \in {reply[i], "none", "pending"}
  BY ActorLeavesWorkers DEF EnvInv
<1>1. ErrInv'
  BY <1>0 DEF ErrInv, Failed
<1>2. ASSUME AllUp'
      PROVE  \E n \in Nat : \A i \in Instances : Together(i, n)'
  <2>1. AllUp
    BY <1>0, <1>2 DEF AllUp, Failed
  <2>2. PICK n \in Nat : \A i \in Instances : Together(i, n)
    BY <2>1 DEF TogetherInv
  <2>3. ~WorkerRefuses
    <3> SUFFICES ASSUME WorkerRefuses PROVE FALSE
      OBVIOUS
    <3>1. next \in Instances
      BY InstanceIndex DEF EnvInv, WorkerRefuses
    <3>2. Failed(next)
      BY <3>1 DEF WorkerRefuses, ErrInv, Failed
    <3> QED
      BY <2>1, <3>1, <3>2 DEF AllUp
  <2>4. CASE \/ TakeRequest \/ BatchEnds \/ Wakes \/ TakeWallClockTicks
             \/ WallClockTicksDone \/ TimeStepDone \/ HandleRequest
             \/ TickBegins \/ TickLosesBus \/ ActorReturns
    <3>1. apc \in Resting
      BY <2>4
         DEF TakeRequest, BatchEnds, Wakes, TakeWallClockTicks,
             WallClockTicksDone, TimeStepDone, TickBegins, TickLosesBus,
             ActorReturns, HandleRequest, HandleQuery, HandleTimeStart,
             HandleTimePause, HandleTimeStep, HandleReset, HandleTraceStart,
             HandleTraceStop, HandleGet, HandleClose, ScheduleAdd,
             ScheduleUpdate, ScheduleRemove, ScheduleStop, ScheduleStart,
             Schedules, Handling, Resting
    <3>2. \A i \in Instances : Together(i, n)'
      BY <2>2, <2>4, <3>1, RestingTogether
    <3> QED
      BY <3>2
  <2>5. CASE SendNext \/ AllSent \/ AwaitNext \/ ReadNext \/ ReadReply
    BY <2>2, <2>5, SendTogether, AwaitTogether, ReadTogether
  <2>6. CASE \/ TickSampled \/ TickEnds \/ TickEndLosesBus \/ SampleWritten
             \/ SampleNotWritten \/ GetDone \/ TraceStarts
             \/ ResetDiscards \/ ResetEnds
    BY <2>2, <2>6, EndTogether
  <2>7. CASE CloseNext \/ CloseSent \/ CloseAwaitNext \/ EnvStops
    BY <2>2, <2>7, CloseTogether
  <2> QED
    BY <2>3, <2>4, <2>5, <2>6, <2>7 DEF ActorStep
<1> QED
  BY <1>1, <1>2 DEF TogetherInv

LEMMA TogetherStep ==
  ASSUME "direct" \notin Faults, EnvInv, ErrInv, TogetherInv, [Next]_vars
  PROVE  ErrInv' /\ TogetherInv'
<1>1. CASE \/ \E c \in Clients, r \in Requests : Issue(c, r)
           \/ UNCHANGED vars
  <2>1. UNCHANGED <<workerVars, control>>
    BY <1>1 DEF Issue, vars
  <2>2. /\ \A i \in Instances : (Failed(i)' <=> Failed(i)) /\ reply'[i] = reply[i]
        /\ \A n : \A i \in Instances : Together(i, n)' <=> Together(i, n)
    BY <2>1 DEF Together, Closed, ReadOf, At, Quiet, StepSent, workerVars,
                workers, instances, control, Failed
  <2> QED
    BY <2>2 DEF ErrInv, TogetherInv, AllUp
<1> QED
  BY <1>1, OthersTogether, ActorTogether DEF Next, Terminated

LEMMA TogetherInit == Init => ErrInv /\ TogetherInv /\ RowIsOneInstant
<1> SUFFICES ASSUME Init PROVE ErrInv /\ TogetherInv /\ RowIsOneInstant
  OBVIOUS
<1>1. /\ apc = "batch"
      /\ \A i \in Instances : /\ queue[i] = <<>> /\ reply[i] = "none"
                              /\ inbox[i] = "none" /\ ticks[i] = 0
      /\ row = NoRow
  BY DEF Init, WorkersInit
<1>2. Len(<<>>) = 0
  BY EmptySeq
<1>3. \A i \in Instances : At(i, 0)
  BY <1>1, <1>2 DEF At, Quiet, Moving
<1>4. \A i \in Instances : Together(i, 0)
  BY <1>1, <1>3 DEF Together
<1> QED
  BY <1>1, <1>4 DEF ErrInv, TogetherInv, RowIsOneInstant, NoRow

LEMMA OneInstantStep ==
  ASSUME "direct" \notin Faults, EnvInv, RowsInv, TogetherInv, RowIsOneInstant,
         [Next]_vars
  PROVE  RowIsOneInstant'
<1>1. CASE row' = row
  BY <1>1 DEF RowIsOneInstant
<1>2. CASE row' # row
  <2>1. PICK t : row' = RowOf(t) /\ \E op \in {"Read", "Sample"} : AllAnswered(op)
    BY <1>2, RowMoves DEF SampleWritten, GetDone, TraceStarts, ReadDone
  <2>2. apc = "read" /\ \A i \in Instances : i < next /\ ~Failed(i)
    BY <2>1, AllAnsweredFacts, AnsweredNotFailed DEF EnvInv
  <2>3. PICK n \in Nat : \A i \in Instances : Together(i, n)
    BY <2>2 DEF TogetherInv, AllUp
  <2>4. \A i \in Instances : sample[i] = n
    BY <2>2, <2>3 DEF RowsInv, Undisturbed, SampleInv, Together, At
  <2> QED
    BY <2>1, <2>4 DEF RowIsOneInstant, RowOf
<1> QED
  BY <1>1, <1>2

(* The values of a row, or of an answer to get, are those of one and the   *)
(* same tick of every instance, whatever failed before and although they   *)
(* are read one by one, provided that no client resets an attached instance*)
(* directly.  Ticks that failed half way do not contradict it: the workers *)
(* of the instances left behind have failed, and no row is read any more.  *)
THEOREM RowsOfOneInstant ==
  ASSUME "direct" \notin Faults
  PROVE  Spec => []RowIsOneInstant
<1> DEFINE Inv == EnvInv /\ RowsInv /\ ErrInv /\ TogetherInv /\ RowIsOneInstant
<1>1. Init => Inv
  <2>1. Init => RowsInv
    BY DEF Init, WorkersInit, RowsInv, SampleInv, ReadOf
  <2> QED
    BY <2>1, EnvInvInit, TogetherInit
<1>2. Inv /\ [Next]_vars => Inv'
  BY EnvInvStep, RowsInvStep, TogetherStep, OneInstantStep
<1>3. Inv => RowIsOneInstant
  OBVIOUS
<1> QED
  BY <1>1, <1>2, <1>3, PTL DEF Spec

=============================================================================
