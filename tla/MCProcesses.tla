---------------------------- MODULE MCProcesses ----------------------------
(***************************************************************************)
(* The parts of the system in which processes meet, for TLC: a behaviour   *)
(* is one of one part, chosen at first, and the variables v1 .. v11 are    *)
(* that part's.  A part is a module with the lemmas about it and with one  *)
(* choice of what may fail.                                                *)
(***************************************************************************)
EXTENDS Naturals

CONSTANTS
  Parts,                  (* the parts that are checked                    *)
  Starters, FewStarters,  (* processes that start a daemon: all and fewer  *)
  Closers, Sweepers,      (* processes that close it, and close --all      *)
  Ghost,                  (* a process that died before                    *)
  Instances, Taken,       (* the instances of an env, names that are taken *)
  Writer, Env,            (* the writer of a channel, the env's own socket *)
  MaxTicks, MaxResets, MaxWaiting,
  Clients, OnceOnly, MaxAttempts,
  TickUs, SpeedUnit, Speeds, MinDelay, MaxDelay, PausedDelay, Late

VARIABLES part, v1, v2, v3, v4, v5, v6, v7, v8, v9, v10, v11
vars == <<part, v1, v2, v3, v4, v5, v6, v7, v8, v9, v10, v11>>

Rest5 == <<part, v6, v7, v8, v9, v10, v11>>
Rest7 == <<part, v8, v9, v10, v11>>
Rest9 == <<part, v10, v11>>

Unused10 == v10 = "unused" /\ v11 = "unused"
Unused8 == v8 = "unused" /\ v9 = "unused" /\ Unused10
Unused6 == v6 = "unused" /\ v7 = "unused" /\ Unused8

-----------------------------------------------------------------------------
(* Starts and closes at once, where no process has died.                   *)
Fresh == INSTANCE StartupProofs WITH
  lock <- v1, endpoint <- v2, pidFile <- v3, spc <- v4, result <- v5,
  dpc <- v6, cpc <- v7, Starters <- FewStarters, Leftovers <- {{}}, Faults <- {"load"},
  env <- v1, phase <- v2, task <- v3, started <- v4, inst <- v5, Foreign <- {}, EnvFaults <- {}

(* Starts after a process that died left its lock or its endpoint.  An env *)
(* whose start fails late, which is Stale!Boot.                            *)
Stale == INSTANCE StartupProofs WITH
  lock <- v1, endpoint <- v2, pidFile <- v3, spc <- v4, result <- v5,
  dpc <- v6, cpc <- v7, Closers <- {}, Sweepers <- {},
  Leftovers <- {{}, {"lock"}, {"endpoint"}}, Faults <- {},
  env <- v1, phase <- v2, task <- v3, started <- v4, inst <- v5,
  Foreign <- {}, EnvFaults <- {"phase", "bind"}

(* Starters and daemons that crash, and that are slow.  An env some of     *)
(* whose names are taken, and any failure, which is Crash!Boot.            *)
Crash == INSTANCE StartupProofs WITH
  lock <- v1, endpoint <- v2, pidFile <- v3, spc <- v4, result <- v5,
  dpc <- v6, cpc <- v7, Starters <- FewStarters, Closers <- {}, Sweepers <- {},
  Leftovers <- {{}, {"lock"}, {"endpoint"}}, Faults <- {"crash", "slow"},
  env <- v1, phase <- v2, task <- v3, started <- v4, inst <- v5,
  Foreign <- Taken, EnvFaults <- {"start", "phase", "bind", "slow"}

(* What both kinds of daemon have: the transport of requests, any of whose *)
(* steps may fail, the clock, which is Daemon!Time, and the ticks in which *)
(* devices hand something to each other, Daemon!Exchange.                  *)
Daemon == INSTANCE DaemonPartsProofs WITH
  pc <- v1, failure <- v2, attempt <- v3, wire <- v4, queue <- v5,
  reply <- v6, done <- v7, up <- v8, timedOut <- v9,
  Faults <- {"readTimeout", "connectTimeout", "down"},
  running <- v1, speed <- v2, remainder <- v3, since <- v4, delay <- v5,
  left <- v6, late <- v7, due <- v8, undisturbed <- v9, owed <- v10,
  steady <- v11,
  env <- v1, clock <- v2, resets <- v3, stage <- v4, lib <- v5, region <- v6,
  taken <- v7, inbox <- v8, heard <- v9

ASSUME PartsAssumption ==
  /\ Fresh!StartupAssumption /\ Stale!StartupAssumption /\ Crash!StartupAssumption
  /\ Starters # {}
  /\ Stale!Boot!BootstrapAssumption /\ Crash!Boot!BootstrapAssumption
  /\ Daemon!Exchange!ExchangeAssumption
  /\ Daemon!TransportAssumption /\ Daemon!Time!TimeAssumption

-----------------------------------------------------------------------------
Init ==
  /\ part \in Parts
  /\ \/ part = "fresh" /\ Fresh!Init /\ Unused8
     \/ part = "stale" /\ Stale!Init /\ Unused8
     \/ part = "crash" /\ Crash!Init /\ Unused8
     \/ part = "failing" /\ Stale!Boot!Init /\ Unused6
     \/ part = "broken" /\ Crash!Boot!Init /\ Unused6
     \/ part = "transport" /\ Daemon!Init /\ Unused10
     \/ part = "exchange" /\ Daemon!Exchange!Init /\ Unused10
     \/ part = "time" /\ Daemon!Time!Init

Next ==
  \/ part = "fresh" /\ Fresh!Next /\ UNCHANGED Rest7
  \/ part = "stale" /\ Stale!Next /\ UNCHANGED Rest7
  \/ part = "crash" /\ Crash!Next /\ UNCHANGED Rest7
  \/ part = "failing" /\ Stale!Boot!Next /\ UNCHANGED Rest5
  \/ part = "broken" /\ Crash!Boot!Next /\ UNCHANGED Rest5
  \/ part = "transport" /\ Daemon!Next /\ UNCHANGED Rest9
  \/ part = "exchange" /\ Daemon!Exchange!Next /\ UNCHANGED Rest9
  \/ part = "time" /\ Daemon!Time!Next /\ UNCHANGED part

(* The fairness of the parts: a behaviour is of one part, so one           *)
(* requirement can stand for those of several.                             *)
StarterTurn(s) ==
  \/ part = "fresh" /\ s \in FewStarters /\ Fresh!StarterStep(s) /\ UNCHANGED Rest7
  \/ part = "stale" /\ Stale!StarterStep(s) /\ UNCHANGED Rest7
  \/ part = "crash" /\ s \in FewStarters /\ Crash!StarterStep(s) /\ UNCHANGED Rest7
PollTimesOut(s) ==
  \/ part = "fresh" /\ s \in FewStarters /\ Fresh!PollReturns(s) /\ UNCHANGED Rest7
  \/ part = "stale" /\ Stale!PollReturns(s) /\ UNCHANGED Rest7
  \/ part = "crash" /\ s \in FewStarters /\ Crash!PollReturns(s) /\ UNCHANGED Rest7
DaemonTurn(d) ==
  \/ part = "fresh" /\ d \in FewStarters /\ Fresh!DaemonStep(d) /\ UNCHANGED Rest7
  \/ part = "stale" /\ Stale!DaemonStep(d) /\ UNCHANGED Rest7
  \/ part = "crash" /\ d \in FewStarters /\ Crash!DaemonStep(d) /\ UNCHANGED Rest7
CloserTurn(c) == part = "fresh" /\ Fresh!CloserStep(c) /\ UNCHANGED Rest7
EnvTurn ==
  \/ part = "failing" /\ Stale!Boot!Step /\ UNCHANGED Rest5
  \/ part = "broken" /\ Crash!Boot!Step /\ UNCHANGED Rest5
ClientTurn(c) == part = "transport" /\ Daemon!ClientStep(c) /\ UNCHANGED Rest9
ConnectionTurn ==
  \/ part = "transport" /\ Daemon!Enqueue /\ UNCHANGED Rest9
  \/ part = "time" /\ Daemon!Time!Pass /\ UNCHANGED part
ActorTurn ==
  \/ part = "transport" /\ Daemon!CarryOut /\ UNCHANGED Rest9
  \/ part = "time" /\ Daemon!Time!Poll /\ UNCHANGED part

Fairness ==
  /\ \A s \in Starters :
       WF_vars(StarterTurn(s)) /\ SF_vars(PollTimesOut(s)) /\ WF_vars(DaemonTurn(s))
  /\ \A c \in Closers \cup Sweepers : WF_vars(CloserTurn(c))
  /\ WF_vars(EnvTurn)
  /\ \A c \in Clients : WF_vars(ClientTurn(c))
  /\ WF_vars(ConnectionTurn) /\ WF_vars(ActorTurn)

Spec == Init /\ [][Next]_vars /\ Fairness

-----------------------------------------------------------------------------
(* Starts: while no process has died before, one starter at a time holds   *)
(* the lock; a start that failed leaves no daemon that could come to life  *)
(* later; and after a crash concurrent starts leave one daemon that can be *)
(* reached and that stays so.                                              *)
StartsKeepOrder ==
  /\ part = "fresh" => Fresh!TypeOK /\ Fresh!LockExclusive /\ Fresh!FailedLeavesNone
  /\ part = "stale" => Stale!TypeOK /\ Stale!LeavesOneReachable /\ Stale!StaysReachable
  /\ part = "crash" => Crash!TypeOK /\ Crash!FailedLeavesNone

(* A start that is reported to have succeeded has its own daemon behind    *)
(* the endpoint, not one that another start or an earlier daemon left.     *)
StartedIsMine == [][part = "stale" => Stale!ReportsItsOwn]_vars

(* Envs: an env that serves has all its instances, a bootstrap that failed *)
(* leaves none, and a rollback never closes a daemon the env did not start.*)
EnvAllOrNone ==
  /\ part = "failing" => Stale!Boot!TypeOK /\ Stale!Boot!ServingHasAll /\ Stale!Boot!FailedLeavesNone
  /\ part = "broken" => /\ Crash!Boot!TypeOK /\ Crash!Boot!ServingHasAll
                       /\ Crash!Boot!SparesOthers

(* Requests: sent again or refused for a retry only after a read timeout,  *)
(* and reported as carried out only if they were.                          *)
RetriesAccounted ==
  part = "transport" =>
    /\ Daemon!TypeOK
    /\ Daemon!RepeatedOnlyAfterTimeout
    /\ Daemon!OkMeansDone
    /\ Daemon!RefusedOnlyAfterTimeout

(* Devices: what they hand to each other arrives in the tick it was made   *)
(* in or the next, and nothing of it after a reset.                        *)
ExchangeInTime ==
  part = "exchange" =>
    /\ Daemon!Exchange!TypeOK
    /\ Daemon!Exchange!SharedIsRecent /\ Daemon!Exchange!FramesArriveNext
    /\ Daemon!Exchange!NoFrameSurvivesReset /\ Daemon!Exchange!TicksFromOneMoment

(* The clock: neither gains nor loses time, holds no tick back, and sleeps *)
(* until the next tick is due, not longer.                                 *)
TimeKept ==
  part = "time" =>
    /\ Daemon!Time!TypeOK
    /\ Daemon!Time!NoTimeLost /\ Daemon!Time!NoTickHeldBack
    /\ Daemon!Time!SleepIsLongEnough /\ Daemon!Time!SleepIsShortEnough

(* Every start and every request returns, every bootstrap ends, and ticks  *)
(* keep coming while the clock runs.                                       *)
Ended ==
  CASE part = "fresh" -> Fresh!AllReturned
    [] part = "stale" -> Stale!AllReturned
    [] part = "crash" -> Crash!AllReturned
    [] part = "failing" -> Stale!Boot!Ended
    [] part = "broken" -> Crash!Boot!Ended
    [] part = "transport" -> Daemon!AllReturned
    [] part = "exchange" -> TRUE
    [] part = "time" -> Daemon!Time!Ticking
AllEnds == []<>Ended

=============================================================================
