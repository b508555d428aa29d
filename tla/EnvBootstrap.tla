---------------------------- MODULE EnvBootstrap ----------------------------
(***************************************************************************)
(* How an env daemon brings its instances up and, when that fails, down    *)
(* again (runtime/src/envd/server/bootstrap.rs, and run_listener of        *)
(* envd/server.rs until the env serves).  The instances are started by     *)
(* tasks that run in parallel, each by the protocol of Startup; what       *)
(* follows is a sequence of phases, each of which can fail.                *)
(*                                                                         *)
(* The process that asked for the env waits five seconds and then kills    *)
(* the env daemon (fault "slow").                                          *)
(***************************************************************************)
EXTENDS Naturals, Sequences

CONSTANTS
  Instances,  (* the instances of the env's definition                     *)
  Foreign,    (* of these, the names another daemon already runs under     *)
  Faults      (* "start" (a daemon does not come up), "phase", "bind",     *)
              (* "slow"                                                    *)

BootstrapAssumption ==
  /\ Foreign \subseteq Instances
  /\ Faults \subseteq {"start", "phase", "bind", "slow"}

VARIABLES
  env,      (* where the env daemon's start is                             *)
  phase,    (* the phase it has reached                                    *)
  task,     (* the task that starts each instance                          *)
  started,  (* started_instances                                           *)
  inst      (* each instance's own daemon: "none", "booting", "up", "down" *)

vars == <<env, phase, task, started, inst>>

(* What happens between the last instance's start and the env's own socket.*)
Phases ==
  <<"connect", "info", "signals", "catalog", "worker buses", "env buses",
    "attach buses", "attach channels">>

Init ==
  /\ env = "start" /\ phase = 1
  /\ task = [i \in Instances |-> "none"]
  /\ started = {}
  /\ inst = [i \in Instances |-> IF i \in Foreign THEN "up" ELSE "none"]

-----------------------------------------------------------------------------
(* The tasks.                                                              *)

(* The names are valid; a task for every instance goes into the set.       *)
Begin ==
  /\ env = "start"
  /\ env' = "join"
  /\ task' = [i \in Instances |-> "check"]
  /\ UNCHANGED <<phase, started, inst>>

(* bootstrap_with_exe: the name must be free.                              *)
TaskSpawns(i) ==
  /\ task[i] = "check"
  /\ IF inst[i] = "up"
     THEN task' = [task EXCEPT ![i] = "failed"] /\ UNCHANGED inst
     ELSE task' = [task EXCEPT ![i] = "poll"] /\ inst' = [inst EXCEPT ![i] = "booting"]
  /\ UNCHANGED <<env, phase, started>>

InstanceComesUp(i) ==
  /\ inst[i] = "booting"
  /\ \/ inst' = [inst EXCEPT ![i] = "up"]
     \/ "start" \in Faults /\ inst' = [inst EXCEPT ![i] = "down"]
  /\ UNCHANGED <<env, phase, task, started>>

TaskReturns(i) ==
  /\ task[i] = "poll"
  /\ inst[i] \in {"up", "down"}
  /\ task' = [task EXCEPT ![i] = IF inst[i] = "up" THEN "ok" ELSE "failed"]
  /\ UNCHANGED <<env, phase, started, inst>>

(* join_next gives an instance to started_instances.                       *)
JoinStarted(i) ==
  /\ env = "join"
  /\ task[i] = "ok"
  /\ task' = [task EXCEPT ![i] = "joined"]
  /\ started' = started \cup {i}
  /\ UNCHANGED <<env, phase, inst>>

(* At the first error the set is dropped: the tasks that are left are      *)
(* aborted, or their results never looked at.                              *)
JoinFailed(i) ==
  /\ env = "join"
  /\ task[i] = "failed"
  /\ env' = "rollback"
  /\ task' = [k \in Instances |-> IF task[k] = "joined" THEN "joined" ELSE "aborted"]
  /\ UNCHANGED <<phase, started, inst>>

-----------------------------------------------------------------------------
(* The env daemon.                                                         *)

AllJoined ==
  /\ env = "join"
  /\ started = Instances
  /\ env' = "phases"
  /\ UNCHANGED <<phase, task, started, inst>>

PhaseEnds ==
  /\ env = "phases"
  /\ \/ phase < Len(Phases) /\ phase' = phase + 1 /\ UNCHANGED env
     \/ phase = Len(Phases) /\ env' = "bind" /\ UNCHANGED phase
     \/ "phase" \in Faults /\ env' = "rollback" /\ UNCHANGED phase
  /\ UNCHANGED <<task, started, inst>>

(* The env's socket, marker and pid file.                                  *)
Bind ==
  /\ env = "bind"
  /\ \/ env' = "serving"
     \/ "bind" \in Faults /\ env' = "rollback"
  /\ UNCHANGED <<phase, task, started, inst>>

(* shutdown_bootstrapped_instances, cleanup_listener_runtime: a Close, or, *)
(* if that gives an error, a kill by the pid file.                         *)
RollbackOne(i) ==
  /\ env = "rollback"
  /\ i \in started
  /\ started' = started \ {i}
  /\ inst' = [inst EXCEPT ![i] = "down"]
  /\ UNCHANGED <<env, phase, task>>

(* Mutant: the failure is reported before the instances are closed.        *)
RollbackEndsEarly ==
  /\ env = "rollback"
  /\ env' = "failed"
  /\ UNCHANGED <<phase, task, started, inst>>

RollbackEnds ==
  /\ env = "rollback"
  /\ started = {}
  /\ env' = "failed"
  /\ UNCHANGED <<phase, task, started, inst>>

KilledByStarter ==
  /\ "slow" \in Faults
  /\ env \notin {"serving", "failed", "killed"}
  /\ env' = "killed"
  /\ task' = [i \in Instances |-> "aborted"]
  /\ UNCHANGED <<phase, started, inst>>

Over == env \in {"serving", "failed", "killed"} /\ \A i \in Instances : inst[i] # "booting"

Step ==
  \/ Begin \/ AllJoined \/ PhaseEnds \/ Bind \/ RollbackEnds
  \/ \E i \in Instances :
       TaskSpawns(i) \/ TaskReturns(i) \/ InstanceComesUp(i)
         \/ JoinStarted(i) \/ JoinFailed(i) \/ RollbackOne(i)

Next == Step \/ KilledByStarter \/ (Over /\ UNCHANGED vars)

(* Every task and the env daemon are scheduled.                            *)
Spec == Init /\ [][Next]_vars /\ WF_vars(Step)

-----------------------------------------------------------------------------
TypeOK ==
  /\ env \in {"start", "join", "phases", "bind", "serving", "rollback", "failed", "killed"}
  /\ phase \in 1 .. Len(Phases)
  /\ task \in [Instances -> {"none", "check", "poll", "ok", "failed", "joined", "aborted"}]
  /\ started \subseteq Instances
  /\ inst \in [Instances -> {"none", "booting", "up", "down"}]

(* An env that serves has all its instances.                               *)
ServingHasAll == env = "serving" => started = Instances /\ \A i \in Instances : inst[i] = "up"

(* A bootstrap that failed leaves none of the daemons it started.          *)
FailedLeavesNone ==
  env = "failed" => \A i \in Instances \ Foreign : inst[i] \notin {"booting", "up"}

(* A rollback never closes a daemon that runs under a name of the env but  *)
(* that the env did not start.                                             *)
SparesOthers == \A i \in Foreign : inst[i] = "up"

(* The start of an env comes to an end, good or bad.                       *)
Ended == env \in {"serving", "failed", "killed"}

=============================================================================
