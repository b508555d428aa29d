------------------------------- MODULE Startup -------------------------------
(***************************************************************************)
(* How a named daemon is started and closed by command-line processes that *)
(* share nothing but files (runtime/src/process.rs, ipc.rs,                *)
(* daemon/lifecycle.rs, the ends of run_listener in daemon/server.rs, the  *)
(* close commands of cli/mod.rs; envd/lifecycle.rs has the same protocol   *)
(* for envs).  There is one name here, so one start-up lock, one endpoint, *)
(* one pid file.                                                           *)
(*                                                                         *)
(* A starter makes one attempt and spawns at most one daemon, so a daemon  *)
(* bears its starter's name.  A file holds the name of who wrote it, which *)
(* stands for the process id in it.  The env tag is written and removed    *)
(* with the pid file and is not told apart from it; the specification file *)
(* handed to the daemon is left out.  On Windows a marker file stands for  *)
(* the endpoint; this is the Unix protocol.                                *)
(*                                                                         *)
(* There is no clock: a timeout of seconds fires only when what it waits   *)
(* for can no longer come by itself, unless the fault "slow" is there.     *)
(***************************************************************************)
EXTENDS Naturals, FiniteSets

CONSTANTS
  Starters,   (* processes that run load (or env start)                    *)
  Closers,    (* processes that run close                                  *)
  Sweepers,   (* processes that run close --all                            *)
  Ghost,      (* a process that died before                                *)
  Leftovers,  (* the sets of files such a process may have left            *)
  Faults      (* "crash", "slow", "load" (the library cannot be loaded)    *)

Nobody == "nobody"   (* stands where no process does                       *)

StartupAssumption ==
  /\ Ghost \notin Starters
  /\ Nobody \notin Starters \cup {Ghost}
  /\ Leftovers \subseteq SUBSET {"lock", "endpoint"}
  /\ Leftovers # {}
  /\ Faults \subseteq {"crash", "slow", "load"}

VARIABLES
  lock,       (* whose lock file is there, and whether its pid is in it    *)
  endpoint,   (* whose socket the endpoint's file is                       *)
  pidFile,    (* whose pid the pid file holds                              *)
  spc,        (* where each starter is                                     *)
  result,     (* what it has to return                                     *)
  dpc,        (* where each starter's daemon is                            *)
  cpc         (* where each close command is                               *)

vars == <<lock, endpoint, pidFile, spc, result, dpc, cpc>>

Owners == Starters \cup {Ghost, Nobody}
Unlocked == [owner |-> Nobody, written |-> FALSE]
Closing == Closers \cup Sweepers

Acquiring == {"create", "write", "read", "remove", "wait"}
Holding == {"check", "spawn", "pollPid", "pollConnect", "pollExit", "release"}

Init ==
  \E left \in Leftovers :
    /\ lock = IF "lock" \in left THEN [owner |-> Ghost, written |-> TRUE] ELSE Unlocked
    /\ endpoint = IF "endpoint" \in left THEN Ghost ELSE Nobody
    /\ pidFile = IF "endpoint" \in left THEN Ghost ELSE Nobody
    /\ spc = [s \in Starters |-> "create"]
    /\ result = [s \in Starters |-> "none"]
    /\ dpc = [d \in Starters |-> "none"]
    /\ cpc = [c \in Closing |-> "check"]

(* A socket is listened on from bind until the listener is dropped.        *)
Listening(d) == d \in Starters /\ dpc[d] \in {"pid", "serve", "closing", "unpid", "reclaim"}
Connectable == Listening(endpoint)
DaemonAlive(d) == dpc[d] \notin {"none", "exited", "dead"}
StarterAlive(s) == s \in Starters /\ spc[s] # "dead"

-----------------------------------------------------------------------------
(* A starter: StartupLock::acquire.                                        *)

Goto(s, place) == spc' = [spc EXCEPT ![s] = place]
Return(s, what, place) ==
  /\ result' = [result EXCEPT ![s] = what]
  /\ Goto(s, place)

(* Mutant: the file is made without create_new.                            *)
CreateLockAnyway(s) ==
  /\ spc[s] = "create"
  /\ lock' = [owner |-> s, written |-> FALSE]
  /\ Goto(s, "write")
  /\ UNCHANGED <<endpoint, pidFile, result, dpc, cpc>>

(* try_create_lock makes the file first and then writes the pid to it.     *)
CreateLock(s) ==
  /\ spc[s] = "create"
  /\ IF lock = Unlocked
     THEN lock' = [owner |-> s, written |-> FALSE] /\ Goto(s, "write")
     ELSE Goto(s, "read") /\ UNCHANGED lock
  /\ UNCHANGED <<endpoint, pidFile, result, dpc, cpc>>

(* If somebody has removed the file, the pid goes to no file at all.       *)
WriteLock(s) ==
  /\ spc[s] = "write"
  /\ lock' = IF lock.owner = s THEN [lock EXCEPT !.written = TRUE] ELSE lock
  /\ Goto(s, "check")
  /\ UNCHANGED <<endpoint, pidFile, result, dpc, cpc>>

(* A lock without a pid is stale at the age of one second.                 *)
Stale == IF lock.written THEN ~StarterAlive(lock.owner)
         ELSE ~StarterAlive(lock.owner) \/ "slow" \in Faults

(* clear_stale_lock decides on what it reads now, and removes later.       *)
ReadLock(s) ==
  /\ spc[s] = "read"
  /\ Goto(s, IF lock # Unlocked /\ Stale THEN "remove" ELSE "wait")
  /\ UNCHANGED <<lock, endpoint, pidFile, result, dpc, cpc>>

(* Removing a file that is gone is an error, and ends the attempt.         *)
RemoveStale(s) ==
  /\ spc[s] = "remove"
  /\ IF lock = Unlocked
     THEN Return(s, "failed", "done") /\ UNCHANGED lock
     ELSE lock' = Unlocked /\ Goto(s, "create") /\ UNCHANGED result
  /\ UNCHANGED <<endpoint, pidFile, dpc, cpc>>

WaitForLock(s) ==
  /\ spc[s] = "wait"
  /\ \/ Goto(s, "create") /\ UNCHANGED result
     \/ "slow" \in Faults /\ Return(s, "failed", "done")
  /\ UNCHANGED <<lock, endpoint, pidFile, dpc, cpc>>

-----------------------------------------------------------------------------
(* A starter: bootstrap_with_exe, with the lock held.                      *)

CheckRunning(s) ==
  /\ spc[s] = "check"
  /\ IF Connectable
     THEN Return(s, "already", "release")
     ELSE Goto(s, "spawn") /\ UNCHANGED result
  /\ UNCHANGED <<lock, endpoint, pidFile, dpc, cpc>>

Spawn(s) ==
  /\ spc[s] = "spawn"
  /\ dpc' = [dpc EXCEPT ![s] = "bind"]
  /\ Goto(s, "pollPid")
  /\ UNCHANGED <<lock, endpoint, pidFile, result, cpc>>

(* Mutant: any daemon that answers will do.                                *)
PollAnyPid(s) ==
  /\ spc[s] = "pollPid"
  /\ Goto(s, IF pidFile # Nobody THEN "pollConnect" ELSE "pollExit")
  /\ UNCHANGED <<lock, endpoint, pidFile, result, dpc, cpc>>

PollPid(s) ==
  /\ spc[s] = "pollPid"
  /\ Goto(s, IF pidFile = s THEN "pollConnect" ELSE "pollExit")
  /\ UNCHANGED <<lock, endpoint, pidFile, result, dpc, cpc>>

PollConnect(s) ==
  /\ spc[s] = "pollConnect"
  /\ IF Connectable
     THEN Return(s, "ok", "release")
     ELSE Goto(s, "pollExit") /\ UNCHANGED result
  /\ UNCHANGED <<lock, endpoint, pidFile, dpc, cpc>>

(* Five seconds are over: the child has done all it will do by itself, and *)
(* the poll does not find it.                                              *)
Overdue(s) ==
  "slow" \in Faults \/ (dpc[s] = "serve" /\ ~(pidFile = s /\ Connectable))

(* Mutant: the loop has no timeout.                                        *)
PollExitForever(s) ==
  /\ spc[s] = "pollExit"
  /\ \/ ~DaemonAlive(s) /\ Return(s, "failed", "release")
     \/ DaemonAlive(s) /\ Goto(s, "pollPid") /\ UNCHANGED result
  /\ UNCHANGED <<lock, endpoint, pidFile, dpc, cpc>>

(* try_wait, then another turn or, after the timeout,                      *)
(* cleanup_bootstrap_timeout, which kills the child and waits for its end. *)
PollExit(s) ==
  /\ spc[s] = "pollExit"
  /\ \/ ~DaemonAlive(s) /\ Return(s, "failed", "release") /\ UNCHANGED dpc
     \/ DaemonAlive(s) /\ Goto(s, "pollPid") /\ UNCHANGED <<result, dpc>>
     \/ /\ DaemonAlive(s) /\ Overdue(s)
        /\ dpc' = [dpc EXCEPT ![s] = "dead"]
        /\ Return(s, "failed", "release")
  /\ UNCHANGED <<lock, endpoint, pidFile, cpc>>

(* Dropping the lock removes its file, whoever made it.                    *)
Release(s) ==
  /\ spc[s] = "release"
  /\ lock' = Unlocked
  /\ Goto(s, "done")
  /\ UNCHANGED <<endpoint, pidFile, result, dpc, cpc>>

StarterCrashes(s) ==
  /\ "crash" \in Faults
  /\ spc[s] \notin {"done", "dead"}
  /\ Goto(s, "dead")
  /\ UNCHANGED <<lock, endpoint, pidFile, result, dpc, cpc>>

StarterStep(s) ==
  \/ CreateLock(s) \/ WriteLock(s) \/ ReadLock(s) \/ RemoveStale(s) \/ WaitForLock(s)
  \/ CheckRunning(s) \/ Spawn(s)
  \/ PollPid(s) \/ PollConnect(s) \/ PollExit(s) \/ Release(s)

-----------------------------------------------------------------------------
(* A daemon: bind_listener, the files, and their removal at the end.       *)

DaemonGoto(d, place) == dpc' = [dpc EXCEPT ![d] = place]

Bind(d) ==
  /\ dpc[d] \in {"bind", "rebind"}
  /\ \/ /\ endpoint = Nobody
        /\ endpoint' = d
        /\ DaemonGoto(d, "pid")
     \/ /\ endpoint # Nobody
        /\ DaemonGoto(d, IF dpc[d] = "bind" THEN "probe" ELSE "exited")
        /\ UNCHANGED endpoint
  /\ UNCHANGED <<lock, pidFile, spc, result, cpc>>

LoadFails(d) ==
  /\ "load" \in Faults
  /\ dpc[d] = "bind"
  /\ DaemonGoto(d, "exited")
  /\ UNCHANGED <<lock, endpoint, pidFile, spc, result, cpc>>

(* An endpoint in use is left alone, one that nobody answers is stale.     *)
Probe(d) ==
  /\ dpc[d] = "probe"
  /\ DaemonGoto(d, IF Connectable THEN "exited" ELSE "clean")
  /\ UNCHANGED <<lock, endpoint, pidFile, spc, result, cpc>>

CleanEndpoint(d) ==
  /\ dpc[d] = "clean"
  /\ endpoint' = Nobody
  /\ DaemonGoto(d, "rebind")
  /\ UNCHANGED <<lock, pidFile, spc, result, cpc>>

WritePid(d) ==
  /\ dpc[d] = "pid"
  /\ pidFile' = d
  /\ DaemonGoto(d, "serve")
  /\ UNCHANGED <<lock, endpoint, spc, result, cpc>>

(* The end of run_listener removes the files, whoever made them; dropping  *)
(* the listener unlinks the endpoint's path once more.                     *)
RemoveEndpoint(d) ==
  /\ dpc[d] = "closing"
  /\ endpoint' = Nobody
  /\ DaemonGoto(d, "unpid")
  /\ UNCHANGED <<lock, pidFile, spc, result, cpc>>

RemovePid(d) ==
  /\ dpc[d] = "unpid"
  /\ pidFile' = Nobody
  /\ DaemonGoto(d, "reclaim")
  /\ UNCHANGED <<lock, endpoint, spc, result, cpc>>

ReclaimName(d) ==
  /\ dpc[d] = "reclaim"
  /\ endpoint' = Nobody
  /\ DaemonGoto(d, "exited")
  /\ UNCHANGED <<lock, pidFile, spc, result, cpc>>

DaemonCrashes(d) ==
  /\ "crash" \in Faults
  /\ DaemonAlive(d)
  /\ DaemonGoto(d, "dead")
  /\ UNCHANGED <<lock, endpoint, pidFile, spc, result, cpc>>

DaemonStep(d) ==
  \/ Bind(d) \/ Probe(d) \/ CleanEndpoint(d) \/ WritePid(d)
  \/ RemoveEndpoint(d) \/ RemovePid(d) \/ ReclaimName(d)

-----------------------------------------------------------------------------
(* The close commands.                                                     *)

CloserGoto(c, place) == cpc' = [cpc EXCEPT ![c] = place]

(* ensure_daemon_running, or the list of running instances.                *)
CheckClose(c) ==
  /\ cpc[c] = "check"
  /\ CloserGoto(c, IF Connectable THEN "send" ELSE IF c \in Closers THEN "clean" ELSE "done")
  /\ UNCHANGED <<lock, endpoint, pidFile, spc, result, dpc>>

(* The daemon answers a Close and begins to shut down.  A request to one   *)
(* that is bound but does not serve yet waits; one that is shutting down   *)
(* or gone gives an error.                                                 *)
SendClose(c) ==
  /\ cpc[c] = "send"
  /\ ~(Connectable /\ dpc[endpoint] = "pid")
  /\ IF Connectable /\ dpc[endpoint] = "serve"
     THEN DaemonGoto(endpoint, "closing") /\ CloserGoto(c, "done")
     ELSE CloserGoto(c, IF c \in Closers THEN "recheck" ELSE "kill") /\ UNCHANGED dpc
  /\ UNCHANGED <<lock, endpoint, pidFile, spc, result>>

RecheckClose(c) ==
  /\ cpc[c] = "recheck"
  /\ CloserGoto(c, IF Connectable THEN "done" ELSE "clean")
  /\ UNCHANGED <<lock, endpoint, pidFile, spc, result, dpc>>

(* cleanup_runtime_artifacts, in its two steps.                            *)
CloserCleansEndpoint(c) ==
  /\ cpc[c] = "clean"
  /\ endpoint' = Nobody
  /\ CloserGoto(c, "cleanPid")
  /\ UNCHANGED <<lock, pidFile, spc, result, dpc>>

CloserCleansPid(c) ==
  /\ cpc[c] = "cleanPid"
  /\ pidFile' = Nobody
  /\ CloserGoto(c, "done")
  /\ UNCHANGED <<lock, endpoint, spc, result, dpc>>

(* close --all kills whom the pid file names when the Close fails.         *)
KillByPid(c) ==
  /\ cpc[c] = "kill"
  /\ dpc' = [d \in Starters |-> IF d = pidFile /\ DaemonAlive(d) THEN "dead" ELSE dpc[d]]
  /\ CloserGoto(c, "done")
  /\ UNCHANGED <<lock, endpoint, pidFile, spc, result>>

CloserStep(c) ==
  \/ CheckClose(c) \/ SendClose(c) \/ RecheckClose(c)
  \/ CloserCleansEndpoint(c) \/ CloserCleansPid(c) \/ KillByPid(c)

-----------------------------------------------------------------------------
(* Every start returns: nobody polls a daemon for ever, or waits for ever  *)
(* for the lock of a process that died with it.                            *)
AllReturned == \A s \in Starters : spc[s] \in {"done", "dead"}
AllDone ==
  /\ AllReturned
  /\ \A d \in Starters : dpc[d] \in {"none", "serve", "exited", "dead"}
  /\ \A c \in Closing : cpc[c] = "done"

Finished == AllDone /\ UNCHANGED vars

Next ==
  \/ \E s \in Starters : StarterStep(s) \/ StarterCrashes(s)
  \/ \E d \in Starters : DaemonStep(d) \/ LoadFails(d) \/ DaemonCrashes(d)
  \/ \E c \in Closing : CloserStep(c)
  \/ Finished

(* Every process is scheduled.  A turn of the polling loop that a starter  *)
(* repeats ends when its timeout fires, hence the strong fairness.         *)
PollReturns(s) == PollExit(s) /\ spc'[s] = "release"

Fairness ==
  /\ \A s \in Starters : WF_vars(StarterStep(s)) /\ SF_vars(PollReturns(s))
  /\ \A d \in Starters : WF_vars(DaemonStep(d))
  /\ \A c \in Closing : WF_vars(CloserStep(c))

Spec == Init /\ [][Next]_vars /\ Fairness

-----------------------------------------------------------------------------
TypeOK ==
  /\ lock \in [owner : Owners, written : BOOLEAN]
  /\ endpoint \in Owners
  /\ pidFile \in Owners
  /\ spc \in [Starters -> Acquiring \cup Holding \cup {"done", "dead"}]
  /\ result \in [Starters -> {"none", "ok", "already", "failed"}]
  /\ dpc \in [Starters -> {"none", "bind", "probe", "clean", "rebind", "pid", "serve",
                           "closing", "unpid", "reclaim", "exited", "dead"}]
  /\ cpc \in [Closing -> {"check", "send", "recheck", "clean", "cleanPid", "kill", "done"}]

(* While no process has died before, two starters never hold the lock at   *)
(* the same time, although each removes the lock's file without looking    *)
(* whose it is.                                                            *)
LockExclusive ==
  \A s, t \in Starters : spc[s] \in Holding /\ spc[t] \in Holding => s = t

(* A start that is reported to have succeeded has its own daemon behind    *)
(* the endpoint, not one that another start or an earlier daemon left.     *)
ReportsItsOwn ==
  \A s \in Starters : result[s] = "none" /\ result'[s] = "ok" => endpoint = s

(* A start that failed leaves no daemon that could come to life later.     *)
FailedLeavesNone ==
  \A s \in Starters : result[s] = "failed" => ~DaemonAlive(s)

(* A daemon whose start was reported stays reachable until it is closed.   *)
Reported(d) == result[d] = "ok" /\ dpc[d] = "serve"
StaysReachable ==
  \A d \in Starters : Reported(d) /\ spc[d] = "done" => endpoint = d

(* Concurrent starts leave one daemon that can be reached, and exactly one *)
(* of them reports that it started it.                                     *)
LeavesOneReachable ==
  AllDone => Connectable /\ Cardinality({s \in Starters : result[s] = "ok"}) = 1


=============================================================================
