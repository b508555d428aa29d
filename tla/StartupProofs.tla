--------------------------- MODULE StartupProofs ---------------------------
(***************************************************************************)
(* How a daemon comes up, for any number of processes: what the start-up   *)
(* lock, the endpoint and the pid file keep in order, although whoever     *)
(* removes one of these files never looks whose it is.  Then how an env    *)
(* brings up the daemons of its instances.                                 *)
(***************************************************************************)
EXTENDS Startup, Sequences, FiniteSetTheorems, TLAPS

-----------------------------------------------------------------------------
(* A start that failed.                                                    *)

Before == Acquiring \cup {"check", "spawn"}
Polling == {"pollPid", "pollConnect", "pollExit"}

(* A starter has a daemon only once it has spawned it, and something to    *)
(* return only when it polls no more.                                      *)
TurnInv ==
  \A s \in Starters :
    /\ spc[s] \in Before => dpc[s] = "none" /\ result[s] = "none"
    /\ spc[s] \in Polling => result[s] = "none"
    /\ result[s] = "failed" => ~DaemonAlive(s)

StartInv == TypeOK /\ TurnInv

-----------------------------------------------------------------------------
(* The lock, when no process has died and none is slow.                    *)

NobodyDies == Faults \cap {"crash", "slow"} = {}

(* Who is past CreateLock has the file, and nobody finds it stale.         *)
LockInv ==
  /\ lock.owner # Ghost
  /\ lock.owner = Nobody => lock = Unlocked
  /\ \A s \in Starters :
       /\ spc[s] \notin {"remove", "dead"}
       /\ spc[s] \in Holding \cup {"write"} => lock.owner = s

-----------------------------------------------------------------------------
(* Starts at once after a process that died, when nothing closes and       *)
(* nothing fails.                                                          *)

OnlyStarts == Closing = {} /\ Faults = {} /\ \A left \in Leftovers : left # {"lock", "endpoint"}

(* A daemon lives to serve.                                                *)
LivingInv ==
  /\ \A s \in Starters :
       /\ spc[s] # "dead"
       /\ dpc[s] \in {"none", "bind", "probe", "clean", "rebind", "pid", "serve", "exited"}
       /\ spc[s] \in Polling => dpc[s] # "none"
       /\ dpc[s] \in {"bind", "probe", "clean", "rebind"} => spc[s] \in Polling

(* The endpoint is the first daemon's that made it its own, and stays so.  *)
EndpointInv ==
  \A d \in Starters :
    /\ dpc[d] \in {"pid", "serve"} <=> endpoint = d
    /\ dpc[d] = "serve" <=> pidFile = d
    /\ dpc[d] = "exited" => endpoint \in Starters

(* Either the lock excludes, and then only its holder's daemon clears away *)
(* the endpoint that the dead process left; or there is no such endpoint.  *)
ClearingInv ==
  /\ \A d \in Starters : /\ dpc[d] = "probe" => endpoint # Nobody
                         /\ dpc[d] = "clean" => endpoint = Ghost
                         /\ dpc[d] = "rebind" => endpoint = Nobody
  /\ \/ LockInv
     \/ endpoint # Ghost /\ \A d \in Starters : dpc[d] \notin {"clean", "rebind"}

(* What is reported is so.                                                 *)
ReportInv ==
  \A s \in Starters :
    /\ spc[s] = "pollConnect" => pidFile = s
    /\ result[s] = "ok" => endpoint = s
    /\ endpoint = s => spc[s] \in Polling \/ result[s] = "ok"
    /\ spc[s] = "release" => endpoint \in Starters

(* There is a daemon, or somebody who will start one: to find a stale lock *)
(* removed by another is to fail, but then that other goes on.             *)
GoesOn(s) ==
  spc[s] \in (Before \ {"remove"}) \cup Polling \/ (spc[s] = "remove" /\ lock # Unlocked)
WitnessInv == endpoint \in Starters \/ \E s \in Starters : GoesOn(s)

OneInv == LivingInv /\ EndpointInv /\ ClearingInv /\ ReportInv /\ WitnessInv

-----------------------------------------------------------------------------
(* Who acts: a starter, a daemon, or a close command, each on its own      *)
(* place.                                                                  *)

LEMMA InitInvariant ==
  ASSUME StartupAssumption, Init
  PROVE  StartInv
<1>1. PICK left \in Leftovers :
        /\ lock = IF "lock" \in left THEN [owner |-> Ghost, written |-> TRUE] ELSE Unlocked
        /\ endpoint = IF "endpoint" \in left THEN Ghost ELSE Nobody
        /\ pidFile = IF "endpoint" \in left THEN Ghost ELSE Nobody
  BY DEF Init
<1>2. /\ spc = [s \in Starters |-> "create"]
      /\ result = [s \in Starters |-> "none"]
      /\ dpc = [d \in Starters |-> "none"]
      /\ cpc = [c \in Closing |-> "check"]
  BY DEF Init
<1>3. TypeOK
  BY <1>1, <1>2 DEF TypeOK, Owners, Unlocked, Acquiring
<1> QED BY <1>2, <1>3 DEF StartInv, TurnInv, Polling, DaemonAlive

LEMMA NewLocks ==
  /\ Unlocked \in [owner : Owners, written : BOOLEAN]
  /\ \A s \in Starters : [owner |-> s, written |-> FALSE] \in [owner : Owners, written : BOOLEAN]
BY DEF Unlocked, Owners

LEMMA AcquireInvariant ==
  ASSUME StartupAssumption, StartInv, NEW s \in Starters,
         CreateLock(s) \/ WriteLock(s) \/ ReadLock(s) \/ RemoveStale(s) \/ WaitForLock(s)
  PROVE  StartInv'
<1> USE DEF StartInv, Goto, Return, Acquiring, Holding, Before, Polling, DaemonAlive
<1>1. CASE CreateLock(s)
  <2>1. TypeOK'
    <3>1. lock' \in [owner : Owners, written : BOOLEAN]
      BY <1>1, NewLocks DEF CreateLock, TypeOK
    <3>2. spc' \in [Starters -> Acquiring \cup Holding \cup {"done", "dead"}]
      BY <1>1 DEF CreateLock, TypeOK
    <3> QED BY <1>1, <3>1, <3>2 DEF CreateLock, TypeOK
  <2>2. TurnInv'
    BY <1>1 DEF CreateLock, TypeOK, TurnInv
  <2> QED BY <2>1, <2>2
<1>2. CASE WriteLock(s)
  BY <1>2 DEF WriteLock, TypeOK, TurnInv
<1>3. CASE ReadLock(s)
  BY <1>3 DEF ReadLock, TypeOK, TurnInv
<1>4. CASE RemoveStale(s)
  <2>1. TypeOK'
    <3>1. lock' \in [owner : Owners, written : BOOLEAN]
      BY <1>4, NewLocks DEF RemoveStale, TypeOK
    <3>2. spc' \in [Starters -> Acquiring \cup Holding \cup {"done", "dead"}]
      BY <1>4 DEF RemoveStale, TypeOK
    <3>3. result' \in [Starters -> {"none", "ok", "already", "failed"}]
      BY <1>4 DEF RemoveStale, TypeOK
    <3> QED BY <1>4, <3>1, <3>2, <3>3 DEF RemoveStale, TypeOK
  <2>2. TurnInv'
    BY <1>4 DEF RemoveStale, TypeOK, TurnInv
  <2> QED BY <2>1, <2>2
<1>5. CASE WaitForLock(s)
  BY <1>5 DEF WaitForLock, TypeOK, TurnInv
<1> QED BY <1>1, <1>2, <1>3, <1>4, <1>5

LEMMA HoldInvariant ==
  ASSUME StartupAssumption, StartInv, NEW s \in Starters,
         \/ CheckRunning(s) \/ Spawn(s) \/ PollPid(s) \/ PollConnect(s) \/ PollExit(s)
         \/ Release(s) \/ StarterCrashes(s)
  PROVE  StartInv'
<1> USE DEF StartInv, Goto, Return, Owners, Unlocked, Acquiring, Holding, Before, Polling,
            DaemonAlive
<1>1. CASE CheckRunning(s)
  BY <1>1 DEF CheckRunning, TypeOK, TurnInv
<1>2. CASE Spawn(s)
  BY <1>2 DEF Spawn, TypeOK, TurnInv
<1>3. CASE PollPid(s)
  BY <1>3 DEF PollPid, TypeOK, TurnInv
<1>4. CASE PollConnect(s)
  BY <1>4 DEF PollConnect, TypeOK, TurnInv
<1>5. CASE PollExit(s)
  BY <1>5 DEF PollExit, TypeOK, TurnInv
<1>6. CASE Release(s)
  BY <1>6 DEF Release, TypeOK, TurnInv
<1>7. CASE StarterCrashes(s)
  BY <1>7 DEF StarterCrashes, TypeOK, TurnInv
<1> QED BY <1>1, <1>2, <1>3, <1>4, <1>5, <1>6, <1>7

(* What others do to a daemon: one that is not spawned, or over, stays so. *)
LEMMA DaemonMoves ==
  ASSUME StartInv,
         UNCHANGED <<spc, result>>,
         dpc' \in [Starters -> {"none", "bind", "probe", "clean", "rebind", "pid", "serve",
                                "closing", "unpid", "reclaim", "exited", "dead"}],
         \A d \in Starters : ~DaemonAlive(d) => dpc'[d] = dpc[d]
  PROVE  TurnInv'
BY DEF StartInv, TypeOK, TurnInv, DaemonAlive

LEMMA DaemonInvariant ==
  ASSUME StartupAssumption, StartInv, NEW d \in Starters,
         DaemonStep(d) \/ LoadFails(d) \/ DaemonCrashes(d)
  PROVE  StartInv'
<1>1. TypeOK
  BY DEF StartInv
<1>2. PICK place \in {"exited", "pid", "probe", "clean", "rebind", "serve", "unpid",
                      "reclaim", "dead"} :
        DaemonGoto(d, place) /\ DaemonAlive(d)
  BY <1>1 DEF DaemonStep, Bind, Probe, CleanEndpoint, WritePid, RemoveEndpoint, RemovePid,
              ReclaimName, LoadFails, DaemonCrashes, DaemonAlive
<1>3. /\ endpoint' \in {endpoint, d, Nobody} /\ pidFile' \in {pidFile, d, Nobody}
      /\ UNCHANGED <<lock, spc, result, cpc>>
  BY DEF DaemonStep, Bind, Probe, CleanEndpoint, WritePid, RemoveEndpoint, RemovePid,
         ReclaimName, LoadFails, DaemonCrashes
<1>4. /\ dpc' \in [Starters -> {"none", "bind", "probe", "clean", "rebind", "pid", "serve",
                                "closing", "unpid", "reclaim", "exited", "dead"}]
      /\ \A e \in Starters : ~DaemonAlive(e) => dpc'[e] = dpc[e]
  BY <1>1, <1>2 DEF DaemonGoto, TypeOK
<1>5. TypeOK'
  BY <1>1, <1>3, <1>4 DEF TypeOK, Owners
<1>6. TurnInv'
  BY <1>3, <1>4, DaemonMoves
<1> QED BY <1>5, <1>6 DEF StartInv

LEMMA CloserInvariant ==
  ASSUME StartupAssumption, StartInv, NEW c \in Closing, CloserStep(c)
  PROVE  StartInv'
<1>1. TypeOK
  BY DEF StartInv
<1>2. PICK place \in {"send", "clean", "done", "kill", "recheck", "cleanPid"} :
        CloserGoto(c, place)
  BY DEF CloserStep, CheckClose, SendClose, RecheckClose, CloserCleansEndpoint,
         CloserCleansPid, KillByPid
<1>3. /\ endpoint' \in {endpoint, Nobody} /\ pidFile' \in {pidFile, Nobody}
      /\ UNCHANGED <<lock, spc, result>>
  BY DEF CloserStep, CheckClose, SendClose, RecheckClose, CloserCleansEndpoint,
         CloserCleansPid, KillByPid
<1>4. /\ dpc' \in [Starters -> {"none", "bind", "probe", "clean", "rebind", "pid", "serve",
                                "closing", "unpid", "reclaim", "exited", "dead"}]
      /\ \A e \in Starters : ~DaemonAlive(e) => dpc'[e] = dpc[e]
  <2>1. CASE SendClose(c)
    BY <1>1, <2>1 DEF SendClose, DaemonGoto, DaemonAlive, TypeOK
  <2>2. CASE KillByPid(c)
    BY <1>1, <2>2 DEF KillByPid, TypeOK
  <2>3. CASE UNCHANGED dpc
    BY <1>1, <2>3 DEF TypeOK
  <2> QED BY <2>1, <2>2, <2>3 DEF CloserStep, CheckClose, RecheckClose,
                                 CloserCleansEndpoint, CloserCleansPid
<1>5. TypeOK'
  <2>1. cpc' \in [Closing -> {"check", "send", "recheck", "clean", "cleanPid", "kill", "done"}]
    BY <1>1, <1>2 DEF CloserGoto, TypeOK
  <2> QED BY <1>1, <1>3, <1>4, <2>1 DEF TypeOK, Owners
<1>6. TurnInv'
  BY <1>3, <1>4, DaemonMoves
<1> QED BY <1>5, <1>6 DEF StartInv

LEMMA StutterInvariant ==
  ASSUME StartInv, UNCHANGED vars
  PROVE  StartInv'
BY DEF StartInv, vars, TypeOK, TurnInv, DaemonAlive

(* A step is of a starter, of a daemon, of a close command, or none.       *)
LEMMA StepInvariant ==
  ASSUME StartupAssumption, StartInv, [Next]_vars
  PROVE  StartInv'
<1>1. ASSUME NEW s \in Starters, StarterStep(s) \/ StarterCrashes(s) PROVE StartInv'
  BY <1>1, AcquireInvariant, HoldInvariant DEF StarterStep
<1>2. ASSUME NEW d \in Starters, DaemonStep(d) \/ LoadFails(d) \/ DaemonCrashes(d)
      PROVE  StartInv'
  BY <1>2, DaemonInvariant
<1>3. ASSUME NEW c \in Closing, CloserStep(c) PROVE StartInv'
  BY <1>3, CloserInvariant
<1>4. CASE UNCHANGED vars
  BY <1>4, StutterInvariant
<1> QED BY <1>1, <1>2, <1>3, <1>4 DEF Next, Finished

LEMMA FailedIsOver ==
  ASSUME StartInv
  PROVE  TypeOK /\ FailedLeavesNone
BY DEF StartInv, TurnInv, FailedLeavesNone

(* Whatever crashes, is slow or closes: a start that was reported to have  *)
(* failed has left no daemon that could come to life later.                *)
THEOREM FailedStartsLeaveNone ==
  ASSUME StartupAssumption
  PROVE  Spec => []FailedLeavesNone
<1>1. Init => StartInv
  BY InitInvariant
<1>2. StartInv /\ [Next]_vars => StartInv'
  BY StepInvariant
<1>3. StartInv => FailedLeavesNone
  BY FailedIsOver
<1> QED BY <1>1, <1>2, <1>3, PTL DEF Spec

-----------------------------------------------------------------------------
(* One holder of the lock.                                                 *)

LEMMA LockInit ==
  ASSUME StartupAssumption, \A left \in Leftovers : "lock" \notin left, Init
  PROVE  LockInv
<1>1. lock = Unlocked /\ spc = [s \in Starters |-> "create"]
  BY DEF Init
<1> QED BY <1>1 DEF StartupAssumption, LockInv, Unlocked, Holding

LEMMA LockStep ==
  ASSUME StartupAssumption, NobodyDies, StartInv, LockInv, [Next]_vars
  PROVE  LockInv'
<1>1. TypeOK
  BY DEF StartInv
<1> USE DEF Goto, Return, Holding
<1>2. ASSUME NEW s \in Starters, CreateLock(s) PROVE LockInv'
  BY <1>1, <1>2 DEF StartupAssumption, CreateLock, Unlocked, LockInv, TypeOK
<1>3. ASSUME NEW s \in Starters, WriteLock(s) PROVE LockInv'
  <2>1. spc[s] = "write" /\ lock.owner = s /\ spc' = [spc EXCEPT ![s] = "check"]
    BY <1>3 DEF WriteLock, LockInv
  <2>2. lock' = [lock EXCEPT !.written = TRUE]
    BY <1>3, <2>1 DEF WriteLock
  <2>3. lock'.owner = s
    BY <1>1, <2>1, <2>2 DEF TypeOK
  <2> QED BY <1>1, <2>1, <2>3 DEF StartupAssumption, LockInv, TypeOK
<1>4. ASSUME NEW s \in Starters, ReadLock(s) PROVE LockInv'
  <2>1. lock # Unlocked => ~Stale
    <3>1. lock.owner \in Starters \/ lock = Unlocked
      BY <1>1 DEF LockInv, TypeOK, Owners
    <3>2. lock.owner \in Starters => StarterAlive(lock.owner)
      BY DEF LockInv, StarterAlive
    <3> QED BY <3>1, <3>2 DEF Stale, NobodyDies
  <2> QED BY <1>1, <1>4, <2>1 DEF ReadLock, LockInv, TypeOK
<1>5. ASSUME NEW s \in Starters, RemoveStale(s) PROVE LockInv'
  BY <1>5 DEF RemoveStale, LockInv
<1>6. ASSUME NEW s \in Starters, WaitForLock(s) PROVE LockInv'
  BY <1>1, <1>6 DEF WaitForLock, LockInv, TypeOK
<1>7. ASSUME NEW s \in Starters, CheckRunning(s) \/ Spawn(s) PROVE LockInv'
  BY <1>1, <1>7 DEF CheckRunning, Spawn, LockInv, TypeOK
<1>8. ASSUME NEW s \in Starters, PollPid(s) \/ PollConnect(s) \/ PollExit(s) PROVE LockInv'
  BY <1>1, <1>8 DEF PollPid, PollConnect, PollExit, LockInv, TypeOK
<1>9. ASSUME NEW s \in Starters, Release(s) PROVE LockInv'
  <2>1. lock.owner = s /\ spc[s] = "release"
    BY <1>9 DEF Release, LockInv
  <2>2. spc' = [spc EXCEPT ![s] = "done"] /\ lock' = Unlocked
    BY <1>9 DEF Release
  <2>3. \A t \in Starters : t # s => spc[t] \notin Holding \cup {"write"}
    BY <2>1 DEF LockInv
  <2> QED BY <1>1, <2>1, <2>2, <2>3 DEF StartupAssumption, Unlocked, LockInv, TypeOK
<1>10. ASSUME NEW s \in Starters, StarterCrashes(s) PROVE LockInv'
  BY <1>10 DEF NobodyDies, StarterCrashes
<1>11. CASE UNCHANGED <<lock, spc>>
  BY <1>11 DEF LockInv
<1>12. ASSUME NEW d \in Starters, DaemonStep(d) \/ LoadFails(d) \/ DaemonCrashes(d)
       PROVE  UNCHANGED <<lock, spc>>
  BY <1>12 DEF DaemonStep, Bind, Probe, CleanEndpoint, WritePid, RemoveEndpoint, RemovePid,
               ReclaimName, LoadFails, DaemonCrashes
<1>13. ASSUME NEW c \in Closing, CloserStep(c) PROVE UNCHANGED <<lock, spc>>
  BY <1>13 DEF CloserStep, CheckClose, SendClose, RecheckClose, CloserCleansEndpoint,
               CloserCleansPid, KillByPid
<1> QED BY <1>2, <1>3, <1>4, <1>5, <1>6, <1>7, <1>8, <1>9, <1>10, <1>11, <1>12, <1>13
        DEF Next, Finished, vars, StarterStep

LEMMA HoldersOne ==
  ASSUME LockInv
  PROVE  LockExclusive
BY DEF LockInv, LockExclusive

(* Unless a process dies or is slow, before or meanwhile, one starter at a *)
(* time holds the lock, though everybody removes the file unseen.          *)
THEOREM LockExcludes ==
  ASSUME StartupAssumption, NobodyDies, \A left \in Leftovers : "lock" \notin left
  PROVE  Spec => []LockExclusive
<1>1. Init => StartInv /\ LockInv
  BY InitInvariant, LockInit
<1>2. StartInv /\ LockInv /\ [Next]_vars => StartInv' /\ LockInv'
  BY StepInvariant, LockStep
<1>3. StartInv /\ LockInv => LockExclusive
  BY HoldersOne
<1> QED BY <1>1, <1>2, <1>3, PTL DEF Spec

-----------------------------------------------------------------------------
(* One daemon of many starts.                                              *)

LEMMA OneInit ==
  ASSUME StartupAssumption, OnlyStarts, Starters # {}, Init
  PROVE  OneInv
<1>1. PICK left \in Leftovers :
        /\ lock = IF "lock" \in left THEN [owner |-> Ghost, written |-> TRUE] ELSE Unlocked
        /\ endpoint = IF "endpoint" \in left THEN Ghost ELSE Nobody
        /\ pidFile = IF "endpoint" \in left THEN Ghost ELSE Nobody
  BY DEF Init
<1>2. /\ spc = [s \in Starters |-> "create"]
      /\ result = [s \in Starters |-> "none"]
      /\ dpc = [d \in Starters |-> "none"]
  BY DEF Init
<1>3. endpoint \notin Starters /\ pidFile \notin Starters /\ Ghost # Nobody
  BY <1>1 DEF StartupAssumption
<1>4. LivingInv /\ EndpointInv /\ ReportInv
  BY <1>2, <1>3 DEF LivingInv, EndpointInv, ReportInv, Polling
<1>5. ClearingInv
  <2>1. CASE "lock" \in left
    <3>1. left # {"lock", "endpoint"} /\ left \subseteq {"lock", "endpoint"}
      BY DEF OnlyStarts, StartupAssumption
    <3>2. "endpoint" \notin left
      BY <2>1, <3>1
    <3> QED BY <1>1, <1>2, <1>3, <3>2 DEF ClearingInv
  <2>2. CASE "lock" \notin left
    <3>1. LockInv
      BY <1>1, <1>2, <1>3, <2>2 DEF LockInv, Unlocked, Holding
    <3> QED BY <1>2, <3>1 DEF ClearingInv
  <2> QED BY <2>1, <2>2
<1>6. WitnessInv
  BY <1>2 DEF WitnessInv, GoesOn, Before, Acquiring
<1> QED BY <1>4, <1>5, <1>6 DEF OneInv

(* A daemon that has the endpoint can be reached.                          *)
LEMMA OwnerReachable ==
  ASSUME StartupAssumption, StartInv, OneInv
  PROVE  Connectable <=> endpoint \in Starters
BY DEF OneInv, EndpointInv, Connectable, Listening

(* A starter that takes another turn: there is still somebody who will     *)
(* start a daemon.                                                         *)
LEMMA StillGoing ==
  ASSUME NEW s \in Starters, GoesOn(s)'
  PROVE  WitnessInv'
BY DEF WitnessInv

(* What the starters do before they spawn is no daemon's business.         *)
LEMMA EarlyTurn ==
  ASSUME StartupAssumption, StartInv, OneInv, NEW s \in Starters,
         spc[s] \in Before, spc'[s] \notin Polling \cup {"dead", "release"},
         \A t \in Starters : t # s => spc'[t] = spc[t] /\ result'[t] = result[t],
         result'[s] # "ok",
         UNCHANGED <<endpoint, pidFile, dpc>>
  PROVE  LivingInv' /\ EndpointInv' /\ ReportInv'
<1>1. dpc[s] = "none" /\ spc[s] \notin Polling
  BY DEF StartInv, TurnInv, Before, Acquiring, Polling
<1>2. endpoint # s /\ pidFile # s
  BY <1>1 DEF OneInv, EndpointInv
<1>3. LivingInv'
  BY <1>1 DEF OneInv, LivingInv
<1>4. EndpointInv'
  BY DEF OneInv, EndpointInv
<1>5. ReportInv'
  BY <1>2 DEF OneInv, ReportInv, Polling
<1> QED BY <1>3, <1>4, <1>5

(* The lock excludes on, or the leftover endpoint stays away.              *)
LEMMA ClearingTurn ==
  ASSUME StartupAssumption, OnlyStarts, StartInv, OneInv, [Next]_vars,
         \A d \in Starters : dpc'[d] = dpc[d] \/ dpc'[d] = "bind",
         UNCHANGED endpoint
  PROVE  ClearingInv'
<1>1. LockInv => LockInv'
  BY LockStep DEF OnlyStarts, NobodyDies
<1> QED BY <1>1 DEF OneInv, ClearingInv

LEMMA AcquireOne ==
  ASSUME StartupAssumption, OnlyStarts, StartInv, OneInv, [Next]_vars, NEW s \in Starters,
         CreateLock(s) \/ WriteLock(s) \/ ReadLock(s) \/ RemoveStale(s) \/ WaitForLock(s)
  PROVE  OneInv'
<1>1. TypeOK /\ "slow" \notin Faults
  BY DEF StartInv, OnlyStarts
<1>2. /\ spc[s] \in Acquiring /\ UNCHANGED <<endpoint, pidFile, dpc>>
      /\ \/ \E place \in {"create", "write", "read", "check", "remove", "wait"} :
              Goto(s, place) /\ UNCHANGED result
         \/ Return(s, "failed", "done")
  BY <1>1 DEF CreateLock, WriteLock, ReadLock, RemoveStale, WaitForLock, Acquiring
<1>3. /\ spc'[s] \in {"create", "write", "read", "check", "remove", "wait", "done"}
      /\ \A t \in Starters : t # s => spc'[t] = spc[t] /\ result'[t] = result[t]
  BY <1>1, <1>2 DEF Goto, Return, TypeOK
<1>4. result[s] = "none" /\ result'[s] # "ok"
  BY <1>1, <1>2 DEF Return, TypeOK, StartInv, TurnInv, Before
<1>5. LivingInv' /\ EndpointInv' /\ ReportInv'
  BY <1>2, <1>3, <1>4, EarlyTurn DEF Before, Polling
<1>6. ClearingInv'
  BY <1>2, ClearingTurn
<1>7. WitnessInv'
  <2>1. CASE spc'[s] \in {"create", "write", "read", "check", "wait"}
    BY <2>1, StillGoing DEF GoesOn, Before, Acquiring
  <2>2. CASE spc'[s] = "remove"
    <3>1. lock' # Unlocked
      BY <1>1, <1>2, <2>2 DEF CreateLock, WriteLock, ReadLock, RemoveStale, WaitForLock,
                              Goto, Return, TypeOK, Unlocked
    <3> QED BY <2>2, <3>1, StillGoing DEF GoesOn
  <2>3. CASE spc'[s] = "done"
    <3>1. spc[s] = "remove" /\ lock = Unlocked /\ UNCHANGED lock
      BY <1>1, <1>2, <2>3 DEF CreateLock, WriteLock, ReadLock, RemoveStale, WaitForLock,
                              Goto, Return, TypeOK, Acquiring
    <3>2. ~GoesOn(s)
      BY <3>1 DEF GoesOn, Before, Polling
    <3>3. \A t \in Starters : t # s /\ GoesOn(t) => GoesOn(t)'
      BY <1>3, <3>1 DEF GoesOn
    <3> QED BY <1>2, <3>2, <3>3 DEF OneInv, WitnessInv
  <2> QED BY <1>3, <2>1, <2>2, <2>3
<1> QED BY <1>5, <1>6, <1>7 DEF OneInv

LEMMA HoldOne ==
  ASSUME StartupAssumption, OnlyStarts, StartInv, OneInv, [Next]_vars, NEW s \in Starters,
         \/ CheckRunning(s) \/ Spawn(s) \/ PollPid(s) \/ PollConnect(s) \/ PollExit(s)
         \/ Release(s)
  PROVE  OneInv'
<1>1. /\ TypeOK /\ TurnInv /\ LivingInv /\ EndpointInv /\ ReportInv
      /\ "slow" \notin Faults /\ Nobody \notin Starters
  BY DEF StartInv, OneInv, OnlyStarts, StartupAssumption
<1>2. Connectable <=> endpoint \in Starters
  BY OwnerReachable
<1> USE DEF Goto, Return, Before, Polling, GoesOn
<1>3. CASE CheckRunning(s)
  <2>1. dpc[s] = "none" /\ endpoint # s /\ pidFile # s
    BY <1>1, <1>3 DEF CheckRunning, TurnInv, EndpointInv
  <2>2. LivingInv' /\ EndpointInv' /\ ReportInv'
    BY <1>1, <1>2, <1>3, <2>1 DEF CheckRunning, TypeOK, LivingInv, EndpointInv, ReportInv
  <2>3. ClearingInv'
    BY <1>3, ClearingTurn DEF CheckRunning
  <2>4. WitnessInv'
    BY <1>1, <1>2, <1>3 DEF CheckRunning, TypeOK, WitnessInv
  <2> QED BY <2>2, <2>3, <2>4 DEF OneInv
<1>4. CASE Spawn(s)
  <2>1. /\ dpc[s] = "none" /\ endpoint # s /\ pidFile # s
        /\ dpc' = [dpc EXCEPT ![s] = "bind"] /\ spc' = [spc EXCEPT ![s] = "pollPid"]
        /\ UNCHANGED <<endpoint, pidFile, result, lock>>
    BY <1>1, <1>4 DEF Spawn, TurnInv, EndpointInv
  <2>2. LivingInv' /\ EndpointInv' /\ ReportInv'
    BY <1>1, <2>1 DEF TypeOK, LivingInv, EndpointInv, ReportInv
  <2>3. ClearingInv'
    BY <1>1, <2>1, ClearingTurn DEF TypeOK
  <2>4. WitnessInv'
    BY <1>1, <2>1 DEF TypeOK, WitnessInv
  <2> QED BY <2>2, <2>3, <2>4 DEF OneInv
<1>5. CASE PollPid(s)
  <2>1. LivingInv' /\ EndpointInv' /\ ReportInv'
    BY <1>1, <1>5 DEF PollPid, TypeOK, LivingInv, EndpointInv, ReportInv
  <2>2. ClearingInv'
    BY <1>5, ClearingTurn DEF PollPid
  <2>3. WitnessInv'
    BY <1>1, <1>5 DEF PollPid, TypeOK, WitnessInv
  <2> QED BY <2>1, <2>2, <2>3 DEF OneInv
<1>6. CASE PollConnect(s)
  <2>1. endpoint = s /\ dpc[s] = "serve"
    BY <1>1, <1>6 DEF PollConnect, EndpointInv, ReportInv
  <2>2. LivingInv' /\ EndpointInv' /\ ReportInv'
    BY <1>1, <1>2, <1>6, <2>1 DEF PollConnect, TypeOK, LivingInv, EndpointInv, ReportInv
  <2>3. ClearingInv'
    BY <1>6, ClearingTurn DEF PollConnect
  <2>4. WitnessInv'
    BY <1>6, <2>1 DEF PollConnect, WitnessInv
  <2> QED BY <2>2, <2>3, <2>4 DEF OneInv
<1>7. CASE PollExit(s)
  <2>1. ~(DaemonAlive(s) /\ Overdue(s))
    BY <1>1, <1>2 DEF Overdue, EndpointInv
  <2>2. UNCHANGED <<lock, endpoint, pidFile, dpc>> /\ spc[s] = "pollExit"
    BY <1>7, <2>1 DEF PollExit
  <2>3. \/ spc' = [spc EXCEPT ![s] = "pollPid"] /\ UNCHANGED result
        \/ /\ spc' = [spc EXCEPT ![s] = "release"]
           /\ result' = [result EXCEPT ![s] = "failed"]
           /\ dpc[s] = "exited"
    BY <1>1, <1>7, <2>1 DEF PollExit, DaemonAlive, LivingInv
  <2>4. LivingInv' /\ EndpointInv' /\ ReportInv'
    <3>1. CASE spc' = [spc EXCEPT ![s] = "pollPid"] /\ UNCHANGED result
      BY <1>1, <2>2, <3>1 DEF TypeOK, LivingInv, EndpointInv, ReportInv
    <3>2. CASE /\ spc' = [spc EXCEPT ![s] = "release"]
               /\ result' = [result EXCEPT ![s] = "failed"]
               /\ dpc[s] = "exited"
      <4>1. endpoint \in Starters /\ endpoint # s
        BY <1>1, <3>2 DEF EndpointInv
      <4> QED BY <1>1, <2>2, <3>2, <4>1 DEF TypeOK, LivingInv, EndpointInv, ReportInv
    <3> QED BY <2>3, <3>1, <3>2
  <2>5. ClearingInv'
    BY <2>2, ClearingTurn
  <2>6. WitnessInv'
    BY <1>1, <2>2, <2>3 DEF TypeOK, EndpointInv, WitnessInv
  <2> QED BY <2>4, <2>5, <2>6 DEF OneInv
<1>8. CASE Release(s)
  <2>1. LivingInv' /\ EndpointInv' /\ ReportInv'
    BY <1>1, <1>8 DEF Release, TypeOK, LivingInv, EndpointInv, ReportInv
  <2>2. ClearingInv'
    BY <1>8, ClearingTurn DEF Release
  <2>3. WitnessInv'
    BY <1>1, <1>8 DEF Release, ReportInv, WitnessInv
  <2> QED BY <2>1, <2>2, <2>3 DEF OneInv
<1> QED BY <1>3, <1>4, <1>5, <1>6, <1>7, <1>8

(* Where the leftover endpoint is being cleared away, one daemon is under  *)
(* way: its starter holds the lock.                                        *)
LEMMA OneClearing ==
  ASSUME StartInv, OneInv, NEW d \in Starters, dpc[d] \in {"clean", "rebind"}
  PROVE  /\ LockInv
         /\ \A e \in Starters : dpc[e] \in {"bind", "probe", "clean", "rebind"} => e = d
<1>1. LockInv
  BY DEF OneInv, ClearingInv
<1> QED BY <1>1 DEF OneInv, LivingInv, LockInv, Polling, Holding

LEMMA DaemonOne ==
  ASSUME StartupAssumption, OnlyStarts, StartInv, OneInv, [Next]_vars, NEW d \in Starters,
         DaemonStep(d)
  PROVE  OneInv'
<1>1. /\ TypeOK /\ LivingInv /\ EndpointInv /\ ReportInv /\ ClearingInv
      /\ Nobody \notin Starters /\ Ghost \notin Starters /\ Nobody # Ghost
      /\ UNCHANGED <<lock, spc, result>>
  BY DEF StartInv, OneInv, StartupAssumption, DaemonStep, Bind, Probe, CleanEndpoint, WritePid,
         RemoveEndpoint, RemovePid, ReclaimName
<1>2. LockInv => LockInv'
  BY <1>1 DEF LockInv
<1>3. ASSUME endpoint \in Starters => endpoint' = endpoint PROVE WitnessInv'
  BY <1>1, <1>3 DEF OneInv, WitnessInv, GoesOn
<1>4. CASE Bind(d) /\ endpoint = Nobody
  <2>1. /\ dpc[d] \in {"bind", "rebind"} /\ spc[d] \in Polling
        /\ endpoint' = d /\ dpc' = [dpc EXCEPT ![d] = "pid"] /\ UNCHANGED pidFile
    BY <1>1, <1>4 DEF Bind, DaemonGoto, LivingInv
  <2>2. \A e \in Starters : /\ dpc[e] \notin {"pid", "serve", "clean"} /\ pidFile # e
                            /\ dpc[e] = "rebind" => e = d
    <3>1. ASSUME NEW e \in Starters, dpc[e] = "rebind" PROVE e = d
      BY <2>1, <3>1, OneClearing
    <3> QED BY <1>1, <1>4, <3>1 DEF EndpointInv, ClearingInv
  <2>3. LivingInv' /\ EndpointInv'
    BY <1>1, <2>1, <2>2 DEF TypeOK, LivingInv, EndpointInv
  <2>4. ReportInv'
    BY <1>1, <1>4, <2>1, <2>2 DEF ReportInv
  <2>5. ClearingInv'
    BY <1>1, <1>2, <2>1, <2>2 DEF TypeOK, ClearingInv
  <2>6. WitnessInv'
    BY <2>1 DEF WitnessInv
  <2> QED BY <2>3, <2>4, <2>5, <2>6 DEF OneInv
<1>5. CASE Bind(d) /\ endpoint # Nobody
  <2>1. /\ dpc[d] = "bind" /\ dpc' = [dpc EXCEPT ![d] = "probe"]
        /\ UNCHANGED <<endpoint, pidFile>>
    BY <1>1, <1>5 DEF Bind, DaemonGoto, ClearingInv
  <2>2. LivingInv' /\ EndpointInv'
    BY <1>1, <2>1 DEF TypeOK, LivingInv, EndpointInv
  <2>3. ReportInv' /\ WitnessInv'
    BY <1>1, <1>3, <2>1 DEF ReportInv
  <2>4. ClearingInv'
    BY <1>1, <1>2, <1>5, <2>1 DEF TypeOK, ClearingInv
  <2> QED BY <2>2, <2>3, <2>4 DEF OneInv
<1>6. CASE Probe(d)
  <2>1. /\ dpc[d] = "probe" /\ endpoint # Nobody /\ UNCHANGED <<endpoint, pidFile>>
        /\ dpc' = [dpc EXCEPT ![d] = IF endpoint \in Starters THEN "exited" ELSE "clean"]
        /\ endpoint \in Starters \/ endpoint = Ghost
    BY <1>1, <1>6, OwnerReachable DEF Probe, DaemonGoto, ClearingInv, TypeOK, Owners
  <2>2. LivingInv' /\ EndpointInv'
    BY <1>1, <2>1 DEF TypeOK, LivingInv, EndpointInv
  <2>3. ReportInv' /\ WitnessInv'
    BY <1>1, <1>3, <2>1 DEF ReportInv
  <2>4. ClearingInv'
    BY <1>1, <1>2, <2>1 DEF TypeOK, ClearingInv
  <2> QED BY <2>2, <2>3, <2>4 DEF OneInv
<1>7. CASE CleanEndpoint(d)
  <2>1. /\ dpc[d] = "clean" /\ endpoint = Ghost /\ endpoint' = Nobody /\ UNCHANGED pidFile
        /\ dpc' = [dpc EXCEPT ![d] = "rebind"]
    BY <1>1, <1>7 DEF CleanEndpoint, DaemonGoto, ClearingInv
  <2>2. /\ LockInv
        /\ \A e \in Starters : dpc[e] \in {"bind", "probe", "clean", "rebind"} => e = d
    BY <2>1, OneClearing
  <2>3. \A e \in Starters : dpc[e] \notin {"pid", "serve", "exited"}
    BY <1>1, <2>1 DEF EndpointInv
  <2>4. LivingInv' /\ EndpointInv'
    BY <1>1, <2>1, <2>3 DEF TypeOK, LivingInv, EndpointInv
  <2>5. ReportInv' /\ WitnessInv'
    BY <1>1, <1>3, <2>1 DEF ReportInv
  <2>6. ClearingInv'
    BY <1>1, <1>2, <2>1, <2>2 DEF TypeOK, ClearingInv
  <2> QED BY <2>4, <2>5, <2>6 DEF OneInv
<1>8. CASE WritePid(d)
  <2>1. /\ dpc[d] = "pid" /\ endpoint = d /\ UNCHANGED endpoint /\ pidFile' = d
        /\ dpc' = [dpc EXCEPT ![d] = "serve"]
    BY <1>1, <1>8 DEF WritePid, DaemonGoto, EndpointInv
  <2>2. \A e \in Starters : dpc[e] # "serve" /\ pidFile # e
    BY <1>1, <2>1 DEF EndpointInv
  <2>3. LivingInv' /\ EndpointInv'
    BY <1>1, <2>1, <2>2 DEF TypeOK, LivingInv, EndpointInv
  <2>4. ReportInv' /\ WitnessInv'
    BY <1>1, <1>3, <2>1, <2>2 DEF ReportInv
  <2>5. ClearingInv'
    BY <1>1, <1>2, <2>1 DEF TypeOK, ClearingInv
  <2> QED BY <2>3, <2>4, <2>5 DEF OneInv
<1> QED BY <1>1, <1>4, <1>5, <1>6, <1>7, <1>8
        DEF DaemonStep, RemoveEndpoint, RemovePid, ReclaimName, LivingInv, Bind

LEMMA OneStep ==
  ASSUME StartupAssumption, OnlyStarts, StartInv, OneInv, [Next]_vars
  PROVE  OneInv'
<1>1. ASSUME NEW s \in Starters, StarterStep(s) PROVE OneInv'
  BY <1>1, AcquireOne, HoldOne DEF StarterStep
<1>2. ASSUME NEW d \in Starters, DaemonStep(d) PROVE OneInv'
  BY <1>2, DaemonOne
<1>3. CASE UNCHANGED vars
  BY <1>3 DEF vars, OneInv, LivingInv, EndpointInv, ClearingInv, LockInv, ReportInv,
              WitnessInv, GoesOn
<1> QED BY <1>1, <1>2, <1>3 DEF OnlyStarts, Next, Finished, StarterCrashes, LoadFails,
                               DaemonCrashes

(* At the end one daemon is there, and its starter knows of it.            *)
LEMMA OneLeft ==
  ASSUME StartupAssumption, StartInv, OneInv
  PROVE  LeavesOneReachable /\ StaysReachable
<1>1. StaysReachable
  BY DEF OneInv, ReportInv, StaysReachable, Reported
<1>2. LeavesOneReachable
  <2>1. SUFFICES ASSUME AllDone
                 PROVE  Connectable /\ Cardinality({s \in Starters : result[s] = "ok"}) = 1
    BY DEF LeavesOneReachable
  <2>2. \A s \in Starters : spc[s] = "done"
    BY <2>1 DEF AllDone, AllReturned, OneInv, LivingInv
  <2>3. endpoint \in Starters
    BY <2>2 DEF OneInv, WitnessInv, GoesOn, Before, Acquiring, Polling
  <2>4. {s \in Starters : result[s] = "ok"} = {endpoint}
    BY <2>2, <2>3 DEF OneInv, ReportInv, Polling
  <2> QED BY <2>3, <2>4, OwnerReachable, FS_Singleton
<1> QED BY <1>1, <1>2

LEMMA OwnReported ==
  ASSUME StartupAssumption, OnlyStarts, StartInv, OneInv, OneInv', [Next]_vars
  PROVE  ReportsItsOwn
<1>1. SUFFICES ASSUME NEW s \in Starters, result[s] = "none", result'[s] = "ok"
               PROVE  endpoint = s
  BY DEF ReportsItsOwn
<1>2. PICK t \in Starters : StarterStep(t)
  BY <1>1 DEF OnlyStarts, Next, Finished, vars, StarterCrashes, LoadFails, DaemonCrashes,
              DaemonStep, Bind, Probe, CleanEndpoint, WritePid, RemoveEndpoint, RemovePid,
              ReclaimName
<1>3. PollConnect(s)
  BY <1>1, <1>2 DEF StartInv, TypeOK, StarterStep, CreateLock, WriteLock, ReadLock, RemoveStale,
                    WaitForLock, CheckRunning, Spawn, PollPid, PollConnect, PollExit, Release,
                    Return
<1> QED BY <1>3 DEF OneInv, EndpointInv, ReportInv, PollConnect

(* However many start a daemon at once, and whatever a process that died   *)
(* has left, one daemon comes of it and stays: exactly one start reports   *)
(* that it started it.                                                     *)
THEOREM OneDaemonComesUp ==
  ASSUME StartupAssumption, OnlyStarts, Starters # {}
  PROVE  Spec => [](LeavesOneReachable /\ StaysReachable)
<1>1. Init => StartInv /\ OneInv
  BY InitInvariant, OneInit
<1>2. StartInv /\ OneInv /\ [Next]_vars => StartInv' /\ OneInv'
  BY StepInvariant, OneStep
<1>3. StartInv /\ OneInv => LeavesOneReachable /\ StaysReachable
  BY OneLeft
<1> QED BY <1>1, <1>2, <1>3, PTL DEF Spec

-----------------------------------------------------------------------------
(* The start of an env: what becomes of the daemons of its instances, for  *)
(* any instances, any names that are taken and any failures.  An env that  *)
(* serves has all of them, a rollback closes only those the env started,   *)
(* and a start that fails late closes them all.                            *)

CONSTANTS Instances, Foreign, EnvFaults
VARIABLES env, phase, task, started, inst
Boot == INSTANCE EnvBootstrap WITH Faults <- EnvFaults

(* Before it begins an env has started nothing.                            *)
NotBegunInv == env = "start" => started = {} /\ \A i \in Instances : task[i] = "none"

(* started_instances holds the daemons that came up, and their tasks are   *)
(* over.                                                                   *)
StartedInv ==
  /\ \A i \in started : /\ inst[i] = "up"
                        /\ task[i] \in {"joined", "aborted"}
                        /\ task[i] = "aborted" => env = "killed"
  /\ \A i \in Instances : task[i] = "ok" => inst[i] = "up"

(* From the last instance's start on, all of them are in it.               *)
WholeInv == env \in {"phases", "bind", "serving"} => started = Instances

(* A task that finds its name taken does not go on.                        *)
ForeignInv ==
  \A i \in Foreign : /\ inst[i] = "up" /\ i \notin started
                     /\ task[i] \notin {"poll", "ok", "joined"}

BootInv == Boot!TypeOK /\ NotBegunInv /\ StartedInv /\ WholeInv /\ ForeignInv

(* What a start can fail of when no daemon fails to come up and no name is *)
(* taken: a later phase.  Then the rollback finds every instance in        *)
(* started_instances.                                                      *)
OnlyLateFailures == "start" \notin EnvFaults /\ Foreign = {}

LateInv ==
  /\ \A i \in Instances :
       /\ task[i] # "failed"
       /\ task[i] \in {"none", "check"} => inst[i] = "none"
       /\ inst[i] = "down" => env \in {"rollback", "failed", "killed"}
  /\ env \in {"phases", "bind", "serving", "rollback", "failed"} =>
       \A i \in Instances : task[i] = "joined"
  /\ env = "killed" => \A i \in Instances : task[i] = "aborted"
  /\ env \in {"rollback", "failed"} => \A i \in Instances : i \in started \/ inst[i] = "down"
  /\ env = "failed" => started = {}

-----------------------------------------------------------------------------
LEMMA BootInit ==
  ASSUME Boot!BootstrapAssumption, Boot!Init
  PROVE  BootInv
<1>1. Len(Boot!Phases) = 8
  BY DEF Boot!Phases
<1>2. Boot!TypeOK
  BY <1>1 DEF Boot!Init, Boot!TypeOK
<1> QED BY <1>2 DEF Boot!BootstrapAssumption, Boot!Init, BootInv,
                    NotBegunInv, StartedInv, WholeInv, ForeignInv

(* The tasks, and the daemons that they start.                             *)
LEMMA TaskInvariant ==
  ASSUME Boot!BootstrapAssumption, BootInv, NEW i \in Instances,
         Boot!TaskSpawns(i) \/ Boot!TaskReturns(i) \/ Boot!InstanceComesUp(i)
  PROVE  BootInv'
<1> USE DEF BootInv
<1>1. CASE Boot!TaskSpawns(i)
  <2>1. Boot!TypeOK'
    BY <1>1 DEF Boot!TaskSpawns, Boot!TypeOK
  <2>2. NotBegunInv' /\ WholeInv'
    BY <1>1 DEF Boot!TaskSpawns, Boot!TypeOK, NotBegunInv, WholeInv
  <2>3. StartedInv'
    BY <1>1 DEF Boot!TaskSpawns, Boot!TypeOK, StartedInv
  <2>4. ForeignInv'
    BY <1>1 DEF Boot!BootstrapAssumption, Boot!TaskSpawns, Boot!TypeOK, ForeignInv
  <2> QED BY <2>1, <2>2, <2>3, <2>4
<1>2. CASE Boot!TaskReturns(i)
  <2>1. Boot!TypeOK'
    BY <1>2 DEF Boot!TaskReturns, Boot!TypeOK
  <2>2. NotBegunInv' /\ WholeInv'
    BY <1>2 DEF Boot!TaskReturns, Boot!TypeOK, NotBegunInv, WholeInv
  <2>3. StartedInv'
    BY <1>2 DEF Boot!TaskReturns, Boot!TypeOK, StartedInv
  <2>4. ForeignInv'
    BY <1>2 DEF Boot!BootstrapAssumption, Boot!TaskReturns, Boot!TypeOK, ForeignInv
  <2> QED BY <2>1, <2>2, <2>3, <2>4
<1>3. CASE Boot!InstanceComesUp(i)
  <2>1. Boot!TypeOK'
    BY <1>3 DEF Boot!InstanceComesUp, Boot!TypeOK
  <2>2. NotBegunInv' /\ WholeInv'
    BY <1>3 DEF Boot!InstanceComesUp, Boot!TypeOK, NotBegunInv, WholeInv
  <2>3. StartedInv'
    BY <1>3 DEF Boot!InstanceComesUp, Boot!TypeOK, StartedInv
  <2>4. ForeignInv'
    BY <1>3 DEF Boot!BootstrapAssumption, Boot!InstanceComesUp, Boot!TypeOK, ForeignInv
  <2> QED BY <2>1, <2>2, <2>3, <2>4
<1> QED BY <1>1, <1>2, <1>3

(* The env daemon: what it does about one instance.                        *)
LEMMA JoinInvariant ==
  ASSUME Boot!BootstrapAssumption, BootInv, NEW i \in Instances,
         Boot!JoinStarted(i) \/ Boot!JoinFailed(i) \/ Boot!RollbackOne(i)
  PROVE  BootInv'
<1> USE DEF BootInv
<1>1. CASE Boot!JoinStarted(i)
  <2>1. Boot!TypeOK'
    BY <1>1 DEF Boot!JoinStarted, Boot!TypeOK
  <2>2. NotBegunInv' /\ WholeInv'
    BY <1>1 DEF Boot!JoinStarted, Boot!TypeOK, NotBegunInv, WholeInv
  <2>3. StartedInv'
    BY <1>1 DEF Boot!JoinStarted, Boot!TypeOK, StartedInv
  <2>4. ForeignInv'
    BY <1>1 DEF Boot!BootstrapAssumption, Boot!JoinStarted, Boot!TypeOK, ForeignInv
  <2> QED BY <2>1, <2>2, <2>3, <2>4
<1>2. CASE Boot!JoinFailed(i)
  <2>1. Boot!TypeOK'
    BY <1>2 DEF Boot!JoinFailed, Boot!TypeOK
  <2>2. NotBegunInv' /\ WholeInv'
    BY <1>2 DEF Boot!JoinFailed, Boot!TypeOK, NotBegunInv, WholeInv
  <2>3. StartedInv'
    BY <1>2 DEF Boot!JoinFailed, Boot!TypeOK, StartedInv
  <2>4. ForeignInv'
    BY <1>2 DEF Boot!BootstrapAssumption, Boot!JoinFailed, Boot!TypeOK, ForeignInv
  <2> QED BY <2>1, <2>2, <2>3, <2>4
<1>3. CASE Boot!RollbackOne(i)
  <2>1. Boot!TypeOK'
    BY <1>3 DEF Boot!RollbackOne, Boot!TypeOK
  <2>2. NotBegunInv' /\ WholeInv'
    BY <1>3 DEF Boot!RollbackOne, Boot!TypeOK, NotBegunInv, WholeInv
  <2>3. StartedInv'
    BY <1>3 DEF Boot!RollbackOne, Boot!TypeOK, StartedInv
  <2>4. ForeignInv'
    BY <1>3 DEF Boot!BootstrapAssumption, Boot!RollbackOne, Boot!TypeOK, ForeignInv
  <2> QED BY <2>1, <2>2, <2>3, <2>4
<1> QED BY <1>1, <1>2, <1>3

(* What it does about all of them, and the starter that gives it up.       *)
LEMMA BootedInvariant ==
  ASSUME Boot!BootstrapAssumption, BootInv,
         \/ Boot!Begin \/ Boot!AllJoined \/ Boot!PhaseEnds \/ Boot!Bind \/ Boot!RollbackEnds
         \/ Boot!KilledByStarter \/ UNCHANGED Boot!vars
  PROVE  BootInv'
<1> USE DEF BootInv
<1>0. Len(Boot!Phases) = 8
  BY DEF Boot!Phases
<1>1. CASE Boot!Begin
  BY <1>1 DEF Boot!BootstrapAssumption, Boot!Begin, Boot!TypeOK,
              NotBegunInv, StartedInv, WholeInv, ForeignInv
<1>2. CASE Boot!AllJoined
  BY <1>2 DEF Boot!AllJoined, Boot!TypeOK, NotBegunInv, StartedInv, WholeInv, ForeignInv
<1>3. CASE Boot!PhaseEnds
  BY <1>0, <1>3 DEF Boot!PhaseEnds, Boot!TypeOK,
                    NotBegunInv, StartedInv, WholeInv, ForeignInv
<1>4. CASE Boot!Bind
  BY <1>4 DEF Boot!Bind, Boot!TypeOK, NotBegunInv, StartedInv, WholeInv, ForeignInv
<1>5. CASE Boot!RollbackEnds
  BY <1>5 DEF Boot!RollbackEnds, Boot!TypeOK, NotBegunInv, StartedInv, WholeInv, ForeignInv
<1>6. CASE Boot!KilledByStarter
  BY <1>6 DEF Boot!BootstrapAssumption, Boot!KilledByStarter, Boot!TypeOK,
              NotBegunInv, StartedInv, WholeInv,
              ForeignInv
<1>7. CASE UNCHANGED Boot!vars
  BY <1>7 DEF Boot!vars, Boot!TypeOK, NotBegunInv, StartedInv, WholeInv, ForeignInv
<1> QED BY <1>1, <1>2, <1>3, <1>4, <1>5, <1>6, <1>7

(* Every step keeps the invariant.                                         *)
LEMMA BootStep ==
  ASSUME Boot!BootstrapAssumption, BootInv, [Boot!Next]_(Boot!vars)
  PROVE  BootInv'
BY TaskInvariant, JoinInvariant, BootedInvariant DEF Boot!Next, Boot!Step

-----------------------------------------------------------------------------
(* Failures that come late.                                                *)

LEMMA LateInit ==
  ASSUME OnlyLateFailures, Boot!Init
  PROVE  LateInv
BY DEF OnlyLateFailures, Boot!Init, LateInv

LEMMA LateStep ==
  ASSUME OnlyLateFailures, BootInv, LateInv, [Boot!Next]_(Boot!vars)
  PROVE  LateInv'
<1>1. Boot!TypeOK /\ NotBegunInv /\ StartedInv /\ WholeInv
  BY DEF BootInv
<1>2. ASSUME NEW i \in Instances, Boot!TaskSpawns(i) PROVE LateInv'
  BY <1>1, <1>2 DEF Boot!TaskSpawns, Boot!TypeOK, LateInv
<1>3. ASSUME NEW i \in Instances, Boot!TaskReturns(i) PROVE LateInv'
  BY <1>1, <1>3 DEF Boot!TaskReturns, Boot!TypeOK, LateInv
<1>4. ASSUME NEW i \in Instances, Boot!InstanceComesUp(i) PROVE LateInv'
  BY <1>1, <1>4 DEF OnlyLateFailures, Boot!InstanceComesUp, Boot!TypeOK, LateInv
<1>5. ASSUME NEW i \in Instances, Boot!JoinStarted(i) PROVE LateInv'
  BY <1>1, <1>5 DEF Boot!JoinStarted, Boot!TypeOK, LateInv
<1>6. ASSUME NEW i \in Instances, Boot!JoinFailed(i) PROVE LateInv'
  BY <1>1, <1>6 DEF Boot!JoinFailed, LateInv
<1>7. ASSUME NEW i \in Instances, Boot!RollbackOne(i) PROVE LateInv'
  BY <1>1, <1>7 DEF Boot!RollbackOne, Boot!TypeOK, LateInv
<1>8. CASE Boot!Begin
  BY <1>1, <1>8 DEF Boot!Begin, Boot!TypeOK, NotBegunInv, LateInv
<1>9. CASE Boot!AllJoined
  BY <1>1, <1>9 DEF Boot!AllJoined, Boot!TypeOK, StartedInv, LateInv
<1>10. CASE Boot!PhaseEnds
  BY <1>1, <1>10 DEF Boot!PhaseEnds, Boot!TypeOK, WholeInv, LateInv
<1>11. CASE Boot!Bind
  BY <1>1, <1>11 DEF Boot!Bind, Boot!TypeOK, WholeInv, LateInv
<1>12. CASE Boot!RollbackEnds
  BY <1>1, <1>12 DEF Boot!RollbackEnds, Boot!TypeOK, LateInv
<1>13. CASE Boot!KilledByStarter
  BY <1>1, <1>13 DEF Boot!KilledByStarter, Boot!TypeOK, LateInv
<1>14. CASE UNCHANGED Boot!vars
  BY <1>14 DEF Boot!vars, LateInv
<1> QED BY <1>2, <1>3, <1>4, <1>5, <1>6, <1>7, <1>8, <1>9, <1>10, <1>11, <1>12, <1>13, <1>14
        DEF Boot!Next, Boot!Step

-----------------------------------------------------------------------------
LEMMA AllOrNone ==
  ASSUME BootInv
  PROVE  Boot!TypeOK /\ Boot!ServingHasAll /\ Boot!SparesOthers
BY DEF BootInv, WholeInv, StartedInv, ForeignInv, Boot!ServingHasAll, Boot!SparesOthers

LEMMA NoneLeft ==
  ASSUME LateInv
  PROVE  Boot!FailedLeavesNone
BY DEF LateInv, Boot!FailedLeavesNone

(* An env that serves has all its instances up, and whatever fails, no     *)
(* rollback closes a daemon that the env did not start.                    *)
THEOREM ServesWhole ==
  ASSUME Boot!BootstrapAssumption
  PROVE  Boot!Spec => [](Boot!ServingHasAll /\ Boot!SparesOthers)
<1>1. Boot!Init => BootInv
  BY BootInit
<1>2. BootInv /\ [Boot!Next]_(Boot!vars) => BootInv'
  BY BootStep
<1>3. BootInv => Boot!ServingHasAll /\ Boot!SparesOthers
  BY AllOrNone
<1> QED BY <1>1, <1>2, <1>3, PTL DEF Boot!Spec

(* A start that fails after all instances have come up leaves none of them.*)
THEOREM LateFailureLeavesNone ==
  ASSUME Boot!BootstrapAssumption, OnlyLateFailures
  PROVE  Boot!Spec => []Boot!FailedLeavesNone
<1>1. Boot!Init => BootInv /\ LateInv
  BY BootInit, LateInit
<1>2. BootInv /\ LateInv /\ [Boot!Next]_(Boot!vars) => BootInv' /\ LateInv'
  BY BootStep, LateStep
<1>3. BootInv /\ LateInv => Boot!FailedLeavesNone
  BY NoneLeft
<1> QED BY <1>1, <1>2, <1>3, PTL DEF Boot!Spec

=============================================================================
