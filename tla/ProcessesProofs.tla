-------------------------- MODULE ProcessesProofs --------------------------
(***************************************************************************)
(* The parts in which processes meet, put together: what MCProcesses       *)
(* checks of each for a few processes follows, for any number of them and  *)
(* every value of the constants, from the invariant of the part.           *)
(***************************************************************************)
EXTENDS MCProcesses, TLAPS

(* What each part keeps.                                                   *)
StartsInv ==
  /\ part = "fresh" => Fresh!StartInv /\ Fresh!LockInv
  /\ part = "stale" => Stale!StartInv /\ Stale!OneInv
  /\ part = "crash" => Crash!StartInv
EnvsInv ==
  /\ part = "failing" => Stale!BootInv /\ Stale!LateInv
  /\ part = "broken" => Crash!BootInv
TransportInv == part = "transport" => Daemon!IInv
ExchangeInv == part = "exchange" => Daemon!ExchangeInv
ClockInv == part = "time" => Daemon!TimeInv

-----------------------------------------------------------------------------
(* A behaviour is of the part it began with.                               *)

LEMMA StartsMove ==
  ASSUME [Next]_vars
  PROVE  /\ part' = part
         /\ part = "fresh" => [Fresh!Next]_(Fresh!vars)
         /\ part = "stale" => [Stale!Next]_(Stale!vars)
         /\ part = "crash" => [Crash!Next]_(Crash!vars)
BY DEF Next, vars, Rest5, Rest7, Rest9, Fresh!vars, Stale!vars, Crash!vars

LEMMA EnvsMove ==
  ASSUME [Next]_vars
  PROVE  /\ part' = part
         /\ part = "failing" => [Stale!Boot!Next]_(Stale!Boot!vars)
         /\ part = "broken" => [Crash!Boot!Next]_(Crash!Boot!vars)
BY DEF Next, vars, Rest5, Rest7, Rest9, Stale!Boot!vars, Crash!Boot!vars

LEMMA DaemonsMove ==
  ASSUME [Next]_vars
  PROVE  /\ part' = part
         /\ part = "transport" => [Daemon!Next]_(Daemon!vars)
         /\ part = "exchange" => [Daemon!Exchange!Next]_(Daemon!Exchange!vars)
         /\ part = "time" => [Daemon!Time!Next]_(Daemon!Time!vars)
BY DEF Next, vars, Rest5, Rest7, Rest9, Daemon!vars, Daemon!Exchange!vars, Daemon!Time!vars,
       Daemon!Time!engine, Daemon!Time!sleep, Daemon!Time!history

-----------------------------------------------------------------------------
(* Starts.                                                                 *)

(* What the parts take for granted of what may fail.                       *)
LEMMA StartsFaults ==
  /\ Fresh!NobodyDies
  /\ \A left \in {{}} : "lock" \notin left
  /\ Stale!OnlyStarts
BY DEF Fresh!NobodyDies, Stale!OnlyStarts, Stale!NobodyDies, Stale!Closing

LEMMA StartsInit == Init => StartsInv
<1>1. ASSUME Fresh!Init PROVE Fresh!StartInv /\ Fresh!LockInv
  BY <1>1, PartsAssumption, StartsFaults, Fresh!InitInvariant, Fresh!LockInit
<1>2. ASSUME Stale!Init PROVE Stale!StartInv /\ Stale!OneInv
  BY <1>2, PartsAssumption, StartsFaults, Stale!InitInvariant, Stale!OneInit
<1>3. ASSUME Crash!Init PROVE Crash!StartInv
  BY <1>3, PartsAssumption, Crash!InitInvariant
<1> QED BY <1>1, <1>2, <1>3 DEF Init, StartsInv

LEMMA StartsStep == StartsInv /\ [Next]_vars => StartsInv'
<1> SUFFICES ASSUME StartsInv, [Next]_vars PROVE StartsInv'
  OBVIOUS
<1>1. ASSUME part = "fresh" PROVE Fresh!StartInv' /\ Fresh!LockInv'
  <2>1. Fresh!StartInv /\ Fresh!LockInv /\ [Fresh!Next]_(Fresh!vars)
    BY <1>1, StartsMove DEF StartsInv
  <2> QED BY <2>1, PartsAssumption, StartsFaults, Fresh!StepInvariant, Fresh!LockStep
<1>2. ASSUME part = "stale" PROVE Stale!StartInv' /\ Stale!OneInv'
  <2>1. Stale!StartInv /\ Stale!OneInv /\ [Stale!Next]_(Stale!vars)
    BY <1>2, StartsMove DEF StartsInv
  <2> QED BY <2>1, PartsAssumption, StartsFaults, Stale!StepInvariant, Stale!OneStep
<1>3. ASSUME part = "crash" PROVE Crash!StartInv'
  <2>1. Crash!StartInv /\ [Crash!Next]_(Crash!vars)
    BY <1>3, StartsMove DEF StartsInv
  <2> QED BY <2>1, PartsAssumption, Crash!StepInvariant
<1> QED BY <1>1, <1>2, <1>3, StartsMove DEF StartsInv

(* While no process has died before, one starter at a time holds the lock; *)
(* a start that failed leaves no daemon; and whatever a process that died  *)
(* has left, concurrent starts end with one daemon that can be reached.    *)
THEOREM OrderKept == Spec => []StartsKeepOrder
<1>1. StartsInv => StartsKeepOrder
  <2> SUFFICES ASSUME StartsInv PROVE StartsKeepOrder
    OBVIOUS
  <2>1. ASSUME part = "fresh"
        PROVE  Fresh!TypeOK /\ Fresh!LockExclusive /\ Fresh!FailedLeavesNone
    BY <2>1, Fresh!FailedIsOver, Fresh!HoldersOne DEF StartsInv
  <2>2. ASSUME part = "stale"
        PROVE  Stale!TypeOK /\ Stale!LeavesOneReachable /\ Stale!StaysReachable
    BY <2>2, PartsAssumption, Stale!FailedIsOver, Stale!OneLeft DEF StartsInv
  <2>3. ASSUME part = "crash" PROVE Crash!TypeOK /\ Crash!FailedLeavesNone
    BY <2>3, Crash!FailedIsOver DEF StartsInv
  <2> QED BY <2>1, <2>2, <2>3 DEF StartsKeepOrder
<1> QED BY <1>1, StartsInit, StartsStep, PTL DEF Spec

(* A start reports success only of its own daemon: the step that reports   *)
(* it is one after which this daemon is behind the endpoint.               *)
THEOREM OwnDaemonReported == Spec => StartedIsMine
<1>1. StartsInv /\ StartsInv' /\ [Next]_vars => [part = "stale" => Stale!ReportsItsOwn]_vars
  <2> SUFFICES ASSUME StartsInv, StartsInv', [Next]_vars, part = "stale"
               PROVE  Stale!ReportsItsOwn
    OBVIOUS
  <2>1. part' = part /\ [Stale!Next]_(Stale!vars)
    BY StartsMove
  <2>2. Stale!StartInv /\ Stale!OneInv /\ Stale!OneInv'
    BY <2>1 DEF StartsInv
  <2> QED BY <2>1, <2>2, PartsAssumption, StartsFaults, Stale!OwnReported
<1> QED BY <1>1, StartsInit, StartsStep, PTL DEF Spec, StartedIsMine

-----------------------------------------------------------------------------
(* Envs.                                                                   *)

LEMMA EnvsInit == Init => EnvsInv
<1>1. ASSUME Stale!Boot!Init PROVE Stale!BootInv /\ Stale!LateInv
  BY <1>1, PartsAssumption, Stale!BootInit, Stale!LateInit DEF Stale!OnlyLateFailures
<1>2. ASSUME Crash!Boot!Init PROVE Crash!BootInv
  BY <1>2, PartsAssumption, Crash!BootInit
<1> QED BY <1>1, <1>2 DEF Init, EnvsInv

LEMMA EnvsStep == EnvsInv /\ [Next]_vars => EnvsInv'
<1> SUFFICES ASSUME EnvsInv, [Next]_vars PROVE EnvsInv'
  OBVIOUS
<1>1. ASSUME part = "failing" PROVE Stale!BootInv' /\ Stale!LateInv'
  <2>1. Stale!BootInv /\ Stale!LateInv /\ [Stale!Boot!Next]_(Stale!Boot!vars)
    BY <1>1, EnvsMove DEF EnvsInv
  <2> QED BY <2>1, PartsAssumption, Stale!BootStep, Stale!LateStep
          DEF Stale!OnlyLateFailures
<1>2. ASSUME part = "broken" PROVE Crash!BootInv'
  <2>1. Crash!BootInv /\ [Crash!Boot!Next]_(Crash!Boot!vars)
    BY <1>2, EnvsMove DEF EnvsInv
  <2> QED BY <2>1, PartsAssumption, Crash!BootStep
<1> QED BY <1>1, <1>2, EnvsMove DEF EnvsInv

(* An env that serves has all its instances; a bootstrap that failed late  *)
(* leaves none; and no rollback closes a daemon that is not the env's.     *)
THEOREM EnvsWhole == Spec => []EnvAllOrNone
<1>1. EnvsInv => EnvAllOrNone
  <2> SUFFICES ASSUME EnvsInv PROVE EnvAllOrNone
    OBVIOUS
  <2>1. ASSUME part = "failing"
        PROVE  Stale!Boot!TypeOK /\ Stale!Boot!ServingHasAll /\ Stale!Boot!FailedLeavesNone
    BY <2>1, Stale!AllOrNone, Stale!NoneLeft DEF EnvsInv
  <2>2. ASSUME part = "broken"
        PROVE  Crash!Boot!TypeOK /\ Crash!Boot!ServingHasAll /\ Crash!Boot!SparesOthers
    BY <2>2, Crash!AllOrNone DEF EnvsInv
  <2> QED BY <2>1, <2>2 DEF EnvAllOrNone
<1> QED BY <1>1, EnvsInit, EnvsStep, PTL DEF Spec

-----------------------------------------------------------------------------
(* Requests, devices and the clock.                                        *)

(* A request is sent again, or refused for a retry, only after a read      *)
(* timeout, and reported as carried out only if it was.                    *)
THEOREM RetriesKept == Spec => []RetriesAccounted
<1>1. Init => TransportInv
  <2>1. ASSUME Daemon!Init PROVE Daemon!IInv
    BY <2>1, PartsAssumption, Daemon!InitInvariant
  <2> QED BY <2>1 DEF Init, TransportInv
<1>2. TransportInv /\ [Next]_vars => TransportInv'
  <2> SUFFICES ASSUME TransportInv, [Next]_vars, part = "transport" PROVE Daemon!IInv'
    BY DaemonsMove DEF TransportInv
  <2>1. Daemon!IInv /\ [Daemon!Next]_(Daemon!vars)
    BY DaemonsMove DEF TransportInv
  <2> QED BY <2>1, PartsAssumption, Daemon!StepInvariant
<1>3. TransportInv => RetriesAccounted
  BY PartsAssumption, Daemon!Accounted DEF TransportInv, RetriesAccounted, Daemon!IInv
<1> QED BY <1>1, <1>2, <1>3, PTL DEF Spec

(* What the devices of an env hand to each other is of the tick at hand or *)
(* of the one before it, and nothing of it outlives a reset.               *)
THEOREM ExchangesInTime == Spec => []ExchangeInTime
<1>1. Init => ExchangeInv
  <2>1. ASSUME Daemon!Exchange!Init PROVE Daemon!ExchangeInv
    BY <2>1, PartsAssumption, Daemon!ExchangeInit
  <2> QED BY <2>1 DEF Init, ExchangeInv
<1>2. ExchangeInv /\ [Next]_vars => ExchangeInv'
  <2> SUFFICES ASSUME ExchangeInv, [Next]_vars, part = "exchange" PROVE Daemon!ExchangeInv'
    BY DaemonsMove DEF ExchangeInv
  <2>1. Daemon!ExchangeInv /\ [Daemon!Exchange!Next]_(Daemon!Exchange!vars)
    BY DaemonsMove DEF ExchangeInv
  <2> QED BY <2>1, PartsAssumption, Daemon!ExchangeStep
<1>3. ExchangeInv => ExchangeInTime
  BY Daemon!InTime DEF ExchangeInv, ExchangeInTime, Daemon!ExchangeInv
<1> QED BY <1>1, <1>2, <1>3, PTL DEF Spec

(* The clock of a daemon neither gains nor loses time at any speed, holds  *)
(* no tick back, and sleeps until the next is due, not longer.             *)
THEOREM ClockKept == Spec => []TimeKept
<1>1. Init => ClockInv
  <2>1. ASSUME Daemon!Time!Init PROVE Daemon!TimeInv
    BY <2>1, PartsAssumption, Daemon!TimeInit
  <2> QED BY <2>1 DEF Init, ClockInv
<1>2. ClockInv /\ [Next]_vars => ClockInv'
  <2> SUFFICES ASSUME ClockInv, [Next]_vars, part = "time" PROVE Daemon!TimeInv'
    BY DaemonsMove DEF ClockInv
  <2>1. Daemon!TimeInv /\ [Daemon!Time!Next]_(Daemon!Time!vars)
    BY DaemonsMove DEF ClockInv
  <2> QED BY <2>1, PartsAssumption, Daemon!TimeStep
<1>3. ClockInv => TimeKept
  <2> SUFFICES ASSUME ClockInv, part = "time"
               PROVE  /\ Daemon!Time!TypeOK
                      /\ Daemon!Time!NoTimeLost /\ Daemon!Time!NoTickHeldBack
                      /\ Daemon!Time!SleepIsLongEnough /\ Daemon!Time!SleepIsShortEnough
    BY DEF TimeKept
  <2>1. Daemon!TimeInv
    BY DEF ClockInv
  <2> QED BY <2>1, PartsAssumption, Daemon!SleepsRight DEF Daemon!TimeInv
<1> QED BY <1>1, <1>2, <1>3, PTL DEF Spec

=============================================================================
