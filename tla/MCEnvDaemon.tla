---------------------------- MODULE MCEnvDaemon ----------------------------
(* Instances of EnvDaemon for TLC: what the clients ask for in each run.   *)
EXTENDS EnvDaemon

Ask(kind, n, job) == [kind |-> kind, n |-> n, job |-> job]

(* Everything that moves or reads the clock.                               *)
ClockRequests ==
  {Ask("TimeStep", 2, 0), Ask("Reset", 0, 0), Ask("TimeStart", 0, 0),
   Ask("TimePause", 0, 0), Ask("TraceStart", 1, 0), Ask("TraceStart", 2, 0),
   Ask("TraceStop", 0, 0), Ask("Get", 0, 0), Ask("Close", 0, 0)}

(* The requests after which the instances could part ways.                 *)
FaultRequests ==
  {Ask("TimeStep", 1, 0), Ask("Reset", 0, 0), Ask("TraceStart", 1, 0),
   Ask("Get", 0, 0), Ask("Query", 0, 0)}

(* Two schedules, of one and of two ticks; the second is changed.          *)
JobRequests ==
  {Ask("Add", 1, 1), Ask("Add", 2, 2), Ask("Update", 1, 2), Ask("Remove", 0, 2),
   Ask("Stop", 0, 1), Ask("Start", 0, 1), Ask("TimeStep", 1, 0),
   Ask("TimeStep", 2, 0), Ask("Reset", 0, 0)}

(* The wall clock keeps the actor busy while a client closes the env.      *)
BusyRequests ==
  {Ask("TimeStep", 1, 0), Ask("TimeStart", 0, 0), Ask("Close", 0, 0)}

=============================================================================
