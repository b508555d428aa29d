-------------------------- MODULE MCInstanceDaemon --------------------------
(* An instance of InstanceDaemon for TLC: what is asked for.                *)
EXTENDS InstanceDaemon

Ask(kind, n) == [kind |-> kind, n |-> n]

SomeRequests ==
  {Ask("Read", 0), Ask("WorkerStep", 0), Ask("Query", 0), Ask("Reset", 0),
   Ask("TimeStart", 0), Ask("TimePause", 0), Ask("TimeStep", 2),
   Ask("TraceStart", 2), Ask("TraceStop", 0), Ask("TraceClear", 0), Ask("Close", 0)}

=============================================================================
