SPECIFICATION Spec
CONSTANTS
  NumInstances = 1
  WorkerQueueCap = 1
  Faults = {"can", "write", "pre"}
  Clients = {c1}
  Requests <- JobRequests
  NumJobs = 2
  ActionsPerTurn = 1
  TicksPerTurn = 1
  MaxDue = 0
  MaxElapsed = 2
  MaxRequests = 5
INVARIANTS
  JobWithinPeriod
  JobsKeepTheirPeriod
PROPERTIES
  NoJobMissed
