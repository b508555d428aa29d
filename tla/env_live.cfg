SPECIFICATION FairSpec
CONSTANTS
  NumInstances = 2
  WorkerQueueCap = 1
  Faults = {"crash", "timeout"}
  Clients = {c1, c2}
  Requests <- BusyRequests
  NumJobs = 0
  ActionsPerTurn = 1
  TicksPerTurn = 1
  MaxDue = 2
  MaxElapsed = 2
  MaxRequests = 2
PROPERTIES
  RequestsAnswered
  ShutdownCompletes
