SPECIFICATION Spec
CONSTANTS
  NumInstances = 1
  WorkerQueueCap = 1
  Faults = {}
  Clients = {c1}
  Requests <- ClockRequests
  NumJobs = 0
  ActionsPerTurn = 1
  TicksPerTurn = 1
  MaxDue = 0
  MaxElapsed = 2
  MaxRequests = 3
INVARIANTS
  TraceWithinPeriod
