SPECIFICATION Spec
CONSTANTS
  NumInstances = 2
  WorkerQueueCap = 1
  Faults = {"crash", "timeout", "pre", "post", "write"}
  Clients = {c1}
  Requests <- FaultRequests
  NumJobs = 0
  ActionsPerTurn = 1
  TicksPerTurn = 1
  MaxDue = 0
  MaxElapsed = 2
  MaxRequests = 4
INVARIANTS
  RowIsOneInstant
PROPERTIES
  FrozenAfterFailure
  LockstepSpec
