SPECIFICATION Spec
CONSTANTS
  NumInstances = 2
  WorkerQueueCap = 1
  Faults = {"direct"}
  Clients = {c1, c2}
  Requests <- ClockRequests
  NumJobs = 0
  ActionsPerTurn = 1
  TicksPerTurn = 1
  MaxDue = 2
  MaxElapsed = 3
  MaxRequests = 3
INVARIANTS
  TypeOK
PROPERTIES
  RowMatchesClock
  LockstepSpec
  StepDoneInFull
