SPECIFICATION Spec
CONSTANTS
  Workers = {w1}
  Clients = {c1, c2}
  Requests <- SomeRequests
  Places = {TRUE, FALSE}
  Faults = {"pre", "sample", "post", "file", "die"}
  WorkersPerTurn = 2
  ActionsPerTurn = 1
  TicksPerTurn = 1
  MaxDue = 2
  MaxTicks = 3
  MaxRequests = 3
INVARIANTS
  TypeOK
  ClockCountsTicks
PROPERTIES
  PausedStandsStill
  TraceFaithful
  Responsive
