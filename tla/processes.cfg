SPECIFICATION Spec
CONSTANTS
  Parts = {"fresh", "stale", "crash", "failing", "broken", "transport", "exchange", "time"}
  Starters = {s1, s2, s3}
  FewStarters = {s1, s2}
  Closers = {c1}
  Sweepers = {w1}
  Ghost = ghost
  Instances = {i1, i2, i3}
  Taken = {i3}
  Writer = i1
  Env = envId
  MaxTicks = 2
  MaxResets = 1
  MaxWaiting = 2
  Clients = {c1, c2}
  OnceOnly = {c2}
  MaxAttempts = 3
  TickUs = 3
  SpeedUnit = 2
  Speeds = {1, 2, 5}
  MinDelay = 1
  MaxDelay = 5
  PausedDelay = 2
  Late = 2
INVARIANTS
  StartsKeepOrder
  EnvAllOrNone
  RetriesAccounted
  ExchangeInTime
  TimeKept
PROPERTIES
  StartedIsMine
  AllEnds
