CONSTANTS
  u1 = u1
  u2 = u2
  u3 = u3
  Users <- TwoUsers
  S = S
  T = T
  G = G
  MON = MON
  NONE = NONE
  Periodic = 1
  Period <- OnePeriod
  Deadline <- OneDeadline
  TemplatePriority <- OneTemplate
  GeneratorPriority = 1
  LowestPriority = 3
  GeneratorQueue = 1
  MonitorPeriod = 2
  MonitorTimer = FALSE
  MaxTicks = 3
  PrintBlocks = FALSE
  SlowTicks = TRUE
SPECIFICATION Spec
CHECK_DEADLOCK FALSE
INVARIANTS ButtonAssertHolds
