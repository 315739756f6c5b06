CONSTANTS
  u1 = u1
  u2 = u2
  u3 = u3
  Users <- TwoUsers
  S = S
  T = T
  G = G
  MON = MON
  NONE = NONE
  Periodic = 1
  Period <- OnePeriod
  Deadline <- OneDeadline
  TemplatePriority <- OneTemplate
  GeneratorPriority = 1
  LowestPriority = 3
  GeneratorQueue = 0
  MonitorPeriod = 2
  MonitorTimer = TRUE
  MaxTicks = 6
  PrintBlocks = FALSE
  SlowTicks = FALSE
SPECIFICATION FairSpec
CHECK_DEADLOCK FALSE

INVARIANTS NeverHeldUp EarliestDeadlineRuns NoMissedDeadlineActive ReleasedInTime
PROPERTIES MonitorServed CreateServed
