CONSTANTS
  u1 = u1
  u2 = u2
  u3 = u3
  Users <- TwoUsers
  S = S
  T = T
  G = G
  MON = MON
  NONE = NONE
  Periodic = 1
  Period <- OnePeriod
  Deadline <- OneDeadline
  TemplatePriority <- OneTemplate
  GeneratorPriority = 1
  LowestPriority = 3
  GeneratorQueue = 0
  MonitorPeriod = 2
  MonitorTimer = FALSE
  MaxTicks = 5
  PrintBlocks = TRUE
  SlowTicks = FALSE
SPECIFICATION FairSpec
CHECK_DEADLOCK FALSE
PROPERTIES DeleteServed
