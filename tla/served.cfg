CONSTANTS
  u1 = u1
  u2 = u2
  u3 = u3
  Users <- TwoUsers
  S = S
  T = T
  G = G
  MON = MON
  NONE = NONE
  Periodic = 2
  Period <- TwoPeriods
  Deadline <- TwoDeadlines
  TemplatePriority <- TwoTemplates
  GeneratorPriority = 1
  LowestPriority = 4
  GeneratorQueue = 1
  MonitorPeriod = 2
  MonitorTimer = FALSE
  MaxTicks = 4
  PrintBlocks = FALSE
  SlowTicks = TRUE
SPECIFICATION FairSpec
CHECK_DEADLOCK FALSE
PROPERTIES DeleteServed CreateServed PressesDrained
