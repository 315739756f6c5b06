CONSTANTS
  u1 = u1
  u2 = u2
  u3 = u3
  Users <- TwoUsers
  S = S
  T = T
  G = G
  MON = MON
  None = None
  MonitorTimer = TRUE
  Releases = 1
  PrintBlocks = FALSE
  MaxTicks = 3
SPECIFICATION FairSpec
CHECK_DEADLOCK FALSE
PROPERTIES CreateReturns
