CONSTANTS
  u1 = u1
  u2 = u2
  u3 = u3
  Users <- TwoUsers
  S = S
  T = T
  G = G
  MON = MON
  None = None
  MonitorTimer = TRUE
  Releases = 2
  PrintBlocks = TRUE
  MaxTicks = 4
SPECIFICATION FairSpec
CHECK_DEADLOCK FALSE
INVARIANTS TypeOK OnlyThroughTimer
PROPERTIES Destroyed Answered
