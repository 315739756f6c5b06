CONSTANTS
  u1 = u1
  r1 = r1
  r2 = r2
  r3 = r3
  a1 = a1
  a2 = a2
  a3 = a3
  a4 = a4
  Users <- OneUser
  RequestBlocks <- ThreeRequests
  ResponseBlocks <- FourResponses
  S = S
  T = T
  G = G
  None = None
  SQ = SQ
  GQ = GQ
  InitMessages = 1
  GrowMessages = 1
  NumQueues = 3
  GeneratorLimit = 1
SPECIFICATION Spec
INVARIANTS TypeOK BlocksAccounted HeadersTell AnswerHasRoom NumbersSuffice SleepersAwaited ResponsePoolBounded
PROPERTIES PoolStays ImplementsCalls
SYMMETRY Symmetry
