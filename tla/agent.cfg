SPECIFICATION Spec
CONSTANTS
  Wg = Wg
  Threads = {t1, t2}
  Locks = {l1, l2, l3}
  Kinds <- BothKinds
  None = None
  Dicts <- SomeDicts
  Inet6 <- Inet6Set
  Connected <- ConnectedTo
  Renamed = {cidrX}
  FaultySteps <- AllSteps
  MaxFaults = 1
  MaxLosses = 1
  MaxCrashes = 1
  addr = addr
  addr6 = addr6
  net = net
  net6 = net6
  cidrX = cidrX
  cidrY = cidrY
  cidr6 = cidr6
  peerP = peerP
  peerQ = peerQ
SYMMETRY Symmetry
CONSTRAINT UntilOverlap
INVARIANTS
  TypeOK
  ActiveReportIsTrue
  UpLinkIsConfigured
  QuietActiveMeansApplied
  NoStaleInetRoutes
  NoMissingRoutes
  DeleteLeavesNothing
PROPERTY
  LockDiscipline
