SPECIFICATION FairSpec
CONSTANTS
  Wg = Wg
  Threads = {t1, t2}
  Locks = {l1, l2}
  Kinds <- ConfigureOnly
  None = None
  Dicts <- OneDict
  Inet6 <- Inet6Set
  Connected <- ConnectedTo
  Renamed = {cidrX}
  FaultySteps <- UpStep
  MaxFaults = 1
  MaxLosses = 0
  MaxCrashes = 0
  addr = addr
  addr6 = addr6
  net = net
  net6 = net6
  cidrX = cidrX
  cidrY = cidrY
  cidr6 = cidr6
  peerP = peerP
  peerQ = peerQ
PROPERTY
  SyncConverges
