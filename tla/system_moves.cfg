SPECIFICATION FairSpec
CONSTANTS
  Hosts = {h1, h2}
  None = None
  Edits = {}
  Scheduled = {h1}
  Prepared = {h1}
  Columns = {key, ips}
  MaxMoves = 1
  MaxFaults = 1
  MaxLosses = 0
  MaxCrashes = 0
INVARIANT
  InterfaceSound
PROPERTIES
  HostsConverge
  StatusArrives
  DeletedRouterLeavesNothing
\* A deleted wireguard may leave nothing to do.
CHECK_DEADLOCK FALSE
