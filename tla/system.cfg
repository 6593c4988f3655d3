SPECIFICATION FairSpec
CONSTANTS
  Hosts = {h1}
  None = None
  Edits = {e1, e2}
  Scheduled = {h1}
  Prepared = {h1}
  Columns = {key, ips}
  MaxMoves = 0
  MaxFaults = 0
  MaxLosses = 1
  MaxCrashes = 1
INVARIANTS
  TypeOK
  IncompleteNeverApplied
PROPERTIES
  TunnelSpec
  HostsConverge
\* A deleted wireguard may leave nothing to do.
CHECK_DEADLOCK FALSE
