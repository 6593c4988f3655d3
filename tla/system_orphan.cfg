SPECIFICATION Spec
CONSTANTS
  Hosts = {h1}
  None = None
  Edits = {e1}
  Scheduled = {h1}
  Prepared = {h1}
  Columns = {key, ips}
  MaxMoves = 0
  MaxFaults = 0
  MaxLosses = 0
  MaxCrashes = 0
INVARIANT
  DeletedIsGone
\* A deleted wireguard may leave nothing to do.
CHECK_DEADLOCK FALSE
