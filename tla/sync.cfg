SPECIFICATION FairSyncSpec
CONSTANTS
  Wireguards = {w1, w2}
  Threads = {t1, t2, t3}
  Workers = {t1, t2}
  Handlers = {t3}
  Hosted = {w1, w2}
  Locks = {l1, l2, l3, l4, l5}
  Kinds = {"configure", "delete"}
  None = None
  Interval = 300
  MaxCasts = 3
  MaxFaults = 1
  MaxRestarts = 1
INVARIANTS
  SyncTypeOK
  ExclusionUntilRemoved
  WaitsForOperation
  SyncWaitsForHandlersOnly
PROPERTIES
  Progress
  SyncServesAll
