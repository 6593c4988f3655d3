SPECIFICATION Spec
CONSTANTS
  Hosts = {h1, h2}
  Workers = {r1, r2}
  Reports <- AgentReports
  None = None
SYMMETRY Symmetry
INVARIANT
  AggregateIsCurrent
\* Once the wireguard is deleted and no transaction is open, nothing is left to do.
CHECK_DEADLOCK FALSE
