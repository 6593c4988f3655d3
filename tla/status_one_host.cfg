SPECIFICATION Spec
CONSTANTS
  Hosts = {h1}
  Workers = {r1, r2, r3}
  Reports <- AgentReports
  None = None
SYMMETRY Symmetry
INVARIANTS
  TypeOK
  NothingAfterDelete
PROPERTIES
  BoardSpec
  CommitsAreReports
\* Once the wireguard is deleted and no transaction is open, nothing is left to do.
CHECK_DEADLOCK FALSE
