SPECIFICATION Spec
CONSTANTS
  NServers = 2
  Pids = {p1, p2, p3, p4}
  MaxOf <- FirstOne
  MaxChildren = 2
  SingleProcess = {}
  Foreground = FALSE
  Timeout = 2
  Backlog = 2
SYMMETRY PidSymmetry
INVARIANTS
  TypeOK
  Accounting
  OnlyOwnChildren
  ServerLimit
  GlobalBound
  ZombieNoticed
  NoDeafServer
  PauseHasChild
PROPERTIES
  ImplementsPool
CHECK_DEADLOCK FALSE
