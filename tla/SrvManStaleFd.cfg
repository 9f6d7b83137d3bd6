SPECIFICATION Spec
CONSTANTS
  NServers = 2
  Pids = {p1, p2}
  MaxOf <- NoLimit
  MaxChildren = 0
  SingleProcess = {}
  Foreground = FALSE
  Timeout = 2
  Backlog = 1
SYMMETRY PidSymmetry
INVARIANTS
  SelectsOpenFds
CHECK_DEADLOCK FALSE
