SPECIFICATION Spec
CONSTANTS
  NServers = 2
  Pids = {p1, p2, p3}
  MaxOf <- NoLimit
  MaxChildren = 1
  SingleProcess = {}
  Foreground = FALSE
  Timeout = 2
  Backlog = 1
SYMMETRY PidSymmetry
INVARIANTS
  MaxChildrenKept
CHECK_DEADLOCK FALSE
