SPECIFICATION Spec
CONSTANTS
  NServers = 2
  Pids = {p1, p2, p3}
  MaxOf <- OneEach
  MaxChildren = 2
  SingleProcess <- OnlyFirst
  Foreground = TRUE
  Timeout = 2
  Backlog = 1
SYMMETRY PidSymmetry
INVARIANTS
  NoSurvivors
PROPERTIES
  ImplementsPool
CHECK_DEADLOCK FALSE
