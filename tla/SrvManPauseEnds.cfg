SPECIFICATION FairSpec
CONSTANTS
  NServers = 1
  Pids = {p1}
  MaxOf <- NoLimit
  MaxChildren = 1
  SingleProcess = {}
  Foreground = FALSE
  Timeout = 2
  Backlog = 1
PROPERTIES
  PauseEnds
CHECK_DEADLOCK FALSE
