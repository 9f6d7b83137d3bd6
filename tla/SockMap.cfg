SPECIFICATION FairSpec
CONSTANTS
  Byte <- MCByte
  Queries <- MCQueries
  Malformed <- MCMalformed
  Replies <- MCReplies
  Bound = 4
  BufSize = 3
  MaxQueries = 2
  MaxFailures = 1
INVARIANTS
  QueriesIntact
  RepliesIntact
  InStep
PROPERTIES
  QueryEnds
CHECK_DEADLOCK FALSE
