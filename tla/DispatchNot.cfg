SPECIFICATION Spec
CONSTANTS
  NModules = 5
  NDatabases = 6
  NRules = 2
  Kind <- MCKind
  DbModule <- MCDbModule
  Rule <- MCNotRule
  Peers <- MCPeers
  Words = {"a", "b", "c"}
INVARIANTS
  NotReverts
CHECK_DEADLOCK FALSE
