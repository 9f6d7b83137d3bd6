SPECIFICATION FairSpec
CONSTANTS
  NModules = 5
  NDatabases = 6
  NRules = 12
  Kind <- MCKind
  DbModule <- MCDbModule
  Rule <- MCRule
  Peers <- MCPeers
  Words = {"a", "b", "c"}
INVARIANTS
  LinkedRulesSound
  OpenBalanced
  OneReply
  FirstMatchWins
PROPERTIES
  EveryQueryAnswered
CHECK_DEADLOCK FALSE
