SPECIFICATION Spec
CONSTANTS
  Servers = {"a", "b"}
  Inet = {"b"}
  Single = {"b"}
  Configs <- MCConfigs
  Starts <- MCStarts
  Users <- MCUsers
  PrimaryGid <- MCPrimaryGid
  MemberOf <- MCMemberOf
  MayBind <- MCMayBind
  MaxRuns = 2
INVARIANTS
  SwitchedForGood
  GroupsAsConfigured
  OwnerAsConfigured
  RestartReopens
CHECK_DEADLOCK FALSE
