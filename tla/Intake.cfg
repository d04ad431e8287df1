SPECIFICATION Spec
CONSTANTS
  Hosts = {"github", "gitlab", "bitbucket"}
  Branches <- MCBranches
  Policies <- MCPolicies
  MaxMoves = 4
  MaxSent = 4
INVARIANTS TypeOK ClosedNeverDeploys GateIsAbsolute QuietMatchesDocs
CHECK_DEADLOCK FALSE
