CONSTANTS
  old = old
  new = new
  Ref = {old, new}
  Unset = Unset
  NoRequest = NoRequest
  Call = {c1, c2}
  Variable = {"GIT_REF", "GATEWAY_TOKEN"}
  Requests <- MCRequests
  MaxDeploys = 3
SPECIFICATION MCSpec
INVARIANTS OutcomeSaysWhatChanged JudgesNewDeployments
PROPERTIES QuietUpdateRunsItsValue QuietWriteIsExpected EveryCallEnds
CHECK_DEADLOCK FALSE
