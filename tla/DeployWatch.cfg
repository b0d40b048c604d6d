CONSTANTS
  MaxCommits = 2
  MaxDeployments = 3
  Stopped = {"CRASHED"}
  Sound = {1}
SPECIFICATION MCSpec
CHECK_DEADLOCK FALSE
INVARIANTS VerdictsAreCurrent PassingProofHolds
PROPERTIES BrokenDeploymentIsReported GreenCommitDeploys
