CONSTANTS
  Given = Given
  Absent = Absent
  None = None
  Call = {c1}
SPECIFICATION Spec
INVARIANTS RunWaitsOutRedeploy
CHECK_DEADLOCK FALSE
