CONSTANTS
  Missing = Missing
  Malformed = Malformed
  NotAnArray = NotAnArray
  Unclean = Unclean
  BadPattern = BadPattern
  opened = opened
  Payload <- MCPayload
  Request = {r1, r2}
  Delivery = {opened}
  Secret = {"s1"}
  Config <- ProductionConfig
  MaxBoots = 1
  None = None
  Task = {t1, t2}
  Proc = {p1, p2}
  MaxStrays = 0
SPECIFICATION Spec
PROPERTIES RestoreStartsNoTurn RedeliverySurvivesRestarts
