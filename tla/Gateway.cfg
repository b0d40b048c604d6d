CONSTANTS
  None = None
  Task = {t1, t2, t3}
  Proc = {p1, p2, p3, p4, p5}
  MaxStrays = 1
SPECIFICATION FairSpec
INVARIANTS TrackedGateway StopIsConfirmed
PROPERTIES RestoreBeginsStopped EveryRequestEnds
