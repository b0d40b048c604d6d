CONSTANTS
  MaxBytes = 6
  ChunkSizes = {1, 2, 3}
  MaxSent = 12
SPECIFICATION Spec
INVARIANTS NeverPartial
PROPERTIES SettledOnce AlwaysSettles
CHECK_DEADLOCK FALSE
