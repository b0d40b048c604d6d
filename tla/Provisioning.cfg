CONSTANTS
  Call = {c1, c2}
  Project = {x}
  New = New
  Manual = Manual
  None = None
  MaxMeddling = 1
SPECIFICATION Spec
INVARIANTS ReadyIsFullyProvisioned OriginNeedsBaseline
PROPERTIES AloneTouchesItsOwn AloneNeverDuplicates HandedOffIsStored AlonePreservesOrigins BootstrapAllowsItsOrigin
CHECK_DEADLOCK FALSE
SYMMETRY CallSymmetry
