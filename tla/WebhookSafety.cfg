CONSTANTS
  Missing = Missing
  Malformed = Malformed
  NotAnArray = NotAnArray
  Unclean = Unclean
  BadPattern = BadPattern
  opened = opened
  ready = ready
  mention = mention
  edited = edited
  headless = headless
  Payload <- MCPayload
  Request = {r1, r2}
  Delivery = {opened, ready, mention, edited, headless}
  Secret = {"s1", "s2"}
  Config <- MCConfig
  MaxBoots = 1
SPECIFICATION Spec
SYMMETRY RequestSymmetry
INVARIANTS OnlyPermittedForwards NoGrantIsShadowed StoreIsExact OneForwardPerKey SecondTurnExplained
PROPERTIES ImplementsLedger
CHECK_DEADLOCK FALSE
