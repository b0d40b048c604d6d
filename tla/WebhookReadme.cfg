CONSTANTS
  Missing = Missing
  Malformed = Malformed
  NotAnArray = NotAnArray
  Unclean = Unclean
  BadPattern = BadPattern
  opened = opened
  ready = ready
  mention = mention
  edited = edited
  headless = headless
  Payload <- MCPayload
  Request = {r1, r2}
  Delivery = {opened, ready}
  Secret = {"s1"}
  Config <- ProductionConfig
  MaxBoots = 0
SPECIFICATION Spec
INVARIANTS ForwardedOncePerHead
