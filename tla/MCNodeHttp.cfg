SPECIFICATION HttpSpec
CONSTANTS
  r1 = r1
  r2 = r2
  b1 = b1
  b2 = b2
  b3 = b3
  None = None
  NoBuffer = NoBuffer
  Requests = {r1, r2}
  Contexts = {1, 2}
  Responses = {1, 2, 3, 4}
  Buffers = {b1, b2, b3}
  Chains <- AllLanes
  MaxPoolSize = 1
  OddlyTyped = {"route"}
SYMMETRY Symmetry
INVARIANTS
  ContextExclusive
  NothingShared
PROPERTY
  DeliveredFrozen
