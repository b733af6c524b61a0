SPECIFICATION SerializerSpec
CONSTANTS
  b1 = b1
  b2 = b2
  b3 = b3
  l1 = l1
  l2 = l2
  NoBuffer = NoBuffer
  Throws = Throws
  Buffers = {b1, b2, b3}
  Leases = {l1, l2}
  Sizes = {1, 3}
  PowersOfTwo <- MCPowersOfTwo
  MinChoices = {2}
  MaxChoices = {2, 4}
  PerClassChoices = {1}
  TotalChoices = {6}
  Envelopes <- AllEnvelopes
SYMMETRY Symmetry
INVARIANTS
  ResultIntact
  NoLeaseLost
  PoolDecidesNothing
