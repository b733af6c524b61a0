SPECIFICATION Spec
CONSTANTS
  b1 = b1
  b2 = b2
  b3 = b3
  b4 = b4
  l1 = l1
  l2 = l2
  l3 = l3
  NoBuffer = NoBuffer
  Buffers = {b1, b2, b3}
  Leases = {l1, l2}
  Sizes = {1, 3}
  PowersOfTwo <- MCPowersOfTwo
  MinChoices = {1, 2}
  MaxChoices = {2, 4}
  PerClassChoices = {2}
  TotalChoices = {2, 5}
SYMMETRY Symmetry
INVARIANTS
  ExclusivelyHeld
  ServesItsClass
  AccountsForBytes
PROPERTY ImplementsLoan
