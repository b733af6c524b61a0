SPECIFICATION PlatformFairSpec
CONSTANTS
  r1 = r1
  b1 = b1
  b2 = b2
  None = None
  NoBuffer = NoBuffer
  Requests = {r1}
  Contexts = {1, 2}
  Responses = {1, 2, 3, 4}
  Buffers = {b1, b2}
  Chains <- FullChains
  MaxPoolSize = 1
  OddlyTyped = {"route"}
  Served <- AllPlatforms
INVARIANTS
  AnsweredOnce
PROPERTIES
  ErrorsAccountedFor
  PlatformsImplementDispatch
  BuffersComeBack
  SilentOnlyAfterThrow
