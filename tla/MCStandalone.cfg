SPECIFICATION StandaloneSpec
CONSTANTS
  Default = 255
  Undefined = Undefined
  k1 = k1
  k2 = k2
  k3 = k3
  Keys = {k1, k2, k3}
  Bytes = {1, 2}
  RingSizes = {2, 3}
  KeyCaps = {1, 2}
  FlowChains <- MCFlowChains
  QueryRoutes = {"order"}
  Events <- MCEvents
  Outcomes <- MCOutcomes
  MaxCalls = 2
  MaxMoves = 3
  GivenOptions <- MCGivenOptions
  DevOptions <- MCDevOptions
  LowerCase <- MCLowerCase
  HeaderOps <- MCHeaderOps
  SentHeaders <- MCSentHeaders
  Wanted = {"x", "server"}
  MaxServerCalls = 3
  MaxHeaderOps = 2
  LooksAfter = 1
SYMMETRY Symmetry
INVARIANTS
  RulesHold
  TablesFit
  ValuesCross
  FunctionsAgree
  PagesAgree
  ServersAgree
  SizesUseful
PROPERTY ImplementsWindow
CHECK_DEADLOCK FALSE
