SPECIFICATION FairSpec
CONSTANTS
  Keys = {k1, k2}
  MaxRuns = 2
  Plugins <- SomePlugins
  NoChild = NoChild
INVARIANTS ReadyIsOwn MappersServed
PROPERTIES ReadySettles ExitEndsServer
CHECK_DEADLOCK FALSE
