SPECIFICATION Spec
CONSTANTS
  Servers = {"live", "staging"}
  Methods = {"order", "auth"}
  MiddleFnIds <- MCMiddleFnIds
  Types = {"order1", "order2", "token", "key"}
  RtDeps <- MCRtDeps
  TypesOf <- MCTypesOf
  MaxInFlight = 2
  MaxRefused = 1
  None = None
INVARIANTS MetadataUsable OneServerMemory
PROPERTIES SteadyMetadata
