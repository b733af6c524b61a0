SPECIFICATION Spec
CONSTANTS
  Chains <- MCChains
  StartIds <- MCStart
  EndIds <- MCEnd
  RunOnError = {"mionSerializeResponse"}
  ParamsCount <- MCParamsCount
  DefaultSerializer = "json"
  MaxSize = 1
  Queries <- MCQueries
  Raws = {"older", "newer"}
  PathTransform <- MCTransform
  Keys = {"rt", "named"}
  Manifest <- MCManifest
  Requests = {r1, r2}
  None = None
INVARIANTS CacheSound FlowKeepsChains MappersGuarded
SYMMETRY Alike
