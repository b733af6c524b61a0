SPECIFICATION Spec
CONSTANTS
  Chains <- MCChains
  StartIds <- MCStart
  EndIds <- MCEnd
  RunOnError = {"mionSerializeResponse"}
  ParamsCount <- MCParamsCount
  DefaultSerializer = "json"
  MaxSize = 2
  Queries <- TwoIndexes
  Raws = {"newer"}
  PathTransform <- MCTransform
  Keys = {"rt", "named"}
  Manifest <- MCManifest
  Requests = {r1}
  None = None
INVARIANTS MappingsApplied
