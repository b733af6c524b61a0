SPECIFICATION Spec
CONSTANTS
  Calls = {c1}
  Ops = {o1}
  Chains <- MCChains
  Public <- MCPublic
  Required = {}
  RunOnError = {"log"}
  Known = {"auth", "guard", "pay", "log"}
  Setups <- OneBigint
  OpSetups <- MCOpSetups
  Behaviours <- MCBehaviours
  MayReload = TRUE
  Meta = "mion@methodsMetadata"
  Request = "mion-client-request"
  None = None
INVARIANTS NeverStuck
