SPECIFICATION Spec
CONSTANTS
  Calls = {c1, c2}
  Ops = {o1}
  Chains <- MCChains
  Public <- MCPublic
  Required = {}
  RunOnError = {"log"}
  Known = {"auth", "guard", "pay", "log"}
  Setups <- MCSetups
  OpSetups <- MCOpSetups
  Behaviours <- MCBehaviours
  MayReload = TRUE
  Meta = "mion@methodsMetadata"
  Request = "mion-client-request"
  None = None
INVARIANTS AnswersReachTheirOwn SentAsDue 
SYMMETRY Alike
