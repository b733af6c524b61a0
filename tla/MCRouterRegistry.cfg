SPECIFICATION FairSpec
CONSTANTS
  None = None
  Calls <- MCCalls
  InitCall = "init"
  Trees <- MCTrees
  Earlier <- MCEarlier
  Unawaited = {"users"}
  DefaultStart <- MCStart
  DefaultEnd <- MCEnd
  ExtraStart <- MCExtraStart
  ExtraEnd <- MCExtraEnd
  Asked <- MCAsked
  Items <- MCItems
  Ids <- MCIds
  Internal = {"mion@methodsMetadata", "mion@notFound"}
  MaxNesting = 2
INVARIANTS
  ChainAsWritten
  RegistryAgrees
PROPERTIES
  FirstRegistrationStands
  EveryCallReturns
