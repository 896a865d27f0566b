CONSTANTS
  Task = {t1}
  Name <- SampleNames
  Addr <- SampleAddrs
  Type <- MCType
  Other <- MCOther
  Roots <- SampleRoots
  ZoneList <- SampleZones
  Question <- AliasQuestion
  Uncached <- NoneUncached
  Reply <- SampleReply
  MaxDepth = 1
  MaxChain = 2
SPECIFICATION Spec
INVARIANTS ZoneAliasAnswered
