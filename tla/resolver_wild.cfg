\* One task in a network that may answer anything, calls nested three deep.
CONSTANTS
  Task = {t1}
  Name <- WildNames
  Addr <- WildAddrs
  Type <- MCType
  Other <- MCOther
  Roots <- WildRoots
  ZoneList <- WildZones
  Question <- WildQuestions
  Uncached <- WildUncached
  Reply <- WildReply
  MaxDepth = 1
  MaxChain = 2
SPECIFICATION Spec
INVARIANTS TypeOK CallsBounded ServersKnown CacheTyped
