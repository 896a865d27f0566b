CONSTANTS
  Task = {t1}
  Name <- LoopNames
  Addr <- LoopAddrs
  Type <- MCType
  Other <- MCOther
  Roots <- LoopRoots
  ZoneList <- NoZones
  Question <- LoopQuestions
  Uncached <- NoneUncached
  Reply <- LoopReply
  MaxDepth = 1
  MaxChain = 2
SPECIFICATION Spec
PROPERTIES ReferralLoopsEnd
