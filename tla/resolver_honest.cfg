\* Two tasks and servers that may fail: what is said is true.
CONSTANTS
  Task = {t1, t2}
  Name <- HonestNames
  Truth <- TrueRecords
  Addr <- HonestAddrs
  Type <- MCType
  Other <- MCOther
  Roots <- HonestRoots
  ZoneList <- HonestZones
  Question <- AliasQuestions
  Uncached <- NoneUncached
  Reply <- LossyReply
  MaxDepth = 3
  MaxChain = 2
SPECIFICATION Spec
INVARIANTS AnswersTrue
