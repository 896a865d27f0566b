\* One task and servers that answer: every question is answered, and rightly.
CONSTANTS
  Task = {t1}
  Name <- HonestNames
  Truth <- TrueRecords
  Addr <- HonestAddrs
  Type <- MCType
  Other <- MCOther
  Roots <- HonestRoots
  ZoneList <- HonestZones
  Question <- HonestQuestions
  Uncached <- NoneUncached
  Reply <- TrueReply
  MaxDepth = 3
  MaxChain = 2
SPECIFICATION Spec
INVARIANTS AnswersComplete
PROPERTIES Terminates
