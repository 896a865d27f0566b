CONSTANTS
  Client = {c1, c2}
  Query <- Mixed
  Outcome <- MCOutcome
  UdpLimit = 4
  Modulus = 8
  MaxAge = 300
  None = None
SPECIFICATION Spec
INVARIANTS TypeOK RepliesMatch WholeOrMarked
PROPERTIES OthersServed
CHECK_DEADLOCK FALSE
