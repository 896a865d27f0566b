\* Two servers and another host, the three attempts of the code, two datagrams in flight.  A
\* call that is done stops.
CONSTANTS
  Host = {s1, s2, h}
  Server = {s1, s2}
  MaxRetries = 3
  MaxFlight = 2
  Pending = Pending
  NoAnswer = NoAnswer
  None = None
SPECIFICATION Spec
INVARIANTS TypeOK NoReplyWasted AnswerReceived
PROPERTIES EndsOrReadsTcp CutOnlyAfterTcp
CHECK_DEADLOCK FALSE
