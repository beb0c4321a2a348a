SPECIFICATION FairSpec
CONSTANTS
  Sessions = {s1}
  Texts = {m1, m2}
  Tx = {x1, x2}
  Failures = 2
  None = None
INVARIANTS
  AnsweredIsStored
  OneTicket
  OnlyTheOpenerDoubles
PROPERTIES
  EventuallyAnswered
