SPECIFICATION FairSpec
CONSTANTS
  a = a
  aTag = aTag
  d1 = d1
  d2 = d2
  r1 = r1
  Desks = {d1, d2}
  Active = {d1, d2}
  Address = {a, aTag}
  BaseOf <- MCBaseOf
  From = a
  Replies = {r1}
  DeskOf <- MCDeskOf
  Letters = {l1}
  Payloads <- MCPayloads
  Attempts = 3
  Failures = 2
  None = None
INVARIANTS
  OnlyStoredIsMailed
  AnswerThreads
  SenderHasNoSay
PROPERTIES
  EventuallyMailed
  AcceptedIsFiled
