SPECIFICATION Spec
CONSTANTS
  Tickets = {t1, t2}
  BotTickets = {t1}
  Requests = {r1}
  Ops = {"patch", "reply", "bot-enabled", "append", "handoff", "resolve", "merge"}
  Roles = {"lead"}
  Assigns = {}
  None = None
  Same = Same
  SlaMins = 1
  MaxNow = 2
  MaxThread = 1
INVARIANTS
  PausedWhileWaiting
  UnfinishedMeansUnstamped
  DueFollowsWaiting
PROPERTIES
  VisitorReplyIsSeen
