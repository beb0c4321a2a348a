SPECIFICATION Spec
CONSTANTS
  Tickets = {t1}
  BotTickets = {t1}
  Requests = {r1, r2}
  Ops = {"patch", "reply", "bot-enabled", "append", "handoff", "resolve"}
  Roles = {"agent", "lead"}
  Assigns = {}
  None = None
  Same = Same
  SlaMins = 2
  MaxNow = 0
  MaxThread = 1
INVARIANTS
  AiMeansNobodyAnswered
  FinishedMeansStamped
  FirstResponseIsHuman
PROPERTIES
  FloorPassesAtomically
SYMMETRY RequestSymmetry
