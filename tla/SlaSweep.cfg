SPECIFICATION FairSweepSpec
CONSTANTS
  Tickets = {1, 2}
  Sweeps = {s1, s2}
  Edits = {e1}
  Batch = 1
  Drops = 1
INVARIANTS
  NoticedOnce
PROPERTIES
  OverdueIsTold
