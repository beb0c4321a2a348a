SPECIFICATION HoursSpec
CONSTANTS
  Day = 5
  Guard = 3
  Week = 2
  Schedules <- MCSchedules
  Closed <- MCClosed
  Minutes = {1, 2, 3, 4, 5, 6, 7}
  Span = 3
INVARIANTS
  DueIsReached
  PauseIsCounted
CHECK_DEADLOCK FALSE
