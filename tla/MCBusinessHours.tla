--------------------------- MODULE MCBusinessHours ---------------------------
\* Days off, one window, a lunch break, a night shift's two ends; up to one holiday.
EXTENDS BusinessHours

MCSchedules == {<<>>, <<<<1, 3>>>>, <<<<0, 2>>, <<3, 4>>>>, <<<<1, 2>>, <<2, 4>>>>, <<<<0, 1>>, <<3, 5>>>>}
MCClosed == {{}, {0}, {1}, {2}}
==============================================================================
