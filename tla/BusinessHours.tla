--------------------------- MODULE BusinessHours ---------------------------
(***************************************************************************)
(* Working time (sla/business-hours.util.ts): when so many working minutes *)
(* will have passed, for a due time, and how many have passed, for the     *)
(* extension after a pause.  Both walk the windows of one day after the    *)
(* other, with a limit on the days.                                        *)
(*                                                                         *)
(* Left out: seconds, and days that are not Day minutes long because the   *)
(* clocks change.  The windows of a day are in order and apart, which the  *)
(* code does not check.                                                    *)
(***************************************************************************)
EXTENDS Integers, Sequences, FiniteSets

CONSTANTS
  Day,        \* the minutes of a day
  Guard,      \* the days a walk may take
  Week,       \* the days of a week
  Schedules,  \* what the windows of a day may be, each with its start and end
  Closed,     \* sets of dates that may be the holidays
  Minutes,    \* working minutes to add
  Span        \* bound: days between the instants

Ordered(ws) ==
  /\ \A i \in DOMAIN ws : ws[i][1] < ws[i][2]
  /\ \A i, j \in DOMAIN ws : i < j => ws[i][2] <= ws[j][1]

ASSUME BusinessHoursAssumption ==
  /\ Day \in Nat \ {0} /\ Guard \in Nat \ {0} /\ Week \in Nat \ {0} /\ Span \in Nat
  /\ Schedules \subseteq Seq((0 .. Day) \X (0 .. Day))
  /\ \A ws \in Schedules : Ordered(ws)
  /\ Closed \subseteq SUBSET Nat
  /\ Minutes \subseteq Nat \ {0}

VARIABLES
  calendar,   \* the weekly windows and the holidays
  task,       \* what is asked: minutes to add to an instant, or to count up to another
  walk        \* cursor, the date whose windows are walked, the next of them, days walked, minutes left or counted

hoursVars == <<calendar, task, walk>>

\* A date and the minutes into it.
Instant == Nat \X (0 .. Day - 1)

Before(s, t) == s[1] < t[1] \/ (s[1] = t[1] /\ s[2] < t[2])

Plus(t, n) == IF t[2] + n < Day THEN <<t[1], t[2] + n>> ELSE <<t[1] + 1, t[2] + n - Day>>

Minus(t, s) == Day * (t[1] - s[1]) + t[2] - s[2]

Larger(m, n) == IF m > n THEN m ELSE n

Windows(date) == IF date \in calendar.holidays THEN <<>> ELSE calendar.weekly[date % Week]

Instants == (0 .. Span) \X (0 .. Day - 1)

Task == [op : {"add"}, from : Instants, minutes : Minutes] \cup [op : {"between"}, from : Instants, to : Instants]

Begins(from) == [at |-> from, date |-> from[1], i |-> 1, days |-> 0, n |-> 0, st |-> "walks"]

HoursInit ==
  /\ calendar \in [weekly : [0 .. Week - 1 -> Schedules], holidays : Closed]
  /\ task \in {t \in Task : t.from[1] = 0}
  /\ walk = IF task.op = "add" THEN [Begins(task.from) EXCEPT !.n = task.minutes]
            ELSE IF Before(task.from, task.to) THEN Begins(task.from)
            ELSE [Begins(task.from) EXCEPT !.st = "done"]

HoursTypeOK ==
  /\ walk.at \in Instant /\ walk.date \in Nat
  /\ walk.i \in Nat \ {0} /\ walk.days \in 0 .. Guard /\ walk.n \in Nat
  /\ walk.st \in {"walks", "done", "gave up"}

-----------------------------------------------------------------------------
(* One window of the day. *)

Window == Windows(walk.date)[walk.i]

InWindow == walk.st = "walks" /\ walk.i <= Len(Windows(walk.date))

CountsFrom == Larger(Window[1], walk.at[2])

\* mutant: the position is the one the day began with
OpensLate(start) == Plus(walk.at, start - (IF walk.days = 0 THEN task.from[2] ELSE 0))

\* The cursor where the window begins to count.
Opens(start) == Plus(walk.at, start - walk.at[2])

Past == /\ InWindow /\ Window[2] <= walk.at[2]
        /\ walk' = [walk EXCEPT !.i = @ + 1]
        /\ UNCHANGED <<calendar, task>>

\* The minutes left end in this window, or it is used up.
Consume ==
  LET available == Window[2] - CountsFrom
  IN  /\ task.op = "add" /\ InWindow /\ Window[2] > walk.at[2]
      /\ walk' = IF walk.n <= available
                 THEN [walk EXCEPT !.at = Plus(Opens(CountsFrom), walk.n), !.n = 0, !.st = "done"]
                 ELSE [walk EXCEPT !.at = Plus(Opens(CountsFrom), available), !.n = @ - available, !.i = @ + 1]
      /\ UNCHANGED <<calendar, task>>

WindowEnd(end, to) == end       \* mutant: the last window counts in full

SliceEnd(end, to) == IF Before(end, to) THEN end ELSE to

Count ==
  LET opens == Opens(CountsFrom)
      slice == SliceEnd(Plus(walk.at, Window[2] - walk.at[2]), task.to)
  IN  /\ task.op = "between" /\ InWindow /\ Window[2] > walk.at[2]
      /\ walk' = IF ~Before(opens, task.to) THEN [walk EXCEPT !.st = "done"]
                 ELSE [walk EXCEPT !.at = slice, !.n = @ + Minus(slice, opens), !.i = @ + 1,
                                   !.st = IF Before(slice, task.to) THEN "walks" ELSE "done"]
      /\ UNCHANGED <<calendar, task>>

\* The start of the day after the one the cursor is in.
Turn ==
  /\ walk.st = "walks" /\ walk.i > Len(Windows(walk.date))
  /\ LET morning == <<walk.at[1] + 1, 0>>
     IN  walk' = [walk EXCEPT !.at = morning, !.date = morning[1], !.i = 1, !.days = @ + 1,
                              !.st = IF task.op = "between" /\ ~Before(morning, task.to) THEN "done"
                                     ELSE IF walk.days + 1 = Guard THEN "gave up" ELSE "walks"]
  /\ UNCHANGED <<calendar, task>>

HoursNext == Past \/ Consume \/ Count \/ Turn

HoursSpec == HoursInit /\ [][HoursNext]_hoursVars

-----------------------------------------------------------------------------
(* What they are for, minute by minute. *)

Works(t) == \E i \in DOMAIN Windows(t[1]) : Windows(t[1])[i][1] <= t[2] /\ t[2] < Windows(t[1])[i][2]

Worked(s, t) == {u \in (s[1] .. t[1]) \X (0 .. Day - 1) : ~Before(u, s) /\ Before(u, t) /\ Works(u)}

Limit == <<task.from[1] + Guard, 0>>

\* A window that ends at midnight takes the cursor to the next day, and the step to
\* the morning after it then misses that day.
OpenAtMidnight == \E day \in 0 .. Week - 1 : \E i \in DOMAIN calendar.weekly[day] : calendar.weekly[day][i][2] = Day

\* A due time is the earliest instant by which the minutes have been worked, however
\* many windows, nights and holidays lie in between; the clock is used instead only if
\* the days looked at hold too few ("consuming minutes", addBusinessMinutes).
DueIsReached ==
  task.op = "add" /\ ~OpenAtMidnight =>
    /\ walk.st = "done" =>
         /\ Cardinality(Worked(task.from, walk.at)) = task.minutes
         /\ walk.at[2] > 0 /\ Works(<<walk.at[1], walk.at[2] - 1>>)
    /\ walk.st = "gave up" => Cardinality(Worked(task.from, Limit)) < task.minutes

\* A pause counts for exactly the working minutes in it, "a pause across a weekend
\* consumed no business time" (businessMinutesBetween), as far as the days looked at go.
PauseIsCounted ==
  task.op = "between" /\ ~OpenAtMidnight =>
    /\ walk.st = "done" => walk.n = Cardinality(Worked(task.from, task.to))
    /\ walk.st = "gave up" => walk.n = Cardinality(Worked(task.from, Limit))
=============================================================================
