-------------------------------- MODULE Dates --------------------------------
(***************************************************************************)
(* DateService: semesters, weeks and days as functions of the time.  Time  *)
(* is counted in thirds of a day from a Monday's midnight, in a time zone  *)
(* without daylight saving time.                                           *)
(***************************************************************************)
EXTENDS Integers

CONSTANT
  SemesterDates    \* rows [year, semester, startDate, endDate]

ASSUME SemesterDatesAssumption ==
  /\ SemesterDates \subseteq [year : Nat, semester : {1, 2}, startDate : Nat, endDate : Nat]
  /\ \A s, t \in SemesterDates : s.startDate = t.startDate => s = t

DAY == 3
WEEK == 7 * DAY
FORTNITE == 2 * WEEK
\* Math.ceil(n / d)
Ceil(n, d) == -((-n) \div d)

-----------------------------------------------------------------------------
(* Semesters *)

getAllPreviousSemesters(now) == {s \in SemesterDates : s.startDate <= now}
Newest(semesters) == CHOOSE s \in semesters : \A t \in semesters : t.startDate <= s.startDate
\* Without a row the code throws DataNotFoundException: HasSemester(now) guards its uses.
HasSemester(now) == getAllPreviousSemesters(now) # {}
getCurrentSemester(now) == Newest(getAllPreviousSemesters(now))
isFinished(now) == getCurrentSemester(now).endDate < now

\* Variant: a semester in progress counts as well.
SemestersBegun(now, isLastFinished) == getAllPreviousSemesters(now)
\* The semesters begun, without the last one when that is wanted finished and is not
\* (or the other way round).
getPreviousSemesters(now, isLastFinished) ==
  IF isFinished(now) = isLastFinished
  THEN getAllPreviousSemesters(now)
  ELSE getAllPreviousSemesters(now) \ {getCurrentSemester(now)}

\* Halves of years, as the code compares them.
Half(s) == 2 * s.year + s.semester - 1
isPreviousSemester(now, s) ==
  IF isFinished(now)
  THEN Half(s) <= Half(getCurrentSemester(now))
  ELSE Half(s) < Half(getCurrentSemester(now))
getPreviousSemester(semester, year) ==
  IF semester = 1 THEN [year |-> year - 1, semester |-> 2] ELSE [year |-> year, semester |-> 1]

-----------------------------------------------------------------------------
(* Weeks and days *)

getCurrentWeek(now) == Ceil(now - getCurrentSemester(now).startDate, WEEK)
startOfWeek(now) == (now \div WEEK) * WEEK
\* The dates of a week of the semester, counted from the calendar week of today.
StartOfWeek(now, week) == startOfWeek(now) + (week - getCurrentWeek(now)) * WEEK
EndOfWeek(now, week) == StartOfWeek(now, week) + WEEK
getCurrentDay(now) == 1 + ((now \div DAY) % 7)
getSpecificDayInWeek(now, week, day) == StartOfWeek(now, week) + (day - 1) * DAY
=============================================================================
