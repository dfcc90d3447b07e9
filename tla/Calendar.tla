------------------------------ MODULE Calendar ------------------------------
(***************************************************************************)
(* The days the reports count in, as the Date constructor and Date.UTC     *)
(* count them: months run from 0, and a month or a day out of its range    *)
(* carries into the year or the month.  Day 0 is 1 January 2020, a         *)
(* Wednesday; the years end with 2029.                                     *)
(***************************************************************************)
EXTENDS Integers, FiniteSets

Epoch == 2020
Years == Epoch..2030

Leap(y) == y % 4 = 0 /\ (y % 100 # 0 \/ y % 400 = 0)

YearStarts ==
  [y \in Years |-> 365 * (y - Epoch) + Cardinality({x \in Epoch..(y - 1) : Leap(x)})]

YearStart(y) == YearStarts[y]

\* The days of year y before its month m.
DaysBefore(y, m) ==
  <<0, 31, 59, 90, 120, 151, 181, 212, 243, 273, 304, 334>>[m + 1]
    + IF m > 1 /\ Leap(y) THEN 1 ELSE 0

\* new Date(y, m, d)
DayNo(y, m, d) ==
  LET year == y + (m \div 12) IN YearStart(year) + DaysBefore(year, m % 12) + d - 1

AllDays == 0..(YearStart(2030) - 1)

YearOfDay ==
  [day \in AllDays |-> CHOOSE y \in Years : YearStart(y) <= day /\ day < YearStart(y + 1)]

YearOf(day) == YearOfDay[day]

MonthOfDay ==
  [day \in AllDays |-> CHOOSE m \in 0..11 :
     DayNo(YearOf(day), m, 1) <= day /\ day < DayNo(YearOf(day), m + 1, 1)]

MonthOf(day) == MonthOfDay[day]

\* getDay(): Sunday is 0
WeekDay(day) == (day + 3) % 7
=============================================================================
