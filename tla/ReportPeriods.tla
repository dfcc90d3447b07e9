--------------------------- MODULE ReportPeriods ---------------------------
(***************************************************************************)
(* The named periods of the party ledger (report-period.ts), while the     *)
(* days go by.  A period is the pair of its first and last day.            *)
(***************************************************************************)
EXTENDS Calendar

CONSTANTS
  FirstDay,  \* the days that go by
  LastDay

\* The calendar holds the financial years of those days, and the one before.
ASSUME PeriodAssumption ==
  /\ FirstDay \in Int /\ LastDay \in Int
  /\ YearStart(2022) <= FirstDay /\ LastDay < YearStart(2029)

VARIABLE today

PeriodInit == today = FirstDay

Tick ==
  /\ today < LastDay
  /\ today' = today + 1

Monday(day) == day - IF WeekDay(day) = 0 THEN 6 ELSE WeekDay(day) - 1

Month(y, m) == <<DayNo(y, m, 1), DayNo(y, m + 1, 0)>>

Quarter(y, q) == <<DayNo(y, q * 3, 1), DayNo(y, q * 3 + 3, 0)>>

\* Mutant: the quarter before January's is looked for in the same year.
PreviousQuarter_SameYear(day) ==
  LET q == MonthOf(day) \div 3 - 1 IN Quarter(YearOf(day), q % 4)

\* q is -1 in the first quarter
PreviousQuarter(day) ==
  LET q == MonthOf(day) \div 3 - 1 IN
  Quarter(IF q < 0 THEN YearOf(day) - 1 ELSE YearOf(day), q % 4)

\* The financial year begins in April.
FinancialYear(y) == <<DayNo(y, 3, 1), DayNo(y + 1, 2, 31)>>

YearUnderWay(day) == IF MonthOf(day) >= 3 THEN YearOf(day) ELSE YearOf(day) - 1

LastDays(n, day) == <<day - (n - 1), day>>

\* dateInPreset: the days that a preset counts on the day given.
Counted(preset, day) ==
  LET y == YearOf(day)  m == MonthOf(day)  monday == Monday(day) IN
  CASE preset = "today"       -> LastDays(1, day)
    [] preset = "yesterday"   -> LastDays(1, day - 1)
    [] preset = "week"        -> <<monday, monday + 6>>
    [] preset = "lastWeek"    -> <<monday - 7, monday - 1>>
    [] preset = "last7"       -> LastDays(7, day)
    [] preset = "month"       -> Month(y, m)
    [] preset = "prevMonth"   -> Month(y, m - 1)
    [] preset = "last30"      -> LastDays(30, day)
    [] preset = "quarter"     -> Quarter(y, m \div 3)
    [] preset = "prevQuarter" -> PreviousQuarter(day)
    [] preset = "fy"          -> FinancialYear(YearUnderWay(day))
    [] preset = "prevFy"      -> FinancialYear(IF m >= 3 THEN y - 1 ELSE y - 2)
    [] preset = "last365"     -> LastDays(365, day)

Successions ==
  {<<"yesterday", "today">>, <<"lastWeek", "week">>, <<"prevMonth", "month">>,
   <<"prevQuarter", "quarter">>, <<"prevFy", "fy">>}

PeriodSpec == PeriodInit /\ [][Tick]_today

-----------------------------------------------------------------------------
(* Properties                                                               *)

PeriodTypeOK == today \in FirstDay..LastDay

\* When a day begins a new week, month, quarter or financial year, the one that
\* was under way is what the report of the previous one counts from then on,
\* across the ends of years and leap days: no day is lost between two reports
\* and none is counted in both.
PeriodBecomesPrevious ==
  [][\A s \in Successions :
       LET old == Counted(s[2], today)  new == Counted(s[2], today') IN
       today' # today =>
         IF new = old THEN today' \in new[1]..new[2]
         ELSE /\ Counted(s[1], today') = old
              /\ new[1] = old[2] + 1
              /\ new[1] = today']_today
=============================================================================
