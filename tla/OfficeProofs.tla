---------------------------- MODULE OfficeProofs ----------------------------
(***************************************************************************)
(* The calendar, the report periods, the reminder job and the company      *)
(* targets, proved.  The calendar's facts come first: where each year and  *)
(* each month begins, and that a day lies in exactly one of them.          *)
(***************************************************************************)
EXTENDS ReportPeriods, Incentives, Reminders, FunctionSums, SequenceTheorems

-----------------------------------------------------------------------------
(* Years                                                                    *)

\* A year has 365 days, and a leap year one more.
LEMMA YearLength ==
  ASSUME NEW y \in 2020..2029
  PROVE  YearStart(y + 1) = YearStart(y) + 365 + (IF Leap(y) THEN 1 ELSE 0)
<1> DEFINE LeapsUpTo(z) == {x \in 2020..z : Leap(x)}
<1>1. YearStart(y) = 365 * (y - 2020) + Cardinality(LeapsUpTo(y - 1))
  BY DEF YearStart, YearStarts, Years, Epoch
<1>2. YearStart(y + 1) = 365 * ((y + 1) - 2020) + Cardinality(LeapsUpTo((y + 1) - 1))
  BY y + 1 \in 2020..2030 DEF YearStart, YearStarts, Years, Epoch
<1>3. (y + 1) - 1 = y
  OBVIOUS
<1>4. LeapsUpTo(y) = IF Leap(y) THEN LeapsUpTo(y - 1) \cup {y} ELSE LeapsUpTo(y - 1)
  <2>1. \A x : x \in 2020..y <=> x \in 2020..(y - 1) \/ x = y
    OBVIOUS
  <2> QED  BY <2>1
<1>5. IsFiniteSet(LeapsUpTo(y - 1)) /\ Cardinality(LeapsUpTo(y - 1)) \in Nat
  <2>1. IsFiniteSet(2020..(y - 1))
    BY FS_Interval
  <2> QED  BY <2>1, FS_Subset, FS_CardinalityType
<1>6. y \notin LeapsUpTo(y - 1)
  OBVIOUS
<1>7. Cardinality(LeapsUpTo(y)) =
        Cardinality(LeapsUpTo(y - 1)) + (IF Leap(y) THEN 1 ELSE 0)
  <2> HIDE DEF LeapsUpTo
  <2> QED  BY <1>4, <1>5, <1>6, FS_AddElement
<1> HIDE DEF LeapsUpTo
<1> QED  BY <1>1, <1>2, <1>3, <1>5, <1>7

LEMMA YearStartsAt ==
  /\ YearStart(2020) = 0     /\ YearStart(2021) = 366   /\ YearStart(2022) = 731
  /\ YearStart(2023) = 1096  /\ YearStart(2024) = 1461  /\ YearStart(2025) = 1827
  /\ YearStart(2026) = 2192  /\ YearStart(2027) = 2557  /\ YearStart(2028) = 2922
  /\ YearStart(2029) = 3288  /\ YearStart(2030) = 3653
<1>1. YearStart(2020) = 0
  <2>1. {x \in 2020..(2020 - 1) : Leap(x)} = {}
    OBVIOUS
  <2> QED  BY <2>1, FS_EmptySet DEF YearStart, YearStarts, Years, Epoch
<1>2. /\ Leap(2020) /\ ~Leap(2021) /\ ~Leap(2022) /\ ~Leap(2023) /\ Leap(2024)
      /\ ~Leap(2025) /\ ~Leap(2026) /\ ~Leap(2027) /\ Leap(2028) /\ ~Leap(2029)
  BY DEF Leap
<1>3. \A y \in 2020..2029 :
        YearStart(y + 1) = YearStart(y) + 365 + (IF Leap(y) THEN 1 ELSE 0)
  BY YearLength
<1>4. YearStart(2021) = 366
  BY <1>1, <1>2, <1>3, 2020 + 1 = 2021
<1>5. YearStart(2022) = 731
  BY <1>2, <1>3, <1>4, 2021 + 1 = 2022
<1>6. YearStart(2023) = 1096
  BY <1>2, <1>3, <1>5, 2022 + 1 = 2023
<1>7. YearStart(2024) = 1461
  BY <1>2, <1>3, <1>6, 2023 + 1 = 2024
<1>8. YearStart(2025) = 1827
  BY <1>2, <1>3, <1>7, 2024 + 1 = 2025
<1>9. YearStart(2026) = 2192
  BY <1>2, <1>3, <1>8, 2025 + 1 = 2026
<1>10. YearStart(2027) = 2557
  BY <1>2, <1>3, <1>9, 2026 + 1 = 2027
<1>11. YearStart(2028) = 2922
  BY <1>2, <1>3, <1>10, 2027 + 1 = 2028
<1>12. YearStart(2029) = 3288
  BY <1>2, <1>3, <1>11, 2028 + 1 = 2029
<1>13. YearStart(2030) = 3653
  BY <1>2, <1>3, <1>12, 2029 + 1 = 2030
<1> QED  BY <1>1, <1>4, <1>5, <1>6, <1>7, <1>8, <1>9, <1>10, <1>11, <1>12, <1>13

\* The years the days lie in; the last one of the table only ends the one before.
Whole == 2020..2029

LEMMA YearStartIs == \A y \in Years : YearStart(y) = 365 * (y - 2020) + (y - 2017) \div 4
<1>1. \A y \in Years : y = 2020 \/ y = 2021 \/ y = 2022 \/ y = 2023 \/ y = 2024 \/ y = 2025
                       \/ y = 2026 \/ y = 2027 \/ y = 2028 \/ y = 2029 \/ y = 2030
  BY DEF Years, Epoch
<1> QED  BY <1>1, YearStartsAt

LEMMA YearsAreApart ==
  /\ \A y \in Years : YearStart(y) \in Nat
  /\ \A y \in Whole : /\ y \in Years /\ y + 1 \in Years
                      /\ YearStart(y) < YearStart(y + 1)
  /\ \A y \in Whole, z \in Years : y < z => YearStart(y + 1) <= YearStart(z)
  /\ \A d : d \in AllDays <=> d \in Nat /\ d < 3653
<1>1. \A y \in Whole : y \in Years /\ y + 1 \in Years
  BY DEF Years, Whole, Epoch
<1>2. \A y \in Years : y \in 2020..2030
  BY DEF Years, Epoch
<1>3. \A y \in Years : YearStart(y) \in Nat
  BY <1>2, YearStartIs
<1>4. \A y \in Whole : YearStart(y) < YearStart(y + 1)
  BY <1>1, <1>2, YearStartIs
<1>5. ASSUME NEW y \in Whole, NEW z \in Years, y < z  PROVE YearStart(y + 1) <= YearStart(z)
  <2>1. YearStart(y + 1) = 365 * ((y + 1) - 2020) + ((y + 1) - 2017) \div 4
    BY <1>1, YearStartIs
  <2>2. YearStart(z) = 365 * (z - 2020) + (z - 2017) \div 4
    BY YearStartIs
  <2>3. y \in 2020..2029 /\ z \in 2020..2030
    BY <1>2 DEF Whole
  <2>4. 365 * ((y + 1) - 2020) + ((y + 1) - 2017) \div 4 <= 365 * (z - 2020) + (z - 2017) \div 4
    <3>1. \A a, b \in Int : a <= b => a \div 4 <= b \div 4
      OBVIOUS
    <3>2. ((y + 1) - 2017) \div 4 <= (z - 2017) \div 4
      BY <1>5, <2>3, <3>1
    <3>3. 365 * ((y + 1) - 2020) <= 365 * (z - 2020)
      BY <1>5, <2>3
    <3> QED  BY <2>3, <3>2, <3>3
  <2> QED  BY <2>1, <2>2, <2>4
<1>6. \A d : d \in AllDays <=> d \in Nat /\ d < 3653
  <2>1. YearStart(2030) = 3653
    BY YearStartsAt
  <2> QED  BY ONLY <2>1 DEF AllDays
<1> QED  BY <1>1, <1>3, <1>4, <1>5, <1>6

\* Every day lies in the year YearOf, and in no other.
LEMMA YearOfIs ==
  ASSUME NEW d \in AllDays
  PROVE  /\ YearOf(d) \in Whole /\ YearStart(YearOf(d)) <= d /\ d < YearStart(YearOf(d) + 1)
         /\ \A y \in Whole : YearStart(y) <= d /\ d < YearStart(y + 1) => y = YearOf(d)
<1> DEFINE In(y) == YearStart(y) <= d /\ d < YearStart(y + 1)
<1>1. YearOf(d) = CHOOSE y \in Years : In(y)
  BY DEF YearOf, YearOfDay
<1>2. d \in Nat /\ d < 3653
  BY YearsAreApart
<1>3. \E y \in Whole : In(y)
  <2> DEFINE y == IF d < 366 THEN 2020 ELSE IF d < 731 THEN 2021 ELSE IF d < 1096 THEN 2022
                  ELSE IF d < 1461 THEN 2023 ELSE IF d < 1827 THEN 2024 ELSE IF d < 2192 THEN 2025
                  ELSE IF d < 2557 THEN 2026 ELSE IF d < 2922 THEN 2027 ELSE IF d < 3288 THEN 2028
                  ELSE 2029
  <2>1. /\ y \in Whole /\ y \in Years /\ y + 1 \in Years
        /\ 365 * (y - 2020) + (y - 2017) \div 4 <= d
        /\ d < 365 * ((y + 1) - 2020) + ((y + 1) - 2017) \div 4
    BY <1>2 DEF Whole, Years, Epoch
  <2> HIDE DEF y
  <2>2. In(y)
    BY <2>1, YearStartIs
  <2> QED  BY <2>1, <2>2
<1>4. \A y \in Years : In(y) => y \in Whole
  <2>1. \A y \in Years : y \in Whole \/ y = 2030
    BY DEF Years, Whole, Epoch
  <2>2. ~In(2030)
    BY <1>2, YearStartsAt
  <2> HIDE DEF In
  <2> QED  BY <2>1, <2>2
<1>5. YearOf(d) \in Years /\ In(YearOf(d))
  <2> HIDE DEF In
  <2>1. \E y \in Years : In(y)
    BY <1>3, YearsAreApart
  <2> QED  BY <1>1, <2>1
<1>6. ASSUME NEW y \in Whole, NEW z \in Whole, In(y), In(z), y < z  PROVE FALSE
  <2>1. YearStart(y + 1) <= YearStart(z)
    BY <1>6, YearsAreApart
  <2>2. YearStart(y + 1) \in Nat /\ YearStart(z) \in Nat
    BY YearsAreApart
  <2> QED  BY <1>2, <1>6, <2>1, <2>2
<1>7. \A y, z \in Whole : In(y) /\ In(z) => y = z
  <2> HIDE DEF In
  <2>1. \A y, z \in Whole : y = z \/ y < z \/ z < y
    BY DEF Whole
  <2> QED  BY <1>6, <2>1
<1> HIDE DEF In
<1> QED  BY <1>4, <1>5, <1>7 DEF In

-----------------------------------------------------------------------------
(* Months, numbered across the years                                        *)

First(k) == YearStart(k \div 12) + DaysBefore(k \div 12, k % 12)

Numbered(k) == k \in Nat /\ 12 * 2020 <= k /\ k < 12 * 2030

MonthNo(d) == 12 * YearOf(d) + MonthOf(d)

LEMMA DayNoIs ==
  ASSUME NEW y \in Int, NEW m \in Int, NEW n
  PROVE  DayNo(y, m, n) = First(12 * y + m) + n - 1
<1>1. (12 * y + m) \div 12 = y + (m \div 12) /\ (12 * y + m) % 12 = m % 12
  OBVIOUS
<1> QED  BY <1>1 DEF DayNo, First

Extra(y) == IF Leap(y) THEN 1 ELSE 0

LEMMA DaysBeforeIs ==
  ASSUME NEW y
  PROVE  /\ DaysBefore(y, 0) = 0               /\ DaysBefore(y, 1) = 31
         /\ DaysBefore(y, 2) = 59 + Extra(y)   /\ DaysBefore(y, 3) = 90 + Extra(y)
         /\ DaysBefore(y, 4) = 120 + Extra(y)  /\ DaysBefore(y, 5) = 151 + Extra(y)
         /\ DaysBefore(y, 6) = 181 + Extra(y)  /\ DaysBefore(y, 7) = 212 + Extra(y)
         /\ DaysBefore(y, 8) = 243 + Extra(y)  /\ DaysBefore(y, 9) = 273 + Extra(y)
         /\ DaysBefore(y, 10) = 304 + Extra(y) /\ DaysBefore(y, 11) = 334 + Extra(y)
         /\ Extra(y) \in {0, 1}
BY DEF DaysBefore, Extra

LEMMA TwelveMonths ==
  \A m \in 0..11 : \/ m = 0 \/ m = 1 \/ m = 2 \/ m = 3 \/ m = 4 \/ m = 5
                   \/ m = 6 \/ m = 7 \/ m = 8 \/ m = 9 \/ m = 10 \/ m = 11
OBVIOUS

LEMMA MonthsInOrder ==
  ASSUME NEW y, NEW a \in 0..11, NEW b \in 0..11, a <= b
  PROVE  /\ DaysBefore(y, a) \in Nat /\ DaysBefore(y, a) <= DaysBefore(y, b)
         /\ DaysBefore(y, b) <= 334 + Extra(y)
BY DaysBeforeIs, TwelveMonths

\* A month has 28 to 31 days, and the next one begins after its last.
LEMMA MonthLength ==
  ASSUME NEW k, Numbered(k)
  PROVE  /\ First(k) \in Nat /\ First(k + 1) \in Nat
         /\ First(k) + 28 <= First(k + 1) /\ First(k + 1) <= First(k) + 31
         /\ YearStart(k \div 12) <= First(k) /\ First(k + 1) <= YearStart((k \div 12) + 1)
<1> DEFINE y == k \div 12
           m == k % 12
<1>1. y \in Whole /\ m \in 0..11 /\ k = 12 * y + m
  BY DEF Whole, Numbered
<1>2. /\ YearStart(y) \in Nat /\ YearStart(y + 1) \in Nat
      /\ YearStart(y + 1) = YearStart(y) + 365 + Extra(y)
  BY <1>1, YearsAreApart, YearLength DEF Whole, Extra
<1>3. First(k) = YearStart(y) + DaysBefore(y, m)
  BY DEF First
<1>4. First(k + 1) = IF m = 11 THEN YearStart(y + 1) ELSE YearStart(y) + DaysBefore(y, m + 1)
  <2>1. CASE m = 11
    <3>1. (k + 1) \div 12 = y + 1 /\ (k + 1) % 12 = 0
      BY <1>1, <2>1 DEF Whole
    <3> QED  BY <1>2, <2>1, <3>1, DaysBeforeIs DEF First
  <2>2. CASE m # 11
    <3>1. (k + 1) \div 12 = y /\ (k + 1) % 12 = m + 1
      BY <1>1, <2>2 DEF Whole
    <3> QED  BY <2>2, <3>1 DEF First
  <2> QED  BY <2>1, <2>2
<1> HIDE DEF y, m
<1> QED  BY <1>1, <1>2, <1>3, <1>4, DaysBeforeIs, TwelveMonths DEF y

\* A month that comes later begins no sooner than the next one.
LEMMA FirstInOrder ==
  ASSUME NEW k, NEW l, Numbered(k), Numbered(l), k < l
  PROVE  First(k + 1) <= First(l)
<1> DEFINE y == k \div 12
           z == l \div 12
<1>1. /\ y \in Whole /\ z \in Whole /\ y <= z
      /\ k = 12 * y + (k % 12) /\ l = 12 * z + (l % 12)
      /\ k % 12 \in 0..11 /\ l % 12 \in 0..11 /\ k \in Nat
  BY DEF Whole, Numbered
<1>2. CASE y = z
  <2>1. k % 12 < l % 12
    BY <1>1, <1>2 DEF Whole
  <2>2. (k + 1) \div 12 = y /\ (k + 1) % 12 = (k % 12) + 1 /\ (k % 12) + 1 \in 0..11
    BY <1>1, <2>1 DEF Whole
  <2>3. DaysBefore(y, (k % 12) + 1) <= DaysBefore(y, l % 12)
    BY <1>1, <2>1, <2>2, MonthsInOrder
  <2>4. /\ YearStart(y) \in Nat /\ DaysBefore(y, (k % 12) + 1) \in Nat
        /\ DaysBefore(y, l % 12) \in Nat
    BY <1>1, <2>2, YearsAreApart, MonthsInOrder
  <2>5. First(k + 1) = YearStart(y) + DaysBefore(y, (k % 12) + 1)
    BY <2>2 DEF First
  <2>6. First(l) = YearStart(y) + DaysBefore(y, l % 12)
    BY <1>2 DEF First
  <2> QED  BY <2>3, <2>4, <2>5, <2>6
<1>3. CASE y < z
  <2>1. YearStart(y + 1) <= YearStart(z)
    BY <1>1, <1>3, YearsAreApart
  <2>2. First(k + 1) <= YearStart(y + 1) /\ YearStart(z) <= First(l)
    BY MonthLength
  <2>3. /\ YearStart(y + 1) \in Nat /\ YearStart(z) \in Nat
        /\ First(k + 1) \in Nat /\ First(l) \in Nat
    BY <1>1, MonthLength, YearsAreApart
  <2> QED  BY <2>1, <2>2, <2>3
<1> QED  BY <1>1, <1>2, <1>3 DEF Whole

\* Every day lies in the month MonthNo, and in no other.
LEMMA MonthIs ==
  ASSUME NEW d \in AllDays
  PROVE  /\ YearOf(d) \in Whole /\ MonthOf(d) \in 0..11 /\ Numbered(MonthNo(d))
         /\ First(MonthNo(d)) <= d /\ d < First(MonthNo(d) + 1)
         /\ \A k : Numbered(k) /\ First(k) <= d /\ d < First(k + 1) => k = MonthNo(d)
<1> DEFINE y == YearOf(d)
           In(m) == DayNo(y, m, 1) <= d /\ d < DayNo(y, m + 1, 1)
<1>1. MonthOf(d) = CHOOSE m \in 0..11 : In(m)
  BY DEF MonthOf, MonthOfDay
<1>2. /\ y \in Whole /\ y \in Int /\ d \in Nat
      /\ YearStart(y) <= d /\ d < YearStart(y + 1) /\ YearStart(y) \in Nat
      /\ YearStart(y + 1) = YearStart(y) + 365 + Extra(y)
  BY YearOfIs, YearsAreApart, YearLength DEF Whole, Extra
<1>3. \A m \in 0..11 : Numbered(12 * y + m)
  BY <1>2 DEF Whole, Numbered
<1>4. \A m \in 0..11 : In(m) <=> First(12 * y + m) <= d /\ d < First((12 * y + m) + 1)
  <2> SUFFICES ASSUME NEW m \in 0..11
               PROVE  In(m) <=> First(12 * y + m) <= d /\ d < First((12 * y + m) + 1)
    OBVIOUS
  <2>1. DayNo(y, m, 1) = First(12 * y + m) + 1 - 1
    BY <1>2, DayNoIs
  <2>2. DayNo(y, m + 1, 1) = First(12 * y + (m + 1)) + 1 - 1
    BY <1>2, DayNoIs
  <2>3. 12 * y + (m + 1) = (12 * y + m) + 1
    BY <1>2
  <2>4. First(12 * y + m) \in Nat /\ First((12 * y + m) + 1) \in Nat
    BY <1>3, MonthLength
  <2> QED  BY <2>1, <2>2, <2>3, <2>4
<1>5. \E m \in 0..11 : In(m)
  <2> SUFFICES ASSUME \A m \in 0..11 : ~In(m)  PROVE FALSE
    OBVIOUS
  <2>1. \A m \in 0..11 : First(12 * y + m) <= d => First((12 * y + m) + 1) <= d
    BY <1>2, <1>3, <1>4, MonthLength
  <2>2. \A m \in 0..11 : First(12 * y + m) = YearStart(y) + DaysBefore(y, m)
    <3>1. \A m \in 0..11 : (12 * y + m) \div 12 = y /\ (12 * y + m) % 12 = m
      BY <1>2
    <3> QED  BY <3>1 DEF First
  <2>3. First((12 * y + 11) + 1) = YearStart(y + 1)
    <3>1. ((12 * y + 11) + 1) \div 12 = y + 1 /\ ((12 * y + 11) + 1) % 12 = 0
      BY <1>2
    <3>2. YearStart(y + 1) \in Nat
      BY <1>2, YearsAreApart
    <3> QED  BY <3>1, <3>2, DaysBeforeIs DEF First
  <2>4. First(12 * y + 0) <= d
    BY <1>2, <2>2, DaysBeforeIs
  <2>5. \A m \in 0..10 : First((12 * y + m) + 1) = First(12 * y + (m + 1))
    <3>1. \A m \in 0..10 : (12 * y + m) + 1 = 12 * y + (m + 1)
      BY <1>2
    <3> QED  BY <3>1
  <2> DEFINE Past(m) == First(12 * y + m) <= d
  <2>6. \A m \in 0..10 : Past(m) => Past(m + 1)
    BY <2>1, <2>5
  <2>7. Past(0)
    BY <2>4
  <2>8. Past(11)
    <3> HIDE DEF Past
    <3>1. /\ 0 + 1 = 1 /\ 1 + 1 = 2 /\ 2 + 1 = 3 /\ 3 + 1 = 4 /\ 4 + 1 = 5 /\ 5 + 1 = 6
          /\ 6 + 1 = 7 /\ 7 + 1 = 8 /\ 8 + 1 = 9 /\ 9 + 1 = 10 /\ 10 + 1 = 11
      OBVIOUS
    <3> QED  BY <2>6, <2>7, <3>1
  <2>9. YearStart(y + 1) <= d
    BY <2>1, <2>3, <2>8
  <2> QED  BY <1>2, <2>9, YearsAreApart
<1>6. MonthOf(d) \in 0..11 /\ In(MonthOf(d))
  <2> HIDE DEF In
  <2> QED  BY <1>1, <1>5
<1>7. Numbered(MonthNo(d)) /\ First(MonthNo(d)) <= d /\ d < First(MonthNo(d) + 1)
  BY <1>3, <1>4, <1>6 DEF MonthNo
<1>8. ASSUME NEW k, NEW l, Numbered(k), Numbered(l), First(k) <= d, d < First(k + 1),
             First(l) <= d, d < First(l + 1), k < l
      PROVE  FALSE
  <2>1. First(k + 1) <= First(l)
    BY <1>8, FirstInOrder
  <2> QED  BY <1>2, <1>8, <2>1, MonthLength
<1>9. ASSUME NEW k, Numbered(k), First(k) <= d, d < First(k + 1)  PROVE k = MonthNo(d)
  <2>1. k = MonthNo(d) \/ k < MonthNo(d) \/ MonthNo(d) < k
    BY <1>7, <1>9 DEF Numbered
  <2> QED  BY <1>7, <1>8, <1>9, <2>1
<1> QED  BY <1>2, <1>6, <1>7, <1>9

-----------------------------------------------------------------------------
(***************************************************************************)
(* A period becomes the previous one.  Months, quarters and financial      *)
(* years are runs of w numbered months; the one a day lies in begins at    *)
(* the last multiple of w, counted from the month from.                    *)
(***************************************************************************)

Run(k, w) == <<First(k), First(k + w) - 1>>

Begins(n, w, from) == w * ((n - from) \div w) + from

Lengths == {<<1, 0>>, <<3, 0>>, <<12, 3>>}

\* The months of the days whose reports lie within the calendar.
Reported(d) == d \in AllDays /\ YearStart(2022) <= d /\ d < YearStart(2029)

LEMMA ReportedMonths ==
  ASSUME NEW d, Reported(d)
  PROVE  12 * 2022 <= MonthNo(d) /\ MonthNo(d) < 12 * 2029
<1>1. /\ YearOf(d) \in Whole /\ YearStart(YearOf(d)) <= d /\ d < YearStart(YearOf(d) + 1)
      /\ MonthOf(d) \in 0..11 /\ d \in Nat
  BY YearOfIs, MonthIs, YearsAreApart DEF Reported
<1>2. YearOf(d) <= 2028
  <2>1. ASSUME YearOf(d) = 2029  PROVE FALSE
    BY <1>1, <2>1, YearStartsAt DEF Reported
  <2> QED  BY <1>1, <2>1 DEF Whole
<1>3. YearOf(d) >= 2022
  <2>1. ASSUME YearOf(d) = 2020  PROVE FALSE
    BY <1>1, <2>1, 2020 + 1 = 2021, YearStartsAt DEF Reported
  <2>2. ASSUME YearOf(d) = 2021  PROVE FALSE
    BY <1>1, <2>2, 2021 + 1 = 2022, YearStartsAt DEF Reported
  <2> QED  BY <1>1, <2>1, <2>2 DEF Whole
<1> QED  BY <1>1, <1>2, <1>3 DEF MonthNo, Whole

LEMMA MarchLength ==
  ASSUME NEW y \in Whole
  PROVE  First(12 * y + 3) = First(12 * y + 2) + 31
<1>1. /\ (12 * y + 2) \div 12 = y /\ (12 * y + 2) % 12 = 2
      /\ (12 * y + 3) \div 12 = y /\ (12 * y + 3) % 12 = 3
  BY DEF Whole
<1>2. YearStart(y) \in Nat
  BY YearsAreApart
<1> QED  BY <1>1, <1>2, DaysBeforeIs DEF First

LEMMA MonthBounds ==
  ASSUME NEW y \in Int, NEW m \in Int, Numbered(12 * y + m)
  PROVE  DayNo(y, m, 1) = First(12 * y + m) /\ DayNo(y, m, 0) = First(12 * y + m) - 1
BY DayNoIs, MonthLength

LEMMA FinancialYearIs ==
  ASSUME NEW y \in 2020..2028
  PROVE  FinancialYear(y) = Run(12 * y + 3, 12)
<1>1. DayNo(y, 3, 1) = First(12 * y + 3)
  BY MonthBounds DEF Numbered
<1>2. DayNo(y + 1, 2, 31) = First(12 * (y + 1) + 2) + 31 - 1
  BY DayNoIs
<1>3. First(12 * (y + 1) + 3) = First(12 * (y + 1) + 2) + 31
  BY MarchLength, y + 1 \in Whole DEF Whole
<1>4. (12 * y + 3) + 12 = 12 * (y + 1) + 3
  OBVIOUS
<1>5. First(12 * (y + 1) + 2) \in Nat
  BY MonthLength DEF Numbered
<1> QED  BY <1>1, <1>2, <1>3, <1>4, <1>5 DEF FinancialYear, Run

LEMMA CountedIn ==
  ASSUME NEW d, Reported(d)
  PROVE  /\ Counted("month", d) = Run(Begins(MonthNo(d), 1, 0), 1)
         /\ Counted("prevMonth", d) = Run(Begins(MonthNo(d), 1, 0) - 1, 1)
         /\ Counted("quarter", d) = Run(Begins(MonthNo(d), 3, 0), 3)
         /\ Counted("prevQuarter", d) = Run(Begins(MonthNo(d), 3, 0) - 3, 3)
         /\ Counted("fy", d) = Run(Begins(MonthNo(d), 12, 3), 12)
         /\ Counted("prevFy", d) = Run(Begins(MonthNo(d), 12, 3) - 12, 12)
<1> DEFINE y == YearOf(d)
           m == MonthOf(d)
           n == MonthNo(d)
<1>1. /\ y \in Int /\ m \in 0..11 /\ n = 12 * y + m /\ n \in Int /\ 2022 <= y /\ y <= 2028
      /\ 12 * 2022 <= n /\ n < 12 * 2029
  BY MonthIs, ReportedMonths DEF Whole, MonthNo, Numbered, Reported
<1> HIDE DEF y, m, n
<1>3. Begins(n, 1, 0) = n /\ Begins(n, 3, 0) = 12 * y + (m \div 3) * 3
  BY <1>1 DEF Begins
<1>4. Month(y, m) = Run(n, 1)
  <2>1. 12 * y + (m + 1) = n + 1 /\ Numbered(n) /\ Numbered(n + 1)
    BY <1>1 DEF Numbered
  <2>2. DayNo(y, m, 1) = First(n)
    BY <1>1, <2>1, MonthBounds
  <2>3. DayNo(y, m + 1, 0) = First(n + 1) - 1
    BY <1>1, <2>1, MonthBounds
  <2> QED  BY <2>2, <2>3, Zenon DEF Month, Run
<1>5. Month(y, m - 1) = Run(n - 1, 1)
  <2>1. /\ 12 * y + (m - 1) = n - 1 /\ 12 * y + ((m - 1) + 1) = (n - 1) + 1
        /\ m - 1 \in Int /\ (m - 1) + 1 \in Int /\ Numbered(n - 1) /\ Numbered((n - 1) + 1)
    BY <1>1 DEF Numbered
  <2>2. DayNo(y, m - 1, 1) = First(n - 1)
    BY <1>1, <2>1, MonthBounds
  <2>3. DayNo(y, (m - 1) + 1, 0) = First((n - 1) + 1) - 1
    BY <1>1, <2>1, MonthBounds
  <2> QED  BY <2>2, <2>3, Zenon DEF Month, Run
<1>6. Quarter(y, m \div 3) = Run(Begins(n, 3, 0), 3)
  <2> DEFINE k == (m \div 3) * 3
             l == k + 3
             b == Begins(n, 3, 0)
             e == b + 3
  <2>1. k \in Int /\ l \in Int /\ 12 * y + k = b /\ 12 * y + l = e /\ Numbered(b) /\ Numbered(e)
    BY <1>1, <1>3 DEF Numbered
  <2> HIDE DEF k, l, b, e
  <2>2. DayNo(y, k, 1) = First(b)
    BY <1>1, <2>1, MonthBounds
  <2>3. DayNo(y, l, 0) = First(e) - 1
    BY <1>1, <2>1, MonthBounds
  <2> QED  BY <2>2, <2>3, Zenon DEF Quarter, Run, k, l, b, e
<1>7. PreviousQuarter(d) = Run(Begins(n, 3, 0) - 3, 3)
  <2> DEFINE q == m \div 3 - 1
             z == IF q < 0 THEN y - 1 ELSE y
             k == (q % 4) * 3
             l == k + 3
             b == Begins(n, 3, 0) - 3
             e == b + 3
  <2>1. /\ z \in Int /\ k \in Int /\ l \in Int /\ 12 * z + k = b /\ 12 * z + l = e
        /\ Numbered(b) /\ Numbered(e)
    BY <1>1, <1>3 DEF Numbered
  <2> HIDE DEF q, z, k, l, b, e
  <2>2. DayNo(z, k, 1) = First(b)
    BY <2>1, MonthBounds
  <2>3. DayNo(z, l, 0) = First(e) - 1
    BY <2>1, MonthBounds
  <2>4. Quarter(z, q % 4) = Run(Begins(n, 3, 0) - 3, 3)
    BY <2>2, <2>3, Zenon DEF Quarter, Run, k, l, b, e
  <2> QED  BY <2>4 DEF PreviousQuarter, q, z, y, m
<1>8. LET f == IF m >= 3 THEN y ELSE y - 1 IN
      FinancialYear(f) = Run(Begins(n, 12, 3), 12) /\ FinancialYear(f - 1) = Run(Begins(n, 12, 3) - 12, 12)
  <2> DEFINE f == IF m >= 3 THEN y ELSE y - 1
  <2>1. f \in 2020..2028 /\ f - 1 \in 2020..2028
    BY <1>1
  <2>2. Begins(n, 12, 3) = 12 * f + 3 /\ (12 * f + 3) - 12 = 12 * (f - 1) + 3
    BY <1>1 DEF Begins
  <2> HIDE DEF f
  <2>3. /\ FinancialYear(f) = Run(Begins(n, 12, 3), 12)
        /\ FinancialYear(f - 1) = Run(Begins(n, 12, 3) - 12, 12)
    BY <2>1, <2>2, FinancialYearIs
  <2> QED  BY <2>3 DEF f
<1>9. /\ Counted("month", d) = Month(y, m) /\ Counted("prevMonth", d) = Month(y, m - 1)
      /\ Counted("quarter", d) = Quarter(y, m \div 3)
      /\ Counted("prevQuarter", d) = PreviousQuarter(d)
      /\ Counted("fy", d) = FinancialYear(YearUnderWay(d))
      /\ Counted("prevFy", d) = FinancialYear(IF m >= 3 THEN y - 1 ELSE y - 2)
  BY DEF Counted, y, m
<1>10. /\ YearUnderWay(d) = IF m >= 3 THEN y ELSE y - 1
       /\ (IF m >= 3 THEN y - 1 ELSE y - 2) = (IF m >= 3 THEN y ELSE y - 1) - 1
  BY <1>1 DEF YearUnderWay, y, m
<1> QED  BY <1>3, <1>4, <1>5, <1>6, <1>7, <1>8, <1>9, <1>10 DEF n

\* The next day lies in the same month, or begins the next one.
LEMMA NextDayIs ==
  ASSUME NEW d, Reported(d), Reported(d + 1)
  PROVE  \/ MonthNo(d + 1) = MonthNo(d)
         \/ MonthNo(d + 1) = MonthNo(d) + 1 /\ First(MonthNo(d) + 1) = d + 1
<1> DEFINE n == MonthNo(d)
<1>1. /\ d \in Nat /\ d \in AllDays /\ d + 1 \in AllDays /\ Numbered(n) /\ Numbered(n + 1)
      /\ First(n) <= d /\ d < First(n + 1)
  BY ReportedMonths, MonthIs, YearsAreApart DEF Reported, Numbered
<1>2. /\ First(n) \in Nat /\ First(n + 1) \in Nat /\ First((n + 1) + 1) \in Nat
      /\ First(n + 1) + 28 <= First((n + 1) + 1)
  BY <1>1, MonthLength
<1>3. \A k : Numbered(k) /\ First(k) <= d + 1 /\ d + 1 < First(k + 1) => k = MonthNo(d + 1)
  BY <1>1, MonthIs
<1> HIDE DEF n
<1>4. CASE d + 1 < First(n + 1)
  <2>1. First(n) <= d + 1
    BY <1>1, <1>2
  <2> QED  BY <1>1, <1>3, <1>4, <2>1 DEF n
<1>5. CASE ~(d + 1 < First(n + 1))
  <2>1. First(n + 1) = d + 1 /\ d + 1 < First((n + 1) + 1)
    BY <1>1, <1>2, <1>5
  <2>2. First(n + 1) <= d + 1
    BY <1>1, <2>1
  <2> QED  BY <1>1, <1>3, <2>1, <2>2 DEF n
<1> QED  BY <1>4, <1>5

\* From its first day d on, the period new is the one after old, which has become prev.
Succeeds(prev, old, new, d) ==
  IF new = old THEN d \in new[1]..new[2]
  ELSE prev = old /\ new[1] = old[2] + 1 /\ new[1] = d

\* What a period of w months counts from one day to the next.
LEMMA RunsFollow ==
  ASSUME NEW d, Reported(d), Reported(d + 1), NEW w, NEW from, <<w, from>> \in Lengths
  PROVE  Succeeds(Run(Begins(MonthNo(d + 1), w, from) - w, w), Run(Begins(MonthNo(d), w, from), w),
                  Run(Begins(MonthNo(d + 1), w, from), w), d + 1)
<1> DEFINE n == MonthNo(d)
           k == MonthNo(d + 1)
           b == Begins(n, w, from)
           c == Begins(k, w, from)
<1>1. /\ n \in Int /\ 12 * 2022 <= n /\ n < 12 * 2029
      /\ k \in Int /\ 12 * 2022 <= k /\ k < 12 * 2029
  BY ReportedMonths, MonthIs DEF Reported, Numbered
<1>2. (w = 1 /\ from = 0) \/ (w = 3 /\ from = 0) \/ (w = 12 /\ from = 3)
  BY DEF Lengths
<1>3. /\ b \in Int /\ b <= n /\ n < b + w /\ c \in Int /\ c <= k /\ k < c + w
      /\ k = n => c = b
      /\ k = n + 1 => c = b \/ (c = b + w /\ c = k)
  <2>1. CASE w = 1 /\ from = 0
    <3>1. b = n /\ c = k
      BY <1>1, <2>1 DEF Begins
    <3> QED  BY <1>1, <2>1, <3>1
  <2>2. CASE w = 3 /\ from = 0
    <3>1. b = 3 * (n \div 3) /\ c = 3 * (k \div 3)
      BY <1>1, <2>2 DEF Begins
    <3> HIDE DEF n, k, b, c
    <3> QED  BY <1>1, <2>2, <3>1
  <2>3. CASE w = 12 /\ from = 3
    <3>1. b = 12 * ((n - 3) \div 12) + 3 /\ c = 12 * ((k - 3) \div 12) + 3
      BY <1>1, <2>3 DEF Begins
    <3> HIDE DEF n, k, b, c
    <3> QED  BY <1>1, <2>3, <3>1
  <2> QED  BY <1>2, <2>1, <2>2, <2>3
<1>4. /\ Numbered(b) /\ Numbered(b + w) /\ Numbered(c) /\ Numbered(c + w)
      /\ Numbered(n) /\ Numbered(k)
  BY <1>1, <1>2, <1>3 DEF Numbered
<1>5. /\ First(b) \in Nat /\ First(b + w) \in Nat /\ First(c) \in Nat /\ First(c + w) \in Nat
      /\ First(k) \in Nat /\ First(k + 1) \in Nat /\ d \in Nat
      /\ First(k) <= d + 1 /\ d + 1 < First(k + 1)
  BY <1>4, MonthLength, MonthIs, YearsAreApart DEF Reported
<1>6. k = n \/ (k = n + 1 /\ First(k) = d + 1)
  BY NextDayIs
<1> HIDE DEF n, k, b, c
<1>7. First(c) <= First(k)
  <2>1. CASE c = k
    BY <1>5, <2>1
  <2>2. CASE c < k
    <3>1. First(c + 1) <= First(k) /\ First(c) + 28 <= First(c + 1) /\ First(c + 1) \in Nat
      BY <1>4, <2>2, FirstInOrder, MonthLength
    <3> QED  BY <1>5, <3>1
  <2> QED  BY <1>1, <1>3, <2>1, <2>2
<1>8. First(k + 1) <= First(c + w)
  BY <1>3, <1>4, FirstInOrder
<1>9. CASE c = b
  <2>1. Run(c, w) = Run(b, w) /\ Run(c, w)[1] = First(c) /\ Run(c, w)[2] = First(c + w) - 1
    BY <1>9 DEF Run
  <2>2. d + 1 \in First(c)..(First(c + w) - 1)
    BY <1>5, <1>7, <1>8
  <2> QED  BY <2>1, <2>2 DEF n, k, b, c, Succeeds
<1>10. CASE c # b
  <2>1. c = b + w /\ c = k /\ First(c) = d + 1
    BY <1>3, <1>6, <1>10
  <2>2. c - w = b
    BY <1>2, <1>3, <2>1
  <2>3. /\ Run(c, w)[1] = First(c) /\ Run(b, w)[1] = First(b) /\ Run(b, w)[2] = First(c) - 1
        /\ Run(c - w, w) = Run(b, w)
    BY <2>1, <2>2 DEF Run
  <2>4. First(c) = (First(c) - 1) + 1
    BY <1>5
  <2>5. First(b) < First(c)
    <3>1. b < c
      BY <1>2, <1>3, <2>1
    <3>2. First(b + 1) <= First(c) /\ First(b) + 28 <= First(b + 1) /\ First(b + 1) \in Nat
      BY <1>4, <3>1, FirstInOrder, MonthLength
    <3> QED  BY <1>5, <3>2
  <2>6. Run(c, w) # Run(b, w)
    BY <1>5, <2>3, <2>5
  <2> QED  BY <2>1, <2>3, <2>4, <2>6 DEF n, k, b, c, Succeeds
<1> QED  BY <1>9, <1>10

\* A day's week begins on the Monday on or before it.
LEMMA WeeksFollow ==
  ASSUME NEW d \in Nat
  PROVE  Succeeds(<<Monday(d + 1) - 7, Monday(d + 1) - 1>>, <<Monday(d), Monday(d) + 6>>,
                  <<Monday(d + 1), Monday(d + 1) + 6>>, d + 1)
<1>1. Monday(d) = d - ((d + 2) % 7) /\ Monday(d + 1) = (d + 1) - ((d + 3) % 7)
  BY DEF Monday, WeekDay
<1>2. CASE (d + 3) % 7 = 0
  <2>1. Monday(d + 1) = d + 1 /\ Monday(d) = d - 6
    BY <1>1, <1>2
  <2> QED  BY <2>1 DEF Succeeds
<1>3. CASE (d + 3) % 7 # 0
  <2>1. Monday(d + 1) = Monday(d) /\ Monday(d) \in Int /\ Monday(d) <= d /\ d < Monday(d) + 6
    BY <1>1, <1>3
  <2> QED  BY <2>1 DEF Succeeds
<1> QED  BY <1>2, <1>3

\* Whatever the period, the report of the previous one counts from its last day on what
\* the report of the period itself counted till then (dateInPreset, report-period.ts).
THEOREM PeriodsFollow == PeriodSpec => PeriodBecomesPrevious
<1> DEFINE Inv == today \in Int /\ FirstDay <= today
           Follows(s) ==
             LET old == Counted(s[2], today)  new == Counted(s[2], today') IN
             today' # today =>
               IF new = old THEN today' \in new[1]..new[2]
               ELSE /\ Counted(s[1], today') = old
                    /\ new[1] = old[2] + 1
                    /\ new[1] = today'
<1>1. PeriodInit => Inv
  BY PeriodAssumption DEF PeriodInit
<1>2. Inv /\ [Tick]_today => Inv'
  BY PeriodAssumption DEF Tick
<1>3. ASSUME Inv, [Tick]_today, NEW s \in Successions  PROVE Follows(s)
  <2> SUFFICES ASSUME Tick  PROVE Follows(s)
    BY <1>3
  <2>1. today' = today + 1 /\ today \in Nat /\ Reported(today) /\ Reported(today')
    <3>1. today \in Int /\ YearStart(2022) <= today /\ today + 1 < YearStart(2029) /\ today' = today + 1
      BY <1>3, PeriodAssumption, YearStartsAt DEF Tick
    <3> QED  BY <3>1, YearStartsAt, YearsAreApart DEF Reported
  <2>2. CASE s = <<"yesterday", "today">>
    BY <2>1, <2>2 DEF Counted, LastDays
  <2>3. CASE s = <<"lastWeek", "week">>
    <3>1. /\ \A e : Counted("week", e) = <<Monday(e), Monday(e) + 6>>
          /\ \A e : Counted("lastWeek", e) = <<Monday(e) - 7, Monday(e) - 1>>
      BY DEF Counted
    <3>2. s[1] = "lastWeek" /\ s[2] = "week"
      BY <2>3
    <3>3. Succeeds(Counted("lastWeek", today'), Counted("week", today), Counted("week", today'), today')
      BY <2>1, <3>1, WeeksFollow
    <3> QED  BY <3>2, <3>3 DEF Succeeds
  <2>4. CASE s = <<"prevMonth", "month">>
    <3>1. s[1] = "prevMonth" /\ s[2] = "month" /\ <<1, 0>> \in Lengths
      BY <2>4 DEF Lengths
    <3>2. \A e : Reported(e) =>
            /\ Counted("month", e) = Run(Begins(MonthNo(e), 1, 0), 1)
            /\ Counted("prevMonth", e) = Run(Begins(MonthNo(e), 1, 0) - 1, 1)
      BY CountedIn
    <3>3. Succeeds(Counted("prevMonth", today'), Counted("month", today),
                   Counted("month", today'), today')
      BY <2>1, <3>1, <3>2, RunsFollow
    <3> QED  BY <3>1, <3>3 DEF Succeeds
  <2>5. CASE s = <<"prevQuarter", "quarter">>
    <3>1. s[1] = "prevQuarter" /\ s[2] = "quarter" /\ <<3, 0>> \in Lengths
      BY <2>5 DEF Lengths
    <3>2. \A e : Reported(e) =>
            /\ Counted("quarter", e) = Run(Begins(MonthNo(e), 3, 0), 3)
            /\ Counted("prevQuarter", e) = Run(Begins(MonthNo(e), 3, 0) - 3, 3)
      BY CountedIn
    <3>3. Succeeds(Counted("prevQuarter", today'), Counted("quarter", today),
                   Counted("quarter", today'), today')
      BY <2>1, <3>1, <3>2, RunsFollow
    <3> QED  BY <3>1, <3>3 DEF Succeeds
  <2>6. CASE s = <<"prevFy", "fy">>
    <3>1. s[1] = "prevFy" /\ s[2] = "fy" /\ <<12, 3>> \in Lengths
      BY <2>6 DEF Lengths
    <3>2. \A e : Reported(e) =>
            /\ Counted("fy", e) = Run(Begins(MonthNo(e), 12, 3), 12)
            /\ Counted("prevFy", e) = Run(Begins(MonthNo(e), 12, 3) - 12, 12)
      BY CountedIn
    <3>3. Succeeds(Counted("prevFy", today'), Counted("fy", today),
                   Counted("fy", today'), today')
      BY <2>1, <3>1, <3>2, RunsFollow
    <3> QED  BY <3>1, <3>3 DEF Succeeds
  <2> QED  BY <2>2, <2>3, <2>4, <2>5, <2>6 DEF Successions
<1>4. Inv /\ [Tick]_today => \A s \in Successions : Follows(s)
  BY <1>3
<1> QED  BY <1>1, <1>2, <1>4, PTL DEF PeriodSpec, PeriodBecomesPrevious

-----------------------------------------------------------------------------
(***************************************************************************)
(* The schedule of reminders: a date n months later lies in the n-th month *)
(* after, and the period it falls in comes after the one it is advanced    *)
(* from.                                                                   *)
(***************************************************************************)

LEMMA YearsEnd == \A z \in Whole : YearStart(z + 1) <= 3653
<1> SUFFICES ASSUME NEW z \in Whole  PROVE YearStart(z + 1) <= 3653
  OBVIOUS
<1>1. CASE z = 2029
  BY <1>1, YearStartsAt, 2029 + 1 = 2030
<1>2. CASE z < 2029
  <2>1. YearStart(z + 1) <= YearStart(2029) /\ YearStart(z + 1) \in Nat
    BY <1>2, YearsAreApart DEF Whole, Years, Epoch
  <2> QED  BY <2>1, YearStartsAt
<1> QED  BY <1>1, <1>2 DEF Whole

LEMMA AddMonthsIs ==
  ASSUME NEW d \in AllDays, NEW n \in {1, 3, 6, 12}, YearOf(d) < 2029
  PROVE  AddMonths(d, n) \in AllDays /\ MonthNo(AddMonths(d, n)) = MonthNo(d) + n
<1> DEFINE y == YearOf(d)
           m == MonthOf(d)
           k == MonthNo(d)
           t == AddMonths(d, n)
<1>1. /\ y \in Int /\ m \in Int /\ k = 12 * y + m /\ Numbered(k) /\ d \in Nat
      /\ First(k) <= d
  BY MonthIs, YearsAreApart DEF Whole, MonthNo
<1>2. Numbered(k + n) /\ (k + n) \div 12 \in Whole
  BY <1>1, MonthIs DEF Numbered, Whole, MonthNo
<1>3. /\ First(k) \in Nat /\ First(k + n) \in Nat /\ First((k + n) + 1) \in Nat
      /\ First(k + n) + 28 <= First((k + n) + 1)
      /\ First((k + n) + 1) <= YearStart(((k + n) \div 12) + 1)
  BY <1>1, <1>2, MonthLength
<1>4. YearStart(((k + n) \div 12) + 1) <= 3653
  BY <1>2, YearsEnd
<1>5. /\ DayNo(y, m + n, 1) = First(k + n)
      /\ DayNo(y, (m + n) + 1, 0) = First((k + n) + 1) - 1
      /\ DayNo(y, m, 1) = First(k)
  <2>1. /\ 12 * y + (m + n) = k + n /\ 12 * y + ((m + n) + 1) = (k + n) + 1
        /\ m + n \in Int /\ (m + n) + 1 \in Int
    BY <1>1
  <2>2. DayNo(y, m + n, 1) = First(k + n) + 1 - 1
    BY <1>1, <2>1, DayNoIs
  <2>3. DayNo(y, (m + n) + 1, 0) = First((k + n) + 1) + 0 - 1
    BY <1>1, <2>1, DayNoIs
  <2>4. DayNo(y, m, 1) = First(k) + 1 - 1
    BY <1>1, DayNoIs
  <2> HIDE DEF y, m, k
  <2> QED  BY <1>3, <2>2, <2>3, <2>4
<1>6. t = IF First(k + n) + (d - First(k)) <= First((k + n) + 1) - 1
          THEN First(k + n) + (d - First(k)) ELSE First((k + n) + 1) - 1
  <2>1. (m + n) + 1 = m + n + 1
    OBVIOUS
  <2> QED  BY <1>5 DEF AddMonths
<1> HIDE DEF y, m, k, t
<1>7. First(k + n) <= t /\ t < First((k + n) + 1) /\ t \in Nat /\ t < 3653
  <2>1. t \in Int /\ First(k + n) <= t /\ t < First((k + n) + 1)
    BY <1>1, <1>3, <1>6
  <2> DEFINE limit == YearStart(((k + n) \div 12) + 1)
  <2>2. limit \in Nat /\ First((k + n) + 1) <= limit /\ limit <= 3653
    BY <1>2, <1>3, <1>4, YearsAreApart
  <2> HIDE DEF limit
  <2> QED  BY <1>3, <2>1, <2>2
<1>8. t \in AllDays
  BY <1>7, YearsAreApart
<1> QED  BY <1>2, <1>7, <1>8, MonthIs DEF t, k

\* Of two periods of a reminder, the one that comes first.
Sooner(p, q) == p[1] < q[1] \/ (p[1] = q[1] /\ p[2] < q[2])

IsKey(p) == p = <<p[1], p[2]>> /\ p[1] \in Int /\ p[2] \in Int

Thursday(d) == d + 4 - IF WeekDay(d) = 0 THEN 7 ELSE WeekDay(d)

LEMMA ThursdayIs ==
  ASSUME NEW d \in Nat, d < YearStart(2029) + 7
  PROVE  Thursday(d) \in AllDays
<1>1. Thursday(d) \in Nat /\ Thursday(d) <= d + 3
  BY DEF Thursday, WeekDay
<1>2. YearStart(2029) = 3288
  BY YearStartsAt
<1> HIDE DEF Thursday
<1> QED  BY <1>1, <1>2, YearsAreApart

LEMMA YearsGoOn ==
  ASSUME NEW d \in AllDays, NEW e \in AllDays, d <= e
  PROVE  YearOf(d) <= YearOf(e)
<1>1. /\ YearOf(d) \in Whole /\ YearOf(e) \in Whole /\ d \in Nat /\ e \in Nat
      /\ YearStart(YearOf(d)) <= d /\ e < YearStart(YearOf(e) + 1)
  BY YearOfIs, YearsAreApart
<1>2. CASE YearOf(e) < YearOf(d)
  <2>1. YearStart(YearOf(e) + 1) <= YearStart(YearOf(d))
    BY <1>1, <1>2, YearsAreApart
  <2>2. YearStart(YearOf(e) + 1) \in Nat /\ YearStart(YearOf(d)) \in Nat
    BY <1>1, YearsAreApart
  <2> QED  BY <1>1, <2>1, <2>2
<1> QED  BY <1>1, <1>2 DEF Whole

LEMMA WeekIsLater ==
  ASSUME NEW d \in Nat, d < YearStart(2029)
  PROVE  /\ IsKey(PeriodKey(d, "WEEKLY")) /\ IsKey(PeriodKey(d + 7, "WEEKLY"))
         /\ Sooner(PeriodKey(d, "WEEKLY"), PeriodKey(d + 7, "WEEKLY"))
         /\ Period(d + 7, "WEEKLY") = Period(d, "WEEKLY") + 1
<1> DEFINE t == Thursday(d)
           y == YearOf(t)
           z == YearOf(t + 7)
<1>1. YearStart(2029) \in Nat
  BY YearStartsAt
<1>2. Thursday(d + 7) = t + 7
  BY DEF Thursday, WeekDay
<1>3. t \in AllDays /\ t + 7 \in AllDays
  BY <1>1, <1>2, ThursdayIs
<1>4. /\ y \in Int /\ z \in Int /\ y <= z /\ t \in Nat
      /\ YearStart(y) \in Nat /\ YearStart(z) \in Nat
  BY <1>3, YearOfIs, YearsGoOn, YearsAreApart DEF Whole
<1>5. PeriodKey(d, "WEEKLY") = <<y, ((t - YearStart(y)) + 7) \div 7>>
  BY DEF PeriodKey, Thursday
<1>6. PeriodKey(d + 7, "WEEKLY") = <<z, (((t + 7) - YearStart(z)) + 7) \div 7>>
  BY <1>2 DEF PeriodKey, Thursday
<1> HIDE DEF t, y, z
<1>7. y = z => ((t - YearStart(y)) + 7) \div 7 < (((t + 7) - YearStart(z)) + 7) \div 7
  BY <1>4
<1>8. Period(d + 7, "WEEKLY") = Period(d, "WEEKLY") + 1
  BY DEF Period
<1> QED  BY <1>4, <1>5, <1>6, <1>7, <1>8 DEF IsKey, Sooner

LEMMA MonthsAreLater ==
  ASSUME NEW d \in Nat, d < YearStart(2029), NEW freq, freq # "WEEKLY"
  PROVE  LET e == AddMonths(d, MonthsOfFrequency(freq)) IN
         /\ e \in Nat
         /\ IsKey(PeriodKey(d, freq)) /\ IsKey(PeriodKey(e, freq))
         /\ Sooner(PeriodKey(d, freq), PeriodKey(e, freq))
         /\ Period(e, freq) = Period(d, freq) + 1
<1> DEFINE n == MonthsOfFrequency(freq)
           e == AddMonths(d, n)
<1>1. n \in {1, 3, 6, 12}
  BY DEF MonthsOfFrequency
<1>2. d \in AllDays /\ YearOf(d) < 2029
  <2>1. d \in AllDays
    BY YearStartsAt, YearsAreApart
  <2>2. YearOf(d) \in Whole /\ YearStart(YearOf(d)) <= d
    BY <2>1, YearOfIs
  <2>3. ASSUME YearOf(d) = 2029  PROVE FALSE
    BY <2>2, <2>3, YearStartsAt
  <2> QED  BY <2>1, <2>2, <2>3 DEF Whole
<1>3. e \in AllDays /\ MonthNo(e) = MonthNo(d) + n
  BY <1>1, <1>2, AddMonthsIs
<1> DEFINE y == YearOf(d)
           m == MonthOf(d)
           z == YearOf(e)
           l == MonthOf(e)
<1>4. /\ y \in Int /\ m \in 0..11 /\ z \in Int /\ l \in 0..11
      /\ 12 * z + l = (12 * y + m) + n
  <2> HIDE DEF n, e
  <2>1. MonthNo(d) = 12 * y + m /\ MonthNo(e) = 12 * z + l
    BY DEF MonthNo
  <2> QED  BY <1>2, <1>3, <2>1, MonthIs DEF Whole
<1>5. /\ PeriodKey(d, freq) = <<y, m \div n>> /\ PeriodKey(e, freq) = <<z, l \div n>>
      /\ Period(d, freq) = (12 * y + m) \div n /\ Period(e, freq) = (12 * z + l) \div n
  BY DEF PeriodKey, Period
<1>6. e \in Nat
  BY <1>3, YearsAreApart
<1> HIDE DEF n, e, y, m, z, l
<1>7. /\ m \div n \in Int /\ l \div n \in Int /\ (y < z \/ (y = z /\ m \div n < l \div n))
      /\ (12 * z + l) \div n = (12 * y + m) \div n + 1
  BY <1>1, <1>4
<1> QED  BY <1>4, <1>5, <1>6, <1>7 DEF IsKey, Sooner, n, e

\* The period that a reminder is advanced to, whatever its frequency.
LEMMA NextIsLater ==
  ASSUME NEW d \in Nat, d < YearStart(2029), NEW freq
  PROVE  /\ NextDueDate(d, freq) \in Nat
         /\ IsKey(PeriodKey(d, freq)) /\ IsKey(PeriodKey(NextDueDate(d, freq), freq))
         /\ Sooner(PeriodKey(d, freq), PeriodKey(NextDueDate(d, freq), freq))
         /\ Period(NextDueDate(d, freq), freq) = Period(d, freq) + 1
<1>1. CASE freq = "WEEKLY"
  BY <1>1, WeekIsLater DEF NextDueDate
<1>2. CASE freq # "WEEKLY"
  BY <1>2, MonthsAreLater DEF NextDueDate
<1> QED  BY <1>1, <1>2

-----------------------------------------------------------------------------
(***************************************************************************)
(* The reminder job.  While no two jobs have overlapped, what the one      *)
(* under way has read of a reminder is still so, and each message that is  *)
(* counted is one whose save is pending, or whose reminder has been        *)
(* marked, or has moved on to a later period.                              *)
(***************************************************************************)

DueKey(rem) == PeriodKey(rem.due, Frequency(rem))

IsReminder(rem) ==
  rem = [kind |-> rem.kind, freq |-> rem.freq, due |-> rem.due, status |-> rem.status,
         sent |-> rem.sent]

\* What a job holds of a reminder is a reading of it that was due.
Read(j, r) ==
  LET read == job[j].todo[r] IN
  /\ r \in Rems /\ IsReminder(read)
  /\ read.kind = reminders[r].kind /\ read.freq = reminders[r].freq
  /\ read.due \in Nat /\ read.due < YearStart(2029)
  /\ read.sent = FALSE

ReminderTyped ==
  /\ day \in Clock
  /\ reminders = [r \in Rems |-> reminders[r]]
  /\ \A r \in Rems : /\ IsReminder(reminders[r])
                     /\ reminders[r].due \in Nat /\ reminders[r].sent \in BOOLEAN
  /\ job = [j \in Jobs |-> [left |-> job[j].left, todo |-> job[j].todo, sending |-> job[j].sending]]
  /\ \A j \in Jobs : /\ job[j].sending \in DOMAIN job[j].todo \cup {None}
                     /\ \A r \in DOMAIN job[j].todo : Read(j, r)

AloneAtWork == \A i, j \in Jobs : i # j => job[i] = Idle \/ job[j] = Idle

ReadLast ==
  \A j \in Jobs : \A r \in DOMAIN job[j].todo :
    job[j].todo[r].due = reminders[r].due /\ reminders[r].sent = FALSE

\* The message m about r has been followed by the save of r.
Saved(m, r) ==
  /\ m = <<r, m[2]>> /\ r \in Rems /\ IsKey(m[2])
  /\ reminders[r].sent \/ Sooner(m[2], DueKey(reminders[r]))

Pending(m) == \E j \in Jobs : job[j].sending # None /\ m = Mark(j, job[j].sending)

Accounted ==
  /\ tally = [m \in DOMAIN tally |-> tally[m]]
  /\ \A m \in DOMAIN tally : /\ tally[m] \in {0, 1}
                             /\ tally[m] = 1 => Pending(m) \/ \E r : Saved(m, r)
  /\ \A j \in Jobs : job[j].sending # None =>
       Mark(j, job[j].sending) \in DOMAIN tally /\ tally[Mark(j, job[j].sending)] = 1

ReminderInv == ReminderTyped /\ (~overlap => AloneAtWork /\ ReadLast /\ Accounted)

-----------------------------------------------------------------------------

LEMMA EarliestIs ==
  ASSUME NEW S, S \subseteq Clock, S # {}
  PROVE  Earliest(S) \in S
<1>1. S \subseteq Nat
  BY ReminderAssumption
<1> QED  BY <1>1, LeastOne DEF Earliest

\* What is read of a reminder that is due, and what it is advanced to.
LEMMA ReadIsDated ==
  ASSUME NEW j \in Jobs, NEW r, Read(j, r)
  PROVE  LET read == job[j].todo[r] IN
         /\ IsKey(DueKey(read)) /\ Mark(j, r) = <<r, DueKey(read)>>
         /\ IsReminder(Advanced(read))
         /\ Advanced(read).kind = read.kind /\ Advanced(read).freq = read.freq
         /\ Advanced(read).due = NextDueDate(read.due, Frequency(read))
         /\ Advanced(read).due \in Nat /\ Advanced(read).sent = FALSE
         /\ IsKey(DueKey(Advanced(read))) /\ Sooner(DueKey(read), DueKey(Advanced(read)))
<1> DEFINE read == job[j].todo[r]
           f == Frequency(read)
<1>1. /\ read.due \in Nat /\ read.due < YearStart(2029)
      /\ read = [kind |-> read.kind, freq |-> read.freq, due |-> read.due,
                 status |-> read.status, sent |-> read.sent]
  BY DEF Read, IsReminder
<1>2. /\ NextDueDate(read.due, f) \in Nat
      /\ IsKey(PeriodKey(read.due, f)) /\ IsKey(PeriodKey(NextDueDate(read.due, f), f))
      /\ Sooner(PeriodKey(read.due, f), PeriodKey(NextDueDate(read.due, f), f))
  BY <1>1, NextIsLater
<1>3. Advanced(read) = [kind |-> read.kind, freq |-> read.freq,
                        due |-> NextDueDate(read.due, f), status |-> read.status, sent |-> FALSE]
  <2> DEFINE moved == [read EXCEPT !.due = NextDueDate(@, f)]
  <2>1. Advanced(read) = [moved EXCEPT !.sent = FALSE]
    BY DEF Advanced
  <2> HIDE DEF read, f
  <2>2. moved = [kind |-> read.kind, freq |-> read.freq,
                 due |-> NextDueDate(read.due, f), status |-> read.status, sent |-> read.sent]
    BY <1>1
  <2> HIDE DEF moved
  <2> QED  BY <2>1, <2>2
<1>4. Frequency(Advanced(read)) = f
  BY <1>3 DEF Frequency
<1> QED  BY <1>1, <1>2, <1>3, <1>4 DEF DueKey, Mark, IsReminder

LEMMA SoonerIsTransitive ==
  ASSUME NEW p, NEW q, NEW s, IsKey(p), IsKey(q), IsKey(s), Sooner(p, q), Sooner(q, s)
  PROVE  Sooner(p, s)
BY DEF IsKey, Sooner

LEMMA SoonerIsStrict == \A p : IsKey(p) => ~Sooner(p, p)
BY DEF IsKey, Sooner

LEMMA ReminderInitSound == ReminderInit => ReminderInv
<1> SUFFICES ASSUME ReminderInit  PROVE ReminderInv
  OBVIOUS
<1>1. day \in Clock
  BY ReminderAssumption, EarliestIs DEF ReminderInit
<1>2. PICK plan \in Plans :
        reminders = [r \in Rems |-> [kind |-> plan[r].kind, freq |-> plan[r].freq,
                                     due |-> plan[r].due, status |-> "OPEN", sent |-> FALSE]]
  BY DEF ReminderInit
<1>3. /\ reminders = [r \in Rems |-> reminders[r]]
      /\ \A r \in Rems : /\ IsReminder(reminders[r])
                         /\ reminders[r].due \in Nat /\ reminders[r].sent \in BOOLEAN
  <2>1. \A r \in Rems : reminders[r] = [kind |-> plan[r].kind, freq |-> plan[r].freq,
                                        due |-> plan[r].due, status |-> "OPEN", sent |-> FALSE]
    BY <1>2
  <2>2. \A r \in Rems : IsReminder(reminders[r])
    <3> SUFFICES ASSUME NEW r \in Rems  PROVE IsReminder(reminders[r])
      OBVIOUS
    <3>1. reminders[r] = [kind |-> plan[r].kind, freq |-> plan[r].freq,
                          due |-> plan[r].due, status |-> "OPEN", sent |-> FALSE]
      BY <2>1
    <3> QED  BY <3>1 DEF IsReminder
  <2>3. \A r \in Rems : plan[r].due \in Nat
    BY ReminderAssumption
  <2> QED  BY <1>2, <2>1, <2>2, <2>3
<1>4. job = [j \in Jobs |-> Idle] /\ DOMAIN Idle.todo = {} /\ Idle.sending = None
  BY DEF ReminderInit, Idle
<1>5. job = [j \in Jobs |-> [left |-> job[j].left, todo |-> job[j].todo, sending |-> job[j].sending]]
  BY <1>4 DEF Idle
<1>6. ReminderTyped
  BY <1>1, <1>3, <1>4, <1>5 DEF ReminderTyped
<1>7. AloneAtWork /\ ReadLast
  BY <1>4 DEF AloneAtWork, ReadLast
<1>8. Accounted
  <2>1. DOMAIN tally = {} /\ tally = [m \in DOMAIN tally |-> tally[m]]
    BY DEF ReminderInit
  <2> QED  BY <1>4, <2>1 DEF Accounted
<1> QED  BY <1>6, <1>7, <1>8 DEF ReminderInv

\* A step that leaves the jobs and all but the status of a reminder alone.
LEMMA WorldSound ==
  ASSUME ReminderInv, UNCHANGED <<job, tally, overlap>>, day' \in Clock,
         reminders' = [r \in Rems |-> reminders'[r]],
         \A r \in Rems : /\ IsReminder(reminders'[r])
                         /\ reminders'[r].kind = reminders[r].kind
                         /\ reminders'[r].freq = reminders[r].freq
                         /\ reminders'[r].due = reminders[r].due
                         /\ reminders'[r].sent = reminders[r].sent
  PROVE  ReminderInv'
<1>1. \A j \in Jobs : \A r \in DOMAIN job[j].todo : Read(j, r)
  BY DEF ReminderInv, ReminderTyped
<1>2. \A j, r : Read(j, r) => Read(j, r)'
  <2> SUFFICES ASSUME NEW j, NEW r, Read(j, r)  PROVE Read(j, r)'
    OBVIOUS
  <2>1. r \in Rems
    BY DEF Read
  <2>2. reminders'[r].kind = reminders[r].kind /\ reminders'[r].freq = reminders[r].freq
    BY <2>1
  <2> QED  BY <2>1, <2>2 DEF Read, IsReminder
<1>3. \A r \in Rems : reminders'[r].due \in Nat /\ reminders'[r].sent \in BOOLEAN
  BY DEF ReminderInv, ReminderTyped
<1>4. \A j \in Jobs : job[j].sending \in DOMAIN job[j].todo \cup {None}
  BY DEF ReminderInv, ReminderTyped
<1>5. job = [j \in Jobs |-> [left |-> job[j].left, todo |-> job[j].todo, sending |-> job[j].sending]]
  BY DEF ReminderInv, ReminderTyped
<1>6. ReminderTyped'
  BY <1>1, <1>2, <1>3, <1>4, <1>5 DEF ReminderTyped
<1>7. ASSUME ~overlap  PROVE (AloneAtWork /\ ReadLast /\ Accounted)'
  <2>1. AloneAtWork /\ ReadLast /\ Accounted
    BY <1>7 DEF ReminderInv
  <2>2. AloneAtWork'
    BY <2>1 DEF AloneAtWork
  <2>3. ReadLast'
    BY <1>1, <2>1 DEF ReadLast, Read
  <2>4. \A m : Pending(m)' <=> Pending(m)
    BY DEF Pending, Mark
  <2>5. \A m, r : Saved(m, r) => Saved(m, r)'
    BY DEF Saved, DueKey, Frequency
  <2>6. \A j, r : Mark(j, r)' = Mark(j, r)
    BY DEF Mark
  <2> QED  BY <2>1, <2>2, <2>3, <2>4, <2>5, <2>6 DEF Accounted
<1> QED  BY <1>6, <1>7 DEF ReminderInv

LEMMA NextDaySound ==
  ASSUME ReminderInv, NextDay
  PROVE  ReminderInv'
<1>1. day' \in Clock
  <2>1. {d \in Clock : d > day} # {}
    BY DEF NextDay
  <2> QED  BY <2>1, EarliestIs DEF NextDay
<1> QED  BY <1>1, WorldSound DEF NextDay, ReminderInv, ReminderTyped

LEMMA DismissSound ==
  ASSUME ReminderInv, NEW r \in Rems, Dismiss(r)
  PROVE  ReminderInv'
<1>1. ASSUME NEW q \in Rems
      PROVE  /\ IsReminder(reminders'[q])
             /\ reminders'[q].kind = reminders[q].kind /\ reminders'[q].freq = reminders[q].freq
             /\ reminders'[q].due = reminders[q].due /\ reminders'[q].sent = reminders[q].sent
  <2>1. IsReminder(reminders[q])
    BY DEF ReminderInv, ReminderTyped
  <2>2. reminders'[q] = reminders[q] \/ reminders'[q] = [reminders[q] EXCEPT !.status = "DISMISSED"]
    BY DEF Dismiss, ReminderInv, ReminderTyped
  <2> QED  BY <2>1, <2>2 DEF IsReminder
<1>2. reminders' = [q \in Rems |-> reminders'[q]]
  BY DEF Dismiss, ReminderInv, ReminderTyped
<1> QED  BY <1>1, <1>2, WorldSound DEF Dismiss, ReminderInv, ReminderTyped

\* A job that has begun has the others to wait for it, unless they overlap.
LEMMA OthersWait ==
  ASSUME ReminderInv, ~overlap, NEW j \in Jobs, job[j] # Idle
  PROVE  \A i \in Jobs \ {j} : job[i] = Idle /\ job[i].sending = None /\ DOMAIN job[i].todo = {}
<1>1. Idle.sending = None /\ DOMAIN Idle.todo = {}
  BY DEF Idle
<1> QED  BY <1>1 DEF ReminderInv, AloneAtWork

\* A step of the job j that leaves the reminders alone.
LEMMA JobStepped ==
  ASSUME ReminderInv, NEW j \in Jobs, UNCHANGED <<day, reminders>>,
         job' = [job EXCEPT ![j] = job'[j]],
         job'[j] = [left |-> job'[j].left, todo |-> job'[j].todo, sending |-> job'[j].sending],
         job'[j].sending \in DOMAIN job'[j].todo \cup {None},
         \A r \in DOMAIN job'[j].todo : Read(j, r)'
  PROVE  ReminderTyped'
<1>1. \A i \in Jobs \ {j} : job'[i] = job[i]
  BY DEF ReminderInv, ReminderTyped
<1>2. \A i \in Jobs \ {j} : \A r : Read(i, r) => Read(i, r)'
  BY <1>1 DEF Read
<1>3. job' = [i \in Jobs |-> [left |-> job'[i].left, todo |-> job'[i].todo, sending |-> job'[i].sending]]
  BY <1>1 DEF ReminderInv, ReminderTyped
<1> QED  BY <1>1, <1>2, <1>3 DEF ReminderInv, ReminderTyped

LEMMA StartJobSound ==
  ASSUME ReminderInv, NEW j \in Jobs, StartJob(j)
  PROVE  ReminderInv'
<1>1. PICK o \in Orgs : job' = [job EXCEPT ![j].left = Targets(j, o)]
  BY DEF StartJob
<1>2. /\ job[j] = Idle /\ Idle.sending = None /\ DOMAIN Idle.todo = {}
      /\ job'[j] = [left |-> Targets(j, o), todo |-> Idle.todo, sending |-> None]
      /\ job' = [job EXCEPT ![j] = job'[j]]
      /\ \A i \in Jobs \ {j} : job'[i] = job[i]
  <2>1. job[j] = Idle /\ job[j] = [left |-> job[j].left, todo |-> job[j].todo, sending |-> job[j].sending]
    BY DEF StartJob, ReminderInv, ReminderTyped
  <2>2. Idle.sending = None /\ DOMAIN Idle.todo = {}
    BY DEF Idle
  <2>3. job' = [job EXCEPT ![j] = [job[j] EXCEPT !.left = Targets(j, o)]]
    BY <1>1
  <2>4. /\ job'[j] = [job[j] EXCEPT !.left = Targets(j, o)]
        /\ \A i \in Jobs \ {j} : job'[i] = job[i]
    BY <2>3 DEF ReminderInv, ReminderTyped
  <2>5. [job[j] EXCEPT !.left = Targets(j, o)]
          = [left |-> Targets(j, o), todo |-> job[j].todo, sending |-> job[j].sending]
    BY <2>1
  <2>6. job' = [job EXCEPT ![j] = job'[j]]
    BY <2>3, <2>4
  <2> QED  BY <2>1, <2>2, <2>4, <2>5, <2>6
<1>3. ReminderTyped'
  <2>1. job'[j].sending = None /\ DOMAIN job'[j].todo = {}
    BY <1>2
  <2>2. job'[j] = [left |-> job'[j].left, todo |-> job'[j].todo, sending |-> job'[j].sending]
    BY <1>2
  <2> QED  BY <1>2, <2>1, <2>2, JobStepped DEF StartJob
<1>4. ASSUME ~overlap'  PROVE (AloneAtWork /\ ReadLast /\ Accounted)'
  <2>1. AloneAtWork /\ ReadLast /\ Accounted /\ \A i \in Jobs \ {j} : job[i] = Idle
    BY <1>4 DEF ReminderInv, StartJob
  <2>2. AloneAtWork'
    BY <1>2, <2>1 DEF AloneAtWork
  <2>3. ReadLast'
    BY <1>2, <2>1 DEF ReadLast, StartJob
  <2>4. \A i \in Jobs : job'[i].sending = job[i].sending /\ job'[i].todo = job[i].todo
    BY <1>2
  <2>5. \A i \in Jobs : \A r : Mark(i, r)' = Mark(i, r)
    BY <2>4 DEF Mark
  <2>6. \A m : Pending(m) => Pending(m)'
    BY <2>4, <2>5 DEF Pending
  <2>7. \A m, r : Saved(m, r) => Saved(m, r)'
    BY DEF Saved, DueKey, StartJob
  <2> QED  BY <2>1, <2>2, <2>3, <2>4, <2>5, <2>6, <2>7 DEF Accounted, StartJob
<1> QED  BY <1>3, <1>4 DEF ReminderInv

\* A step of a job that is under way and sends nothing, before or after it.
LEMMA QuietSound ==
  ASSUME ReminderInv, NEW j \in Jobs, job[j] # Idle, UNCHANGED <<day, reminders, tally, overlap>>,
         job' = [job EXCEPT ![j] = job'[j]],
         job'[j] = [left |-> job'[j].left, todo |-> job'[j].todo, sending |-> None],
         job[j].sending = None,
         \A r \in DOMAIN job'[j].todo : Read(j, r)',
         ~overlap => \A r \in DOMAIN job'[j].todo :
                       job'[j].todo[r].due = reminders[r].due /\ reminders[r].sent = FALSE
  PROVE  ReminderInv'
<1>1. job'[j].sending = None
  OBVIOUS
<1>2. ReminderTyped'
  BY <1>1, JobStepped
<1>3. \A i \in Jobs \ {j} : job'[i] = job[i]
  BY DEF ReminderInv, ReminderTyped
<1>4. ASSUME ~overlap  PROVE (AloneAtWork /\ ReadLast /\ Accounted)'
  <2>1. AloneAtWork /\ ReadLast /\ Accounted
    BY <1>4 DEF ReminderInv
  <2>2. AloneAtWork'
    BY <1>3, <2>1 DEF AloneAtWork
  <2>3. ReadLast'
    BY <1>3, <1>4, <2>1 DEF ReadLast
  <2>4. \A m : Pending(m) => Pending(m)'
    BY <1>1, <1>3 DEF Pending, Mark
  <2>5. \A m, r : Saved(m, r) => Saved(m, r)'
    BY DEF Saved, DueKey
  <2>6. \A i \in Jobs \ {j} : Mark(i, job[i].sending)' = Mark(i, job[i].sending)
    BY <1>3 DEF Mark
  <2> QED  BY <1>1, <1>3, <2>1, <2>2, <2>3, <2>4, <2>5, <2>6 DEF Accounted
<1> QED  BY <1>2, <1>4 DEF ReminderInv

LEMMA ReadOrgSound ==
  ASSUME ReminderInv, NEW j \in Jobs, ReadOrg(j)
  PROVE  ReminderInv'
<1>1. PICK o \in job[j].left :
        LET due == {r \in Rems : /\ OrgOf[r] = o /\ o \in enabled
                                 /\ Selected(r, reminders[r], owed[r], day)} IN
        job' = [job EXCEPT ![j] = [left |-> job[j].left \ {o}, todo |-> [r \in due |-> reminders[r]],
                                   sending |-> None]]
  BY DEF ReadOrg
<1> DEFINE due == {r \in Rems : /\ OrgOf[r] = o /\ o \in enabled
                                /\ Selected(r, reminders[r], owed[r], day)}
<1>2. \A r \in due : /\ r \in Rems /\ reminders[r].sent = FALSE
                     /\ reminders[r].due \in Nat /\ reminders[r].due < YearStart(2029)
  <2> HIDE DEF due
  <2> SUFFICES ASSUME NEW r \in due
               PROVE  /\ r \in Rems /\ reminders[r].sent = FALSE
                      /\ reminders[r].due \in Nat /\ reminders[r].due < YearStart(2029)
    BY Zenon
  <2>1. r \in Rems /\ reminders[r].sent = FALSE /\ reminders[r].due - day <= Lead
    BY DEF due, Selected, ReminderInv, ReminderTyped
  <2>2. reminders[r].due \in Nat /\ day \in Nat /\ Lead \in Nat /\ day + Lead < YearStart(2029)
    BY <2>1, ReminderAssumption DEF ReminderInv, ReminderTyped
  <2>3. YearStart(2029) \in Nat
    BY YearStartsAt
  <2> QED  BY <2>1, <2>2, <2>3
<1>3. \A r \in Rems : IsReminder(reminders[r])
  BY DEF ReminderInv, ReminderTyped
<1>4. job[j].sending = None /\ DOMAIN job[j].todo = {}
  BY DEF ReadOrg, ReminderInv, ReminderTyped
<1> DEFINE left == job[j].left \ {o}
           todo == [r \in due |-> reminders[r]]
<1>5. job' = [job EXCEPT ![j] = [left |-> left, todo |-> todo, sending |-> None]]
  BY <1>1
<1>6. todo = [r \in due |-> reminders[r]]
  OBVIOUS
<1> HIDE DEF due, left, todo
<1>7. job'[j] = [left |-> left, todo |-> todo, sending |-> None]
  BY <1>5 DEF ReminderInv, ReminderTyped
<1>8. /\ job' = [job EXCEPT ![j] = job'[j]]
      /\ job'[j] = [left |-> job'[j].left, todo |-> job'[j].todo, sending |-> None]
      /\ job'[j].todo = todo
  <2>1. job' = [job EXCEPT ![j] = job'[j]]
    BY <1>5, <1>7, Zenon
  <2>2. job'[j].left = left /\ job'[j].todo = todo
    BY <1>7
  <2> QED  BY <1>7, <2>1, <2>2
<1>9. job[j] # Idle
  BY <1>1 DEF Idle
<1>10. \A r \in DOMAIN job'[j].todo : Read(j, r)'
  <2> SUFFICES ASSUME NEW r \in due  PROVE Read(j, r)'
    BY <1>6, <1>8
  <2>1. job'[j].todo[r] = reminders[r] /\ reminders' = reminders
    BY <1>6, <1>8 DEF ReadOrg
  <2> QED  BY <1>2, <1>3, <2>1 DEF Read
<1>11. \A r \in DOMAIN job'[j].todo :
         job'[j].todo[r].due = reminders[r].due /\ reminders[r].sent = FALSE
  BY <1>2, <1>6, <1>8
<1> QED  BY <1>4, <1>8, <1>9, <1>10, <1>11, QuietSound DEF ReadOrg

LEMMA ReadFailsSound ==
  ASSUME ReminderInv, NEW j \in Jobs, ReadFails(j)
  PROVE  ReminderInv'
<1>1. job'[j] = Idle /\ job' = [job EXCEPT ![j] = job'[j]]
  BY DEF ReadFails, ReminderInv, ReminderTyped
<1>2. Idle = [left |-> Idle.left, todo |-> Idle.todo, sending |-> None] /\ DOMAIN Idle.todo = {}
  BY DEF Idle
<1>3. job[j].sending = None
  BY DEF ReadFails, ReminderInv, ReminderTyped
<1>4. job[j] # Idle
  BY DEF ReadFails, Idle
<1> QED  BY <1>1, <1>2, <1>3, <1>4, QuietSound DEF ReadFails

\* What is left to a job once r has had its turn.
LEMMA RestIs ==
  ASSUME NEW todo, NEW r
  PROVE  /\ DOMAIN Rest(todo, r) = DOMAIN todo \ {r}
         /\ \A q \in DOMAIN todo \ {r} : Rest(todo, r)[q] = todo[q]
BY DEF Rest, Restrict

LEMMA SendFailsSound ==
  ASSUME ReminderInv, NEW j \in Jobs, NEW r, SendFails(j, r)
  PROVE  ReminderInv'
<1>1. PICK todo : todo = Rest(job[j].todo, r)
  OBVIOUS
<1>2. /\ DOMAIN todo = DOMAIN job[j].todo \ {r}
      /\ \A q \in DOMAIN todo : todo[q] = job[j].todo[q]
  BY <1>1, RestIs
<1>3. job' = [job EXCEPT ![j] = [job[j] EXCEPT !.todo = todo]]
  BY <1>1 DEF SendFails
<1>4. /\ job[j] = [left |-> job[j].left, todo |-> job[j].todo, sending |-> job[j].sending]
      /\ job[j].sending = None
  BY DEF SendFails, ReminderInv, ReminderTyped
<1>5. [job[j] EXCEPT !.todo = todo] = [left |-> job[j].left, todo |-> todo, sending |-> None]
  BY <1>4
<1>6. job'[j] = [left |-> job[j].left, todo |-> todo, sending |-> None]
  BY <1>3, <1>5 DEF ReminderInv, ReminderTyped
<1>7. /\ job' = [job EXCEPT ![j] = job'[j]] /\ job'[j].todo = todo
      /\ job'[j] = [left |-> job'[j].left, todo |-> job'[j].todo, sending |-> None]
  BY <1>3, <1>5, <1>6
<1>8. job[j] # Idle
  <2>1. DOMAIN Idle.todo = {}
    BY DEF Idle
  <2> QED  BY <2>1 DEF SendFails
<1>9. \A q \in DOMAIN job'[j].todo : Read(j, q)'
  <2> SUFFICES ASSUME NEW q \in DOMAIN todo  PROVE Read(j, q)'
    BY <1>7
  <2>1. Read(j, q)
    BY <1>2 DEF ReminderInv, ReminderTyped
  <2>2. job'[j].todo[q] = job[j].todo[q] /\ reminders' = reminders
    BY <1>2, <1>7 DEF SendFails
  <2> QED  BY <2>1, <2>2 DEF Read
<1>10. ~overlap => \A q \in DOMAIN job'[j].todo :
          job'[j].todo[q].due = reminders[q].due /\ reminders[q].sent = FALSE
  BY <1>2, <1>7 DEF ReminderInv, ReadLast
<1> QED  BY <1>4, <1>7, <1>8, <1>9, <1>10, QuietSound DEF SendFails

\* The message under way, and what its reminder looked like when it was read.
LEMMA SendingIs ==
  ASSUME ReminderInv, NEW j \in Jobs, NEW r \in DOMAIN job[j].todo
  PROVE  /\ r \in Rems /\ r # None /\ job[j] # Idle
         /\ Read(j, r) /\ Mark(j, r) = <<r, DueKey(job[j].todo[r])>>
         /\ IsKey(DueKey(job[j].todo[r]))
         /\ ~overlap => /\ DueKey(reminders[r]) = DueKey(job[j].todo[r])
                        /\ reminders[r].sent = FALSE
<1>1. Read(j, r)
  BY DEF ReminderInv, ReminderTyped
<1>2. r \in Rems /\ r # None
  BY <1>1, ReminderAssumption DEF Read
<1>3. job[j] # Idle
  BY DEF Idle
<1>4. Mark(j, r) = <<r, DueKey(job[j].todo[r])>> /\ IsKey(DueKey(job[j].todo[r]))
  BY <1>1, ReadIsDated
<1>5. ASSUME ~overlap
      PROVE  DueKey(reminders[r]) = DueKey(job[j].todo[r]) /\ reminders[r].sent = FALSE
  <2>1. job[j].todo[r].due = reminders[r].due /\ reminders[r].sent = FALSE
    BY <1>5 DEF ReminderInv, ReadLast
  <2>2. job[j].todo[r].freq = reminders[r].freq
    BY <1>1 DEF Read
  <2> QED  BY <2>1, <2>2 DEF DueKey, Frequency
<1> QED  BY <1>1, <1>2, <1>3, <1>4, <1>5

\* While no two jobs overlap, only the message of the one under way is pending.
LEMMA OnlyPending ==
  ASSUME ReminderInv, ~overlap, NEW j \in Jobs, job[j] # Idle
  PROVE  \A m : Pending(m) => job[j].sending # None /\ m = Mark(j, job[j].sending)
BY OthersWait DEF Pending

LEMMA SendSound ==
  ASSUME ReminderInv, NEW j \in Jobs, NEW r, Send(j, r)
  PROVE  ReminderInv'
<1>1. r \in DOMAIN job[j].todo /\ job[j].sending = None
  BY DEF Send
<1>2. job[j] = [left |-> job[j].left, todo |-> job[j].todo, sending |-> job[j].sending]
  BY DEF ReminderInv, ReminderTyped
<1>3. job' = [job EXCEPT ![j] = [job[j] EXCEPT !.sending = r]]
  BY DEF Send
<1>4. [job[j] EXCEPT !.sending = r] = [left |-> job[j].left, todo |-> job[j].todo, sending |-> r]
  BY <1>2
<1>5. /\ job'[j] = [left |-> job[j].left, todo |-> job[j].todo, sending |-> r]
      /\ \A i \in Jobs \ {j} : job'[i] = job[i]
  BY <1>3, <1>4 DEF ReminderInv, ReminderTyped
<1>6. /\ job' = [job EXCEPT ![j] = job'[j]]
      /\ job'[j].todo = job[j].todo /\ job'[j].sending = r
      /\ job'[j] = [left |-> job'[j].left, todo |-> job'[j].todo, sending |-> job'[j].sending]
  <2>1. job' = [job EXCEPT ![j] = job'[j]]
    BY <1>3, <1>4, <1>5, Zenon
  <2> QED  BY <1>5, <2>1
<1>7. ReminderTyped'
  <2>1. \A q \in DOMAIN job'[j].todo : Read(j, q)'
    <3> SUFFICES ASSUME NEW q \in DOMAIN job[j].todo  PROVE Read(j, q)'
      BY <1>6
    <3>1. Read(j, q)
      BY SendingIs
    <3>2. job'[j].todo[q] = job[j].todo[q] /\ reminders' = reminders
      BY <1>6 DEF Send
    <3> QED  BY <3>1, <3>2 DEF Read
  <2> QED  BY <1>1, <1>6, <2>1, JobStepped DEF Send
<1>8. ASSUME ~overlap  PROVE (AloneAtWork /\ ReadLast /\ Accounted)'
  <2>1. AloneAtWork /\ ReadLast /\ Accounted /\ job[j] # Idle
    BY <1>1, <1>8, SendingIs DEF ReminderInv
  <2>2. AloneAtWork'
    BY <1>5, <2>1 DEF AloneAtWork
  <2>3. ReadLast'
    BY <1>5, <1>6, <2>1 DEF ReadLast, Send
  <2>4. \A m : ~Pending(m)
    BY <1>1, <1>8, <2>1, OnlyPending
  <2>5. PICK k : k = Mark(j, r)
    OBVIOUS
  <2>6. \A q : ~Saved(k, q)
    <3> SUFFICES ASSUME NEW q, Saved(k, q)  PROVE FALSE
      OBVIOUS
    <3>1. /\ k = <<r, DueKey(job[j].todo[r])>> /\ IsKey(DueKey(job[j].todo[r]))
          /\ DueKey(reminders[r]) = DueKey(job[j].todo[r]) /\ reminders[r].sent = FALSE
      BY <1>1, <1>8, <2>5, SendingIs
    <3>2. q = r /\ k[2] = DueKey(reminders[r])
      BY <3>1 DEF Saved
    <3>3. Sooner(DueKey(reminders[r]), DueKey(reminders[r]))
      BY <3>1, <3>2 DEF Saved
    <3> QED  BY <3>1, <3>3, SoonerIsStrict
  <2>7. Messages(k) = 0
    BY <2>1, <2>4, <2>6 DEF Accounted, Messages
  <2>8. tally' = [m \in DOMAIN tally \cup {k} |-> IF m = k THEN 1 ELSE tally[m]]
    BY <2>5, <2>7 DEF Send
  <2>9. Mark(j, job[j].sending)' = k
    BY <1>6, <2>5 DEF Mark
  <2>10. Pending(k)'
    BY <1>1, <1>6, <2>9, SendingIs DEF Pending
  <2>11. \A m, q : Saved(m, q) => Saved(m, q)'
    BY DEF Saved, DueKey, Send
  <2>12. \A i \in Jobs \ {j} : job'[i].sending = None
    BY <1>5, <1>8, <2>1, OthersWait
  <2>13. \A m \in DOMAIN tally' : /\ tally'[m] \in {0, 1}
                                  /\ tally'[m] = 1 => Pending(m)' \/ \E q : Saved(m, q)'
    BY <2>1, <2>4, <2>8, <2>10, <2>11 DEF Accounted
  <2> QED  BY <2>2, <2>3, <2>8, <2>9, <2>12, <2>13 DEF Accounted
<1> QED  BY <1>7, <1>8 DEF ReminderInv, Send

\* The turn of the reminder r of the job j is over: it is left out of what is to do.
LEMMA TurnOver ==
  ASSUME ReminderInv, NEW j \in Jobs, NEW r \in DOMAIN job[j].todo,
         job' = [job EXCEPT ![j] = [left |-> job[j].left, todo |-> Rest(job[j].todo, r),
                                    sending |-> None]]
  PROVE  /\ \A i \in Jobs \ {j} : job'[i] = job[i]
         /\ job' = [job EXCEPT ![j] = job'[j]]
         /\ job'[j].sending = None /\ job'[j].left = job[j].left
         /\ job'[j] = [left |-> job'[j].left, todo |-> job'[j].todo, sending |-> job'[j].sending]
         /\ DOMAIN job'[j].todo = DOMAIN job[j].todo \ {r}
         /\ \A q \in DOMAIN job'[j].todo : job'[j].todo[q] = job[j].todo[q]
         /\ ~overlap => \A m : ~Pending(m)'
<1>1. PICK todo : todo = Rest(job[j].todo, r)
  OBVIOUS
<1>2. /\ DOMAIN todo = DOMAIN job[j].todo \ {r}
      /\ \A q \in DOMAIN todo : todo[q] = job[j].todo[q]
  BY <1>1, RestIs
<1>3. job' = [job EXCEPT ![j] = [left |-> job[j].left, todo |-> todo, sending |-> None]]
  BY <1>1
<1>4. /\ job'[j] = [left |-> job[j].left, todo |-> todo, sending |-> None]
      /\ \A i \in Jobs \ {j} : job'[i] = job[i]
  BY <1>3 DEF ReminderInv, ReminderTyped
<1>5. job' = [job EXCEPT ![j] = job'[j]]
  BY <1>3, <1>4, Zenon
<1>6. job'[j].left = job[j].left /\ job'[j].todo = todo /\ job'[j].sending = None
  BY <1>4
<1>7. ASSUME ~overlap  PROVE \A m : ~Pending(m)'
  <2>1. \A i \in Jobs \ {j} : job'[i].sending = None
    BY <1>4, <1>7, SendingIs, OthersWait
  <2> QED  BY <1>6, <2>1 DEF Pending
<1> QED  BY <1>2, <1>4, <1>5, <1>6, <1>7

\* The saved reminder, as against the one that was read.
LEMMA SavedIs ==
  ASSUME ReminderInv, NEW j \in Jobs, NEW r \in Rems, r \in DOMAIN job[j].todo, Save(j, r)
  PROVE  /\ \A q \in Rems \ {r} : reminders'[q] = reminders[q]
         /\ reminders' = [q \in Rems |-> reminders'[q]]
         /\ IsReminder(reminders'[r])
         /\ reminders'[r].due \in Nat /\ reminders'[r].sent \in BOOLEAN
         /\ reminders'[r].kind = reminders[r].kind /\ reminders'[r].freq = reminders[r].freq
         /\ \/ reminders'[r].sent
            \/ /\ IsKey(DueKey(reminders'[r]))
               /\ Sooner(DueKey(job[j].todo[r]), DueKey(reminders'[r]))
<1> DEFINE read == job[j].todo[r]
           new  == IF read.kind = "PAYMENT" THEN Advanced(read) ELSE [read EXCEPT !.sent = TRUE]
<1>1. Read(j, r)
  BY SendingIs
<1>2. /\ IsReminder(read) /\ read.due \in Nat
      /\ read.kind = reminders[r].kind /\ read.freq = reminders[r].freq
  BY <1>1 DEF Read
<1>3. reminders' = [reminders EXCEPT ![r] = new]
  BY DEF Save
<1>4. /\ IsReminder(Advanced(read)) /\ Advanced(read).kind = read.kind
      /\ Advanced(read).freq = read.freq /\ Advanced(read).due \in Nat
      /\ Advanced(read).sent = FALSE /\ IsKey(DueKey(Advanced(read)))
      /\ Sooner(DueKey(read), DueKey(Advanced(read)))
  BY <1>1, ReadIsDated
<1> HIDE DEF read
<1>5. /\ IsReminder(new) /\ new.due \in Nat /\ new.sent \in BOOLEAN
      /\ new.kind = read.kind /\ new.freq = read.freq
      /\ new.sent \/ (IsKey(DueKey(new)) /\ Sooner(DueKey(read), DueKey(new)))
  <2>1. CASE read.kind = "PAYMENT"
    BY <1>4, <2>1
  <2>2. CASE read.kind # "PAYMENT"
    <3>1. new = [kind |-> read.kind, freq |-> read.freq, due |-> read.due, status |-> read.status,
                 sent |-> TRUE]
      BY <1>2, <2>2 DEF IsReminder
    <3> HIDE DEF new
    <3> QED  BY <1>2, <3>1 DEF IsReminder
  <2> QED  BY <2>1, <2>2
<1> HIDE DEF new
<1>6. reminders'[r] = new /\ \A q \in Rems \ {r} : reminders'[q] = reminders[q]
  BY <1>3 DEF ReminderInv, ReminderTyped
<1>7. reminders' = [q \in Rems |-> reminders'[q]]
  BY <1>3 DEF ReminderInv, ReminderTyped
<1> QED  BY <1>2, <1>5, <1>6, <1>7 DEF read

LEMMA SaveSound ==
  ASSUME ReminderInv, NEW j \in Jobs, NEW r \in Rems, Save(j, r)
  PROVE  ReminderInv'
<1>1. r \in DOMAIN job[j].todo /\ job[j].sending = r /\ r # None
  BY ReminderAssumption DEF Save, ReminderInv, ReminderTyped
<1>2. job' = [job EXCEPT ![j] = [left |-> job[j].left, todo |-> Rest(job[j].todo, r), sending |-> None]]
  BY DEF Save, Rest
<1>3. /\ \A i \in Jobs \ {j} : job'[i] = job[i]
      /\ job' = [job EXCEPT ![j] = job'[j]] /\ job'[j].sending = None
      /\ job'[j] = [left |-> job'[j].left, todo |-> job'[j].todo, sending |-> job'[j].sending]
      /\ DOMAIN job'[j].todo = DOMAIN job[j].todo \ {r}
      /\ \A q \in DOMAIN job'[j].todo : job'[j].todo[q] = job[j].todo[q]
      /\ ~overlap => \A m : ~Pending(m)'
  BY <1>1, <1>2, TurnOver
<1>4. /\ \A q \in Rems \ {r} : reminders'[q] = reminders[q]
      /\ reminders' = [q \in Rems |-> reminders'[q]]
      /\ IsReminder(reminders'[r])
      /\ reminders'[r].due \in Nat /\ reminders'[r].sent \in BOOLEAN
      /\ reminders'[r].kind = reminders[r].kind /\ reminders'[r].freq = reminders[r].freq
      /\ \/ reminders'[r].sent
         \/ /\ IsKey(DueKey(reminders'[r]))
            /\ Sooner(DueKey(job[j].todo[r]), DueKey(reminders'[r]))
  BY <1>1, SavedIs
<1>5. ReminderTyped'
  <2>1. \A i \in Jobs : DOMAIN job'[i].todo \subseteq DOMAIN job[i].todo
    BY <1>3
  <2>2. \A i \in Jobs : \A q \in DOMAIN job'[i].todo : Read(i, q)'
    <3> SUFFICES ASSUME NEW i \in Jobs, NEW q \in DOMAIN job'[i].todo  PROVE Read(i, q)'
      OBVIOUS
    <3>1. Read(i, q) /\ job'[i].todo[q] = job[i].todo[q] /\ q \in Rems
      BY <1>3, <2>1, SendingIs
    <3>2. reminders'[q].kind = reminders[q].kind /\ reminders'[q].freq = reminders[q].freq
      BY <1>4, <3>1
    <3> QED  BY <3>1, <3>2 DEF Read
  <2>3. \A q \in Rems : /\ IsReminder(reminders'[q])
                        /\ reminders'[q].due \in Nat /\ reminders'[q].sent \in BOOLEAN
    BY <1>4 DEF ReminderInv, ReminderTyped
  <2>4. job' = [i \in Jobs |-> [left |-> job'[i].left, todo |-> job'[i].todo,
                                sending |-> job'[i].sending]]
    BY <1>3 DEF ReminderInv, ReminderTyped
  <2>5. \A i \in Jobs : job'[i].sending \in DOMAIN job'[i].todo \cup {None}
    BY <1>3 DEF ReminderInv, ReminderTyped
  <2>6. day' \in Clock
    BY DEF Save, ReminderInv, ReminderTyped
  <2>7. reminders' = [q \in Rems |-> reminders'[q]]
    BY <1>4
  <2> QED  BY <2>2, <2>3, <2>4, <2>5, <2>6, <2>7 DEF ReminderTyped
<1>6. ASSUME ~overlap  PROVE (AloneAtWork /\ ReadLast /\ Accounted)'
  <2>1. AloneAtWork /\ ReadLast /\ Accounted /\ job[j] # Idle
    BY <1>1, <1>6, SendingIs DEF ReminderInv
  <2>2. AloneAtWork'
    BY <1>3, <2>1 DEF AloneAtWork
  <2>3. ReadLast'
    <3>1. \A i \in Jobs \ {j} : DOMAIN job'[i].todo = {}
      BY <1>3, <1>6, <2>1, OthersWait
    <3>2. \A q \in DOMAIN job'[j].todo : q \in Rems \ {r} /\ q \in DOMAIN job[j].todo
      BY <1>3, SendingIs
    <3>3. \A q \in DOMAIN job'[j].todo :
            job'[j].todo[q].due = reminders'[q].due /\ reminders'[q].sent = FALSE
      BY <1>3, <1>4, <2>1, <3>2 DEF ReadLast
    <3> QED  BY <3>1, <3>3 DEF ReadLast
  <2>4. /\ Mark(j, r) = <<r, DueKey(job[j].todo[r])>> /\ IsKey(DueKey(job[j].todo[r]))
        /\ DueKey(reminders[r]) = DueKey(job[j].todo[r]) /\ reminders[r].sent = FALSE
    BY <1>1, <1>6, SendingIs
  <2>5. \A m : Pending(m) => Saved(m, r)'
    <3> SUFFICES ASSUME NEW m, Pending(m)  PROVE Saved(m, r)'
      OBVIOUS
    <3>1. m = <<r, DueKey(job[j].todo[r])>>
      BY <1>1, <1>6, <2>1, <2>4, OnlyPending
    <3>2. m = <<r, m[2]>> /\ m[2] = DueKey(job[j].todo[r])
      BY <3>1
    <3> QED  BY <1>4, <2>4, <3>2 DEF Saved
  <2>6. \A m : Saved(m, r) => Saved(m, r)'
    <3> SUFFICES ASSUME NEW m, Saved(m, r)  PROVE Saved(m, r)'
      OBVIOUS
    <3>1. m = <<r, m[2]>> /\ IsKey(m[2]) /\ Sooner(m[2], DueKey(job[j].todo[r]))
      BY <2>4 DEF Saved
    <3>2. CASE reminders'[r].sent
      BY <3>1, <3>2 DEF Saved
    <3>3. CASE IsKey(DueKey(reminders'[r])) /\ Sooner(DueKey(job[j].todo[r]), DueKey(reminders'[r]))
      <4>1. Sooner(m[2], DueKey(reminders'[r]))
        BY <2>4, <3>1, <3>3, SoonerIsTransitive
      <4> QED  BY <3>1, <4>1 DEF Saved, DueKey, Frequency
    <3> QED  BY <1>4, <3>2, <3>3
  <2>7. \A m : \A q \in Rems \ {r} : Saved(m, q) => Saved(m, q)'
    BY <1>4 DEF Saved, DueKey, Frequency
  <2>8. \A m, q : Saved(m, q) => q \in Rems
    BY DEF Saved
  <2>9. tally' = tally /\ \A i \in Jobs : job'[i].sending = None
    BY <1>3, <1>6, <2>1, OthersWait DEF Save
  <2>10. \A m \in DOMAIN tally' : /\ tally'[m] \in {0, 1}
                                  /\ tally'[m] = 1 => \E q : Saved(m, q)'
    BY <2>1, <2>5, <2>6, <2>7, <2>8, <2>9 DEF Accounted
  <2>11. tally' = [m \in DOMAIN tally' |-> tally'[m]]
    BY <2>1, <2>9 DEF Accounted
  <2> QED  BY <2>2, <2>3, <2>9, <2>10, <2>11 DEF Accounted
<1> QED  BY <1>5, <1>6 DEF ReminderInv, Save

LEMMA SaveFailsSound ==
  ASSUME ReminderInv, NEW j \in Jobs, NEW r \in Rems, SaveFails(j, r)
  PROVE  ReminderInv'
<1>1. r \in DOMAIN job[j].todo /\ job[j].sending = r /\ r # None
  BY ReminderAssumption DEF SaveFails, ReminderInv, ReminderTyped
<1>2. job' = [job EXCEPT ![j] = [left |-> job[j].left, todo |-> Rest(job[j].todo, r), sending |-> None]]
  BY DEF SaveFails
<1>3. /\ \A i \in Jobs \ {j} : job'[i] = job[i]
      /\ job' = [job EXCEPT ![j] = job'[j]] /\ job'[j].sending = None
      /\ job'[j] = [left |-> job'[j].left, todo |-> job'[j].todo, sending |-> job'[j].sending]
      /\ DOMAIN job'[j].todo = DOMAIN job[j].todo \ {r}
      /\ \A q \in DOMAIN job'[j].todo : job'[j].todo[q] = job[j].todo[q]
      /\ ~overlap => \A m : ~Pending(m)'
  BY <1>1, <1>2, TurnOver
<1>4. ReminderTyped'
  <2>1. \A q \in DOMAIN job'[j].todo : Read(j, q)'
    <3> SUFFICES ASSUME NEW q \in DOMAIN job'[j].todo  PROVE Read(j, q)'
      OBVIOUS
    <3>1. Read(j, q) /\ job'[j].todo[q] = job[j].todo[q] /\ reminders' = reminders
      BY <1>3, SendingIs DEF SaveFails
    <3> QED  BY <3>1 DEF Read
  <2> QED  BY <1>3, <2>1, JobStepped DEF SaveFails
<1>5. ASSUME ~overlap  PROVE (AloneAtWork /\ ReadLast /\ Accounted)'
  <2>1. AloneAtWork /\ ReadLast /\ Accounted /\ job[j] # Idle
    BY <1>1, <1>5, SendingIs DEF ReminderInv
  <2>2. AloneAtWork'
    BY <1>3, <2>1 DEF AloneAtWork
  <2>3. ReadLast'
    BY <1>3, <2>1 DEF ReadLast, SaveFails
  <2>4. PICK k : k = Mark(j, r)
    OBVIOUS
  <2>5. k \in DOMAIN tally /\ tally[k] = 1
    BY <1>1, <2>1, <2>4 DEF Accounted
  <2>6. tally' = [tally EXCEPT ![k] = 0]
    BY <2>4, <2>5 DEF SaveFails
  <2>7. \A m : Pending(m) => m = k
    BY <1>1, <1>5, <2>1, <2>4, OnlyPending
  <2>8. \A m, q : Saved(m, q) => Saved(m, q)'
    BY DEF Saved, DueKey, SaveFails
  <2>9. \A i \in Jobs : job'[i].sending = None
    BY <1>3, <1>5, <2>1, OthersWait
  <2>10. \A m \in DOMAIN tally' : /\ tally'[m] \in {0, 1}
                                  /\ tally'[m] = 1 => \E q : Saved(m, q)'
    BY <2>1, <2>5, <2>6, <2>7, <2>8 DEF Accounted
  <2>11. tally' = [m \in DOMAIN tally' |-> tally'[m]]
    BY <2>1, <2>6 DEF Accounted
  <2> QED  BY <2>2, <2>3, <2>9, <2>10, <2>11 DEF Accounted
<1> QED  BY <1>4, <1>5 DEF ReminderInv, SaveFails

LEMMA RestartSound ==
  ASSUME ReminderInv, Restart
  PROVE  ReminderInv'
<1>1. job' = [i \in Jobs |-> Idle] /\ DOMAIN Idle.todo = {} /\ Idle.sending = None
  BY DEF Restart, Idle
<1>2. job' = [i \in Jobs |-> [left |-> job'[i].left, todo |-> job'[i].todo,
                              sending |-> job'[i].sending]]
  BY <1>1 DEF Idle
<1>3. ReminderTyped'
  BY <1>1, <1>2 DEF Restart, ReminderInv, ReminderTyped, Read
<1>4. ASSUME ~overlap  PROVE (AloneAtWork /\ ReadLast /\ Accounted)'
  <2>1. Accounted
    BY <1>4 DEF ReminderInv
  <2>2. (AloneAtWork /\ ReadLast)'
    BY <1>1 DEF AloneAtWork, ReadLast
  <2>3. tally' = [m \in DOMAIN tally |-> tally[m] - Cardinality(Unsaved(m))]
    BY DEF Restart
  <2>4. \A m, q : Saved(m, q) => Saved(m, q)'
    BY DEF Saved, DueKey, Restart
  <2>5. ASSUME NEW m \in DOMAIN tally
        PROVE  /\ tally'[m] \in {0, 1}
               /\ tally'[m] = 1 => \E q : Saved(m, q)'
    <3>1. CASE Unsaved(m) = {}
      <4>1. tally'[m] = tally[m] /\ ~Pending(m)
        BY <2>1, <2>3, <3>1, FS_EmptySet DEF Unsaved, Pending, Accounted
      <4> QED  BY <2>1, <2>4, <4>1 DEF Accounted
    <3>2. ASSUME NEW i \in Unsaved(m)
          PROVE  /\ tally'[m] \in {0, 1}
                 /\ tally'[m] = 1 => \E q : Saved(m, q)'
      <4>1. i \in Jobs /\ job[i].sending # None /\ m = Mark(i, job[i].sending)
        BY DEF Unsaved
      <4>2. tally[m] = 1
        BY <2>1, <4>1 DEF Accounted
      <4>3. \A l \in Jobs \ {i} : job[l].sending = None
        BY <1>1, <1>4, <4>1, OthersWait
      <4>4. Unsaved(m) = {i}
        BY <4>1, <4>3 DEF Unsaved
      <4>5. Cardinality(Unsaved(m)) = 1
        BY <4>4, FS_Singleton
      <4>6. tally'[m] = 0
        BY <2>3, <4>2, <4>5
      <4> QED  BY <4>6
    <3> QED  BY <3>1, <3>2
  <2>6. DOMAIN tally' = DOMAIN tally /\ tally' = [m \in DOMAIN tally' |-> tally'[m]]
    BY <2>3
  <2>7. \A i \in Jobs : job'[i].sending = None
    BY <1>1
  <2> QED  BY <2>2, <2>5, <2>6, <2>7 DEF Accounted
<1> QED  BY <1>3, <1>4 DEF ReminderInv, Restart

LEMMA ReminderStepSound ==
  ASSUME ReminderInv, [ReminderStep]_reminderVars
  PROVE  ReminderInv'
<1>1. ASSUME NEW j \in Jobs, StartJob(j)  PROVE ReminderInv'
  BY <1>1, StartJobSound
<1>2. ASSUME NEW j \in Jobs, JobStep(j)  PROVE ReminderInv'
  <2>1. CASE ReadOrg(j)
    BY <2>1, ReadOrgSound
  <2>2. CASE ReadFails(j)
    BY <2>2, ReadFailsSound
  <2>3. ASSUME NEW r \in Rems, Send(j, r)  PROVE ReminderInv'
    BY <2>3, SendSound
  <2>4. ASSUME NEW r \in Rems, SendFails(j, r)  PROVE ReminderInv'
    BY <2>4, SendFailsSound
  <2>5. ASSUME NEW r \in Rems, Save(j, r)  PROVE ReminderInv'
    BY <2>5, SaveSound
  <2>6. ASSUME NEW r \in Rems, SaveFails(j, r)  PROVE ReminderInv'
    BY <2>6, SaveFailsSound
  <2> QED  BY <1>2, <2>1, <2>2, <2>3, <2>4, <2>5, <2>6 DEF JobStep
<1>3. CASE Restart
  BY <1>3, RestartSound
<1>4. CASE NextDay
  BY <1>4, NextDaySound
<1>5. ASSUME NEW r \in Rems, Dismiss(r)  PROVE ReminderInv'
  BY <1>5, DismissSound
<1>6. ASSUME UNCHANGED <<day, reminders, job, overlap, tally>>  PROVE ReminderInv'
  BY <1>6, WorldSound DEF ReminderInv, ReminderTyped
<1>7. ASSUME NEW r \in Rems, Paid(r)  PROVE ReminderInv'
  BY <1>6, <1>7 DEF Paid
<1>8. ASSUME NEW o \in Orgs, SwitchOff(o)  PROVE ReminderInv'
  BY <1>6, <1>8 DEF SwitchOff
<1>9. CASE UNCHANGED reminderVars
  BY <1>6, <1>9 DEF reminderVars
<1> QED  BY <1>1, <1>2, <1>3, <1>4, <1>5, <1>7, <1>8, <1>9 DEF ReminderStep

\* Unless two jobs overlap, a customer gets at most one message for a period of
\* a reminder (processOneOrg), however jobs, days, edits, failures and restarts
\* follow each other.
THEOREM OnceEach == ReminderSpec => []OncePerPeriod
<1>1. ReminderInit => ReminderInv
  BY ReminderInitSound
<1>2. ReminderInv /\ [ReminderStep]_reminderVars => ReminderInv'
  BY ReminderStepSound
<1>3. ReminderInv => OncePerPeriod
  BY DEF ReminderInv, Accounted, OncePerPeriod
<1> QED  BY <1>1, <1>2, <1>3, PTL DEF ReminderSpec

\* The job moves a payment reminder on by exactly one of its periods
\* (advancePaymentReminderAfterSend), wherever in a month or week it was due.
THEOREM OnePeriodOn == ReminderSpec => AdvancesOnePeriod
<1> DEFINE MovesOn ==
      \A j \in Jobs, r \in Rems :
        Save(j, r) /\ reminders[r].kind = "PAYMENT" =>
          LET before == job[j].todo[r]  freq == Frequency(before)
              after  == reminders'[r].due IN
          /\ Period(after, freq) = Period(before.due, freq) + 1
          /\ PeriodKey(after, freq) # PeriodKey(before.due, freq)
<1>1. ReminderInit => ReminderInv
  BY ReminderInitSound
<1>2. ReminderInv /\ [ReminderStep]_reminderVars => ReminderInv'
  BY ReminderStepSound
<1>3. ReminderInv => MovesOn
  <2> SUFFICES ASSUME ReminderInv, NEW j \in Jobs, NEW r \in Rems,
                      Save(j, r), reminders[r].kind = "PAYMENT"
               PROVE  LET before == job[j].todo[r]  freq == Frequency(before)
                          after  == reminders'[r].due IN
                      /\ Period(after, freq) = Period(before.due, freq) + 1
                      /\ PeriodKey(after, freq) # PeriodKey(before.due, freq)
    BY Zenon
  <2> DEFINE before == job[j].todo[r]
             freq == Frequency(before)
  <2>1. r \in DOMAIN job[j].todo /\ Read(j, r)
    BY ReminderAssumption DEF Save, ReminderInv, ReminderTyped
  <2>2. /\ before.due \in Nat /\ before.due < YearStart(2029) /\ before.kind = "PAYMENT"
        /\ Advanced(before).due = NextDueDate(before.due, freq)
    <3>1. Advanced(before).due = NextDueDate(before.due, freq)
      BY <2>1, ReadIsDated
    <3>2. before.due \in Nat /\ before.due < YearStart(2029) /\ before.kind = reminders[r].kind
      BY <2>1 DEF Read
    <3> QED  BY <3>1, <3>2
  <2>3. reminders' = [reminders EXCEPT ![r] = Advanced(before)]
    BY <2>2 DEF Save
  <2>4. reminders'[r].due = NextDueDate(before.due, freq)
    BY <2>2, <2>3 DEF ReminderInv, ReminderTyped
  <2> HIDE DEF before, freq
  <2>5. /\ Period(NextDueDate(before.due, freq), freq) = Period(before.due, freq) + 1
        /\ IsKey(PeriodKey(before.due, freq))
        /\ Sooner(PeriodKey(before.due, freq), PeriodKey(NextDueDate(before.due, freq), freq))
    BY <2>2, NextIsLater
  <2>6. PeriodKey(NextDueDate(before.due, freq), freq) # PeriodKey(before.due, freq)
    BY <2>5, SoonerIsStrict
  <2> QED  BY <2>4, <2>5, <2>6 DEF before, freq
<1>4. ReminderInv => [MovesOn]_reminderVars
  BY <1>3
<1> QED  BY <1>1, <1>2, <1>4, PTL DEF ReminderSpec, AdvancesOnePeriod

-----------------------------------------------------------------------------
(***************************************************************************)
(* The company targets.  The periods of a year are runs of its months, of  *)
(* which a day is in exactly one.                                          *)
(***************************************************************************)

LEMMA FirstsGrow ==
  ASSUME NEW k, NEW l, Numbered(k), Numbered(l), k <= l
  PROVE  First(k) <= First(l)
<1>1. CASE k = l
  BY <1>1, MonthLength
<1>2. CASE k < l
  <2>1. First(k + 1) <= First(l) /\ First(k) + 28 <= First(k + 1)
    BY <1>2, FirstInOrder, MonthLength
  <2>2. First(k) \in Nat /\ First(k + 1) \in Nat /\ First(l) \in Nat
    BY MonthLength
  <2> QED  BY <2>1, <2>2
<1> QED  BY <1>1, <1>2 DEF Numbered

\* The first and the last day of the months from a up to b of a year.
LEMMA BoundsIs ==
  ASSUME NEW y \in Whole, NEW a \in Nat, NEW b \in Nat, a < b, b <= 12
  PROVE  /\ DayNo(y, a, 1) = First(12 * y + a)
         /\ DayNo(y, b - 1, LastDayOfMonth(y, b - 1)) = First(12 * y + b) - 1
<1> DEFINE k == 12 * y + (b - 1)
<1>1. Numbered(12 * y + a) /\ Numbered(k) /\ k + 1 = 12 * y + b
  BY DEF Numbered, Whole
<1>2. First(12 * y + a) \in Nat /\ First(k) \in Nat /\ First(k + 1) \in Nat
  BY <1>1, MonthLength
<1>3. DayNo(y, a, 1) = First(12 * y + a) + 1 - 1
  BY DayNoIs DEF Whole
<1>4. LastDayOfMonth(y, b - 1) = First(k + 1) - First(k)
  <2>1. DayNo(y, b - 1, 1) = First(k) + 1 - 1
    BY DayNoIs DEF Whole
  <2>2. DayNo(y, (b - 1) + 1, 0) = First(12 * y + ((b - 1) + 1)) + 0 - 1
    BY DayNoIs DEF Whole
  <2>3. 12 * y + ((b - 1) + 1) = k + 1
    BY DEF Whole
  <2> HIDE DEF k
  <2> QED  BY <1>2, <2>1, <2>2, <2>3 DEF LastDayOfMonth
<1>5. DayNo(y, b - 1, LastDayOfMonth(y, b - 1)) = First(k) + LastDayOfMonth(y, b - 1) - 1
  BY DayNoIs DEF Whole
<1> HIDE DEF k
<1> QED  BY <1>1, <1>2, <1>3, <1>4, <1>5

PeriodLengths == {"MONTHLY", "QUARTERLY", "HALF_YEARLY", "YEARLY"}

LEMMA PeriodsAre ==
  ASSUME NEW y \in Whole, NEW type \in PeriodLengths
  PROVE  /\ MonthsOf(type) \in {1, 3, 6, 12}
         /\ PeriodsForYear(y, type) = {Run(12 * y + n * MonthsOf(type), MonthsOf(type)) :
                                         n \in 0..(12 \div MonthsOf(type) - 1)}
<1>1. PICK w : w = MonthsOf(type)
  OBVIOUS
<1>2. w \in {1, 3, 6, 12}
  BY <1>1 DEF MonthsOf, PeriodLengths
<1>3. ASSUME NEW n \in 0..(12 \div w - 1)
      PROVE  <<DayNo(y, n * w, 1), DayNo(y, (n + 1) * w - 1, LastDayOfMonth(y, (n + 1) * w - 1))>>
               = Run(12 * y + n * w, w)
  <2>1. PICK a : a = n * w
    OBVIOUS
  <2>2. PICK b : b = (n + 1) * w
    OBVIOUS
  <2>3. a \in Nat /\ b \in Nat /\ b = a + w /\ a < b /\ b <= 12
    BY <1>2, <2>1, <2>2
  <2>4. (12 * y + a) + w = 12 * y + b
    BY <1>2, <2>3 DEF Whole
  <2> QED  BY <2>1, <2>2, <2>3, <2>4, BoundsIs DEF Run
<1> QED  BY <1>1, <1>2, <1>3 DEF PeriodsForYear

\* The period that a day of the year is in.
PeriodIn(y, d, w) == Run(12 * y + ((MonthNo(d) - 12 * y) \div w) * w, w)

LEMMA InOnePeriod ==
  ASSUME NEW y \in Whole, NEW type \in PeriodLengths, NEW d \in Nat
  PROVE  /\ YearStart(y) <= d /\ d < YearStart(y + 1) =>
              /\ PeriodIn(y, d, MonthsOf(type)) \in PeriodsForYear(y, type)
              /\ \A p \in PeriodsForYear(y, type) :
                   d \in p[1]..p[2] <=> p = PeriodIn(y, d, MonthsOf(type))
         /\ \A p \in PeriodsForYear(y, type) :
              d \in p[1]..p[2] => YearStart(y) <= d /\ d < YearStart(y + 1)
<1>1. PICK w : w = MonthsOf(type)
  OBVIOUS
<1>2. /\ w \in {1, 3, 6, 12}
      /\ PeriodsForYear(y, type) = {Run(12 * y + n * w, w) : n \in 0..(12 \div w - 1)}
  BY <1>1, PeriodsAre
<1>3. YearStart(y) \in Nat /\ YearStart(y + 1) \in Nat /\ YearStart(y + 1) <= 3653
  BY YearsAreApart, YearsEnd
\* The months of a period.
<1>4. ASSUME NEW n \in 0..(12 \div w - 1)
      PROVE  \E a \in Nat : /\ a = n * w /\ a + w <= 12
                            /\ Numbered(12 * y + a) /\ Numbered((12 * y + a) + (w - 1))
                            /\ First(12 * y + a) \in Nat /\ First((12 * y + a) + w) \in Nat
                            /\ YearStart(y) <= First(12 * y + a)
                            /\ First((12 * y + a) + w) <= YearStart(y + 1)
  <2>1. PICK a : a = n * w
    OBVIOUS
  <2>2. a \in Nat /\ a + w <= 12
    BY <1>2, <2>1
  <2>3. PICK k : k = 12 * y + a
    OBVIOUS
  <2>4. PICK l : l = k + (w - 1)
    OBVIOUS
  <2>5. /\ Numbered(k) /\ Numbered(l) /\ l + 1 = k + w
        /\ k \div 12 = y /\ l \div 12 = y
    BY <1>2, <2>2, <2>3, <2>4 DEF Numbered, Whole
  <2>6. /\ First(k) \in Nat /\ First(l + 1) \in Nat
        /\ YearStart(y) <= First(k) /\ First(l + 1) <= YearStart(y + 1)
    BY <2>5, MonthLength
  <2> QED  BY <2>1, <2>2, <2>3, <2>4, <2>5, <2>6
<1>5. ASSUME NEW p \in PeriodsForYear(y, type), d \in p[1]..p[2]
      PROVE  YearStart(y) <= d /\ d < YearStart(y + 1)
  <2>1. PICK n \in 0..(12 \div w - 1) : p = Run(12 * y + n * w, w)
    BY <1>2
  <2>2. PICK a \in Nat : /\ a = n * w
                         /\ First(12 * y + a) \in Nat /\ First((12 * y + a) + w) \in Nat
                         /\ YearStart(y) <= First(12 * y + a)
                         /\ First((12 * y + a) + w) <= YearStart(y + 1)
    BY <1>4
  <2>3. p[1] = First(12 * y + a) /\ p[2] = First((12 * y + a) + w) - 1
    BY <2>1, <2>2 DEF Run
  <2> QED  BY <1>3, <1>5, <2>2, <2>3
<1>6. ASSUME YearStart(y) <= d, d < YearStart(y + 1)
      PROVE  /\ PeriodIn(y, d, w) \in PeriodsForYear(y, type)
             /\ \A p \in PeriodsForYear(y, type) : d \in p[1]..p[2] <=> p = PeriodIn(y, d, w)
  <2>1. d \in AllDays /\ y = YearOf(d)
    BY <1>3, <1>6, YearsAreApart, YearOfIs
  <2>2. PICK m : m = MonthOf(d)
    OBVIOUS
  <2>3. /\ m \in 0..11 /\ MonthNo(d) = 12 * y + m /\ Numbered(12 * y + m)
        /\ First(12 * y + m) <= d /\ d < First((12 * y + m) + 1)
        /\ First(12 * y + m) \in Nat /\ First((12 * y + m) + 1) \in Nat
    BY <2>1, <2>2, MonthIs, MonthLength DEF MonthNo
  <2>4. PICK n : n = m \div w
    OBVIOUS
  <2>5. n \in 0..(12 \div w - 1) /\ n * w <= m /\ m <= n * w + (w - 1)
    BY <1>2, <2>3, <2>4
  <2>6. PeriodIn(y, d, w) = Run(12 * y + n * w, w)
    <3>1. (12 * y + m) - 12 * y = m
      BY <2>3 DEF Whole
    <3> QED  BY <2>3, <2>4, <3>1 DEF PeriodIn
  <2>7. PICK a \in Nat : /\ a = n * w /\ a + w <= 12
                         /\ Numbered(12 * y + a) /\ Numbered((12 * y + a) + (w - 1))
                         /\ First(12 * y + a) \in Nat /\ First((12 * y + a) + w) \in Nat
    BY <1>4, <2>5
  <2>8. d \in First(12 * y + a)..(First((12 * y + a) + w) - 1)
    <3>1. First(12 * y + a) <= First(12 * y + m)
      BY <2>3, <2>5, <2>7, FirstsGrow DEF Whole
    <3>2. First((12 * y + m) + 1) <= First((12 * y + a) + w)
      <4>1. PICK k : k = 12 * y + m
        OBVIOUS
      <4>2. PICK l : l = (12 * y + a) + (w - 1)
        OBVIOUS
      <4>3. Numbered(k) /\ Numbered(l) /\ k <= l /\ l + 1 = (12 * y + a) + w
        BY <1>2, <2>3, <2>5, <2>7, <4>1, <4>2 DEF Whole
      <4>4. CASE k = l
        BY <2>7, <4>1, <4>3, <4>4
      <4>5. CASE k < l
        <5>1. First(k + 1) <= First(l) /\ First(l) + 28 <= First(l + 1)
          BY <4>3, <4>5, FirstInOrder, MonthLength
        <5>2. First(k + 1) \in Nat /\ First(l) \in Nat /\ First(l + 1) \in Nat
          BY <4>3, MonthLength
        <5> QED  BY <4>1, <4>3, <5>1, <5>2
      <4> QED  BY <4>3, <4>4, <4>5 DEF Numbered
    <3> QED  BY <2>3, <2>7, <3>1, <3>2
  <2>9. ASSUME NEW o \in 0..(12 \div w - 1),
               d \in First(12 * y + o * w)..(First((12 * y + o * w) + w) - 1)
        PROVE  o = n
    <3>1. PICK b \in Nat : /\ b = o * w /\ b + w <= 12
                           /\ Numbered(12 * y + b) /\ Numbered((12 * y + b) + (w - 1))
                           /\ First(12 * y + b) \in Nat /\ First((12 * y + b) + w) \in Nat
      BY <1>4
    <3>2. First(12 * y + b) <= d /\ d < First((12 * y + b) + w)
      BY <2>9, <3>1
    <3>3. ASSUME m < b  PROVE FALSE
      <4>1. First((12 * y + m) + 1) <= First(12 * y + b)
        <5>1. 12 * y + m < 12 * y + b
          BY <2>3, <3>1, <3>3 DEF Whole
        <5> QED  BY <2>3, <3>1, <5>1, FirstInOrder
      <4> QED  BY <2>3, <3>1, <3>2, <4>1
    <3>4. ASSUME b + w <= m  PROVE FALSE
      <4>1. PICK k : k = (12 * y + b) + w
        OBVIOUS
      <4>2. Numbered(k) /\ k <= 12 * y + m
        BY <1>2, <2>3, <3>1, <3>4, <4>1 DEF Numbered, Whole
      <4>3. First(k) <= First(12 * y + m)
        BY <2>3, <4>2, FirstsGrow
      <4> QED  BY <2>3, <3>1, <3>2, <4>1, <4>3
    <3>5. o * w <= m /\ m < o * w + w
      BY <1>2, <2>3, <3>1, <3>3, <3>4
    <3> QED  BY <1>2, <2>3, <2>4, <3>5
  <2>10. /\ Run(12 * y + n * w, w)[1] = First(12 * y + a)
         /\ Run(12 * y + n * w, w)[2] = First((12 * y + a) + w) - 1
    BY <2>7 DEF Run
  <2> QED  BY <1>2, <2>5, <2>6, <2>8, <2>9, <2>10 DEF Run
<1> QED  BY <1>1, <1>5, <1>6

Sale == [day : SaleDays, total : SaleTotals, status : Statuses]
Sales == Seq(Sale)

IncentiveInv ==
  /\ sales \in Sales /\ working \subseteq Crew
  /\ targets \in TargetPlans /\ period \in PeriodTypes

LEMMA SalesStayTyped ==
  ASSUME sales \in Sales, NEW i \in DOMAIN sales, NEW s \in Statuses,
         sales' = [sales EXCEPT ![i].status = s]
  PROVE  /\ sales' \in Sales /\ DOMAIN sales' = DOMAIN sales
         /\ \A k \in DOMAIN sales \ {i} : sales'[k] = sales[k]
         /\ sales'[i].day = sales[i].day /\ sales'[i].total = sales[i].total
         /\ sales'[i].status = s
<1>1. PICK sale : sale = [sales[i] EXCEPT !.status = s]
  OBVIOUS
<1>2. /\ sale \in Sale
      /\ sale.day = sales[i].day /\ sale.total = sales[i].total /\ sale.status = s
  <2>1. sales[i] \in Sale
    BY DEF Sales
  <2>2. sale = [day |-> sales[i].day, total |-> sales[i].total, status |-> s]
    BY <1>1, <2>1 DEF Sale
  <2> QED  BY <2>1, <2>2 DEF Sale
<1>3. sales' = [sales EXCEPT ![i] = sale]
  BY <1>1
<1>4. sales' \in Sales /\ DOMAIN sales' = DOMAIN sales
  <2>1. i \in 1..Len(sales) /\ sales \in Seq(Sale)
    BY DEF Sales
  <2> QED  BY <1>2, <1>3, <2>1, ExceptSeq DEF Sales
<1>5. sales'[i] = sale /\ \A k \in DOMAIN sales \ {i} : sales'[k] = sales[k]
  BY <1>3 DEF Sales
<1> QED  BY <1>2, <1>4, <1>5

LEMMA IncentiveSound ==
  /\ IncentiveInit => IncentiveInv
  /\ IncentiveInv /\ [IncentiveStep]_incentiveVars => IncentiveInv'
<1>1. IncentiveInit => IncentiveInv
  BY DEF IncentiveInit, IncentiveInv, Sales
<1>2. ASSUME IncentiveInv, Sell  PROVE IncentiveInv'
  <2>1. PICK d \in SaleDays, a \in SaleTotals, s \in {"DRAFT", "ISSUED"} :
          sales' = Append(sales, [day |-> d, total |-> a, status |-> s])
    BY <1>2 DEF Sell
  <2>2. [day |-> d, total |-> a, status |-> s]
          \in Sale
    BY <2>1 DEF Sale, Statuses
  <2>3. sales' \in Sales
    BY <1>2, <2>1, <2>2 DEF IncentiveInv, Sales
  <2> QED  BY <1>2, <2>3 DEF IncentiveInv, Sell
<1>3. ASSUME IncentiveInv, Settle  PROVE IncentiveInv'
  <2>1. PICK i \in DOMAIN sales, s \in Statuses : sales' = [sales EXCEPT ![i].status = s]
    BY <1>3 DEF Settle, Statuses
  <2> QED  BY <1>3, <2>1, SalesStayTyped DEF IncentiveInv, Settle
<1>4. ASSUME IncentiveInv, Cancel  PROVE IncentiveInv'
  <2>1. PICK i \in DOMAIN sales : sales' = [sales EXCEPT ![i].status = "CANCELLED"]
    BY <1>4 DEF Cancel
  <2>2. "CANCELLED" \in Statuses
    BY DEF Statuses
  <2> QED  BY <1>4, <2>1, <2>2, SalesStayTyped DEF IncentiveInv, Cancel
<1>5. ASSUME IncentiveInv, SetWorking  PROVE IncentiveInv'
  BY <1>5 DEF SetWorking, IncentiveInv
<1>6. ASSUME IncentiveInv, UNCHANGED incentiveVars  PROVE IncentiveInv'
  BY <1>6 DEF incentiveVars, IncentiveInv
<1> QED  BY <1>1, <1>2, <1>3, <1>4, <1>5, <1>6 DEF IncentiveStep

Totals == [i \in DOMAIN sales |-> sales[i].total]

LEMMA EarningIs ==
  ASSUME IncentiveInv, NEW p
  PROVE  /\ IsFiniteSet(DOMAIN sales) /\ Earning(p) \subseteq DOMAIN sales /\ IsFiniteSet(Earning(p))
         /\ \A i \in DOMAIN sales : Totals[i] = sales[i].total /\ sales[i].total \in Nat
                                    /\ sales[i].day \in Nat
         /\ Revenue(p) = SumFunctionOnSet(Totals, Earning(p)) /\ Revenue(p) \in Nat
<1>1. IsFiniteSet(DOMAIN sales)
  BY FS_Interval DEF IncentiveInv, Sales
<1>2. Earning(p) \subseteq DOMAIN sales
  BY DEF Earning
<1>3. IsFiniteSet(Earning(p))
  BY <1>1, <1>2, FS_Subset
<1>4. \A i \in DOMAIN sales : Totals[i] = sales[i].total /\ sales[i].total \in Nat
                              /\ sales[i].day \in Nat
  <2> SUFFICES ASSUME NEW i \in DOMAIN sales
               PROVE  Totals[i] = sales[i].total /\ sales[i].total \in Nat /\ sales[i].day \in Nat
    OBVIOUS
  <2>1. sales[i] \in Sale
    BY DEF IncentiveInv, Sales
  <2>2. sales[i].total \in SaleTotals /\ sales[i].day \in SaleDays
    BY <2>1 DEF Sale
  <2>3. SaleTotals \subseteq Nat /\ SaleDays \subseteq Nat
    BY IncentiveAssumption
  <2>4. sales[i].total \in Nat /\ sales[i].day \in Nat
    BY <2>2, <2>3
  <2> QED  BY <2>4 DEF Totals
<1>5. Revenue(p) = SumFunctionOnSet(Totals, Earning(p))
  BY DEF Revenue, Totals
<1>6. Revenue(p) \in Nat
  <2>1. \A i \in Earning(p) : Totals[i] \in Nat
    BY <1>2, <1>4
  <2> QED  BY <1>3, <1>5, <2>1, SumIsNat
<1> QED  BY <1>1, <1>2, <1>3, <1>4, <1>5, <1>6

LEMMA PeriodsAreFew ==
  ASSUME NEW type \in PeriodLengths
  PROVE  IsFiniteSet(PeriodsOf[type])
<1>1. PICK w : w = MonthsOf(type)
  OBVIOUS
<1>2. PICK y : y = TargetYear
  OBVIOUS
<1>3. PeriodsOf[type] = PeriodsForYear(y, type) /\ y \in Whole
  BY <1>2, IncentiveAssumption DEF PeriodsOf, PeriodLengths, Whole, Epoch
<1>4. /\ w \in {1, 3, 6, 12}
      /\ PeriodsForYear(y, type) = {Run(12 * y + n * w, w) : n \in 0..(12 \div w - 1)}
  BY <1>1, <1>3, PeriodsAre
<1>5. PICK K : K = PeriodsForYear(y, type)
  OBVIOUS
<1>6. PICK N : N = 0..(12 \div w - 1)
  OBVIOUS
<1>7. IsFiniteSet(N)
  <2>1. 12 \div w - 1 \in Int
    BY <1>4
  <2> QED  BY <1>6, <2>1, FS_Interval
<1> DEFINE f == [n \in N |-> Run(12 * y + n * w, w)]
<1>8. f \in Surjection(N, K)
  BY <1>4, <1>5, <1>6 DEF Surjection
<1> QED  BY <1>3, <1>5, <1>7, <1>8, FS_Surjection

LEMMA RevenueAddsUp == IncentiveInv => RevenueCountedOnce
<1> SUFFICES ASSUME IncentiveInv, NEW type \in PeriodLengths
             PROVE  SumFunction([p \in PeriodsOf[type] |-> Revenue(p)])
                      = Revenue(<<YearStart(TargetYear), YearStart(TargetYear + 1) - 1>>)
  BY DEF RevenueCountedOnce, PeriodsOf, PeriodLengths
<1>1. PICK y : y = TargetYear
  OBVIOUS
<1>2. PICK K : K = PeriodsForYear(y, type)
  OBVIOUS
<1>3. K = PeriodsOf[type] /\ y \in Whole
  BY <1>1, <1>2, IncentiveAssumption DEF PeriodsOf, PeriodLengths, Whole, Epoch
<1>4. PICK w : w = MonthsOf(type)
  OBVIOUS
<1>5. IsFiniteSet(K)
  BY <1>3, PeriodsAreFew
<1>6. PICK year : year = <<YearStart(y), YearStart(y + 1) - 1>>
  OBVIOUS
<1>7. PICK S : S = Earning(year)
  OBVIOUS
<1>8. YearStart(y) \in Nat /\ YearStart(y + 1) \in Nat
  BY <1>3, YearsAreApart
<1>9. \A i \in S : YearStart(y) <= sales[i].day /\ sales[i].day < YearStart(y + 1)
  <2>1. \A i \in S : i \in DOMAIN sales /\ sales[i].day \in Nat
                     /\ sales[i].day \in YearStart(y)..(YearStart(y + 1) - 1)
    BY <1>6, <1>7, EarningIs DEF Earning
  <2> QED  BY <1>8, <2>1
<1>10. PICK c : c = [i \in S |-> PeriodIn(y, sales[i].day, w)]
  OBVIOUS
<1>11. \A i \in S : Totals[i] \in Int /\ c[i] \in K
  <2> TAKE i \in S
  <2>1. i \in DOMAIN sales /\ sales[i].day \in Nat /\ Totals[i] \in Int
    BY <1>7, EarningIs
  <2>2. PeriodIn(y, sales[i].day, w) \in K
    BY <1>2, <1>3, <1>4, <1>9, <2>1, InOnePeriod
  <2> QED  BY <1>10, <2>1, <2>2
<1>12. ASSUME NEW p \in K  PROVE Earning(p) = {i \in S : c[i] = p}
  <2>1. ASSUME NEW i \in DOMAIN sales, sales[i].day \in p[1]..p[2]
        PROVE  sales[i].day \in year[1]..year[2] /\ p = PeriodIn(y, sales[i].day, w)
    <3>1. sales[i].day \in Nat
      BY EarningIs
    <3>2. YearStart(y) <= sales[i].day /\ sales[i].day < YearStart(y + 1)
      BY <1>2, <1>3, <2>1, <3>1, InOnePeriod
    <3>3. p = PeriodIn(y, sales[i].day, w)
      BY <1>2, <1>3, <1>4, <2>1, <3>1, <3>2, InOnePeriod
    <3> QED  BY <1>6, <1>8, <3>1, <3>2, <3>3
  <2>2. ASSUME NEW i \in S, c[i] = p  PROVE i \in Earning(p)
    <3>1. i \in DOMAIN sales /\ sales[i].day \in Nat
      BY <1>7, EarningIs
    <3>2. p = PeriodIn(y, sales[i].day, w)
      BY <1>10, <2>2
    <3>3. sales[i].day \in p[1]..p[2]
      BY <1>2, <1>3, <1>4, <1>9, <3>1, <3>2, InOnePeriod
    <3> QED  BY <1>7, <3>3 DEF Earning
  <2>3. ASSUME NEW i \in Earning(p)  PROVE i \in S /\ c[i] = p
    <3>1. i \in DOMAIN sales /\ sales[i].day \in p[1]..p[2]
      BY DEF Earning
    <3>2. i \in S
      BY <1>7, <2>1, <3>1 DEF Earning
    <3> QED  BY <1>10, <2>1, <3>1, <3>2
  <2> QED  BY <2>2, <2>3
<1>13. [p \in K |-> Revenue(p)] = [p \in K |-> SumFunctionOnSet(Totals, {i \in S : c[i] = p})]
  BY <1>12, EarningIs
<1>14. SumFunctionOnSet([p \in K |-> SumFunctionOnSet(Totals, {i \in S : c[i] = p})], K)
         = SumFunctionOnSet(Totals, S)
  <2>1. IsFiniteSet(S)
    BY <1>7, EarningIs
  <2>2. \A i \in S : Totals[i] \in Int /\ c[i] \in K
    BY <1>11
  <2> QED  BY <1>5, <2>1, <2>2, SumOfParts
<1>15. SumFunction([p \in K |-> Revenue(p)]) = SumFunctionOnSet([p \in K |-> Revenue(p)], K)
  BY DEF SumFunction
<1>16. Revenue(year) = SumFunctionOnSet(Totals, S)
  BY <1>7, EarningIs
<1> QED  BY <1>1, <1>3, <1>6, <1>13, <1>14, <1>15, <1>16

\* Whatever the length of the periods (getPeriodsForYear), each invoice of the
\* year is counted in the revenue of one of them, and of one only.
THEOREM CountedOnce == IncentiveSpec => []RevenueCountedOnce
<1>1. IncentiveInit => IncentiveInv
  BY IncentiveSound
<1>2. IncentiveInv /\ [IncentiveStep]_incentiveVars => IncentiveInv'
  BY IncentiveSound
<1> QED  BY <1>1, <1>2, RevenueAddsUp, PTL DEF IncentiveSpec

-----------------------------------------------------------------------------
(* Shares                                                                   *)

LEMMA QuotientGrows ==
  ASSUME NEW a \in Nat, NEW b \in Nat, NEW d \in Nat \ {0}, a <= b
  PROVE  a \div d \in Nat /\ b \div d \in Nat /\ a \div d <= b \div d
<1> DEFINE p == a \div d
           q == b \div d
<1>1. p \in Int /\ q \in Int /\ d * p <= a /\ a < d * p + d /\ d * q <= b /\ b < d * q + d
  OBVIOUS
<1> HIDE DEF p, q
<1>2. d * p < d * (q + 1) /\ 0 < d * (p + 1) /\ 0 < d * (q + 1)
  <2>1. d * (q + 1) = d * q + d /\ d * (p + 1) = d * p + d /\ d * p \in Int /\ d * q \in Int
    BY <1>1
  <2> QED  BY <1>1, <2>1
<1>3. \A x \in Int, z \in Int : d * x < d * z => x < z
  <2> SUFFICES ASSUME NEW x \in Int, NEW z \in Int, d * x < d * z, z <= x  PROVE FALSE
    OBVIOUS
  <2>1. PICK e \in Nat : x = z + e
    BY x - z \in Nat
  <2>2. d * x = d * z + d * e /\ d * e \in Nat /\ d * z \in Int
    BY <2>1
  <2> QED  BY <2>2
<1>4. p < q + 1 /\ 0 < p + 1 /\ 0 < q + 1
  <2>1. d * 0 = 0
    OBVIOUS
  <2> QED  BY <1>1, <1>2, <1>3, <2>1
<1> QED  BY <1>1, <1>4 DEF p, q

LEMMA RoundedGrows ==
  ASSUME NEW a \in Nat, NEW b \in Nat, NEW d \in Nat \ {0}, a <= b
  PROVE  Rounded(a, d) \in Nat /\ Rounded(b, d) \in Nat /\ Rounded(a, d) <= Rounded(b, d)
<1>1. 2 * a + d \in Nat /\ 2 * b + d \in Nat /\ 2 * a + d <= 2 * b + d /\ 2 * d \in Nat \ {0}
  OBVIOUS
<1> QED  BY <1>1, QuotientGrows DEF Rounded

LEMMA PoolGrows ==
  ASSUME NEW t, t.target \in Nat, t.percent \in Nat, NEW r \in Nat, NEW q \in Nat, r <= q
  PROVE  Pool(t, r) \in Nat /\ Pool(t, q) \in Nat /\ Pool(t, r) <= Pool(t, q)
<1>1. r * t.percent \in Nat /\ q * t.percent \in Nat /\ r * t.percent <= q * t.percent
  <2>1. PICK e \in Nat : q = r + e
    BY q - r \in Nat
  <2>2. PICK c \in Nat : c = t.percent
    OBVIOUS
  <2>3. q * c = r * c + e * c /\ r * c \in Nat /\ e * c \in Nat
    BY <2>1
  <2> QED  BY <2>2, <2>3
<1>2. /\ Rounded(r * t.percent, 100) \in Nat /\ Rounded(q * t.percent, 100) \in Nat
      /\ Rounded(r * t.percent, 100) <= Rounded(q * t.percent, 100)
  BY <1>1, RoundedGrows
<1> QED  BY <1>2 DEF Pool, Achieved

LEMMA OwnTierIs ==
  ASSUME IncentiveInv, NEW s, OwnTiers(s) # {}
  PROVE  OwnTier(s).target \in Nat /\ OwnTier(s).percent \in Nat
<1>1. RawTiers \in Seq(RawTier)
  BY IncentiveAssumption DEF IncentiveInv, RawTiers
<1>2. PICK i : i = Min(OwnTiers(s))
  OBVIOUS
<1>3. i \in OwnTiers(s)
  <2>1. OwnTiers(s) \subseteq Nat
    BY <1>1 DEF OwnTiers
  <2> QED  BY <1>2, <2>1, LeastOne DEF Min
<1>4. PICK raw : raw = RawTiers[i]
  OBVIOUS
<1>5. raw \in RawTier /\ OwnRewards(raw, s) # {}
  BY <1>1, <1>3, <1>4 DEF OwnTiers
<1>6. raw.target \in Nat /\ raw.rewards \in Seq([role : STRING, percent : Int])
  BY <1>5 DEF RawTier
<1>7. PICK k : k = Min(OwnRewards(raw, s))
  OBVIOUS
<1>8. k \in OwnRewards(raw, s)
  <2>1. OwnRewards(raw, s) \subseteq Nat
    BY <1>6 DEF OwnRewards
  <2> QED  BY <1>5, <1>7, <2>1, LeastOne DEF Min
<1>9. raw.rewards[k].percent \in Int /\ raw.rewards[k].percent > 0
  <2>1. k \in DOMAIN raw.rewards /\ raw.rewards[k].percent > 0
    BY <1>8 DEF OwnRewards
  <2>2. PICK R : R = [role : STRING, percent : Int]
    OBVIOUS
  <2>3. raw.rewards \in Seq(R)
    BY <1>6, <2>2
  <2>4. raw.rewards[k] \in R
    BY <2>1, <2>3
  <2> QED  BY <2>1, <2>2, <2>4
<1>10. OwnTier(s) = [target |-> raw.target, role |-> raw.rewards[k].role,
                     percent |-> raw.rewards[k].percent]
  BY <1>2, <1>4, <1>7 DEF OwnTier
<1> QED  BY <1>6, <1>9, <1>10

LEMMA EarningGrows ==
  ASSUME IncentiveInv, IncentiveInv', Sell \/ Settle, NEW p
  PROVE  /\ Earning(p) \subseteq Earning(p)'
         /\ \A i \in Earning(p) : sales'[i].total = sales[i].total
<1>1. CASE Sell
  <2>1. PICK sale : sales' = Append(sales, sale)
    BY <1>1 DEF Sell
  <2>2. \A i \in DOMAIN sales : i \in DOMAIN sales' /\ sales'[i] = sales[i]
    BY <2>1 DEF IncentiveInv, Sales
  <2> QED  BY <2>2 DEF Earning
<1>2. CASE Settle
  <2>1. PICK i \in DOMAIN sales, s \in {"ISSUED", "PARTIALLY_PAID", "PAID"} :
          sales' = [sales EXCEPT ![i].status = s]
    BY <1>2 DEF Settle
  <2>2. s \in Statuses
    BY <2>1 DEF Statuses
  <2>3. /\ DOMAIN sales' = DOMAIN sales
        /\ \A k \in DOMAIN sales \ {i} : sales'[k] = sales[k]
        /\ sales'[i].day = sales[i].day /\ sales'[i].total = sales[i].total
        /\ sales'[i].status = s
    BY <2>1, <2>2, SalesStayTyped DEF IncentiveInv
  <2>4. \A k \in DOMAIN sales : /\ sales'[k].day = sales[k].day /\ sales'[k].total = sales[k].total
                                /\ sales'[k].status = sales[k].status \/ sales'[k].status = s
    BY <2>3
  <2> QED  BY <2>1, <2>3, <2>4 DEF Earning
<1> QED  BY <1>1, <1>2

RevenueIsSum ==
  \A p : /\ IsFiniteSet(Earning(p)) /\ Earning(p) \subseteq DOMAIN sales
         /\ \A i \in DOMAIN sales : Totals[i] = sales[i].total /\ sales[i].total \in Nat
         /\ Revenue(p) = SumFunctionOnSet(Totals, Earning(p)) /\ Revenue(p) \in Nat

LEMMA RevenueIsSumNext == IncentiveInv' => RevenueIsSum'
<1>1. IncentiveInv => RevenueIsSum
  BY EarningIs DEF RevenueIsSum
<1> QED  BY <1>1, PTL

LEMMA RevenueGrows ==
  ASSUME IncentiveInv, IncentiveInv', Sell \/ Settle, NEW p
  PROVE  Revenue(p) \in Nat /\ Revenue(p)' \in Nat /\ Revenue(p) <= Revenue(p)'
<1>1. PICK S : S = Earning(p)
  OBVIOUS
<1>2. PICK T : T = Earning(p)'
  OBVIOUS
<1>3. PICK f : f = Totals
  OBVIOUS
<1>4. PICK g : g = Totals'
  OBVIOUS
<1>5. /\ Revenue(p) = SumFunctionOnSet(f, S) /\ Revenue(p) \in Nat
      /\ S \subseteq DOMAIN sales
      /\ \A i \in DOMAIN sales : f[i] = sales[i].total /\ f[i] \in Nat
  BY <1>1, <1>3, EarningIs
<1>6. /\ IsFiniteSet(Earning(p)') /\ Earning(p)' \subseteq DOMAIN sales'
      /\ \A i \in DOMAIN sales' : Totals'[i] = sales'[i].total /\ sales'[i].total \in Nat
      /\ Revenue(p)' = SumFunctionOnSet(Totals', Earning(p)') /\ Revenue(p)' \in Nat
  BY RevenueIsSumNext DEF RevenueIsSum
<1>7. /\ Revenue(p)' = SumFunctionOnSet(g, T) /\ Revenue(p)' \in Nat /\ IsFiniteSet(T)
      /\ \A i \in T : g[i] = sales'[i].total /\ g[i] \in Nat
  BY <1>2, <1>4, <1>6
<1>8. S \in SUBSET T /\ \A i \in S : f[i] \in Int /\ f[i] <= g[i]
  <2>1. S \subseteq T /\ \A i \in S : sales'[i].total = sales[i].total
    BY <1>1, <1>2, EarningGrows
  <2> QED  BY <1>5, <1>7, <2>1
<1> QED  BY <1>5, <1>7, <1>8, SumGrows

LEMMA ShareGrows ==
  ASSUME IncentiveInv, IncentiveInv', Sell \/ Settle, NEW s, NEW p
  PROVE  OwnShare(s, p) \in Int /\ OwnShare(s, p)' \in Int /\ OwnShare(s, p) <= OwnShare(s, p)'
<1>1. UNCHANGED <<working, targets, period>>
  BY DEF Sell, Settle
<1>2. /\ OwnTiers(s)' = OwnTiers(s) /\ OwnTier(s)' = OwnTier(s)
      /\ \A role : Eligible(role, p)' = Eligible(role, p)
  BY <1>1 DEF OwnTiers, OwnTier, RawTiers, Eligible
<1>3. CASE OwnTiers(s) = {} \/ s \notin Eligible(CrewRole[s], p)
  BY <1>2, <1>3 DEF OwnShare
<1>4. CASE OwnTiers(s) # {} /\ s \in Eligible(CrewRole[s], p)
  <2>1. PICK t : t = OwnTier(s)
    OBVIOUS
  <2>2. t.target \in Nat /\ t.percent \in Nat
    BY <1>4, <2>1, OwnTierIs
  <2>3. PICK n : n = Cardinality(Eligible(t.role, p))
    OBVIOUS
  <2>4. n \in Nat
    <3>1. Eligible(t.role, p) \subseteq Crew
      BY DEF Eligible, IncentiveInv
    <3> QED  BY <2>3, <3>1, IncentiveAssumption, FS_Subset, FS_CardinalityType
  <2>5. PICK a : a = Pool(t, Revenue(p))
    OBVIOUS
  <2>6. PICK b : b = Pool(t, Revenue(p)')
    OBVIOUS
  <2>7. a \in Nat /\ b \in Nat /\ a <= b
    BY <2>2, <2>5, <2>6, RevenueGrows, PoolGrows
  <2>8. OwnShare(s, p) = IF n = 0 THEN 0 ELSE Rounded(a, n)
    BY <1>4, <2>1, <2>3, <2>5 DEF OwnShare, Share
  <2>9. OwnShare(s, p)' = IF n = 0 THEN 0 ELSE Rounded(b, n)
    <3>1. n = Cardinality({x \in working : /\ CrewRole[x] # "SUPER_ADMIN"
                                           /\ RoleKey[CrewRole[x]] = RoleKey[t.role]
                                           /\ JoinedOn[x].day <= p[2] /\ JoinedOn[x].of <= 5})
      BY <2>3 DEF Eligible
    <3>2. s \in Eligible(CrewRole[s], p)'
      BY <1>2, <1>4
    <3>3. OwnShare(s, p)' = Share(OwnTier(s), Revenue(p), p)'
      BY <1>2, <1>4, <3>2 DEF OwnShare
    <3> QED  BY <1>1, <1>2, <2>1, <2>6, <3>1, <3>3 DEF Share, Eligible
  <2>10. CASE n = 0
    BY <2>8, <2>9, <2>10
  <2>11. CASE n # 0
    <3>1. Rounded(a, n) \in Nat /\ Rounded(b, n) \in Nat /\ Rounded(a, n) <= Rounded(b, n)
      BY <2>4, <2>7, <2>11, RoundedGrows
    <3> QED  BY <2>8, <2>9, <2>11, <3>1
  <2> QED  BY <2>10, <2>11
<1> QED  BY <1>3, <1>4

\* An invoice that is issued or paid never lowers what the year's report gives to
\* an employee (getStaffIncentiveSummary), whichever further targets it meets.
THEOREM StaffNeverLose == IncentiveSpec => SalesNeverCostStaff
<1> DEFINE NoLoss == Sell \/ Settle => \A s \in Crew : CompanyShare(s)' >= CompanyShare(s)
<1>1. IncentiveInit => IncentiveInv
  BY IncentiveSound
<1>2. IncentiveInv /\ [IncentiveStep]_incentiveVars => IncentiveInv'
  BY IncentiveSound
<1>3. IncentiveInv /\ IncentiveInv' => NoLoss
  <2> SUFFICES ASSUME IncentiveInv, IncentiveInv', Sell \/ Settle, NEW s \in Crew
               PROVE  CompanyShare(s)' >= CompanyShare(s)
    OBVIOUS
  <2>1. PICK K : K = PeriodsOf[period]
    OBVIOUS
  <2>2. PICK f : f = [p \in K |-> OwnShare(s, p)]
    OBVIOUS
  <2>3. PICK g : g = [p \in K |-> OwnShare(s, p)']
    OBVIOUS
  <2>4. period' = period /\ period \in PeriodLengths
    BY IncentiveAssumption DEF Sell, Settle, IncentiveInv, PeriodLengths
  <2>5. IsFiniteSet(K)
    BY <2>1, <2>4, PeriodsAreFew
  <2>6. CompanyShare(s) = SumFunctionOnSet(f, K)
    BY <2>1, <2>2 DEF CompanyShare, SumFunction
  <2>7. CompanyShare(s)' = SumFunctionOnSet(g, K)
    BY <2>1, <2>3, <2>4 DEF CompanyShare, SumFunction
  <2>8. \A p \in K : f[p] \in Int /\ g[p] \in Int /\ f[p] <= g[p]
    BY <2>2, <2>3, ShareGrows
  <2>9. SumFunctionOnSet(f, K) <= SumFunctionOnSet(g, K)
    BY <2>5, <2>8, SumNoLess
  <2>10. SumFunctionOnSet(f, K) \in Int /\ SumFunctionOnSet(g, K) \in Int
    BY <2>5, <2>8, SumIsInt
  <2> QED  BY <2>6, <2>7, <2>9, <2>10
<1>4. IncentiveInv /\ IncentiveInv' => [NoLoss]_incentiveVars
  BY <1>3
<1> QED  BY <1>1, <1>2, <1>4, PTL DEF IncentiveSpec, SalesNeverCostStaff

=============================================================================
