------------------------------ MODULE Calendar ------------------------------
(***************************************************************************)
(* The date arithmetic of date_resolver.py, rule_planner._period_range and *)
(* ProductQueryService._drill_range.  A date is a record; Python's calendar*)
(* and datetime are Leap, MonthLength and DayBefore.                       *)
(***************************************************************************)
EXTENDS Integers

Day(y, m, d) == [y |-> y, m |-> m, d |-> d]

Leap(y) == y % 4 = 0 /\ (y % 100 # 0 \/ y % 400 = 0)

\* calendar.monthrange(y, m)[1]
MonthLength(y, m) ==
    IF m = 2 THEN IF Leap(y) THEN 29 ELSE 28
    ELSE IF m \in {4, 6, 9, 11} THEN 30 ELSE 31

\* The absence of a date.
NoDate == Day(0, 0, 0)

Dates == {x \in [y : Nat \ {0}, m : 1..12, d : 1..31] : x.d <= MonthLength(x.y, x.m)}

\* Dates are compared as their ISO texts are.
Stamp(x) == 10000 * x.y + 100 * x.m + x.d
Upto(a, b) == Stamp(a) <= Stamp(b)

MonthEnd(y, m) == Day(y, m, MonthLength(y, m))

\* x - timedelta(days=1)
DayBefore(x) ==
    IF x.d > 1 THEN Day(x.y, x.m, x.d - 1)
    ELSE IF x.m > 1 THEN MonthEnd(x.y, x.m - 1) ELSE Day(x.y - 1, 12, 31)

DayAfter(x) ==
    IF x.d < MonthLength(x.y, x.m) THEN Day(x.y, x.m, x.d + 1)
    ELSE IF x.m < 12 THEN Day(x.y, x.m + 1, 1) ELSE Day(x.y + 1, 1, 1)

-----------------------------------------------------------------------------
\* date_resolver.py

\* _explicit_dates: the day that a month, a quarter or a year end names.
QuarterEnd(y, q) == MonthEnd(y, 3 * q)
YearEnd(y) == Day(y, 12, 31)

PreviousMonthEnd(x) ==
    IF x.m = 1 THEN MonthEnd(x.y - 1, 12) ELSE MonthEnd(x.y, x.m - 1)

Quarter(x) == (x.m - 1) \div 3 + 1

PreviousQuarterEnd(x) ==
    IF Quarter(x) = 1 THEN YearEnd(x.y - 1) ELSE QuarterEnd(x.y, Quarter(x) - 1)

\* The mutant is without the min.
MutantSamePeriodLastYear(x) == Day(x.y - 1, x.m, x.d)

SamePeriodLastYear(x) ==
    LET length == MonthLength(x.y - 1, x.m)
    IN Day(x.y - 1, x.m, IF x.d < length THEN x.d ELSE length)

\* year_beginning: the baseline of the workbook, whatever the year.
YearBeginning(x) == Day(2024, 12, 31)

\* _period_range: a quarter of a year, first and last day.
QuarterRange(y, q) == [start |-> Day(y, 3 * (q - 1) + 1, 1), end |-> QuarterEnd(y, q)]

-----------------------------------------------------------------------------
\* _drill_range: what is drilled into when no range is given.  The range of a
\* year drill is read from the data.

YearAround(x) == [start |-> Day(x.y, 1, 1), end |-> Day(x.y, 12, 31)]

\* The mutant takes focus.month // 3 for (focus.month - 1) // 3.
MutantQuarterAround(x) ==
    LET first == (x.m \div 3) * 3 + 1
        next == IF first >= 10 THEN Day(x.y + 1, 1, 1) ELSE Day(x.y, first + 3, 1)
    IN [start |-> Day(x.y, first, 1), end |-> DayBefore(next)]

QuarterAround(x) ==
    LET first == ((x.m - 1) \div 3) * 3 + 1
        next == IF first = 10 THEN Day(x.y + 1, 1, 1) ELSE Day(x.y, first + 3, 1)
    IN [start |-> Day(x.y, first, 1), end |-> DayBefore(next)]

\* The mutant ends every month on its 31st.
MutantMonthAround(x) == [start |-> Day(x.y, x.m, 1), end |-> Day(x.y, x.m, 31)]

MonthAround(x) ==
    LET next == IF x.m = 12 THEN Day(x.y + 1, 1, 1) ELSE Day(x.y, x.m + 1, 1)
    IN [start |-> Day(x.y, x.m, 1), end |-> DayBefore(next)]
=============================================================================
