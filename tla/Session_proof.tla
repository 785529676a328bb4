--------------------------- MODULE Session_proof ---------------------------
(***************************************************************************)
(* What a session keeps of its questions: the records that are drilled     *)
(* from one another (TimeDrill) and the question that is incomplete        *)
(* (PendingSession).  The two share no variable; each part holds of its    *)
(* own specification.                                                      *)
(*                                                                         *)
(* First the date arithmetic over every date: comparison dates are the     *)
(* days they are named for, and the range of a month or a quarter holds    *)
(* exactly the dates of that month or quarter.  The page and the server    *)
(* cut time in the same way: what a click on a year, quarter or month      *)
(* sends is the range that the server itself takes for it.  Then the       *)
(* drills: what they show, for any data, any focus and any ranges.  Then   *)
(* the pending query, through failures and restarts.                       *)
(***************************************************************************)
EXTENDS TimeDrill, PendingSession, FiniteSetTheorems, FunctionTheorems, SequenceTheorems, TLAPS

\* The years whose predecessor is a year of Python's calendar too.
LaterDates == {x \in Dates : x.y > 1}

LEMMA LengthRange ==
  ASSUME NEW y, NEW m \in 1..12
  PROVE  MonthLength(y, m) \in 28..31 /\ (m # 2 => MonthLength(y, m) \in 30..31)
  BY DEF MonthLength

LEMMA DayFields ==
  ASSUME NEW y, NEW m, NEW d
  PROVE  Day(y, m, d).y = y /\ Day(y, m, d).m = m /\ Day(y, m, d).d = d
  BY DEF Day

LEMMA DateFields ==
  ASSUME NEW x \in Dates
  PROVE  /\ x.y \in Nat \ {0} /\ x.m \in 1..12 /\ x.d \in 1..31
         /\ x.d <= MonthLength(x.y, x.m) /\ x = Day(x.y, x.m, x.d)
  BY DEF Dates, Day

\* A day of a month that has it is a date.
LEMMA DayIsDate ==
  ASSUME NEW y \in Nat \ {0}, NEW m \in 1..12, NEW d \in 1..31, d <= MonthLength(y, m)
  PROVE  Day(y, m, d) \in Dates
  BY DEF Dates, Day

\* The last day of a month is a date, and the day after it is the first of the next.
LEMMA EndOfMonth ==
  ASSUME NEW y \in Nat \ {0}, NEW m \in 1..12
  PROVE  /\ MonthEnd(y, m) \in Dates
         /\ DayAfter(MonthEnd(y, m)) = IF m < 12 THEN Day(y, m + 1, 1) ELSE Day(y + 1, 1, 1)
<1>1. MonthLength(y, m) \in 1..31
  BY LengthRange
<1>2. MonthEnd(y, m) \in Dates
  BY <1>1, DayIsDate DEF MonthEnd
<1>3. /\ MonthEnd(y, m).y = y /\ MonthEnd(y, m).m = m /\ MonthEnd(y, m).d = MonthLength(y, m)
  BY DayFields DEF MonthEnd
<1>4. ~(MonthEnd(y, m).d < MonthLength(MonthEnd(y, m).y, MonthEnd(y, m).m))
  BY <1>1, <1>3
<1> QED
  BY <1>2, <1>3, <1>4 DEF DayAfter

\* The day before the first of a month is the last of the month before it.
LEMMA BeforeFirst ==
  ASSUME NEW y \in Nat, NEW m \in 1..12
  PROVE  DayBefore(Day(y, m, 1)) = IF m > 1 THEN MonthEnd(y, m - 1) ELSE Day(y - 1, 12, 31)
  BY DayFields DEF DayBefore

\* December ends on its 31st.
LEMMA LastOfYear == \A y : Day(y, 12, 31) = MonthEnd(y, 12)
  BY DEF MonthEnd, MonthLength

\* The end of the previous month is the day before the first of the month.
THEOREM PreviousMonth ==
  ASSUME NEW x \in LaterDates
  PROVE  /\ PreviousMonthEnd(x) \in Dates
         /\ DayAfter(PreviousMonthEnd(x)) = Day(x.y, x.m, 1)
<1>1. x.y \in Nat \ {0} /\ x.y - 1 \in Nat \ {0} /\ x.m \in 1..12
  BY DateFields DEF LaterDates
<1>2. CASE x.m = 1
  <2>1. PreviousMonthEnd(x) = MonthEnd(x.y - 1, 12)
    BY <1>2 DEF PreviousMonthEnd
  <2>2. (x.y - 1) + 1 = x.y
    BY <1>1
  <2> QED
    BY <1>1, <1>2, <2>1, <2>2, EndOfMonth
<1>3. CASE x.m # 1
  <2>1. PreviousMonthEnd(x) = MonthEnd(x.y, x.m - 1)
    BY <1>3 DEF PreviousMonthEnd
  <2>2. x.m - 1 \in 1..12 /\ x.m - 1 < 12 /\ (x.m - 1) + 1 = x.m
    BY <1>1, <1>3
  <2> QED
    BY <1>1, <2>1, <2>2, EndOfMonth
<1> QED
  BY <1>2, <1>3

\* The four quarters.
LEMMA Quarters ==
  ASSUME NEW x, x.m \in 1..12
  PROVE  /\ Quarter(x) \in 1..4
         /\ x.m \in 3 * Quarter(x) - 2 .. 3 * Quarter(x)
         /\ (x.m - 1) \div 3 = Quarter(x) - 1
  BY DEF Quarter

\* The end of the previous quarter is the day before the first of the quarter.
THEOREM PreviousQuarter ==
  ASSUME NEW x \in LaterDates
  PROVE  /\ PreviousQuarterEnd(x) \in Dates
         /\ DayAfter(PreviousQuarterEnd(x)) = Day(x.y, 3 * Quarter(x) - 2, 1)
<1>1. x.y \in Nat \ {0} /\ x.y - 1 \in Nat \ {0} /\ x.m \in 1..12
  BY DateFields DEF LaterDates
<1>2. Quarter(x) \in 1..4
  BY <1>1, Quarters
<1>3. CASE Quarter(x) = 1
  <2>1. PreviousQuarterEnd(x) = MonthEnd(x.y - 1, 12)
    BY <1>3, LastOfYear DEF PreviousQuarterEnd, YearEnd
  <2>2. (x.y - 1) + 1 = x.y /\ 3 * Quarter(x) - 2 = 1
    BY <1>1, <1>3
  <2> QED
    BY <1>1, <2>1, <2>2, EndOfMonth
<1>4. CASE Quarter(x) # 1
  <2>1. PreviousQuarterEnd(x) = MonthEnd(x.y, 3 * (Quarter(x) - 1))
    BY <1>4 DEF PreviousQuarterEnd, QuarterEnd
  <2>2. /\ 3 * (Quarter(x) - 1) \in 1..12 /\ 3 * (Quarter(x) - 1) < 12
        /\ 3 * (Quarter(x) - 1) + 1 = 3 * Quarter(x) - 2
    BY <1>2, <1>4
  <2> QED
    BY <1>1, <2>1, <2>2, EndOfMonth
<1> QED
  BY <1>3, <1>4

\* The same day of the last year, or the last of its month where that is earlier.
THEOREM SameDay ==
  ASSUME NEW x \in LaterDates, NEW same, same = SamePeriodLastYear(x)
  PROVE  /\ same \in Dates /\ same.y = x.y - 1 /\ same.m = x.m /\ same.d <= x.d
         /\ same.d < x.d => same = MonthEnd(x.y - 1, x.m)
<1>1. x.y - 1 \in Nat \ {0} /\ x.m \in 1..12 /\ x.d \in 1..31
  BY DateFields DEF LaterDates
<1>2. MonthLength(x.y - 1, x.m) \in 1..31
  BY <1>1, LengthRange
<1>3. CASE x.d < MonthLength(x.y - 1, x.m)
  <2>1. same = Day(x.y - 1, x.m, x.d)
    BY <1>3 DEF SamePeriodLastYear
  <2>2. PICK y : y = x.y - 1
    OBVIOUS
  <2>3. y \in Nat \ {0} /\ x.m \in 1..12 /\ x.d \in 1..31 /\ x.d <= MonthLength(y, x.m)
    BY <1>1, <1>2, <1>3, <2>2
  <2>4. Day(y, x.m, x.d) \in Dates
    BY <2>3, DayIsDate
  <2>5. same \in Dates
    BY <2>1, <2>2, <2>4
  <2> QED
    BY <1>1, <2>1, <2>5, DayFields
<1>4. CASE ~(x.d < MonthLength(x.y - 1, x.m))
  <2>1. same = MonthEnd(x.y - 1, x.m)
    BY <1>4 DEF SamePeriodLastYear, MonthEnd
  <2>2. same.y = x.y - 1 /\ same.m = x.m /\ same.d = MonthLength(x.y - 1, x.m)
    BY <2>1, DayFields DEF MonthEnd
  <2>3. same \in Dates
    BY <1>1, <2>1, EndOfMonth
  <2> QED
    BY <1>1, <1>2, <1>4, <2>1, <2>2, <2>3
<1> QED
  BY <1>3, <1>4

-----------------------------------------------------------------------------
\* Ranges

\* The range that is drilled into for a month is that month.
LEMMA MonthRange ==
  ASSUME NEW x \in Dates
  PROVE  MonthAround(x) = [start |-> Day(x.y, x.m, 1), end |-> MonthEnd(x.y, x.m)]
<1>1. x.y \in Nat \ {0} /\ x.m \in 1..12
  BY DateFields
<1>2. CASE x.m = 12
  <2>1. DayBefore(Day(x.y + 1, 1, 1)) = MonthEnd(x.y, 12)
    <3>1. (x.y + 1) - 1 = x.y /\ x.y + 1 \in Nat
      BY <1>1
    <3> QED
      BY <3>1, BeforeFirst, LastOfYear
  <2> QED
    BY <1>2, <2>1 DEF MonthAround
<1>3. CASE x.m # 12
  <2>1. DayBefore(Day(x.y, x.m + 1, 1)) = MonthEnd(x.y, x.m)
    <3>1. x.m + 1 \in 1..12 /\ x.m + 1 > 1 /\ (x.m + 1) - 1 = x.m
      BY <1>1, <1>3
    <3> QED
      BY <1>1, <3>1, BeforeFirst
  <2> QED
    BY <1>3, <2>1 DEF MonthAround
<1> QED
  BY <1>2, <1>3

LEMMA QuarterRangeOf ==
  ASSUME NEW x \in Dates
  PROVE  QuarterAround(x) = [start |-> Day(x.y, 3 * Quarter(x) - 2, 1),
                             end |-> MonthEnd(x.y, 3 * Quarter(x))]
<1> DEFINE q == Quarter(x)
           first == ((x.m - 1) \div 3) * 3 + 1
           next == IF first = 10 THEN Day(x.y + 1, 1, 1) ELSE Day(x.y, first + 3, 1)
<1>1. x.y \in Nat \ {0} /\ x.m \in 1..12
  BY DateFields
<1>2. q \in 1..4 /\ first = 3 * q - 2
  <2>1. Quarter(x) \in 1..4 /\ (x.m - 1) \div 3 = Quarter(x) - 1
    BY <1>1, Quarters
  <2> QED
    BY <2>1
<1>3. QuarterAround(x) = [start |-> Day(x.y, first, 1), end |-> DayBefore(next)]
  BY DEF QuarterAround
<1> HIDE DEF q, first
<1>4. DayBefore(next) = MonthEnd(x.y, 3 * q)
  <2>1. CASE q = 4
    <3>1. next = Day(x.y + 1, 1, 1) /\ (x.y + 1) - 1 = x.y /\ x.y + 1 \in Nat /\ 3 * q = 12
      BY <1>1, <1>2, <2>1
    <3> QED
      BY <3>1, BeforeFirst, LastOfYear
  <2>2. CASE q # 4
    <3>1. /\ next = Day(x.y, 3 * q + 1, 1) /\ 3 * q + 1 \in 1..12 /\ 3 * q + 1 > 1
          /\ (3 * q + 1) - 1 = 3 * q
      BY <1>2, <2>2
    <3> QED
      BY <1>1, <3>1, BeforeFirst
  <2> QED
    BY <2>1, <2>2
<1> QED
  BY <1>2, <1>3, <1>4 DEF q

\* Dates compare as their years, months and days do.
LEMMA Ordered ==
  ASSUME NEW a \in Dates, NEW b \in Dates
  PROVE  Upto(a, b) <=> \/ a.y < b.y
                        \/ a.y = b.y /\ (a.m < b.m \/ (a.m = b.m /\ a.d <= b.d))
<1>1. /\ a.y \in Nat /\ a.m \in 1..12 /\ a.d \in 1..31
      /\ b.y \in Nat /\ b.m \in 1..12 /\ b.d \in 1..31
  BY DateFields
<1>2. Upto(a, b) <=> 10000 * a.y + 100 * a.m + a.d <= 10000 * b.y + 100 * b.m + b.d
  BY DEF Upto, Stamp
<1>3. PICK ay \in Nat, am \in 1..12, ad \in 1..31 : ay = a.y /\ am = a.m /\ ad = a.d
  BY <1>1
<1>4. PICK bz \in Nat, bm \in 1..12, bd \in 1..31 : bz = b.y /\ bm = b.m /\ bd = b.d
  BY <1>1
<1>5. 10000 * ay + 100 * am + ad <= 10000 * bz + 100 * bm + bd <=>
        ay < bz \/ (ay = bz /\ (am < bm \/ (am = bm /\ ad <= bd)))
  <2>1. CASE ay < bz
    BY <2>1
  <2>2. CASE ay = bz
    <3>1. CASE am < bm
      BY <2>2, <3>1
    <3>2. CASE am = bm
      BY <2>2, <3>2
    <3>3. CASE am > bm
      BY <2>2, <3>3
    <3> QED
      BY <3>1, <3>2, <3>3
  <2>3. CASE ay > bz
    BY <2>3
  <2> QED
    BY <2>1, <2>2, <2>3
<1> QED
  BY <1>2, <1>3, <1>4, <1>5

\* The dates from the first of a month to the last of the same or a later month of
\* that year are those of the months in between.
LEMMA MonthsBetween ==
  ASSUME NEW y \in Nat \ {0}, NEW m \in 1..12, NEW n \in 1..12, NEW z \in Dates
  PROVE  Upto(Day(y, m, 1), z) /\ Upto(z, MonthEnd(y, n)) <=>
           z.y = y /\ m <= z.m /\ z.m <= n
<1>1. MonthLength(y, n) \in 1..31 /\ MonthLength(y, m) \in 28..31
  BY LengthRange
<1>2. Day(y, m, 1) \in Dates /\ MonthEnd(y, n) \in Dates
  BY <1>1, DayIsDate, EndOfMonth
<1>3. /\ Day(y, m, 1).y = y /\ Day(y, m, 1).m = m /\ Day(y, m, 1).d = 1
      /\ MonthEnd(y, n).y = y /\ MonthEnd(y, n).m = n /\ MonthEnd(y, n).d = MonthLength(y, n)
  BY DayFields DEF MonthEnd
<1>4. z.y \in Nat /\ z.m \in 1..12 /\ z.d \in 1..31 /\ z.d <= MonthLength(z.y, z.m)
  BY DateFields
<1>5. Upto(Day(y, m, 1), z) <=> y < z.y \/ (y = z.y /\ m <= z.m)
  BY <1>2, <1>3, <1>4, Ordered
<1>6. Upto(z, MonthEnd(y, n)) <=> z.y < y \/ (z.y = y /\ z.m <= n)
  <2>1. Upto(z, MonthEnd(y, n)) <=>
          z.y < y \/ (z.y = y /\ (z.m < n \/ (z.m = n /\ z.d <= MonthLength(y, n))))
    BY <1>2, <1>3, Ordered
  <2> QED
    BY <1>1, <1>4, <2>1
<1> QED
  BY <1>4, <1>5, <1>6

\* A drill into the days of a month without a range (_drill_range) covers exactly the
\* dates of the month of its focus.
THEOREM MonthCovered ==
  ASSUME NEW x \in Dates, NEW z \in Dates
  PROVE  Upto(MonthAround(x).start, z) /\ Upto(z, MonthAround(x).end) <=> z.y = x.y /\ z.m = x.m
<1>1. x.y \in Nat \ {0} /\ x.m \in 1..12 /\ z.m \in 1..12
  BY DateFields
<1>2. MonthAround(x).start = Day(x.y, x.m, 1) /\ MonthAround(x).end = MonthEnd(x.y, x.m)
  BY MonthRange
<1>3. Upto(Day(x.y, x.m, 1), z) /\ Upto(z, MonthEnd(x.y, x.m)) <=>
        z.y = x.y /\ x.m <= z.m /\ z.m <= x.m
  BY <1>1, MonthsBetween
<1>4. x.m <= z.m /\ z.m <= x.m <=> z.m = x.m
  BY <1>1
<1> QED
  BY <1>2, <1>3, <1>4

\* A drill into the months of a quarter without a range (_drill_range) covers exactly
\* the dates of the quarter of its focus.
THEOREM QuarterCovered ==
  ASSUME NEW x \in Dates, NEW z \in Dates
  PROVE  Upto(QuarterAround(x).start, z) /\ Upto(z, QuarterAround(x).end) <=>
           z.y = x.y /\ Quarter(z) = Quarter(x)
<1>1. x.y \in Nat \ {0} /\ x.m \in 1..12 /\ z.m \in 1..12
  BY DateFields
<1>2. Quarter(x) \in 1..4 /\ Quarter(z) \in 1..4 /\ z.m \in 3 * Quarter(z) - 2 .. 3 * Quarter(z)
  BY <1>1, Quarters
<1>3. /\ QuarterAround(x).start = Day(x.y, 3 * Quarter(x) - 2, 1)
      /\ QuarterAround(x).end = MonthEnd(x.y, 3 * Quarter(x))
  BY QuarterRangeOf
<1>4. 3 * Quarter(x) - 2 \in 1..12 /\ 3 * Quarter(x) \in 1..12
  BY <1>2
<1>5. Upto(QuarterAround(x).start, z) /\ Upto(z, QuarterAround(x).end) <=>
        z.y = x.y /\ 3 * Quarter(x) - 2 <= z.m /\ z.m <= 3 * Quarter(x)
  BY <1>1, <1>3, <1>4, MonthsBetween
<1> QED
  BY <1>1, <1>2, <1>5

\* A drill into the quarters of a year without a range (_drill_range) covers exactly
\* the dates of the year of its focus.
THEOREM YearCovered ==
  ASSUME NEW x \in Dates, NEW z \in Dates
  PROVE  Upto(YearAround(x).start, z) /\ Upto(z, YearAround(x).end) <=> z.y = x.y
<1>1. x.y \in Nat \ {0} /\ z.m \in 1..12
  BY DateFields
<1>2. YearAround(x).start = Day(x.y, 1, 1) /\ YearAround(x).end = MonthEnd(x.y, 12)
  BY LastOfYear DEF YearAround
<1> QED
  BY <1>1, <1>2, MonthsBetween

-----------------------------------------------------------------------------
\* The page and the server

\* The first day of a period is a date, and lies in the period.
LEMMA FirstOfPeriod ==
  ASSUME NEW x \in Dates
  PROVE  /\ Truncated("year", x) = Day(x.y, 1, 1)
         /\ Truncated("quarter", x) = Day(x.y, 3 * Quarter(x) - 2, 1)
         /\ Truncated("month", x) = Day(x.y, x.m, 1)
<1>1. x.m \in 1..12
  BY DateFields
<1>2. (x.m - 1) \div 3 = Quarter(x) - 1 /\ Quarter(x) \in 1..4
  BY <1>1, Quarters
<1>3. 3 * ((x.m - 1) \div 3) + 1 = 3 * Quarter(x) - 2
  BY <1>2
<1> QED
  BY <1>3 DEF Truncated

\* periodRange of the page and _drill_range of the server agree.
THEOREM PageAgrees ==
  ASSUME NEW x \in Dates
  PROVE  /\ PeriodOf("year", Truncated("year", x)) = YearAround(x)
         /\ PeriodOf("quarter", Truncated("quarter", x)) = QuarterAround(x)
         /\ PeriodOf("month", Truncated("month", x)) = MonthAround(x)
<1>1. x.y \in Nat \ {0} /\ x.m \in 1..12
  BY DateFields
<1>2. Quarter(x) \in 1..4
  BY <1>1, Quarters
<1>3. PeriodOf("year", Truncated("year", x)) = YearAround(x)
  <2>1. PeriodOf("year", Day(x.y, 1, 1)) = [start |-> Day(x.y, 1, 1),
                                            end |-> DayBefore(Day(x.y + 1, 1, 1))]
    BY DayFields DEF PeriodOf
  <2>2. DayBefore(Day(x.y + 1, 1, 1)) = Day(x.y, 12, 31)
    <3>1. x.y + 1 \in Nat /\ (x.y + 1) - 1 = x.y
      BY <1>1
    <3> QED
      BY <3>1, BeforeFirst
  <2> QED
    BY <2>1, <2>2, FirstOfPeriod DEF YearAround
<1>4. PeriodOf("quarter", Truncated("quarter", x)) = QuarterAround(x)
  <2> DEFINE first == 3 * Quarter(x) - 2
             next == IF first > 9 THEN Day(x.y + 1, first - 9, 1) ELSE Day(x.y, first + 3, 1)
  <2>1. PeriodOf("quarter", Day(x.y, first, 1)) = [start |-> Day(x.y, first, 1),
                                                   end |-> DayBefore(next)]
    BY DayFields DEF PeriodOf
  <2>2. DayBefore(next) = MonthEnd(x.y, 3 * Quarter(x))
    <3>1. CASE Quarter(x) = 4
      <4>1. /\ next = Day(x.y + 1, 1, 1) /\ x.y + 1 \in Nat /\ (x.y + 1) - 1 = x.y
            /\ 3 * Quarter(x) = 12
        BY <1>1, <3>1
      <4> QED
        BY <4>1, BeforeFirst, LastOfYear
    <3>2. CASE Quarter(x) # 4
      <4>1. /\ next = Day(x.y, 3 * Quarter(x) + 1, 1) /\ 3 * Quarter(x) + 1 \in 1..12
            /\ 3 * Quarter(x) + 1 > 1 /\ (3 * Quarter(x) + 1) - 1 = 3 * Quarter(x)
        BY <1>2, <3>2
      <4> QED
        BY <1>1, <4>1, BeforeFirst
    <3> QED
      BY <3>1, <3>2
  <2> QED
    BY <2>1, <2>2, FirstOfPeriod, QuarterRangeOf
<1>5. PeriodOf("month", Truncated("month", x)) = MonthAround(x)
  <2> DEFINE next == IF x.m > 11 THEN Day(x.y + 1, 1, 1) ELSE Day(x.y, x.m + 1, 1)
  <2>1. PeriodOf("month", Day(x.y, x.m, 1)) = [start |-> Day(x.y, x.m, 1), end |-> DayBefore(next)]
    BY DayFields DEF PeriodOf
  <2>2. next = IF x.m = 12 THEN Day(x.y + 1, 1, 1) ELSE Day(x.y, x.m + 1, 1)
    BY <1>1
  <2> QED
    BY <2>1, <2>2, FirstOfPeriod DEF MonthAround
<1> QED
  BY <1>3, <1>4, <1>5

-----------------------------------------------------------------------------
\* Order

Smaller(S, key, a) == {b \in S : key[b] < key[a]}

\* Counting the smaller ones ranks the elements of a finite set from 0 on, without a
\* gap, when no two have the same key.
LEMMA Ranked ==
  ASSUME NEW S, IsFiniteSet(S), NEW key \in [S -> Nat],
         \A a, b \in S : key[a] = key[b] => a = b
  PROVE  /\ Cardinality(S) \in Nat
         /\ \E rank \in [S -> 0..Cardinality(S) - 1] :
              /\ \A a \in S : rank[a] = Cardinality(Smaller(S, key, a))
              /\ \A a, b \in S : key[a] < key[b] <=> rank[a] < rank[b]
              /\ \A n \in 0..Cardinality(S) - 1 : \E a \in S : rank[a] = n
<1> DEFINE N == Cardinality(S)
           rank == [a \in S |-> Cardinality({b \in S : key[b] < key[a]})]
           Below(a) == {b \in S : key[b] < key[a]}
<1>1. N \in Nat
  BY FS_CardinalityType
<1>2. ASSUME NEW a \in S
      PROVE  IsFiniteSet(Below(a)) /\ Cardinality(Below(a)) \in 0..N - 1
  <2>1. Below(a) \in SUBSET S /\ a \notin Below(a)
    OBVIOUS
  <2>2. /\ IsFiniteSet(Below(a)) /\ Cardinality(Below(a)) <= N
        /\ N = Cardinality(Below(a)) => S = Below(a)
    BY <2>1, FS_Subset
  <2>3. Cardinality(Below(a)) \in Nat
    BY <2>2, FS_CardinalityType
  <2> QED
    BY <1>1, <2>1, <2>2, <2>3
<1>3. ASSUME NEW a \in S, NEW b \in S, key[a] < key[b]
      PROVE  Cardinality(Below(a)) < Cardinality(Below(b))
  <2>1. a \in Below(b) /\ a \notin Below(a)
    BY <1>3
  <2>2. Below(a) \in SUBSET Below(b)
    BY <1>3
  <2>3. /\ Cardinality(Below(a)) <= Cardinality(Below(b))
        /\ Cardinality(Below(b)) = Cardinality(Below(a)) => Below(b) = Below(a)
    BY <1>2, <2>2, FS_Subset
  <2>4. Cardinality(Below(a)) # Cardinality(Below(b))
    BY <2>1, <2>3
  <2>5. Cardinality(Below(a)) \in 0..N - 1 /\ Cardinality(Below(b)) \in 0..N - 1
    BY <1>2
  <2> QED
    BY <1>1, <2>3, <2>4, <2>5
<1>4. \A a \in S : rank[a] = Cardinality(Below(a))
  OBVIOUS
<1>5. \A a \in S : rank[a] = Cardinality(Smaller(S, key, a))
  BY DEF Smaller
<1>6. rank = [a \in S |-> Cardinality(Below(a))]
  OBVIOUS
<1> HIDE DEF Below, rank
<1>7. rank \in [S -> 0..N - 1]
  BY <1>2, <1>6
<1>8. \A a, b \in S : key[a] < key[b] => rank[a] < rank[b]
  BY <1>3, <1>4
<1>9. ASSUME NEW a \in S, NEW b \in S, ~(key[a] < key[b])
      PROVE  ~(rank[a] < rank[b])
  <2>1. CASE key[a] = key[b]
    <3>1. a = b /\ rank[a] \in 0..N - 1
      BY <1>7, <2>1
    <3> QED
      BY <1>1, <3>1
  <2>2. CASE key[b] < key[a]
    <3>1. rank[b] < rank[a] /\ rank[a] \in 0..N - 1 /\ rank[b] \in 0..N - 1
      BY <1>7, <1>8, <2>2
    <3> QED
      BY <1>1, <3>1
  <2>3. key[a] \in Nat /\ key[b] \in Nat
    OBVIOUS
  <2> QED
    BY <1>9, <2>1, <2>2, <2>3
<1>10. rank \in Injection(S, 0..N - 1)
  <2>1. ASSUME NEW a \in S, NEW b \in S, rank[a] = rank[b]
        PROVE  a = b
    <3>1. key[a] \in Nat /\ key[b] \in Nat /\ rank[a] \in 0..N - 1 /\ rank[b] \in 0..N - 1
      BY <1>7
    <3>2. ~(key[a] < key[b]) /\ ~(key[b] < key[a])
      BY <1>1, <1>8, <2>1, <3>1
    <3> QED
      BY <3>1, <3>2
  <2> QED
    BY <1>7, <2>1, Fun_IsInj
<1>11. IsFiniteSet(0..N - 1) /\ Cardinality(0..N - 1) = N
  <2>1. /\ IsFiniteSet(0..(N - 1))
        /\ Cardinality(0..(N - 1)) = IF 0 > N - 1 THEN 0 ELSE (N - 1) - 0 + 1
    BY <1>1, FS_Interval
  <2> QED
    BY <1>1, <2>1
<1>12. rank \in Surjection(S, 0..N - 1)
  BY <1>10, <1>11, FS_Injection
<1>13. \A n \in 0..N - 1 : \E a \in S : rank[a] = n
  <2> DEFINE T == 0..N - 1
  <2>1. rank \in Surjection(S, T)
    BY <1>12
  <2> HIDE DEF T
  <2>2. \A n \in T : \E a \in S : rank[a] = n
    BY <2>1, Fun_SurjectionProperties
  <2> QED
    BY <2>2 DEF T
<1> QED
  BY <1>1, <1>7, <1>8, <1>9, <1>13, <1>5

\* Dates are compared by their numbers, which tell them apart.
LEMMA Stamps ==
  ASSUME NEW a \in Dates
  PROVE  /\ Stamp(a) \in Nat
         /\ \A b \in Dates : Stamp(a) = Stamp(b) => a = b
<1>1. Stamp(a) \in Nat
  <2>1. a.y \in Nat /\ a.m \in 1..12 /\ a.d \in 1..31
    BY DateFields
  <2> QED
    BY <2>1 DEF Stamp
<1>2. ASSUME NEW b \in Dates, Stamp(a) = Stamp(b)
      PROVE  a = b
  <2>1. Stamp(b) \in Nat
    <3>1. b.y \in Nat /\ b.m \in 1..12 /\ b.d \in 1..31
      BY DateFields
    <3> QED
      BY <3>1 DEF Stamp
  <2>2. Upto(a, b) /\ Upto(b, a)
    BY <1>1, <1>2, <2>1 DEF Upto
  <2>3. /\ a.y \in Nat /\ a.m \in 1..12 /\ a.d \in 1..31
        /\ b.y \in Nat /\ b.m \in 1..12 /\ b.d \in 1..31
        /\ a = Day(a.y, a.m, a.d) /\ b = Day(b.y, b.m, b.d)
    BY DateFields
  <2>4. a.y = b.y /\ a.m = b.m /\ a.d = b.d
    <3>1. a.y < b.y \/ (a.y = b.y /\ (a.m < b.m \/ (a.m = b.m /\ a.d <= b.d)))
      BY <2>2, Ordered
    <3>2. b.y < a.y \/ (b.y = a.y /\ (b.m < a.m \/ (b.m = a.m /\ b.d <= a.d)))
      BY <2>2, Ordered
    <3> QED
      BY <2>3, <3>1, <3>2
  <2> QED
    BY <2>3, <2>4
<1> QED
  BY <1>1, <1>2

\* Upto is a total order of the dates.
LEMMA Order ==
  ASSUME NEW a \in Dates, NEW b \in Dates, NEW c \in Dates
  PROVE  /\ Upto(a, a) /\ (Upto(a, b) \/ Upto(b, a))
         /\ Upto(a, b) /\ Upto(b, c) => Upto(a, c)
         /\ Upto(a, b) /\ Upto(b, a) => a = b
<1>1. Stamp(a) \in Nat /\ Stamp(b) \in Nat /\ Stamp(c) \in Nat
  BY Stamps
<1>2. Stamp(a) = Stamp(b) => a = b
  BY Stamps
<1> QED
  BY <1>1, <1>2 DEF Upto

\* There is a first and a last of finitely many dates.
LEMMA Extremes ==
  ASSUME NEW S \in SUBSET Dates, IsFiniteSet(S), S # {}
  PROVE  /\ Latest(S) \in S /\ \A z \in S : Upto(z, Latest(S))
         /\ Earliest(S) \in S /\ \A z \in S : Upto(Earliest(S), z)
<1> DEFINE key == [x \in S |-> Stamp(x)]
           N == Cardinality(S)
<1>1. key \in [S -> Nat] /\ \A a, b \in S : key[a] = key[b] => a = b
  BY Stamps
<1>2. PICK rank \in [S -> 0..N - 1] :
        /\ \A a, b \in S : key[a] < key[b] <=> rank[a] < rank[b]
        /\ \A n \in 0..N - 1 : \E a \in S : rank[a] = n
  <2> HIDE DEF key
  <2> QED
    BY <1>1, Ranked
<1>3. N \in Nat
  BY FS_CardinalityType
<1>4. N # 0
  BY FS_EmptySet
<1>5. PICK first \in S : rank[first] = 0
  BY <1>2, <1>4, <1>3
<1>6. PICK last \in S : rank[last] = N - 1
  BY <1>2, <1>4, <1>3
<1>7. ASSUME NEW z \in S
      PROVE  Upto(first, z) /\ Upto(z, last)
  <2>1. rank[z] \in 0..N - 1
    BY <1>2
  <2>2. ~(rank[z] < rank[first]) /\ ~(rank[last] < rank[z])
    BY <1>2, <1>5, <1>6, <1>3, <2>1
  <2>3. ~(key[z] < key[first]) /\ ~(key[last] < key[z])
    BY <1>2, <2>2
  <2>4. Stamp(z) \in Nat /\ Stamp(first) \in Nat /\ Stamp(last) \in Nat
    BY Stamps
  <2> QED
    BY <2>3, <2>4 DEF Upto
<1>8. Latest(S) \in S /\ \A z \in S : Upto(z, Latest(S))
  BY <1>7 DEF Latest
<1>9. Earliest(S) \in S /\ \A z \in S : Upto(Earliest(S), z)
  BY <1>7 DEF Earliest
<1> QED
  BY <1>8, <1>9

-----------------------------------------------------------------------------
\* Periods

\* The ranges that the server takes are dates.
LEMMA AroundDates ==
  ASSUME NEW x \in Dates
  PROVE  /\ YearAround(x) \in [start : Dates, end : Dates] /\ YearAround(x).end.y = x.y
         /\ QuarterAround(x) \in [start : Dates, end : Dates] /\ QuarterAround(x).end.y = x.y
         /\ MonthAround(x) \in [start : Dates, end : Dates] /\ MonthAround(x).end.y = x.y
<1>1. x.y \in Nat \ {0} /\ x.m \in 1..12
  BY DateFields
<1>2. /\ Quarter(x) \in 1..4 /\ 3 * Quarter(x) - 2 \in 1..12 /\ 3 * Quarter(x) \in 1..12
  <2>1. Quarter(x) \in 1..4
    BY <1>1, Quarters
  <2> QED
    BY <2>1
<1>3. \A m \in 1..12 : Day(x.y, m, 1) \in Dates /\ MonthEnd(x.y, m) \in Dates
  <2>1. ASSUME NEW m \in 1..12 PROVE Day(x.y, m, 1) \in Dates
    <3>1. 1 <= MonthLength(x.y, m)
      BY LengthRange
    <3> QED
      BY <1>1, <3>1, DayIsDate
  <2> QED
    BY <1>1, <2>1, EndOfMonth
<1>4. \A m \in 1..12 : MonthEnd(x.y, m).y = x.y
  BY DayFields DEF MonthEnd
<1>5. YearAround(x) = [start |-> Day(x.y, 1, 1), end |-> MonthEnd(x.y, 12)]
  BY LastOfYear DEF YearAround
<1> QED
  BY <1>1, <1>2, <1>3, <1>4, <1>5, MonthRange, QuarterRangeOf

\* DATE_TRUNC puts together the days of one period, and keeps their order.
LEMMA Truncation ==
  ASSUME NEW level \in Levels, NEW a \in Dates, NEW b \in Dates
  PROVE  /\ Truncated(level, a) \in Dates
         /\ Truncated(level, a) = Truncated(level, b) <=> Together(level, a, b)
         /\ Upto(a, b) => Upto(Truncated(level, a), Truncated(level, b))
<1>1. /\ a.y \in Nat \ {0} /\ a.m \in 1..12 /\ a.d \in 1..31
      /\ b.y \in Nat \ {0} /\ b.m \in 1..12 /\ b.d \in 1..31
      /\ a = Day(a.y, a.m, a.d) /\ b = Day(b.y, b.m, b.d)
  BY DateFields
<1>2. /\ Quarter(a) \in 1..4 /\ a.m \in 3 * Quarter(a) - 2 .. 3 * Quarter(a)
      /\ Quarter(b) \in 1..4 /\ b.m \in 3 * Quarter(b) - 2 .. 3 * Quarter(b)
  BY <1>1, Quarters
<1>3. 3 * Quarter(a) - 2 \in 1..12 /\ 3 * Quarter(b) - 2 \in 1..12
  BY <1>2
<1>4. /\ \A m \in 1..12 : Day(a.y, m, 1) \in Dates /\ Day(b.y, m, 1) \in Dates
  <2>1. ASSUME NEW m \in 1..12
        PROVE  Day(a.y, m, 1) \in Dates /\ Day(b.y, m, 1) \in Dates
    <3>1. 1 <= MonthLength(a.y, m) /\ 1 <= MonthLength(b.y, m)
      BY LengthRange
    <3> QED
      BY <1>1, <3>1, DayIsDate
  <2> QED
    BY <2>1
<1>5. Upto(a, b) <=> \/ a.y < b.y
                     \/ a.y = b.y /\ (a.m < b.m \/ (a.m = b.m /\ a.d <= b.d))
  BY Ordered
<1>6. ASSUME NEW m \in 1..12, NEW n \in 1..12
      PROVE  /\ Day(a.y, m, 1) = Day(b.y, n, 1) <=> a.y = b.y /\ m = n
             /\ Upto(Day(a.y, m, 1), Day(b.y, n, 1)) <=> (a.y < b.y \/ (a.y = b.y /\ m <= n))
  <2>1. Day(a.y, m, 1) = Day(b.y, n, 1) <=> a.y = b.y /\ m = n
    BY DEF Day
  <2>2. /\ Day(a.y, m, 1).y = a.y /\ Day(a.y, m, 1).m = m /\ Day(a.y, m, 1).d = 1
        /\ Day(b.y, n, 1).y = b.y /\ Day(b.y, n, 1).m = n /\ Day(b.y, n, 1).d = 1
    BY DayFields
  <2>3. Upto(Day(a.y, m, 1), Day(b.y, n, 1)) <=>
          \/ Day(a.y, m, 1).y < Day(b.y, n, 1).y
          \/ Day(a.y, m, 1).y = Day(b.y, n, 1).y
             /\ (Day(a.y, m, 1).m < Day(b.y, n, 1).m
                 \/ (Day(a.y, m, 1).m = Day(b.y, n, 1).m /\ Day(a.y, m, 1).d <= Day(b.y, n, 1).d))
    BY <1>4, Ordered
  <2> QED
    BY <2>1, <2>2, <2>3
<1>7. CASE level = "year"
  <2>1. Truncated(level, a) = Day(a.y, 1, 1) /\ Truncated(level, b) = Day(b.y, 1, 1)
    BY <1>7, FirstOfPeriod
  <2>2. Together(level, a, b) <=> a.y = b.y
    BY <1>7 DEF Together
  <2> QED
    BY <1>1, <1>4, <1>5, <1>6, <2>1, <2>2
<1>8. CASE level = "quarter"
  <2>1. /\ Truncated(level, a) = Day(a.y, 3 * Quarter(a) - 2, 1)
        /\ Truncated(level, b) = Day(b.y, 3 * Quarter(b) - 2, 1)
    BY <1>8, FirstOfPeriod
  <2>2. Together(level, a, b) <=> a.y = b.y /\ Quarter(a) = Quarter(b)
    BY <1>8 DEF Together
  <2>3. 3 * Quarter(a) - 2 = 3 * Quarter(b) - 2 <=> Quarter(a) = Quarter(b)
    BY <1>2
  <2>4. a.m <= b.m => 3 * Quarter(a) - 2 <= 3 * Quarter(b) - 2
    BY <1>1, <1>2
  <2> QED
    BY <1>1, <1>3, <1>4, <1>5, <1>6, <2>1, <2>2, <2>3, <2>4
<1>9. CASE level = "month"
  <2>1. Truncated(level, a) = Day(a.y, a.m, 1) /\ Truncated(level, b) = Day(b.y, b.m, 1)
    BY <1>9, FirstOfPeriod
  <2>2. Together(level, a, b) <=> a.y = b.y /\ a.m = b.m
    BY <1>9 DEF Together, Quarter
  <2> QED
    BY <1>1, <1>4, <1>5, <1>6, <2>1, <2>2
<1>10. CASE level = "day"
  <2>1. Truncated(level, a) = a /\ Truncated(level, b) = b
    BY <1>10 DEF Truncated
  <2>2. Together(level, a, b) <=> a.y = b.y /\ a.m = b.m /\ a.d = b.d
    BY <1>10 DEF Together, Quarter
  <2> QED
    BY <1>1, <2>1, <2>2
<1> QED
  BY <1>7, <1>8, <1>9, <1>10 DEF Levels

\* The rows of a drill: one for each period with data in the range, with the last
\* day of it.
LEMMA PeriodRows ==
  ASSUME NEW level \in Levels, NEW range \in [start : Dates, end : Dates],
         NEW days \in SUBSET Dates, IsFiniteSet(days)
  PROVE  /\ IsFiniteSet(Periods(level, range, days)) /\ Periods(level, range, days) \subseteq Rows
         /\ \A p \in Periods(level, range, days) :
              /\ p.date \in Within(days, range) /\ p.start = Truncated(level, p.date)
              /\ \A z \in Within(days, range) : Truncated(level, z) = p.start => Upto(z, p.date)
         /\ \A x \in Within(days, range) :
              \E p \in Periods(level, range, days) : p.start = Truncated(level, x)
<1> DEFINE W == Within(days, range)
           P == Periods(level, range, days)
           Same(t) == {x \in W : Truncated(level, x) = t}
           T == {Truncated(level, x) : x \in W}
           Row(t) == [start |-> t, date |-> Latest(Same(t))]
<1>1. W \in SUBSET Dates /\ W \in SUBSET days /\ IsFiniteSet(W)
  <2>1. W \in SUBSET days
    BY DEF Within
  <2>2. IsFiniteSet(W)
    BY <2>1, FS_Subset
  <2> QED
    BY <2>1, <2>2
<1>2. P = {Row(t) : t \in T}
  BY DEF Periods
<1>3. ASSUME NEW t \in T
      PROVE  /\ t \in Dates /\ Latest(Same(t)) \in W /\ t = Truncated(level, Latest(Same(t)))
             /\ \A z \in W : Truncated(level, z) = t => Upto(z, Latest(Same(t)))
  <2>1. PICK x \in W : t = Truncated(level, x)
    OBVIOUS
  <2>2. t \in Dates
    BY <1>1, <2>1, Truncation
  <2>3. Same(t) \in SUBSET W /\ Same(t) \in SUBSET Dates /\ Same(t) # {}
    BY <1>1, <2>1
  <2>4. IsFiniteSet(Same(t))
    BY <1>1, <2>3, FS_Subset
  <2>5. Latest(Same(t)) \in Same(t) /\ \A z \in Same(t) : Upto(z, Latest(Same(t)))
    <3> DEFINE S == Same(t)
    <3>1. S \in SUBSET Dates /\ S # {} /\ IsFiniteSet(S)
      BY <2>3, <2>4
    <3> HIDE DEF S
    <3>2. Latest(S) \in S /\ \A z \in S : Upto(z, Latest(S))
      BY <3>1, Extremes
    <3> QED
      BY <3>2 DEF S
  <2> QED
    BY <2>2, <2>5
<1> HIDE DEF Same
<1>4. \A p \in P : \E t \in T : p = Row(t)
  BY <1>2
<1>5. \A p \in P : /\ p.start \in Dates /\ p.date \in W /\ p.start = Truncated(level, p.date)
                   /\ \A z \in W : Truncated(level, z) = p.start => Upto(z, p.date)
                   /\ p = [start |-> p.start, date |-> p.date]
  BY <1>3, <1>4
<1>6. P \subseteq Rows
  BY <1>1, <1>5 DEF Rows
<1>7. \A x \in W : \E p \in P : p.start = Truncated(level, x)
  <2> SUFFICES ASSUME NEW x \in W
               PROVE  \E p \in P : p.start = Truncated(level, x)
    OBVIOUS
  <2>1. Row(Truncated(level, x)) \in P
    BY <1>2
  <2> QED
    BY <2>1
<1>8. IsFiniteSet(P)
  <2> DEFINE f == [x \in W |-> Row(Truncated(level, x))]
  <2>1. f \in [W -> P] /\ \A p \in P : \E x \in W : f[x] = p
    BY <1>2
  <2> HIDE DEF f, P, W
  <2>2. f \in Surjection(W, P)
    BY <2>1, Fun_IsSurj
  <2> QED
    BY <1>1, <2>2, FS_Surjection
<1> QED
  BY <1>5, <1>6, <1>7, <1>8

\* ORDER BY period_start: every row once, by its start.
LEMMA SortedRows ==
  ASSUME NEW S \in SUBSET Rows, IsFiniteSet(S), \A a, b \in S : a.start = b.start => a = b
  PROVE  /\ Cardinality(S) \in Nat /\ InOrder(S) \in Seq(S) /\ Len(InOrder(S)) = Cardinality(S)
         /\ DOMAIN InOrder(S) = 1..Cardinality(S)
         /\ \A n \in 1..Cardinality(S) : InOrder(S)[n] \in S
         /\ \A a \in S : \E n \in 1..Cardinality(S) : InOrder(S)[n] = a
         /\ \A m, n \in 1..Cardinality(S) :
              m < n => Stamp(InOrder(S)[m].start) < Stamp(InOrder(S)[n].start)
<1> DEFINE N == Cardinality(S)
           key == [a \in S |-> Stamp(a.start)]
           Rank(a) == Cardinality({b \in S : Stamp(b.start) < Stamp(a.start)})
<1>1. N \in Nat
  BY FS_CardinalityType
<1>2. key \in [S -> Nat] /\ \A a, b \in S : key[a] = key[b] => a = b
  <2>1. \A a \in S : a.start \in Dates
    BY DEF Rows
  <2> QED
    BY <2>1, Stamps
<1>3. PICK rank \in [S -> 0..N - 1] :
        /\ \A a \in S : rank[a] = Cardinality(Smaller(S, key, a))
        /\ \A a, b \in S : key[a] < key[b] <=> rank[a] < rank[b]
        /\ \A n \in 0..N - 1 : \E a \in S : rank[a] = n
  <2> HIDE DEF key
  <2> QED
    BY <1>2, Ranked
<1>4. ASSUME NEW a \in S
      PROVE  rank[a] = Rank(a)
  <2>1. Smaller(S, key, a) = {b \in S : Stamp(b.start) < Stamp(a.start)}
    BY DEF Smaller
  <2> QED
    BY <1>3, <2>1
<1>5. InOrder(S) = [n \in 1..N |-> CHOOSE a \in S : Rank(a) = n - 1]
  BY DEF InOrder
<1>6. \A a, b \in S : rank[a] < rank[b] <=> Stamp(a.start) < Stamp(b.start)
  BY <1>3
<1> HIDE DEF Rank
<1>7. ASSUME NEW n \in 1..N
      PROVE  InOrder(S)[n] \in S /\ rank[InOrder(S)[n]] = n - 1
  <2>1. n - 1 \in 0..N - 1
    BY <1>1
  <2>2. \E a \in S : Rank(a) = n - 1
    BY <1>3, <1>4, <2>1
  <2>3. InOrder(S)[n] = CHOOSE a \in S : Rank(a) = n - 1
    BY <1>5
  <2> QED
    BY <1>4, <2>2, <2>3
<1>8. InOrder(S) \in [1..N -> S]
  BY <1>5, <1>7
<1>9. ASSUME NEW a \in S
      PROVE  \E n \in 1..N : InOrder(S)[n] = a
  <2>1. rank[a] \in 0..N - 1
    BY <1>3
  <2>2. PICK n \in 1..N : n - 1 = rank[a]
    <3>1. rank[a] + 1 \in 1..N /\ (rank[a] + 1) - 1 = rank[a]
      BY <1>1, <2>1
    <3> QED
      BY <3>1
  <2>3. rank[InOrder(S)[n]] = rank[a] /\ InOrder(S)[n] \in S
    BY <1>7, <2>2
  <2>4. key[InOrder(S)[n]] \in Nat /\ key[a] \in Nat
    BY <1>2, <2>3
  <2>5. ~(rank[a] < rank[a])
    BY <1>1, <2>1
  <2>6. ~(key[InOrder(S)[n]] < key[a]) /\ ~(key[a] < key[InOrder(S)[n]])
    BY <1>3, <2>3, <2>5
  <2>7. key[InOrder(S)[n]] = key[a]
    BY <2>4, <2>6
  <2> QED
    BY <1>2, <2>3, <2>7
<1>10. ASSUME NEW m \in 1..N, NEW n \in 1..N, m < n
       PROVE  Stamp(InOrder(S)[m].start) < Stamp(InOrder(S)[n].start)
  <2>1. m - 1 < n - 1
    BY <1>1, <1>10
  <2> QED
    BY <1>6, <1>7, <2>1
<1>11. InOrder(S) \in Seq(S) /\ Len(InOrder(S)) = N /\ DOMAIN InOrder(S) = 1..N
  BY <1>1, <1>8, SeqDef
<1> QED
  BY <1>1, <1>7, <1>9, <1>10, <1>11

\* The row limit cuts from the end, and nothing when the rows are within it.
LEMMA LimitedRows ==
  ASSUME NEW S, NEW s \in Seq(S)
  PROVE  /\ \A n \in DOMAIN Limited(s) : Limited(s)[n] \in S
         /\ Len(s) <= DefaultLimit => Limited(s) = s
<1>1. Len(s) \in Nat /\ DefaultLimit \in Nat /\ DOMAIN s = 1..Len(s) /\ s \in [1..Len(s) -> S]
  BY LenProperties, DrillAssumption
<1>2. PICK k \in Nat : k = Min({Len(s), DefaultLimit}) /\ k <= Len(s)
                       /\ (Len(s) <= DefaultLimit => k = Len(s))
  <2>1. PICK k \in {Len(s), DefaultLimit} : \A y \in {Len(s), DefaultLimit} : k =< y
    <3>1. Len(s) <= DefaultLimit \/ DefaultLimit <= Len(s)
      BY <1>1
    <3> QED
      BY <1>1, <3>1
  <2>2. /\ Min({Len(s), DefaultLimit}) \in {Len(s), DefaultLimit}
        /\ \A y \in {Len(s), DefaultLimit} : Min({Len(s), DefaultLimit}) =< y
    BY <2>1 DEF Min
  <2>3. /\ Min({Len(s), DefaultLimit}) \in Nat /\ Min({Len(s), DefaultLimit}) <= Len(s)
        /\ Len(s) <= DefaultLimit => Min({Len(s), DefaultLimit}) = Len(s)
    BY <1>1, <2>2
  <2> QED
    BY <2>3
<1>3. \A i \in 1..k : s[i] \in S
  BY <1>1, <1>2
<1>4. Limited(s) = SubSeq(s, 1, k)
  BY <1>2 DEF Limited
<1>5. SubSeq(s, 1, k) \in Seq(S)
  BY <1>3, SubSeqProperties
<1>6. \A n \in DOMAIN Limited(s) : Limited(s)[n] \in S
  <2>1. Limited(s) \in Seq(S)
    BY <1>4, <1>5
  <2> QED
    BY <2>1, LenProperties
<1>7. ASSUME Len(s) <= DefaultLimit PROVE Limited(s) = s
  <2>1. SubSeq(s, 1, Len(s)) = s
    BY SubSeqFull
  <2> QED
    BY <1>2, <1>4, <1>7, <2>1
<1> QED
  BY <1>6, <1>7

-----------------------------------------------------------------------------
\* What drilled records are made of

FocusOf(above) == IF above.focus = NoDate THEN Today ELSE above.focus

\* The range of the button is that of the record it drills, or of the days there were.
ByButton(level, range, above, before) ==
    /\ level = "year" =>
         /\ before.all # {}
         /\ range = [start |-> Earliest(before.all), end |-> Latest(before.all)]
    /\ level = "quarter" => range = YearAround(FocusOf(above))
    /\ level = "month" => range = QuarterAround(FocusOf(above))
    /\ level = "day" => range = MonthAround(FocusOf(above))

\* That of a click is the period of the row that was clicked.
ByClick(range, row, above) ==
    /\ above.level \in Levels \ {"day"}
    /\ \E n \in DOMAIN above.rows : row = above.rows[n]
    /\ range = PeriodOf(above.level, row.start)

\* The range of a drill fits what it drills and the data there was when it began.
Fits(d, above, before) ==
    /\ d.level \in Levels /\ d.range \in [start : Dates, end : Dates]
    /\ d.by \in {"button", "click", "caller"}
    /\ d.by = "button" => ByButton(d.level, d.range, above, before)
    /\ d.by = "click" => ByClick(d.range, d.clicked, above)
    /\ d.by = "caller" => d.range \in Ranges

\* The rows of a drilled record come from the data that was held, in its range.
MadeFrom(r, above, before, held) ==
    /\ Fits(r, above, before)
    /\ r.focus = r.range.end
    /\ r.rows = Limited(InOrder(Periods(r.level, r.range, held.ours)))
    /\ r.cut = (Len(InOrder(Periods(r.level, r.range, held.ours))) > DefaultLimit)

Made(i) ==
    LET r == records[i]
    IN /\ r.from \in 1..i - 1 /\ r.edition \in DOMAIN data /\ r.ranged \in 1..r.edition
       /\ MadeFrom(r, records[r.from], data[r.ranged], data[r.edition])

\* A drill under way has the record it drills and its range.
Begun(d) ==
    /\ d.from \in DOMAIN records /\ d.ranged \in DOMAIN data
    /\ Fits(d, records[d.from], data[d.ranged])

\* The inductive invariant: the first record is that of the question, the others are
\* made from an earlier one and from editions of the data, and every drill under way
\* will be.
IInv ==
    /\ data \in Seq(Holdings) /\ data # <<>>
    /\ (\E S : records \in Seq(S)) /\ records # <<>>
    /\ \E focus \in Focuses : records[1] = Source(focus)
    /\ \A i \in 2..Len(records) : Made(i)
    /\ drilling = [t \in Drillers |-> drilling[t]]
    /\ \A t \in Drillers : drilling[t] = Idle \/ Begun(drilling[t])

LEMMA HeldDates ==
  ASSUME NEW h \in Holdings
  PROVE  /\ h.ours \in SUBSET Dates /\ IsFiniteSet(h.ours) /\ h.ours \subseteq h.all
         /\ h.all \in SUBSET Dates /\ IsFiniteSet(h.all)
<1>1. h.ours \subseteq h.all /\ h.all \subseteq Dates /\ IsFiniteSet(h.all)
  BY DrillAssumption
<1>2. IsFiniteSet(h.ours)
  BY <1>1, FS_Subset
<1> QED
  BY <1>1, <1>2

RowsOf(r, held) == Periods(r.level, r.range, held.ours)
DaysOf(r, held) == Within(held.ours, r.range)

\* The rows of a record are rows of its periods, in order and all of them unless they
\* were cut.
LEMMA ShownRows ==
  ASSUME NEW r, NEW above, NEW before, NEW held \in Holdings,
         MadeFrom(r, above, before, held)
  PROVE  /\ \A n \in DOMAIN r.rows : r.rows[n] \in RowsOf(r, held)
         /\ RowsOf(r, held) \subseteq Rows
         /\ \A p \in RowsOf(r, held) :
              /\ p.date \in DaysOf(r, held) /\ p.start = Truncated(r.level, p.date)
              /\ \A z \in DaysOf(r, held) : Truncated(r.level, z) = p.start => Upto(z, p.date)
         /\ \A x \in DaysOf(r, held) : \E p \in RowsOf(r, held) : p.start = Truncated(r.level, x)
         /\ r.cut \/ /\ Len(r.rows) \in Nat /\ DOMAIN r.rows = 1..Len(r.rows)
                     /\ \A p \in RowsOf(r, held) : \E n \in DOMAIN r.rows : r.rows[n] = p
                     /\ \A m, n \in DOMAIN r.rows :
                           m < n => Stamp(r.rows[m].start) < Stamp(r.rows[n].start)
<1> DEFINE P == RowsOf(r, held)
           s == InOrder(P)
<1>1. P = Periods(r.level, r.range, held.ours) /\ DaysOf(r, held) = Within(held.ours, r.range)
  BY DEF RowsOf, DaysOf
<1>2. r.level \in Levels /\ r.range \in [start : Dates, end : Dates]
  BY DEF MadeFrom, Fits
<1>3. /\ IsFiniteSet(P) /\ P \subseteq Rows
      /\ \A p \in P :
           /\ p.date \in DaysOf(r, held) /\ p.start = Truncated(r.level, p.date)
           /\ \A z \in DaysOf(r, held) : Truncated(r.level, z) = p.start => Upto(z, p.date)
      /\ \A x \in DaysOf(r, held) : \E p \in P : p.start = Truncated(r.level, x)
  BY <1>1, <1>2, HeldDates, PeriodRows
<1> HIDE DEF P
<1>4. \A a, b \in P : a.start = b.start => a = b
  <2> SUFFICES ASSUME NEW a \in P, NEW b \in P, a.start = b.start
               PROVE  a = b
    OBVIOUS
  <2>1. Upto(a.date, b.date) /\ Upto(b.date, a.date)
    BY <1>3
  <2>2. a.date \in Dates /\ b.date \in Dates
    BY <1>3 DEF Rows
  <2>3. a.date = b.date
    BY <2>1, <2>2, Order
  <2> QED
    BY <1>3, <2>3 DEF Rows
<1>5. /\ Cardinality(P) \in Nat /\ s \in Seq(P) /\ Len(s) = Cardinality(P)
      /\ DOMAIN s = 1..Cardinality(P)
      /\ \A a \in P : \E n \in 1..Cardinality(P) : s[n] = a
      /\ \A m, n \in 1..Cardinality(P) : m < n => Stamp(s[m].start) < Stamp(s[n].start)
  BY <1>3, <1>4, SortedRows
<1>6. r.rows = Limited(s) /\ r.cut = (Len(s) > DefaultLimit)
  BY <1>1 DEF MadeFrom
<1> HIDE DEF s, P
<1>7. \A n \in DOMAIN r.rows : r.rows[n] \in P
  BY <1>5, <1>6, LimitedRows
<1>8. ASSUME ~r.cut
      PROVE  r.rows = s
  <2>1. Len(s) <= DefaultLimit
    <3>1. ~(Len(s) > DefaultLimit)
      BY <1>6, <1>8, Zenon
    <3> QED
      BY <1>5, <3>1, DrillAssumption
  <2> QED
    BY <1>5, <1>6, <2>1, LimitedRows
<1>9. r.cut \/ /\ Len(r.rows) \in Nat /\ DOMAIN r.rows = 1..Len(r.rows)
               /\ \A p \in P : \E n \in DOMAIN r.rows : r.rows[n] = p
               /\ \A m, n \in DOMAIN r.rows :
                     m < n => Stamp(r.rows[m].start) < Stamp(r.rows[n].start)
  BY <1>5, <1>8
<1> QED
  BY <1>3, <1>7, <1>9 DEF P

\* A row stands for a period: the page's range for its start is the server's for its date.
LEMMA ClickedRange ==
  ASSUME NEW level \in Levels \ {"day"}, NEW x \in Dates
  PROVE  /\ PeriodOf(level, Truncated(level, x)) \in [start : Dates, end : Dates]
         /\ PeriodOf(level, Truncated(level, x)).end.y = x.y
         /\ \A z \in Dates :
              /\ Upto(PeriodOf(level, Truncated(level, x)).start, z)
              /\ Upto(z, PeriodOf(level, Truncated(level, x)).end)
              <=> Together(level, z, x)
<1>1. CASE level = "year"
  BY <1>1, PageAgrees, AroundDates, YearCovered DEF Together
<1>2. CASE level = "quarter"
  BY <1>2, PageAgrees, AroundDates, QuarterCovered DEF Together
<1>3. CASE level = "month"
  <2>1. \A z \in Dates : Together(level, z, x) <=> z.y = x.y /\ z.m = x.m
    BY <1>3 DEF Together, Quarter
  <2> QED
    BY <1>3, <2>1, PageAgrees, AroundDates, MonthCovered
<1> QED
  BY <1>1, <1>2, <1>3 DEF Levels

-----------------------------------------------------------------------------
\* What drilled records show

InSpan(x, before) == \E a, b \in before.all : Upto(a, x) /\ Upto(x, b)

DaysAround(level, focus, before, held) ==
    {x \in held.ours : IF level = "year" THEN InSpan(x, before)
                       ELSE Together(Above[level], x, focus)}

Lasts(level, days) == {x \in days : \A z \in days : Together(level, x, z) => Upto(z, x)}

DaysShown(r) == {r.rows[n].date : n \in DOMAIN r.rows}

\* A drill by the button shows the last day of data of every period of the year,
\* quarter or month of the date it starts from, or of the span of what was held before.
LEMMA ButtonShows ==
  ASSUME NEW r, NEW above, NEW before \in Holdings, NEW held \in Holdings,
         MadeFrom(r, above, before, held), r.by = "button", ~r.cut,
         FocusOf(above) \in Dates
  PROVE  DaysShown(r) = Lasts(r.level, DaysAround(r.level, FocusOf(above), before, held))
<1> DEFINE focus == FocusOf(above)
           days == DaysAround(r.level, focus, before, held)
           W == DaysOf(r, held)
           P == RowsOf(r, held)
<1>1. r.level \in Levels /\ held.ours \in SUBSET Dates /\ focus \in Dates
  BY HeldDates DEF MadeFrom, Fits, ByButton
<1>2. W = days
  <2>1. CASE r.level = "year"
    <3>1. /\ before.all # {}
          /\ r.range.start = Earliest(before.all) /\ r.range.end = Latest(before.all)
      BY <2>1 DEF MadeFrom, Fits, ByButton
    <3>2. /\ r.range.start \in before.all /\ r.range.end \in before.all
          /\ r.range.start \in Dates /\ r.range.end \in Dates
          /\ \A z \in before.all : z \in Dates /\ Upto(r.range.start, z) /\ Upto(z, r.range.end)
      BY <3>1, HeldDates, Extremes
    <3>3. ASSUME NEW x \in held.ours
          PROVE  Upto(r.range.start, x) /\ Upto(x, r.range.end) <=> InSpan(x, before)
      <4>1. x \in Dates
        BY <1>1
      <4>2. ASSUME NEW a \in before.all, NEW b \in before.all, Upto(a, x), Upto(x, b)
            PROVE  Upto(r.range.start, x) /\ Upto(x, r.range.end)
        BY <3>2, <4>1, <4>2, Order
      <4> QED
        BY <3>2, <4>2 DEF InSpan
    <3> QED
      BY <2>1, <3>3 DEF DaysOf, Within, DaysAround
  <2>2. CASE r.level = "quarter"
    <3>1. r.range = YearAround(focus) /\ Above[r.level] = "year"
      BY <2>2 DEF MadeFrom, Fits, ByButton, Above
    <3>2. \A z \in held.ours : Upto(r.range.start, z) /\ Upto(z, r.range.end) <=>
                          Together("year", z, focus)
      BY <1>1, <3>1, YearCovered DEF Together
    <3> QED
      BY <2>2, <3>1, <3>2 DEF DaysOf, Within, DaysAround
  <2>3. CASE r.level = "month"
    <3>1. r.range = QuarterAround(focus) /\ Above[r.level] = "quarter"
      BY <2>3 DEF MadeFrom, Fits, ByButton, Above
    <3>2. \A z \in held.ours : Upto(r.range.start, z) /\ Upto(z, r.range.end) <=>
                          Together("quarter", z, focus)
      BY <1>1, <3>1, QuarterCovered DEF Together
    <3> QED
      BY <2>3, <3>1, <3>2 DEF DaysOf, Within, DaysAround
  <2>4. CASE r.level = "day"
    <3>1. r.range = MonthAround(focus) /\ Above[r.level] = "month"
      BY <2>4 DEF MadeFrom, Fits, ByButton, Above
    <3>2. \A z \in Dates : Together("month", z, focus) <=> z.y = focus.y /\ z.m = focus.m
      BY DEF Together, Quarter
    <3>3. \A z \in held.ours : Upto(r.range.start, z) /\ Upto(z, r.range.end) <=>
                          Together("month", z, focus)
      BY <1>1, <3>1, <3>2, MonthCovered
    <3> QED
      BY <2>4, <3>1, <3>3 DEF DaysOf, Within, DaysAround
  <2> QED
    BY <1>1, <2>1, <2>2, <2>3, <2>4 DEF Levels
<1>3. /\ \A n \in DOMAIN r.rows : r.rows[n] \in P
      /\ \A p \in P :
           /\ p.date \in W /\ p.start = Truncated(r.level, p.date)
           /\ \A z \in W : Truncated(r.level, z) = p.start => Upto(z, p.date)
      /\ \A x \in W : \E p \in P : p.start = Truncated(r.level, x)
      /\ \A p \in P : \E n \in DOMAIN r.rows : r.rows[n] = p
  BY ShownRows
<1>4. W \subseteq Dates
  BY <1>1 DEF DaysOf, Within
<1> HIDE DEF W, P, days, focus
<1>5. ASSUME NEW n \in DOMAIN r.rows
      PROVE  /\ r.rows[n].date \in W
             /\ \A z \in W : Together(r.level, r.rows[n].date, z) => Upto(z, r.rows[n].date)
  <2>1. /\ r.rows[n].date \in W /\ r.rows[n].start = Truncated(r.level, r.rows[n].date)
        /\ \A z \in W : Truncated(r.level, z) = r.rows[n].start => Upto(z, r.rows[n].date)
    BY <1>3
  <2>2. \A z \in W : Together(r.level, r.rows[n].date, z) <=>
                        Truncated(r.level, r.rows[n].date) = Truncated(r.level, z)
    BY <1>1, <1>4, <2>1, Truncation
  <2> QED
    BY <2>1, <2>2
<1>6. ASSUME NEW x \in W, \A z \in W : Together(r.level, x, z) => Upto(z, x)
      PROVE  \E n \in DOMAIN r.rows : r.rows[n].date = x
  <2>1. PICK p \in P : p.start = Truncated(r.level, x)
    BY <1>3
  <2>2. PICK n \in DOMAIN r.rows : r.rows[n] = p
    BY <1>3
  <2>3. /\ p.date \in W /\ p.start = Truncated(r.level, p.date)
        /\ \A z \in W : Truncated(r.level, z) = p.start => Upto(z, p.date)
    BY <1>3
  <2>4. Upto(x, p.date)
    BY <2>1, <2>3
  <2>5. Together(r.level, x, p.date)
    BY <1>1, <1>4, <2>1, <2>3, Truncation
  <2>6. Upto(p.date, x)
    BY <1>6, <2>3, <2>5
  <2>7. p.date = x
    BY <1>4, <2>3, <2>4, <2>6, Order
  <2> QED
    BY <2>2, <2>7
<1>7. DaysShown(r) = Lasts(r.level, W)
  BY <1>5, <1>6 DEF DaysShown, Lasts
<1> QED
  BY <1>2, <1>7 DEF days, focus

\* A click shows rows of the clicked period alone, and ends on the day of the clicked
\* row unless that lies at the cut end of the range above.
LEMMA ClickShows ==
  ASSUME NEW r, NEW above, NEW top, NEW before, NEW earlier, NEW held \in Holdings,
         MadeFrom(r, above, before, held), MadeFrom(above, top, earlier, held),
         r.by = "click", ~r.cut
  PROVE  /\ r.rows # <<>>
         /\ \A n \in DOMAIN r.rows : Together(above.level, r.rows[n].date, r.clicked.date)
         /\ \/ r.rows[Len(r.rows)].date = r.clicked.date
            \/ ~Upto(r.rows[Len(r.rows)].date, above.range.end)
<1> DEFINE W == DaysOf(r, held)
           V == DaysOf(above, held)
           P == RowsOf(r, held)
           c == r.clicked.date
<1>1. /\ held.ours \in SUBSET Dates /\ r.level \in Levels
      /\ above.level \in Levels \ {"day"} /\ above.level \in Levels
      /\ above.range \in [start : Dates, end : Dates]
      /\ r.range = PeriodOf(above.level, r.clicked.start)
  BY HeldDates DEF MadeFrom, Fits, ByClick
<1>2. PICK k \in DOMAIN above.rows : r.clicked = above.rows[k]
  BY DEF MadeFrom, Fits, ByClick
<1>3. /\ c \in V /\ r.clicked.start = Truncated(above.level, c)
      /\ \A z \in V : Truncated(above.level, z) = r.clicked.start => Upto(z, c)
  BY <1>2, ShownRows
<1>4. V \subseteq held.ours /\ c \in Dates
  BY <1>1, <1>3 DEF DaysOf, Within
<1>5. \A z \in held.ours : z \in W <=> Together(above.level, z, c)
  BY <1>1, <1>3, <1>4, ClickedRange DEF DaysOf, Within
<1>6. c \in W
  BY <1>3, <1>4, <1>5 DEF Together
<1>7. /\ \A n \in DOMAIN r.rows : r.rows[n] \in P
      /\ \A p \in P :
           /\ p.date \in W /\ p.start = Truncated(r.level, p.date)
           /\ \A z \in W : Truncated(r.level, z) = p.start => Upto(z, p.date)
      /\ \A x \in W : \E p \in P : p.start = Truncated(r.level, x)
      /\ Len(r.rows) \in Nat /\ DOMAIN r.rows = 1..Len(r.rows)
      /\ \A p \in P : \E n \in DOMAIN r.rows : r.rows[n] = p
      /\ \A m, n \in DOMAIN r.rows : m < n => Stamp(r.rows[m].start) < Stamp(r.rows[n].start)
  BY ShownRows
<1>8. W \subseteq held.ours
  BY DEF DaysOf, Within
<1> HIDE DEF W, P
<1>9. PICK j \in DOMAIN r.rows : TRUE
  BY <1>6, <1>7
<1>10. Len(r.rows) \in DOMAIN r.rows /\ r.rows # <<>>
  <2>1. j \in 1..Len(r.rows) /\ Len(r.rows) \in 1..Len(r.rows)
    BY <1>7, <1>9
  <2>2. r.rows # <<>>
    BY <1>7, <2>1
  <2> QED
    BY <1>7, <2>1, <2>2
<1> DEFINE last == r.rows[Len(r.rows)]
<1>11. /\ last \in P /\ last.date \in W /\ last.date \in Dates
       /\ last.start = Truncated(r.level, last.date)
       /\ \A z \in W : Truncated(r.level, z) = last.start => Upto(z, last.date)
  BY <1>1, <1>7, <1>8, <1>10
\* No day of the period is later than the last row's.
<1>12. Upto(c, last.date)
  <2>1. PICK p \in P : p.start = Truncated(r.level, c)
    BY <1>6, <1>7
  <2>2. PICK n \in DOMAIN r.rows : r.rows[n] = p
    BY <1>7
  <2>3. CASE n = Len(r.rows)
    BY <1>6, <1>11, <2>1, <2>2, <2>3
  <2>4. CASE n # Len(r.rows)
    <3>1. n < Len(r.rows)
      BY <1>7, <2>2, <2>4
    <3>2. Stamp(p.start) < Stamp(last.start)
      BY <1>7, <1>10, <2>2, <3>1
    <3>3. Upto(last.date, c) => Upto(last.start, p.start)
      BY <1>1, <1>4, <1>11, <2>1, Truncation
    <3>4. Stamp(p.start) \in Nat /\ Stamp(last.start) \in Nat
      <4>1. p.start \in Dates /\ last.start \in Dates
        BY <1>1, <1>4, <1>11, <2>1, Truncation
      <4> QED
        BY <4>1, Stamps
    <3>5. ~Upto(last.date, c)
      BY <3>2, <3>3, <3>4 DEF Upto
    <3> QED
      BY <1>4, <1>11, <3>5, Order
  <2> QED
    BY <2>3, <2>4
<1>13. ASSUME Upto(last.date, above.range.end)
       PROVE  last.date = c
  <2>1. Upto(above.range.start, c)
    BY <1>3 DEF DaysOf, Within
  <2>2. Upto(above.range.start, last.date)
    BY <1>1, <1>4, <1>11, <1>12, <2>1, Order
  <2>3. last.date \in V
    BY <1>8, <1>11, <1>13, <2>2 DEF DaysOf, Within
  <2>4. Truncated(above.level, last.date) = Truncated(above.level, c)
    BY <1>1, <1>4, <1>5, <1>8, <1>11, Truncation
  <2>5. Upto(last.date, c)
    BY <1>3, <2>3, <2>4
  <2> QED
    BY <1>4, <1>11, <1>12, <2>5, Order
<1>14. \A n \in DOMAIN r.rows : Together(above.level, r.rows[n].date, c)
  BY <1>5, <1>7, <1>8
<1> QED
  BY <1>10, <1>13, <1>14

-----------------------------------------------------------------------------
\* The invariant

LEMMA Lengths ==
  ASSUME IInv
  PROVE  /\ Len(data) \in Nat \ {0} /\ DOMAIN data = 1..Len(data) /\ Held \in Holdings
         /\ \A e \in DOMAIN data : data[e] \in Holdings
         /\ Len(records) \in Nat \ {0} /\ DOMAIN records = 1..Len(records)
         /\ records[1].level = "none" /\ records[1].by = "question"
         /\ records[1].from = 0 /\ records[1].edition = 1 /\ records[1].ranged = 1
         /\ records[1].focus \in Dates \cup {NoDate}
         /\ \A i \in DOMAIN records : i # 1 => Made(i) /\ i \in 2..Len(records)
<1>1. /\ data \in Seq(Holdings) /\ data # <<>> /\ records # <<>>
      /\ \A i \in 2..Len(records) : Made(i)
  BY DEF IInv
<1>2. Len(data) \in Nat \ {0} /\ DOMAIN data = 1..Len(data)
  BY <1>1, EmptySeq, LenProperties
<1>3. \A e \in DOMAIN data : data[e] \in Holdings
  BY <1>1, <1>2, ElementOfSeq
<1>4. Held \in Holdings
  BY <1>2, <1>3 DEF Held
<1>5. Len(records) \in Nat \ {0} /\ DOMAIN records = 1..Len(records)
  <2>1. PICK S : records \in Seq(S)
    BY DEF IInv
  <2> QED
    BY <1>1, <2>1, EmptySeq, LenProperties
<1>6. PICK focus \in Focuses : records[1] = Source(focus)
  BY DEF IInv
<1>7. /\ records[1].level = "none" /\ records[1].by = "question"
      /\ records[1].from = 0 /\ records[1].edition = 1 /\ records[1].ranged = 1
      /\ records[1].focus = focus
  BY <1>6 DEF Source
<1>8. focus \in Dates \cup {NoDate}
  BY DrillAssumption
<1>9. \A i \in DOMAIN records : i # 1 => i \in 2..Len(records)
  BY <1>5
<1> QED
  BY <1>1, <1>2, <1>3, <1>4, <1>5, <1>7, <1>8, <1>9

\* A date is known of every record, unless the question named none.
LEMMA FocusIsDate ==
  ASSUME IInv, NEW i \in DOMAIN records
  PROVE  records[i].focus \in Dates \cup {NoDate}
<1>1. CASE i = 1
  BY <1>1, Lengths
<1>2. CASE i # 1
  <2>1. Made(i)
    BY <1>2, Lengths
  <2>2. records[i].range \in [start : Dates, end : Dates]
        /\ records[i].focus = records[i].range.end
    BY <2>1 DEF Made, MadeFrom, Fits
  <2> QED
    BY <2>2
<1> QED
  BY <1>1, <1>2

\* What a drill that begins now is to be.
Drilling(level, by, row, range) ==
    [level |-> level, from |-> Len(records), by |-> by, clicked |-> row, range |-> range,
     ranged |-> Len(data)]

\* A drill that begins has the latest record and a range that fits it.
LEMMA Begins ==
  ASSUME IInv, NEW t \in Drillers, NEW level, NEW by, NEW row, NEW range,
         Start(t, Len(records), level, by, row, range),
         Fits(Drilling(level, by, row, range), records[Len(records)], Held)
  PROVE  IInv'
<1> DEFINE d == Drilling(level, by, row, range)
<1>1. /\ data' = data /\ records' = records
      /\ drilling' = [drilling EXCEPT ![t] = d]
  BY DEF Start, Drilling
<1>2. d.from = Len(records) /\ d.ranged = Len(data)
  BY DEF Drilling
<1>3. Len(records) \in DOMAIN records /\ Len(data) \in DOMAIN data
  BY Lengths
<1>4. Begun(d)
  BY <1>2, <1>3 DEF Begun, Held
<1> HIDE DEF d
<1>5. drilling' = [u \in Drillers |-> IF u = t THEN d ELSE drilling[u]]
  BY <1>1 DEF IInv
<1>6. ASSUME NEW u \in Drillers
      PROVE  (drilling[u] = Idle \/ Begun(drilling[u]))'
  <2>1. drilling[u] = Idle \/ Begun(drilling[u])
    BY DEF IInv
  <2>2. CASE u = t
    BY <1>1, <1>4, <1>5, <2>2 DEF Begun
  <2>3. CASE u # t
    <3>1. drilling'[u] = drilling[u]
      BY <1>5, <2>3
    <3> QED
      BY <1>1, <2>1, <3>1 DEF Begun
  <2> QED
    BY <2>2, <2>3
<1>7. drilling' = [u \in Drillers |-> drilling'[u]]
  BY <1>5
<1>8. \A i \in 2..Len(records') : Made(i)'
  BY <1>1 DEF IInv, Made
<1> QED
  BY <1>1, <1>6, <1>7, <1>8 DEF IInv

\* The button.
LEMMA Pressed ==
  ASSUME IInv, NEW t \in Drillers, NEW level \in Levels, PressButton(t, Len(records), level)
  PROVE  IInv'
<1> DEFINE i == Len(records)
           focus == FocusOf(records[i])
           range == DefaultRange(level, records[i].focus)
           d == Drilling(level, "button", NoRow, range)
<1>1. focus \in Dates
  BY Lengths, FocusIsDate, DrillAssumption DEF FocusOf
<1>2. level = "year" => Held.all # {}
  BY DEF PressButton
<1>3. /\ level = "year" => range = [start |-> Earliest(Held.all), end |-> Latest(Held.all)]
      /\ level = "quarter" => range = YearAround(focus)
      /\ level = "month" => range = QuarterAround(focus)
      /\ level = "day" => range = MonthAround(focus)
  BY DEF DefaultRange, FocusOf
<1>4. Start(t, i, level, "button", NoRow, range)
  BY DEF PressButton
<1> HIDE DEF range
<1>5. range \in [start : Dates, end : Dates]
  <2>1. CASE level = "year"
    <3>1. Earliest(Held.all) \in Dates /\ Latest(Held.all) \in Dates
      BY <1>2, <2>1, Lengths, HeldDates, Extremes
    <3> QED
      BY <1>3, <2>1, <3>1
  <2>2. CASE level # "year"
    BY <1>1, <1>3, <2>2, AroundDates DEF Levels
  <2> QED
    BY <2>1, <2>2
<1>6. ByButton(level, range, records[i], Held)
  BY <1>2, <1>3 DEF ByButton
<1>7. d.level = level /\ d.by = "button" /\ d.range = range
  BY DEF Drilling
<1>8. Fits(d, records[i], Held)
  BY <1>5, <1>6, <1>7 DEF Fits
<1> QED
  BY <1>4, <1>8, Begins

\* A caller's range.
LEMMA Ranged ==
  ASSUME IInv, NEW t \in Drillers, NEW level \in Levels, NEW range \in Ranges,
         DrillRange(t, Len(records), level, range)
  PROVE  IInv'
<1> DEFINE d == Drilling(level, "caller", NoRow, range)
<1>1. range \in [start : Dates, end : Dates]
  BY DrillAssumption
<1>2. d.level = level /\ d.by = "caller" /\ d.range = range
  BY DEF Drilling
<1>3. Fits(d, records[Len(records)], Held)
  BY <1>1, <1>2 DEF Fits
<1> QED
  BY <1>3, Begins DEF DrillRange

\* A click on a row.
LEMMA Clicked ==
  ASSUME IInv, NEW t \in Drillers, NEW n \in DOMAIN records[Len(records)].rows,
         Click(t, Len(records), n)
  PROVE  IInv'
<1> DEFINE above == records[Len(records)]
<1>1. PICK row, level, range :
        /\ row = above.rows[n] /\ level = NextTimeLevel[above.level]
        /\ range = PeriodOf(above.level, row.start)
  OBVIOUS
<1>2. /\ above.level \in Levels \ {"day"}
      /\ Start(t, Len(records), level, "click", row, range)
  BY <1>1 DEF Click
<1>3. level \in Levels
  BY <1>1, <1>2 DEF Levels, NextTimeLevel
<1>4. Len(records) # 1
  <2>1. records[1].level = "none"
    BY Lengths
  <2> QED
    BY <1>2, <2>1 DEF Levels
<1>5. Made(Len(records))
  BY <1>4, Lengths
<1>6. /\ data[above.edition] \in Holdings
      /\ MadeFrom(above, records[above.from], data[above.ranged], data[above.edition])
  BY <1>5, Lengths DEF Made
<1>7. row.date \in Dates /\ row.start = Truncated(above.level, row.date)
  BY <1>1, <1>6, ShownRows DEF Rows
<1>8. range \in [start : Dates, end : Dates]
  BY <1>1, <1>2, <1>7, ClickedRange
<1>9. ByClick(range, row, above)
  BY <1>1, <1>2 DEF ByClick
<1>10. PICK d : d = Drilling(level, "click", row, range)
  OBVIOUS
<1>11. d.level = level /\ d.by = "click" /\ d.range = range /\ d.clicked = row
  BY <1>10 DEF Drilling
<1>12. Fits(d, above, Held)
  BY <1>3, <1>8, <1>9, <1>11 DEF Fits
<1> QED
  BY <1>2, <1>10, <1>12, Begins

\* The drills under way once the thread's has ended.
LEMMA Ended ==
  ASSUME IInv, NEW t \in Drillers, drilling' = [drilling EXCEPT ![t] = Idle],
         data' = data,
         \A i \in DOMAIN records : i \in DOMAIN records' /\ records'[i] = records[i]
  PROVE  /\ drilling' = [u \in Drillers |-> drilling'[u]]
         /\ \A u \in Drillers : (drilling[u] = Idle \/ Begun(drilling[u]))'
<1>1. drilling' = [u \in Drillers |-> IF u = t THEN Idle ELSE drilling[u]]
  BY DEF IInv
<1>2. ASSUME NEW u \in Drillers
      PROVE  (drilling[u] = Idle \/ Begun(drilling[u]))'
  <2>1. drilling[u] = Idle \/ Begun(drilling[u])
    BY DEF IInv
  <2>2. CASE u = t
    BY <1>1, <2>2
  <2>3. CASE u # t
    <3>1. drilling'[u] = drilling[u]
      BY <1>1, <2>3
    <3> QED
      BY <2>1, <3>1 DEF Begun
  <2> QED
    BY <2>2, <2>3
<1> QED
  BY <1>1, <1>2

\* A record that is saved is made of what the drill began with and of what is held.
LEMMA Executed ==
  ASSUME IInv, NEW t \in Drillers, Execute(t)
  PROVE  IInv'
<1>1. PICK n, d, r : n = Len(records) /\ d = drilling[t] /\ r = Drilled(d)
  OBVIOUS
<1>2. /\ data' = data /\ records' = Append(records, r) /\ d # Idle
      /\ drilling' = [drilling EXCEPT ![t] = Idle]
  BY <1>1 DEF Execute
<1>3. n \in Nat \ {0} /\ DOMAIN records = 1..n /\ Len(data) \in Nat \ {0}
      /\ DOMAIN data = 1..Len(data) /\ Len(records) = n
  BY <1>1, Lengths
<1>4. PICK S : records \in Seq(S)
  BY DEF IInv
<1>5. records \in Seq(S \cup {r})
  BY <1>4, SeqMonotonic
<1>6. /\ records' \in Seq(S \cup {r}) /\ Len(records') = n + 1 /\ records'[n + 1] = r
      /\ \A i \in 1..n : records'[i] = records[i]
  BY <1>1, <1>2, <1>5, AppendProperties
<1>7. records' # <<>> /\ DOMAIN records' = 1..n + 1
  BY <1>3, <1>6, EmptySeq, LenProperties
<1>8. Begun(d)
  BY <1>1, <1>2 DEF IInv
<1>9. /\ r.level = d.level /\ r.from = d.from /\ r.by = d.by /\ r.clicked = d.clicked
      /\ r.range = d.range /\ r.ranged = d.ranged /\ r.focus = d.range.end
      /\ r.rows = Limited(InOrder(Periods(d.level, d.range, Held.ours)))
      /\ r.cut = (Len(InOrder(Periods(d.level, d.range, Held.ours))) > DefaultLimit)
      /\ r.edition = Len(data)
  <2>1. PICK rows : rows = InOrder(Periods(d.level, d.range, Held.ours))
    OBVIOUS
  <2>2. r = [level |-> d.level, from |-> d.from, by |-> d.by, clicked |-> d.clicked,
             range |-> d.range, ranged |-> d.ranged, focus |-> d.range.end,
             rows |-> Limited(rows), cut |-> Len(rows) > DefaultLimit, edition |-> Len(data)]
    BY <1>1, <2>1 DEF Drilled
  <2> QED
    BY <2>1, <2>2
<1>10. /\ r.from \in 1..n /\ r.edition \in DOMAIN data /\ r.ranged \in 1..r.edition
       /\ MadeFrom(r, records[r.from], data[r.ranged], data[r.edition])
  <2>1. d.from \in 1..n /\ d.ranged \in 1..Len(data) /\ Fits(d, records[d.from], data[d.ranged])
    BY <1>3, <1>8 DEF Begun
  <2>2. Fits(r, records[d.from], data[d.ranged])
    BY <1>9, <2>1 DEF Fits
  <2>3. MadeFrom(r, records[r.from], data[r.ranged], Held)
    BY <1>9, <2>2 DEF MadeFrom
  <2> QED
    BY <1>3, <1>9, <2>1, <2>3 DEF Held
<1>11. ASSUME NEW i \in 2..n + 1
       PROVE  Made(i)'
  <2>1. CASE i = n + 1
    <3>1. records'[i] = r /\ n = i - 1 /\ records'[r.from] = records[r.from]
      BY <1>3, <1>6, <1>10, <2>1
    <3> QED
      BY <1>2, <1>10, <3>1 DEF Made
  <2>2. CASE i # n + 1
    <3>1. i \in 2..n /\ i \in 1..n
      BY <1>3, <2>2
    <3>2. Made(i)
      BY <1>3, <3>1 DEF IInv
    <3>3. records[i].from \in 1..i - 1 /\ records[i].from \in 1..n
      BY <1>3, <3>1, <3>2 DEF Made
    <3>4. records'[i] = records[i] /\ records'[records[i].from] = records[records[i].from]
      BY <1>6, <3>1, <3>3
    <3> QED
      BY <1>2, <3>2, <3>4 DEF Made
  <2> QED
    BY <2>1, <2>2
<1>12. \A i \in 2..Len(records') : Made(i)'
  BY <1>6, <1>11
<1>13. \A i \in DOMAIN records : i \in DOMAIN records' /\ records'[i] = records[i]
  BY <1>3, <1>6, <1>7
<1>14. /\ drilling' = [u \in Drillers |-> drilling'[u]]
       /\ \A u \in Drillers : (drilling[u] = Idle \/ Begun(drilling[u]))'
  BY <1>2, <1>13, Ended
<1>15. \E focus \in Focuses : records'[1] = Source(focus)
  BY <1>3, <1>6 DEF IInv
<1>16. data' \in Seq(Holdings) /\ data' # <<>>
  BY <1>2 DEF IInv
<1>17. \E T : records' \in Seq(T)
  BY <1>6
<1> QED
  BY <1>7, <1>12, <1>14, <1>15, <1>16, <1>17 DEF IInv

\* A drill that raises leaves no record.
LEMMA Raised ==
  ASSUME IInv, NEW t \in Drillers, Raises(t)
  PROVE  IInv'
<1>1. /\ data' = data /\ records' = records
      /\ drilling' = [drilling EXCEPT ![t] = Idle]
  BY DEF Raises
<1>2. /\ drilling' = [u \in Drillers |-> drilling'[u]]
      /\ \A u \in Drillers : (drilling[u] = Idle \/ Begun(drilling[u]))'
  BY <1>1, Ended
<1>3. \A i \in 2..Len(records') : Made(i)'
  BY <1>1 DEF IInv, Made
<1> QED
  BY <1>1, <1>2, <1>3 DEF IInv

\* Other data.
LEMMA Published ==
  ASSUME IInv, NEW h \in Holdings, Publish(h)
  PROVE  IInv'
<1>1. data' = Append(data, h) /\ records' = records /\ drilling' = drilling
  BY DEF Publish
<1>2. data \in Seq(Holdings) /\ Len(data) \in Nat \ {0} /\ DOMAIN data = 1..Len(data)
  BY Lengths DEF IInv
<1>3. /\ data' \in Seq(Holdings) /\ Len(data') = Len(data) + 1
      /\ \A e \in 1..Len(data) : data'[e] = data[e]
  BY <1>1, <1>2, AppendProperties
<1>4. data' # <<>> /\ DOMAIN data' = 1..Len(data) + 1
  BY <1>2, <1>3, EmptySeq, LenProperties
<1>5. \A e \in DOMAIN data : e \in DOMAIN data' /\ data'[e] = data[e]
  BY <1>2, <1>3, <1>4
<1>6. ASSUME NEW i \in 2..Len(records)
      PROVE  Made(i)'
  <2>1. Made(i)
    BY DEF IInv
  <2>2. records[i].edition \in 1..Len(data) /\ records[i].ranged \in 1..records[i].edition
    BY <1>2, <2>1 DEF Made
  <2>3. records[i].ranged \in DOMAIN data
    BY <1>2, <2>2
  <2> QED
    BY <1>1, <1>5, <2>1, <2>3 DEF Made
<1>7. ASSUME NEW t \in Drillers
      PROVE  (drilling[t] = Idle \/ Begun(drilling[t]))'
  <2>1. drilling[t] = Idle \/ Begun(drilling[t])
    BY DEF IInv
  <2> QED
    BY <1>1, <1>5, <2>1 DEF Begun
<1>8. drilling' = [t \in Drillers |-> drilling'[t]]
  BY <1>1 DEF IInv
<1> QED
  BY <1>1, <1>3, <1>4, <1>6, <1>7, <1>8 DEF IInv

LEMMA InitIInv == Init => IInv
<1> SUFFICES ASSUME Init
             PROVE  IInv
  OBVIOUS
<1>1. PICK h \in Holdings : data = <<h>>
  BY DEF Init
<1>2. PICK focus \in Focuses : records = <<Source(focus)>>
  BY DEF Init
<1>3. data \in Seq(Holdings) /\ data # <<>>
  BY <1>1
<1>4. records \in Seq({Source(focus)}) /\ records # <<>> /\ Len(records) = 1
      /\ records[1] = Source(focus)
  BY <1>2
<1>5. 2..Len(records) = {}
  BY <1>4
<1>6. /\ drilling = [t \in Drillers |-> drilling[t]]
      /\ \A t \in Drillers : drilling[t] = Idle
  BY DEF Init
<1> QED
  BY <1>3, <1>4, <1>5, <1>6 DEF IInv

LEMMA NextIInv == IInv /\ [Next]_vars => IInv'
<1> SUFFICES ASSUME IInv, [Next]_vars
             PROVE  IInv'
  OBVIOUS
<1>1. ASSUME NEW t \in Drillers, Drill(t)
      PROVE  IInv'
  <2>1. ASSUME NEW level \in Levels, PressButton(t, Len(records), level)
        PROVE  IInv'
    BY <2>1, Pressed
  <2>2. ASSUME NEW level \in Levels, NEW range \in Ranges,
               DrillRange(t, Len(records), level, range)
        PROVE  IInv'
    BY <2>2, Ranged
  <2>3. ASSUME NEW n \in DOMAIN records[Len(records)].rows, Click(t, Len(records), n)
        PROVE  IInv'
    BY <2>3, Clicked
  <2> QED
    BY <1>1, <2>1, <2>2, <2>3 DEF Drill
<1>2. ASSUME NEW t \in Drillers, Execute(t)
      PROVE  IInv'
  BY <1>2, Executed
<1>3. ASSUME NEW t \in Drillers, Raises(t)
      PROVE  IInv'
  BY <1>3, Raised
<1>4. ASSUME NEW h \in Holdings, Publish(h)
      PROVE  IInv'
  BY <1>4, Published
<1>5. CASE UNCHANGED vars
  <2>1. data' = data /\ records' = records /\ drilling' = drilling
    BY <1>5 DEF vars
  <2> QED
    BY <2>1 DEF IInv, Made, Begun
<1> QED
  BY <1>1, <1>2, <1>3, <1>4, <1>5 DEF Next

\* Every record is the question's or made, in every behaviour: time_drill saves nothing
\* else, and never changes a record that is there.
THEOREM Invariance == Spec => []IInv
<1>1. Init => IInv
  BY InitIInv
<1>2. IInv /\ [Next]_vars => IInv'
  BY NextIInv
<1> QED
  BY <1>1, <1>2, PTL DEF Spec

-----------------------------------------------------------------------------
\* What it says of all records

LEMMA Typed == IInv => TypeOK
<1> SUFFICES ASSUME IInv
             PROVE  TypeOK
  OBVIOUS
<1>1. ASSUME NEW i \in DOMAIN records
      PROVE  /\ records[i].level \in Levels \cup {"none"}
             /\ records[i].from \in 0..i - 1 /\ records[i].edition \in DOMAIN data
             /\ records[i].ranged \in 1..records[i].edition
             /\ records[i].level # "none" =>
                   /\ records[i].focus \in Dates /\ records[i].range \in [start : Dates, end : Dates]
                   /\ \A n \in DOMAIN records[i].rows : records[i].rows[n] \in Rows
  <2>1. CASE i = 1
    <3>1. /\ records[1].level = "none" /\ records[1].from = 0
          /\ records[1].edition = 1 /\ records[1].ranged = 1
      BY Lengths
    <3>2. 0 \in 0..1 - 1 /\ 1 \in DOMAIN data /\ 1 \in 1..1
      BY Lengths
    <3> QED
      BY <2>1, <3>1, <3>2
  <2>2. CASE i # 1
    <3>1. Made(i) /\ i \in 2..Len(records) /\ Len(records) \in Nat
      BY <2>2, Lengths
    <3>2. /\ records[i].from \in 1..i - 1 /\ records[i].edition \in DOMAIN data
          /\ records[i].ranged \in 1..records[i].edition
          /\ MadeFrom(records[i], records[records[i].from], data[records[i].ranged],
                      data[records[i].edition])
      BY <3>1 DEF Made
    <3>3. data[records[i].edition] \in Holdings
      BY <3>2, Lengths
    <3>4. \A n \in DOMAIN records[i].rows : records[i].rows[n] \in Rows
      BY <3>2, <3>3, ShownRows
    <3>5. /\ records[i].level \in Levels /\ records[i].range \in [start : Dates, end : Dates]
          /\ records[i].focus \in Dates
      BY <3>2 DEF MadeFrom, Fits
    <3>6. records[i].from \in 0..i - 1
      BY <3>1, <3>2
    <3> QED
      BY <3>2, <3>4, <3>5, <3>6
  <2> QED
    BY <2>1, <2>2
<1>2. ASSUME NEW t \in Drillers, drilling[t] # Idle
      PROVE  /\ drilling[t].level \in Levels /\ drilling[t].from \in DOMAIN records
             /\ drilling[t].ranged \in DOMAIN data
             /\ drilling[t].range \in [start : Dates, end : Dates]
  <2>1. Begun(drilling[t])
    BY <1>2 DEF IInv
  <2> QED
    BY <2>1 DEF Begun, Fits
<1>3. DOMAIN drilling = Drillers
  BY DEF IInv
<1> QED
  BY <1>1, <1>2, <1>3, Lengths DEF TypeOK

\* Records come from earlier records and from an edition there is; what time_drill
\* saves has a level, a range of dates and rows of dates.
THEOREM Types == Spec => []TypeOK
<1>1. IInv => TypeOK
  BY Typed
<1> QED
  BY <1>1, Invariance, PTL

LEMMA EndsShown == IInv => PeriodEnds
<1> SUFFICES ASSUME IInv, NEW i \in DOMAIN records, records[i].by = "button", ~records[i].cut
             PROVE  LET r == records[i]
                        focus == IF records[r.from].focus = NoDate THEN Today
                                 ELSE records[r.from].focus
                        Spanned(x) == \E a, b \in data[r.ranged].all : Upto(a, x) /\ Upto(x, b)
                        days == { x \in data[r.edition].ours :
                                    IF r.level = "year" THEN Spanned(x)
                                    ELSE Together(Above[r.level], x, focus) }
                    IN {r.rows[n].date : n \in DOMAIN r.rows} =
                          {x \in days : \A z \in days : Together(r.level, x, z) => Upto(z, x)}
  BY DEF PeriodEnds
<1>1. i # 1
  BY Lengths
<1>2. Made(i) /\ i \in 2..Len(records)
  BY <1>1, Lengths
<1>3. PICK r, above, before, held :
        /\ r = records[i] /\ above = records[records[i].from]
        /\ before = data[records[i].ranged] /\ held = data[records[i].edition]
  OBVIOUS
<1>4. /\ MadeFrom(r, above, before, held) /\ before \in Holdings /\ held \in Holdings
      /\ records[i].from \in DOMAIN records
  <2>1. /\ records[i].from \in 1..i - 1 /\ records[i].edition \in 1..Len(data)
        /\ records[i].ranged \in 1..records[i].edition
    BY <1>2, Lengths DEF Made
  <2>2. records[i].ranged \in DOMAIN data /\ records[i].from \in DOMAIN records
    BY <1>2, <2>1, Lengths
  <2> QED
    BY <1>2, <1>3, <2>1, <2>2, Lengths DEF Made
<1>5. FocusOf(above) \in Dates
  BY <1>3, <1>4, FocusIsDate, DrillAssumption DEF FocusOf
<1>6. r.by = "button" /\ ~r.cut
  BY <1>3
<1>7. DaysShown(r) = Lasts(r.level, DaysAround(r.level, FocusOf(above), before, held))
  BY <1>4, <1>5, <1>6, ButtonShows
<1> QED
  BY <1>3, <1>7 DEF FocusOf, DaysAround, InSpan, Lasts, DaysShown

\* Whatever is held and whatever was drilled before, a drill by the button shows exactly
\* the last days with data of the periods of the record's year, quarter or month; a
\* year drill those of every year, within the span of the data its range was read from,
\* although a publication may fall between its two reads.
THEOREM ShowsPeriodEnds == Spec => []PeriodEnds
<1>1. IInv => PeriodEnds
  BY EndsShown
<1> QED
  BY <1>1, Invariance, PTL

\* While no data is published between its two reads, a year drill shows the last day
\* with data of every year that is held.
WholeYears ==
    \A i \in DOMAIN records :
        LET r == records[i]
        IN r.by = "button" /\ r.level = "year" /\ ~r.cut /\ r.ranged = r.edition =>
            DaysShown(r) = Lasts("year", data[r.edition].ours)

THEOREM ShowsWholeYears == Spec => []WholeYears
<1>1. IInv => WholeYears
  <2> SUFFICES ASSUME IInv, NEW i \in DOMAIN records, NEW r, r = records[i],
                      r.by = "button", r.level = "year", ~r.cut, r.ranged = r.edition
               PROVE  DaysShown(r) = Lasts("year", data[r.edition].ours)
    BY DEF WholeYears
  <2>1. i # 1 /\ r.edition \in DOMAIN data
    <3>1. i # 1
      BY Lengths
    <3>2. Made(i)
      BY <3>1, Lengths
    <3> QED
      BY <3>1, <3>2 DEF Made
  <2>2. PICK held \in Holdings : held = data[r.edition]
    BY <2>1, Lengths
  <2>3. held.ours \subseteq held.all /\ \A x \in held.ours : x \in Dates
    BY HeldDates
  <2>4. \A x \in held.ours : InSpan(x, held)
    BY <2>3, Order DEF InSpan
  <2>5. DaysShown(r) = {x \in {z \in held.ours : InSpan(z, held)} :
                          \A z \in {y \in held.ours : InSpan(y, held)} :
                             Together("year", x, z) => Upto(z, x)}
    BY <2>2, EndsShown DEF PeriodEnds, DaysShown, InSpan
  <2>6. {z \in held.ours : InSpan(z, held)} = held.ours
    BY <2>4
  <2> QED
    BY <2>2, <2>5, <2>6 DEF Lasts
<1> QED
  BY <1>1, Invariance, PTL

LEMMA Opens == IInv => ClickedPeriod
<1> SUFFICES ASSUME IInv, NEW i \in DOMAIN records, records[i].by = "click", ~records[i].cut,
                    records[i].edition = records[records[i].from].edition
             PROVE  LET r == records[i]
                        above == records[r.from]
                    IN /\ r.rows # <<>>
                       /\ \A n \in DOMAIN r.rows :
                            Together(above.level, r.rows[n].date, r.clicked.date)
                       /\ \/ r.rows[Len(r.rows)].date = r.clicked.date
                          \/ ~Upto(r.rows[Len(r.rows)].date, above.range.end)
  BY DEF ClickedPeriod
<1>1. i # 1
  BY Lengths
<1>2. Made(i) /\ i \in 2..Len(records)
  BY <1>1, Lengths
<1>3. PICK r, above, top, before, earlier, held :
        /\ r = records[i] /\ above = records[records[i].from] /\ top = records[above.from]
        /\ before = data[r.ranged] /\ earlier = data[above.ranged]
        /\ held = data[records[i].edition]
  OBVIOUS
<1>4. MadeFrom(r, above, before, held) /\ held \in Holdings /\ records[i].from \in DOMAIN records
  <2>1. records[i].from \in 1..i - 1
    BY <1>2 DEF Made
  <2> QED
    BY <1>2, <1>3, <2>1, Lengths DEF Made
<1>5. MadeFrom(above, top, earlier, held)
  <2>1. above.level \in Levels
    BY <1>3, <1>4 DEF MadeFrom, Fits, ByClick
  <2>2. records[i].from # 1
    BY <1>3, <2>1, Lengths DEF Levels
  <2>3. Made(records[i].from)
    BY <1>4, <2>2, Lengths
  <2> QED
    BY <1>3, <2>3 DEF Made
<1>6. /\ r.rows # <<>>
      /\ \A n \in DOMAIN r.rows : Together(above.level, r.rows[n].date, r.clicked.date)
      /\ \/ r.rows[Len(r.rows)].date = r.clicked.date
         \/ ~Upto(r.rows[Len(r.rows)].date, above.range.end)
  BY <1>3, <1>4, <1>5, ClickShows
<1> QED
  BY <1>3, <1>6

\* A click opens the clicked period and no other, and it ends on the day that the row
\* showed: the page's range and the server's periods agree for every date.
THEOREM ClickOpens == Spec => []ClickedPeriod
<1>1. IInv => ClickedPeriod
  BY Opens
<1> QED
  BY <1>1, Invariance, PTL

-----------------------------------------------------------------------------
\* The dates that a record is compared with

Later == \A i \in DOMAIN records : records[i].focus \in LaterDates \cup {NoDate}

\* What is drilled from a record after the first year is after the first year.
LEMMA StaysLater ==
  ASSUME NEW r, NEW above, NEW before \in Holdings, NEW held \in Holdings,
         MadeFrom(r, above, before, held), above.focus \in LaterDates \cup {NoDate},
         above.level = "none" \/
            \E top : \E earlier : \E h \in Holdings : MadeFrom(above, top, earlier, h)
  PROVE  r.focus \in LaterDates
<1>1. /\ r.focus = r.range.end /\ r.focus \in Dates /\ r.level \in Levels
      /\ r.by \in {"button", "click", "caller"}
  BY DEF MadeFrom, Fits
<1>2. CASE r.by = "button"
  <2>1. PICK focus \in LaterDates : focus = FocusOf(above)
    BY DrillAssumption, CalendarAssumption DEF LaterDates, FocusOf
  <2>2. focus \in Dates /\ focus.y > 1
    BY DEF LaterDates
  <2>3. CASE r.level = "year"
    <3>1. before.all # {} /\ r.range.end = Latest(before.all)
      BY <1>2, <2>3 DEF MadeFrom, Fits, ByButton
    <3>2. r.range.end \in before.all
      BY <3>1, HeldDates, Extremes
    <3> QED
      BY <1>1, <3>2, CalendarAssumption DEF LaterDates
  <2>4. CASE r.level # "year"
    <3>1. r.range = YearAround(focus) \/ r.range = QuarterAround(focus)
          \/ r.range = MonthAround(focus)
      BY <1>1, <1>2, <2>1, <2>4 DEF MadeFrom, Fits, ByButton, Levels
    <3>2. r.range.end.y = focus.y
      BY <2>2, <3>1, AroundDates
    <3> QED
      BY <1>1, <2>2, <3>2 DEF LaterDates
  <2> QED
    BY <2>3, <2>4
<1>3. CASE r.by = "click"
  <2>1. above.level \in Levels \ {"day"} /\ r.range = PeriodOf(above.level, r.clicked.start)
    BY <1>3 DEF MadeFrom, Fits, ByClick
  <2>2. PICK k \in DOMAIN above.rows : r.clicked = above.rows[k]
    BY <1>3 DEF MadeFrom, Fits, ByClick
  <2>3. PICK top, earlier : \E h \in Holdings : MadeFrom(above, top, earlier, h)
    BY <2>1 DEF Levels
  <2>4. PICK h \in Holdings : MadeFrom(above, top, earlier, h)
    BY <2>3
  <2>5. r.clicked.date \in DaysOf(above, h)
        /\ r.clicked.start = Truncated(above.level, r.clicked.date)
    BY <2>2, <2>4, ShownRows
  <2>6. r.clicked.date \in h.all /\ r.clicked.date \in Dates
    BY <2>5, HeldDates DEF DaysOf, Within
  <2>7. r.range.end.y = r.clicked.date.y
    BY <2>1, <2>5, <2>6, ClickedRange
  <2> QED
    BY <1>1, <2>6, <2>7, CalendarAssumption DEF LaterDates
<1>4. CASE r.by = "caller"
  <2>1. r.range \in Ranges
    BY <1>4 DEF MadeFrom, Fits
  <2> QED
    BY <1>1, <2>1, CalendarAssumption DEF LaterDates
<1> QED
  BY <1>1, <1>2, <1>3, <1>4

\* Only records are added.
LEMMA Grows ==
  ASSUME IInv, [Next]_vars
  PROVE  \/ records' = records
         \/ \E r : records' = Append(records, r)
<1>1. ASSUME NEW t \in Drillers, Drill(t)
      PROVE  records' = records
  BY <1>1 DEF Drill, PressButton, DrillRange, Click, Start
<1>2. ASSUME NEW t \in Drillers, Execute(t)
      PROVE  \E r : records' = Append(records, r)
  BY <1>2 DEF Execute
<1>3. ASSUME NEW t \in Drillers, Raises(t)
      PROVE  records' = records
  BY <1>3 DEF Raises
<1>4. ASSUME NEW h \in Holdings, Publish(h)
      PROVE  records' = records
  BY <1>4 DEF Publish
<1>5. CASE UNCHANGED vars
  BY <1>5 DEF vars
<1> QED
  BY <1>1, <1>2, <1>3, <1>4, <1>5 DEF Next

LEMMA NextLater == IInv /\ IInv' /\ Later /\ [Next]_vars => Later'
<1> SUFFICES ASSUME IInv, IInv', Later, [Next]_vars
             PROVE  Later'
  OBVIOUS
<1>1. CASE records' = records
  BY <1>1 DEF Later
<1>2. ASSUME NEW new, records' = Append(records, new)
      PROVE  Later'
  <2>1. PICK n : n = Len(records)
    OBVIOUS
  <2>2. n \in Nat \ {0} /\ DOMAIN records = 1..n
    BY <2>1, Lengths
  <2>3. PICK S : records \in Seq(S)
    BY DEF IInv
  <2>4. records \in Seq(S \cup {new})
    BY <2>3, SeqMonotonic
  <2>5. /\ records' \in Seq(S \cup {new}) /\ Len(records') = n + 1
        /\ \A i \in 1..n : records'[i] = records[i]
    BY <1>2, <2>1, <2>4, AppendProperties
  <2>6. DOMAIN records' = 1..n + 1 /\ n + 1 \in 2..n + 1
    BY <2>2, <2>5, LenProperties
  <2>7. PICK i, r, above, before, held :
          /\ i = records'[n + 1].from /\ r = records'[n + 1] /\ above = records'[i]
          /\ before = data'[records'[n + 1].ranged] /\ held = data'[records'[n + 1].edition]
    OBVIOUS
  <2>8. \A j \in 2..n + 1 : Made(j)'
    BY <2>5 DEF IInv
  <2>9. data' \in Seq(Holdings)
    BY DEF IInv
  <2>10. \A e \in DOMAIN data' : data'[e] \in Holdings
    BY <2>9, ElementOfSeq, LenProperties
  <2>11. /\ i \in 1..n /\ MadeFrom(r, above, before, held)
         /\ before \in Holdings /\ held \in Holdings
    <3>1. Made(n + 1)'
      BY <2>6, <2>8
    <3>2. /\ i \in 1..n /\ MadeFrom(r, above, before, held) /\ held \in Holdings
          /\ r.ranged \in 1..r.edition /\ r.edition \in DOMAIN data'
      BY <2>2, <2>7, <2>10, <3>1 DEF Made
    <3>3. DOMAIN data' = 1..Len(data') /\ Len(data') \in Nat
      BY <2>9, LenProperties
    <3> QED
      BY <2>7, <2>10, <3>2, <3>3
  <2>12. above.focus \in LaterDates \cup {NoDate}
    BY <2>2, <2>5, <2>7, <2>11 DEF Later
  <2>13. above.level = "none" \/
           \E top : \E earlier : \E h \in Holdings : MadeFrom(above, top, earlier, h)
    <3>1. CASE i = 1
      BY <2>5, <2>7, <2>11, <3>1, Lengths
    <3>2. CASE i # 1
      <4>1. i \in 2..n + 1
        BY <2>2, <2>11, <3>2
      <4>2. Made(i)'
        BY <2>8, <4>1
      <4> QED
        BY <2>7, <2>10, <4>2 DEF Made
    <3> QED
      BY <3>1, <3>2
  <2>14. r.focus \in LaterDates
    BY <2>11, <2>12, <2>13, StaysLater
  <2> QED
    BY <2>2, <2>5, <2>6, <2>7, <2>14 DEF Later
<1> QED
  BY <1>1, <1>2, Grows

LEMMA InitLater == Init => Later
<1> SUFFICES ASSUME Init
             PROVE  Later
  OBVIOUS
<1>1. PICK focus \in Focuses : records = <<Source(focus)>>
  BY DEF Init
<1>2. DOMAIN records = {1} /\ records[1].focus = focus
  BY <1>1 DEF Source
<1>3. focus \in LaterDates \cup {NoDate}
  BY DrillAssumption, CalendarAssumption DEF LaterDates
<1> QED
  BY <1>2, <1>3 DEF Later

LEMMA Compared == Later => Comparisons
<1> SUFFICES ASSUME Later
             PROVE  Comparisons
  OBVIOUS
<1>1. ASSUME NEW f \in LaterDates
      PROVE  /\ DayAfter(PreviousMonthEnd(f)) = Day(f.y, f.m, 1)
             /\ DayAfter(PreviousQuarterEnd(f)) = Truncated("quarter", f)
  BY PreviousMonth, PreviousQuarter, FirstOfPeriod DEF LaterDates
<1>2. ASSUME NEW f \in LaterDates, NEW same, same = SamePeriodLastYear(f)
      PROVE  /\ same \in Dates /\ <<same.y, same.m>> = <<f.y - 1, f.m>>
             /\ same.d = f.d \/ (same.d < f.d /\ DayAfter(same).m # same.m)
  <2>1. /\ same \in Dates /\ same.y = f.y - 1 /\ same.m = f.m /\ same.d <= f.d
        /\ same.d < f.d => same = MonthEnd(f.y - 1, f.m)
    BY <1>2, SameDay
  <2>2. f.d \in 1..31 /\ same.d \in 1..31 /\ f.m \in 1..12 /\ f.y - 1 \in Nat \ {0}
    BY <2>1, DateFields DEF LaterDates
  <2>3. CASE same.d < f.d
    <3>1. DayAfter(same) = IF f.m < 12 THEN Day(f.y - 1, f.m + 1, 1) ELSE Day((f.y - 1) + 1, 1, 1)
      BY <2>1, <2>2, <2>3, EndOfMonth
    <3>2. DayAfter(same).m = IF f.m < 12 THEN f.m + 1 ELSE 1
      BY <3>1, DayFields
    <3> QED
      BY <2>1, <2>2, <2>3, <3>2
  <2>4. CASE ~(same.d < f.d)
    BY <2>1, <2>2, <2>4
  <2> QED
    BY <2>3, <2>4
<1> QED
  BY <1>1, <1>2 DEF Comparisons, Later

\* Every date that a record is compared with exists and is the one that the calendar
\* says, however the record was reached: date_resolver's month, quarter and year before.
THEOREM ComparedAsNamed == Spec => []Comparisons
<1>1. Init => Later
  BY InitLater
<1>2. IInv /\ IInv' /\ Later /\ [Next]_vars => Later'
  BY NextLater
<1>3. Later => Comparisons
  BY Compared
<1> QED
  BY <1>1, <1>2, <1>3, Invariance, PTL DEF Spec
-----------------------------------------------------------------------------
\* The pending query: messages and merged queries

\* There is a cancellation among the messages, since there is a question.
LEMMA NoMessageType == NoMessage \in Message /\ NoMessage.supplied = {}
<1>1. PICK q \in Questions : TRUE
  BY QuestionsAssumption
<1>2. [kind |-> "cancel", question |-> q, supplied |-> {}] \in Message
  BY DEF Message
<1>3. NoMessage \in Message /\ NoMessage.kind = "cancel"
  BY <1>2 DEF NoMessage
<1> QED
  BY <1>3 DEF Message

LEMMA MessageFields ==
  ASSUME NEW m \in Message
  PROVE  m.question \in Questions /\ m.supplied \in SUBSET Slots
  BY DEF Message

LEMMA PendingFields ==
  ASSUME NEW p \in Pending
  PROVE  /\ p.question \in Questions /\ p.missing \in SUBSET Slots /\ p.missing # {}
         /\ p.clarification_count \in 0..2
  BY DEF Pending, MaxClarifications

\* What is merged of an incomplete query and a message is an incomplete query while
\* something is missing, and an unhelpful message has been counted in it.
LEMMA MergedType ==
  ASSUME NEW m \in Message, NEW p \in Pending, ~GivesUp(m, p), Merged(m, p).missing # {}
  PROVE  /\ Merged(m, p) \in Pending
         /\ m.supplied = {} => Merged(m, p).clarification_count = p.clarification_count + 1
<1>1. p.clarification_count \in 0..2 /\ p.missing \in (SUBSET Slots) \ {{}} /\ p.question \in Questions
  BY PendingFields
<1>2. p = [question |-> p.question, missing |-> p.missing,
           clarification_count |-> p.clarification_count]
  BY DEF Pending
<1>3. CASE m.supplied = {}
  <2>1. p.clarification_count + 1 \in 0..2
    BY <1>1, <1>3 DEF GivesUp, MaxClarifications
  <2>2. Merged(m, p) = [question |-> p.question, missing |-> p.missing,
                        clarification_count |-> p.clarification_count + 1]
    BY <1>2, <1>3 DEF Merged
  <2> QED
    BY <1>1, <2>1, <2>2 DEF Pending, MaxClarifications
<1>4. CASE m.supplied # {}
  <2>1. Merged(m, p) = [question |-> p.question, missing |-> p.missing \ m.supplied,
                        clarification_count |-> 0]
    BY <1>2, <1>4 DEF Merged
  <2>2. p.missing \ m.supplied \in (SUBSET Slots) \ {{}}
    BY <1>1, <2>1
  <2> QED
    BY <1>1, <1>4, <2>1, <2>2 DEF Pending, MaxClarifications
<1> QED
  BY <1>3, <1>4

\* A question that lacks something makes a pending query.
LEMMA StartedType ==
  ASSUME NEW m \in Message, m.supplied # Slots
  PROVE  [question |-> m.question, missing |-> Slots \ m.supplied,
          clarification_count |-> 0] \in Pending
<1>1. m.question \in Questions /\ Slots \ m.supplied \in (SUBSET Slots) \ {{}}
  BY MessageFields
<1> QED
  BY <1>1 DEF Pending, MaxClarifications

-----------------------------------------------------------------------------
\* Types, of any number of requests, overlapping or not

\* A request that is to install or to complete a pending query has one in its hand.
Loaded(t) == pc[t] \in {"install", "resolve", "run"} => seen[t] # NoPending

SessionTyped == SessionTypeOK /\ \A t \in Threads : Loaded(t)

LEMMA SessionStart == SessionInit => SessionTyped
<1> SUFFICES ASSUME SessionInit PROVE SessionTyped
  OBVIOUS
<1>1. msg \in [Threads -> Message]
  BY NoMessageType DEF SessionInit
<1>2. /\ memory \in Pending \cup {NoPending} /\ durable \in Pending \cup {NoPending}
      /\ told \in Pending \cup {NoPending} /\ seen \in [Threads -> Pending \cup {NoPending}]
      /\ lost \in BOOLEAN /\ asked \in Nat
  BY DEF SessionInit
<1>3. pc \in [Threads -> {"idle", "restore", "load", "install", "ask", "resolve", "plan",
                           "run", "clear", "persist", "write", "wipe", "done"}]
  BY DEF SessionInit
<1>4. outcome \in [Threads -> {"failed", "replaced", "cancelled", "clarified", "answered"}]
  BY DEF SessionInit
<1>5. \A t \in Threads : Loaded(t)
  BY DEF SessionInit, Loaded
<1> QED
  BY <1>1, <1>2, <1>3, <1>4, <1>5 DEF SessionTyped, SessionTypeOK

LEMMA SessionTypeStep ==
  ASSUME SessionTyped, [SessionNext]_sessionVars
  PROVE  SessionTyped'
<1> USE DEF SessionTyped, SessionTypeOK, Loaded, Goto, Ends, history
<1>1. ASSUME NEW t \in Threads, NEW m \in Message, Begin(t, m)
      PROVE  SessionTyped'
  BY <1>1 DEF Begin
<1>2. ASSUME NEW t \in Threads, BeginDenied(t)
      PROVE  SessionTyped'
  BY <1>2 DEF BeginDenied
<1>3. ASSUME NEW t \in Threads, RestoreMemory(t)
      PROVE  SessionTyped'
  BY <1>3 DEF RestoreMemory
<1>4. ASSUME NEW t \in Threads, RestoreLoad(t)
      PROVE  SessionTyped'
  BY <1>4 DEF RestoreLoad
<1>5. ASSUME NEW t \in Threads, RestoreInstall(t)
      PROVE  SessionTyped'
  BY <1>5 DEF RestoreInstall
<1>6. ASSUME NEW t \in Threads, Ask(t)
      PROVE  SessionTyped'
  BY <1>6 DEF Ask
<1>7. ASSUME NEW t \in Threads, ResolveNewQuestion(t)
      PROVE  SessionTyped'
  BY <1>7 DEF ResolveNewQuestion
<1>8. ASSUME NEW t \in Threads, ResolveCancelled(t)
      PROVE  SessionTyped'
  BY <1>8 DEF ResolveCancelled
<1>9. ASSUME NEW t \in Threads, ResolveClarify(t)
      PROVE  SessionTyped'
  <2>1. Merged(msg[t], seen[t]) \in Pending
    BY <1>9, MergedType DEF ResolveClarify
  <2> QED
    BY <1>9, <2>1 DEF ResolveClarify
<1>10. ASSUME NEW t \in Threads, ResolveReady(t)
      PROVE  SessionTyped'
  BY <1>10 DEF ResolveReady
<1>11. ASSUME NEW t \in Threads, Succeed(t)
      PROVE  SessionTyped'
  BY <1>11 DEF Succeed
<1>12. ASSUME NEW t \in Threads, Fail(t)
      PROVE  SessionTyped'
  BY <1>12 DEF Fail
<1>13. ASSUME NEW t \in Threads, StartPending(t)
      PROVE  SessionTyped'
  <2>1. [question |-> msg[t].question, missing |-> Slots \ msg[t].supplied,
         clarification_count |-> 0] \in Pending
    BY <1>13, StartedType DEF StartPending
  <2> QED
    BY <1>13, <2>1 DEF StartPending
<1>14. ASSUME NEW t \in Threads, ClearDurable(t)
      PROVE  SessionTyped'
  BY <1>14 DEF ClearDurable
<1>15. ASSUME NEW t \in Threads, PersistRead(t)
      PROVE  SessionTyped'
  BY <1>15 DEF PersistRead
<1>16. ASSUME NEW t \in Threads, PersistWrite(t)
      PROVE  SessionTyped'
  <2>1. CASE outcome[t] = "failed"
    BY <1>16, <2>1 DEF PersistWrite
  <2>2. CASE outcome[t] # "failed"
    <3>1. lost' = FALSE /\ told' = seen[t] /\ durable' = seen[t]
      BY <1>16, <2>2 DEF PersistWrite
    <3>2. asked' = asked \/ asked' = asked + 1
      BY <1>16, <2>2 DEF PersistWrite
    <3>3. asked' \in Nat
      BY <3>2
    <3> QED
      BY <1>16, <3>1, <3>3 DEF PersistWrite
  <2> QED
    BY <1>16, <2>1, <2>2 DEF PersistWrite
<1>17. ASSUME NEW t \in Threads, Respond(t)
      PROVE  SessionTyped'
  BY <1>17, NoMessageType DEF Respond
<1>18. ASSUME NEW t \in Threads, ClearMemory(t)
      PROVE  SessionTyped'
  BY <1>18 DEF ClearMemory
<1>19. ASSUME NEW t \in Threads, Wipe(t)
      PROVE  SessionTyped'
  BY <1>19 DEF Wipe
<1>20. ASSUME NEW t \in Threads, StoreError(t)
      PROVE  SessionTyped'
  BY <1>20 DEF StoreError
<1>21. CASE Restart
  BY <1>21, NoMessageType DEF Restart
<1>22. CASE UNCHANGED sessionVars
  BY <1>22 DEF sessionVars
<1> QED
  BY <1>1, <1>2, <1>3, <1>4, <1>5, <1>6, <1>7, <1>8, <1>9, <1>10, <1>11, <1>12, <1>13,
     <1>14, <1>15, <1>16, <1>17, <1>18, <1>19, <1>20, <1>21, <1>22 DEF SessionNext, Request,
     Resolve

\* Memory, SQLite and what a request holds are pending queries or nothing, and whoever
\* installs or completes a query has one: any number of requests, overlapping or not.
THEOREM SessionTypes == SessionSpec => []SessionTypeOK
<1>1. SessionInit => SessionTyped
  BY SessionStart
<1>2. SessionTyped /\ [SessionNext]_sessionVars => SessionTyped'
  BY SessionTypeStep
<1>3. SessionTyped => SessionTypeOK
  BY DEF SessionTyped
<1> QED
  BY <1>1, <1>2, <1>3, PTL DEF SessionSpec

-----------------------------------------------------------------------------
\* The pending query, of requests that do not overlap

\* How a request stands to the two copies before it has served its message.
Unserved(t) ==
    /\ pc[t] \in {"idle", "restore", "load", "install", "ask", "resolve", "run"} =>
           outcome[t] = "failed"
    /\ pc[t] = "plan" => outcome[t] \in {"failed", "replaced"}
    /\ pc[t] = "clear" => outcome[t] = "answered"
    /\ pc[t] \in {"load", "plan"} => memory = NoPending
    /\ pc[t] = "install" => seen[t] = durable
    /\ pc[t] \in {"resolve", "run"} => seen[t] = memory

\* A request that was not served and finds nothing in memory writes that there is
\* nothing: then there was nothing, or the query was lost before.
Restored(t) ==
    /\ pc[t] \in {"ask", "plan"} /\ outcome[t] = "failed" /\ memory = NoPending =>
           durable = NoPending
    /\ pc[t] \in {"persist", "write"} /\ outcome[t] = "failed" /\ memory = NoPending /\ ~lost =>
           durable = NoPending
    /\ pc[t] = "write" => seen[t] = memory

\* An unhelpful message is counted before the user is asked again.
Counted(t) ==
    pc[t] \in {"persist", "write"} /\ outcome[t] = "clarified" /\ msg[t].supplied = {} =>
        memory # NoPending /\ asked < memory.clarification_count

KeepsCount(copy) == copy # NoPending => asked <= copy.clarification_count

AsTold == ~lost => durable = told

Serves(t) == Unserved(t) /\ Restored(t) /\ Counted(t)

Copies == AsTold /\ KeepsCount(memory) /\ KeepsCount(durable) /\ AskedTwiceAtMost

SessionIInv == SessionTyped /\ Copies /\ \A t \in Threads : Serves(t)

\* No other request is under way.
Alone(t) == \A s \in Threads \ {t} : pc[s] = "idle"

LEMMA OthersIdle ==
  ASSUME SessionTyped, OneAtATime, NEW t \in Threads, pc[t] # "idle"
  PROVE  Alone(t)
  BY DEF OneAtATime, Alone

LEMMA IdleFailed ==
  ASSUME NEW s \in Threads, Serves(s), pc[s] = "idle"
  PROVE  outcome[s] = "failed"
  BY DEF Serves, Unserved

\* A step of one request leaves the others waiting.
LEMMA WaitingStay ==
  ASSUME SessionIInv, NEW t \in Threads, Alone(t),
         \A s \in Threads \ {t} : pc'[s] = pc[s] /\ outcome'[s] = outcome[s],
         Serves(t)'
  PROVE  \A s \in Threads : Serves(s)'
<1> TAKE s \in Threads
<1>1. CASE s = t
  BY <1>1
<1>2. CASE s # t
  <2>1. pc[s] = "idle" /\ outcome[s] = "failed"
    BY <1>2, IdleFailed DEF Alone, SessionIInv
  <2>2. (pc[s] = "idle" /\ outcome[s] = "failed")'
    BY <1>2, <2>1
  <2> QED
    BY <2>2 DEF Serves, Unserved, Restored, Counted
<1> QED
  BY <1>1, <1>2

\* What a step of a request brings about.
Step(t) ==
    /\ Copies' /\ Serves(t)'
    /\ \A s \in Threads \ {t} : pc'[s] = pc[s] /\ outcome'[s] = outcome[s]

\* One step per operation of query() and clear_session().
LEMMA RequestStep ==
  ASSUME SessionIInv, SessionTyped', NEW t \in Threads, Alone(t), Request(t)
  PROVE  Step(t)
<1>1. /\ Copies /\ Serves(t) /\ Loaded(t) /\ SessionTypeOK
      /\ SessionTypeOK' /\ Loaded(t)'
  BY DEF SessionIInv, SessionTyped
<1> USE <1>1 DEF Step, SessionTypeOK, Goto, Ends, history, Loaded, Copies, AsTold, KeepsCount,
      AskedTwiceAtMost, MaxClarifications, Serves, Unserved, Restored, Counted
<1>F. \A p \in Pending : p.clarification_count \in 0..2
  BY PendingFields
<1>2. ASSUME NEW m \in Message, Begin(t, m)
      PROVE  Step(t)
  BY <1>F, <1>2 DEF Begin
<1>3. ASSUME BeginDenied(t)
      PROVE  Step(t)
  BY <1>F, <1>3 DEF BeginDenied
<1>4. ASSUME RestoreMemory(t)
      PROVE  Step(t)
  BY <1>F, <1>4 DEF RestoreMemory
<1>5. ASSUME RestoreLoad(t)
      PROVE  Step(t)
  BY <1>F, <1>5 DEF RestoreLoad
<1>6. ASSUME RestoreInstall(t)
      PROVE  Step(t)
  BY <1>F, <1>6 DEF RestoreInstall
<1>7. ASSUME Ask(t)
      PROVE  Step(t)
  BY <1>F, <1>7 DEF Ask
<1>8. ASSUME ResolveNewQuestion(t)
      PROVE  Step(t)
  BY <1>F, <1>8 DEF ResolveNewQuestion
<1>9. ASSUME ResolveCancelled(t)
      PROVE  Step(t)
  BY <1>F, <1>9 DEF ResolveCancelled
<1>10. ASSUME ResolveClarify(t)
      PROVE  Step(t)
  <2>1. Merged(msg[t], seen[t]) \in Pending
    BY <1>10, MergedType DEF ResolveClarify
  <2>2. msg[t].supplied = {} =>
            Merged(msg[t], seen[t]).clarification_count = seen[t].clarification_count + 1
    BY <1>10, MergedType DEF ResolveClarify
  <2>3. CASE msg[t].supplied = {}
    <3>1. /\ memory' \in Pending /\ memory \in Pending /\ asked' = asked
          /\ memory'.clarification_count = memory.clarification_count + 1
      BY <1>10, <2>1, <2>2, <2>3 DEF ResolveClarify
    <3>2. asked < memory'.clarification_count /\ asked' <= memory'.clarification_count
      BY <1>F, <3>1, NoPendingAssumption
    <3>3. /\ UNCHANGED <<durable, msg, seen, told, lost>>
          /\ outcome'[t] = "clarified" /\ pc'[t] = "persist"
      BY <1>10 DEF ResolveClarify
    <3>4. \A s \in Threads \ {t} : pc'[s] = pc[s] /\ outcome'[s] = outcome[s]
      BY <1>10 DEF ResolveClarify
    <3>5. Copies'
      BY <3>1, <3>2, <3>3
    <3>6. Serves(t)'
      BY <3>1, <3>2, <3>3, NoPendingAssumption
    <3> QED
      BY <3>4, <3>5, <3>6
  <2>4. CASE msg[t].supplied # {}
    BY <1>F, <1>10, <2>1, <2>4 DEF ResolveClarify
  <2> QED
    BY <2>3, <2>4
<1>11. ASSUME ResolveReady(t)
      PROVE  Step(t)
  BY <1>F, <1>11 DEF ResolveReady
<1>12. ASSUME Succeed(t)
      PROVE  Step(t)
  BY <1>F, <1>12 DEF Succeed
<1>13. ASSUME Fail(t)
      PROVE  Step(t)
  <2>1. CASE pc[t] = "plan"
    BY <1>F, <1>13, <2>1 DEF Fail
  <2>2. CASE pc[t] = "run"
    BY <1>F, <1>13, <2>2 DEF Fail
  <2> QED
    BY <1>13, <2>1, <2>2 DEF Fail
<1>14. ASSUME StartPending(t)
      PROVE  Step(t)
  BY <1>F, <1>14 DEF StartPending
<1>15. ASSUME ClearDurable(t)
      PROVE  Step(t)
  BY <1>F, <1>15 DEF ClearDurable
<1>16. ASSUME PersistRead(t)
      PROVE  Step(t)
  BY <1>F, <1>16 DEF PersistRead
<1>17. ASSUME PersistWrite(t)
      PROVE  Step(t)
  BY <1>F, <1>17 DEF PersistWrite
<1>18. ASSUME Respond(t)
      PROVE  Step(t)
  BY <1>F, <1>18 DEF Respond
<1>19. ASSUME ClearMemory(t)
      PROVE  Step(t)
  BY <1>F, <1>19 DEF ClearMemory
<1>20. ASSUME Wipe(t)
      PROVE  Step(t)
  BY <1>F, <1>20 DEF Wipe
<1>21. ASSUME StoreError(t)
      PROVE  Step(t)
  <2>1. CASE pc[t] = "load"
    BY <1>F, <1>21, <2>1 DEF StoreError
  <2>2. CASE pc[t] = "clear"
    BY <1>F, <1>21, <2>2 DEF StoreError
  <2>3. CASE pc[t] \in {"write", "wipe"}
    BY <1>F, <1>21, <2>3 DEF StoreError
  <2> QED
    BY <1>21, <2>1, <2>2, <2>3 DEF StoreError
<1> QED
  BY <1>2, <1>3, <1>4, <1>5, <1>6, <1>7, <1>8, <1>9, <1>10, <1>11, <1>12, <1>13, <1>14,
     <1>15, <1>16, <1>17, <1>18, <1>19, <1>20, <1>21 DEF Request, Resolve

\* A step of requests that do not overlap, or a restart, keeps the invariant.
LEMMA SessionStep ==
  ASSUME SessionIInv, OneAtATime, OneAtATime', [SessionNext]_sessionVars
  PROVE  SessionIInv'
<1>1. SessionTyped /\ SessionTyped'
  BY SessionTypeStep DEF SessionIInv
<1>2. CASE UNCHANGED sessionVars
  BY <1>1, <1>2 DEF sessionVars, SessionIInv, Copies, AsTold, KeepsCount, AskedTwiceAtMost,
     Serves, Unserved, Restored, Counted
<1>3. CASE Restart
  <2>1. /\ memory' = NoPending /\ UNCHANGED <<durable, told, lost, asked>>
        /\ \A s \in Threads : pc'[s] = "idle" /\ outcome'[s] = "failed"
    BY <1>3 DEF Restart, history
  <2>2. Copies'
    BY <2>1 DEF SessionIInv, Copies, AsTold, KeepsCount, AskedTwiceAtMost
  <2>3. \A s \in Threads : Serves(s)'
    BY <2>1 DEF Serves, Unserved, Restored, Counted
  <2> QED
    BY <1>1, <2>2, <2>3 DEF SessionIInv
<1>4. ASSUME NEW t \in Threads, Request(t)
      PROVE  SessionIInv'
  <2>1. Alone(t)
    <3>1. CASE pc[t] # "idle"
      BY <1>1, <3>1, OthersIdle
    <3>2. CASE pc[t] = "idle"
      <4>1. pc'[t] # "idle" /\ \A s \in Threads \ {t} : pc'[s] = pc[s]
        BY <1>1, <1>4, <3>2 DEF SessionTyped, SessionTypeOK, Goto, Request,
           Begin, BeginDenied, ClearMemory, RestoreMemory, RestoreLoad, RestoreInstall, Ask,
           Resolve, ResolveNewQuestion, ResolveCancelled, ResolveClarify, ResolveReady,
           Succeed, Fail, StartPending, ClearDurable, PersistRead, PersistWrite, Respond, Wipe, StoreError
      <4> QED
        BY <4>1 DEF OneAtATime, Alone
    <3> QED
      BY <3>1, <3>2
  <2>2. Step(t)
    BY <1>1, <1>4, <2>1, RequestStep
  <2>3. \A s \in Threads : Serves(s)'
    BY <2>1, <2>2, WaitingStay DEF Step
  <2> QED
    BY <1>1, <2>2, <2>3 DEF Step, SessionIInv
<1> QED
  BY <1>2, <1>3, <1>4 DEF SessionNext

\* With a single thread there is no overlapping.
LEMMA SingleThread ==
  ASSUME NEW t, Threads = {t}
  PROVE  SessionSpec => []OneAtATime
<1>1. OneAtATime
  BY DEF OneAtATime
<1> QED
  BY <1>1, PTL

LEMMA SessionStarts == SessionInit => SessionIInv
  BY SessionStart DEF SessionInit, SessionIInv, Copies, AsTold, KeepsCount, AskedTwiceAtMost,
     MaxClarifications, Serves, Unserved, Restored, Counted

\* The two copies agree with what the user was told and with the count of unhelpful
\* messages, and every request under way stands to them as its steps require.
THEOREM SessionInductive == SessionSpec /\ []OneAtATime => []SessionIInv
<1>1. SessionInit => SessionIInv
  BY SessionStarts
<1>2. SessionIInv /\ OneAtATime /\ OneAtATime' /\ [SessionNext]_sessionVars => SessionIInv'
  BY SessionStep
<1> QED
  BY <1>1, <1>2, PTL DEF SessionSpec

\* The limit that PendingQueryResolver puts on clarification_count holds across requests,
\* failed writes and restarts: a user is asked again twice at most in a row.
THEOREM AskedAgain == SessionSpec /\ []OneAtATime => []Inv
<1>1. SessionIInv => Inv
  BY DEF SessionIInv, SessionTyped, Copies, Inv
<1> QED
  BY <1>1, SessionInductive, PTL

\* _persist_pending_session and _restore_pending_session: whatever fails and whenever the
\* process dies, SQLite holds the pending query that the user is in the middle of, unless
\* a request has ended before it restored the session.
THEOREM GoesOnWhereTold == SessionSpec /\ []OneAtATime => []ResumesWhereTold
<1>1. SessionIInv => ResumesWhereTold
  BY DEF SessionIInv, Copies, AsTold, ResumesWhereTold
<1> QED
  BY <1>1, SessionInductive, PTL
=============================================================================
