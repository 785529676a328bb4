----------------------------- MODULE TimeDrill -----------------------------
(***************************************************************************)
(* ProductQueryService.time_drill and the page that leads to it: a record  *)
(* of one metric and one organization is drilled by the button, which      *)
(* leaves the range to the server, by a click on one of its periods, which *)
(* sends the range the page computes, or by a caller with a range of its   *)
(* own, while the data goes on being published.  A drill is two reads of   *)
(* the data, each with a connection and a turn at the lock of its own: the *)
(* range of a year drill, then the rows.  Who may drill is in              *)
(* ProductAccess.                                                          *)
(***************************************************************************)
EXTENDS Calendar, Sequences, FiniteSets, FiniteSetsExt

CONSTANTS
    Drillers,       \* worker threads serving time_drill
    Holdings,       \* the days a publication may bring: [ours, all]
    Focuses,        \* the dates of the answer that is drilled first, NoDate for none
    Today,          \* the day the service runs on
    Ranges,         \* the ranges that callers give: [start, end]
    DefaultLimit,   \* settings.default_row_limit
    MaxDrills, MaxEditions  \* bounds: records drilled, publications

ASSUME DrillAssumption ==
    /\ \A h \in Holdings : h.ours \subseteq h.all /\ h.all \subseteq Dates /\ IsFiniteSet(h.all)
    /\ Focuses \subseteq Dates \cup {NoDate} /\ Today \in Dates
    /\ Ranges \subseteq [start : Dates, end : Dates]
    /\ DefaultLimit \in Nat /\ MaxDrills \in Nat /\ MaxEditions \in Nat

\* The calendar begins with the year 1, whose dates have none of the last year to be
\* compared with: no data is that old.
ASSUME CalendarAssumption ==
    /\ \A h \in Holdings : \A x \in h.all : x.y > 1
    /\ \A x \in Focuses \ {NoDate} : x.y > 1
    /\ \A range \in Ranges : range.end.y > 1
    /\ Today.y > 1

VARIABLES
    data,           \* every publication: the days with data of this metric and
                    \* organization, and of any that the user may see
    drilling,       \* thread -> the drill it has the range of, not yet the rows
    records         \* the answer first asked for, then what was drilled

vars == <<data, drilling, records>>

Levels == {"year", "quarter", "month", "day"}
NextTimeLevel == [year |-> "quarter", quarter |-> "month", month |-> "day", day |-> "none"]
NoRange == [start |-> NoDate, end |-> NoDate]
NoRow == [start |-> NoDate, date |-> NoDate]

\* Nothing is being drilled.
Idle == [level |-> "none", from |-> 0, by |-> "question", clicked |-> NoRow,
         range |-> NoRange, ranged |-> 1]

\* The record of the question itself: no level, no range.
Source(focus) ==
    [level |-> "none", from |-> 0, by |-> "question", clicked |-> NoRow, range |-> NoRange,
     ranged |-> 1, focus |-> focus, rows |-> <<>>, cut |-> FALSE, edition |-> 1]

Init ==
    /\ \E h \in Holdings : data = <<h>>
    /\ drilling = [t \in Drillers |-> Idle]
    /\ \E focus \in Focuses : records = <<Source(focus)>>

-----------------------------------------------------------------------------
\* The periods of the data

\* DATE_TRUNC(level, x)
Truncated(level, x) ==
    CASE level = "year" -> Day(x.y, 1, 1)
      [] level = "quarter" -> Day(x.y, 3 * ((x.m - 1) \div 3) + 1, 1)
      [] level = "month" -> Day(x.y, x.m, 1)
      [] level = "day" -> x

Within(days, range) == {x \in days : Upto(range.start, x) /\ Upto(x, range.end)}

Latest(days) == CHOOSE x \in days : \A z \in days : Upto(z, x)
Earliest(days) == CHOOSE x \in days : \A z \in days : Upto(x, z)

\* _time_drill_sql: a row for each period with data in the range, that of its last day.
Periods(level, range, days) ==
    { [start |-> p, date |-> Latest({x \in Within(days, range) : Truncated(level, x) = p})] :
        p \in {Truncated(level, x) : x \in Within(days, range)} }

\* ORDER BY period_start
InOrder(rows) ==
    [n \in 1..Cardinality(rows) |->
        CHOOSE a \in rows : Cardinality({b \in rows : Stamp(b.start) < Stamp(a.start)}) = n - 1]

\* validate_and_limit puts the default limit around the statement.
Limited(rows) == SubSeq(rows, 1, Min({Len(rows), DefaultLimit}))

-----------------------------------------------------------------------------
\* Drilling

\* What is held now.
Held == data[Len(data)]

\* _drill_range without a range; a year drill of no data has none.
DefaultRange(level, current_date) ==
    LET focus == IF current_date = NoDate THEN Today ELSE current_date
    IN CASE level = "year" -> [start |-> Earliest(Held.all), end |-> Latest(Held.all)]
         [] level = "quarter" -> YearAround(focus)
         [] level = "month" -> QuarterAround(focus)
         [] level = "day" -> MonthAround(focus)

\* time_drill up to _drill_range: the thread has the record it drills and the range,
\* read from what is held now.
Start(t, i, level, by, row, range) ==
    /\ drilling[t] = Idle
    /\ Len(records) <= MaxDrills
    /\ drilling' = [drilling EXCEPT ![t] =
           [level |-> level, from |-> i, by |-> by, clicked |-> row, range |-> range,
            ranged |-> Len(data)]]
    /\ UNCHANGED <<data, records>>

\* The page offers the next level; the interface takes any.
PressButton(t, i, level) ==
    /\ level = "year" => Held.all # {}
    /\ Start(t, i, level, "button", NoRow, DefaultRange(level, records[i].focus))

DrillRange(t, i, level, range) ==
    /\ Upto(range.start, range.end)
    /\ Start(t, i, level, "caller", NoRow, range)

\* The mutant is without end.setUTCDate(end.getUTCDate() - 1).
MutantPeriodOf(level, start) ==
    [start |-> start,
     end |-> CASE level = "year" -> Day(start.y + 1, start.m, start.d)
               [] level = "quarter" -> IF start.m > 9 THEN Day(start.y + 1, start.m - 9, start.d)
                                       ELSE Day(start.y, start.m + 3, start.d)
               [] level = "month" -> IF start.m > 11 THEN Day(start.y + 1, 1, start.d)
                                     ELSE Day(start.y, start.m + 1, start.d)]

\* periodRange of the page: the period that starts at this day.
PeriodOf(level, start) ==
    [start |-> start,
     end |-> DayBefore(CASE level = "year" -> Day(start.y + 1, start.m, start.d)
                         [] level = "quarter" -> IF start.m > 9 THEN Day(start.y + 1, start.m - 9, start.d)
                                                 ELSE Day(start.y, start.m + 3, start.d)
                         [] level = "month" -> IF start.m > 11 THEN Day(start.y + 1, 1, start.d)
                                               ELSE Day(start.y, start.m + 1, start.d))]

\* handlePointSelect: only a drilled record that has a next level.
Click(t, i, n) ==
    /\ records[i].level \in Levels \ {"day"}
    /\ LET row == records[i].rows[n]
       IN Start(t, i, NextTimeLevel[records[i].level], "click", row,
                PeriodOf(records[i].level, row.start))

\* The record of a drill with the rows that are held now; its date is the end of the
\* range.  That rows were cut off is not in it: truncated tells only of the hard limit.
Drilled(d) ==
    LET rows == InOrder(Periods(d.level, d.range, Held.ours))
    IN [level |-> d.level, from |-> d.from, by |-> d.by, clicked |-> d.clicked,
        range |-> d.range, ranged |-> d.ranged, focus |-> d.range.end,
        rows |-> Limited(rows), cut |-> Len(rows) > DefaultLimit, edition |-> Len(data)]

\* The second read, of the rows, and save_query of what it found: until then the rows
\* are the thread's own.
Execute(t) ==
    /\ drilling[t] # Idle
    /\ records' = Append(records, Drilled(drilling[t]))
    /\ drilling' = [drilling EXCEPT ![t] = Idle]
    /\ UNCHANGED data

\* preflight, execute or save_query raises, or the server stops: no record.
Raises(t) ==
    /\ drilling[t] # Idle
    /\ drilling' = [drilling EXCEPT ![t] = Idle]
    /\ UNCHANGED <<data, records>>

\* A publication of the importer or a new build replaces the data.
Publish(h) ==
    /\ Len(data) < MaxEditions
    /\ h # Held
    /\ data' = Append(data, h)
    /\ UNCHANGED <<drilling, records>>

\* Bound: the record that is the latest when the drill begins.  A drill reads its
\* source and no other record.
Drill(t) ==
    LET i == Len(records)
    IN \/ \E level \in Levels : PressButton(t, i, level)
       \/ \E level \in Levels, range \in Ranges : DrillRange(t, i, level, range)
       \/ \E n \in DOMAIN records[i].rows : Click(t, i, n)

Next ==
    \/ \E t \in Drillers : Drill(t) \/ Execute(t) \/ Raises(t)
    \/ \E h \in Holdings : Publish(h)

Spec == Init /\ [][Next]_vars

-----------------------------------------------------------------------------
\* Properties

Rows == [start : Dates, date : Dates]

\* Records have a level, a range and rows of the days they show; they come from
\* records, and so do the drills under way.
TypeOK ==
    /\ \A e \in DOMAIN data : data[e] \in Holdings
    /\ DOMAIN drilling = Drillers
    /\ \A t \in Drillers :
        LET d == drilling[t]
        IN d # Idle =>
              /\ d.level \in Levels /\ d.from \in DOMAIN records /\ d.ranged \in DOMAIN data
              /\ d.range \in [start : Dates, end : Dates]
    /\ \A i \in DOMAIN records :
        LET r == records[i]
        IN /\ r.level \in Levels \cup {"none"}
           /\ r.from \in 0..i - 1 /\ r.edition \in DOMAIN data /\ r.ranged \in 1..r.edition
           /\ r.level # "none" =>
                 /\ r.focus \in Dates /\ r.range \in [start : Dates, end : Dates]
                 /\ \A n \in DOMAIN r.rows : r.rows[n] \in Rows

\* The two days lie in one year, quarter, month or day.
Together(level, a, b) ==
    /\ a.y = b.y
    /\ level \in {"quarter", "month", "day"} => Quarter(a) = Quarter(b)
    /\ level \in {"month", "day"} => a.m = b.m
    /\ level = "day" => a.d = b.d

Above == [quarter |-> "year", month |-> "quarter", day |-> "month"]

\* "each year's, quarter's, month's last day with data": a drill by the button shows
\* exactly the last day of data of every period of the year, quarter or month that
\* the record's date lies in.  A year drill shows that of every year, among the days
\* between the first and the last day that were held when its range was read: all
\* days, unless other data was published before its rows were.
PeriodEnds ==
    \A i \in DOMAIN records :
        LET r == records[i]
            focus == IF records[r.from].focus = NoDate THEN Today ELSE records[r.from].focus
            InSpan(x) == \E a, b \in data[r.ranged].all : Upto(a, x) /\ Upto(x, b)
            days == { x \in data[r.edition].ours :
                        IF r.level = "year" THEN InSpan(x)
                        ELSE Together(Above[r.level], x, focus) }
        IN r.by = "button" /\ ~r.cut =>
            {r.rows[n].date : n \in DOMAIN r.rows} =
                {x \in days : \A z \in days : Together(r.level, x, z) => Upto(z, x)}

\* A click on a period opens that period: while no data is published its rows lie in
\* it, and they end on the day the clicked row showed, unless the range above had cut
\* the period short: a caller's, or that of a year drill that was read before its rows.
ClickedPeriod ==
    \A i \in DOMAIN records :
        LET r == records[i]
            above == records[r.from]
        IN r.by = "click" /\ ~r.cut /\ r.edition = above.edition =>
            /\ r.rows # <<>>
            /\ \A n \in DOMAIN r.rows : Together(above.level, r.rows[n].date, r.clicked.date)
            /\ \/ r.rows[Len(r.rows)].date = r.clicked.date
               \/ ~Upto(r.rows[Len(r.rows)].date, above.range.end)

\* The dates a record's date is compared with are those that the calendar says: the
\* last day before its month, before its quarter, and the same day of the last year
\* or the last one of that month before it.
Comparisons ==
    \A i \in DOMAIN records : LET f == records[i].focus IN f # NoDate =>
        /\ DayAfter(PreviousMonthEnd(f)) = Day(f.y, f.m, 1)
        /\ DayAfter(PreviousQuarterEnd(f)) = Truncated("quarter", f)
        /\ LET same == SamePeriodLastYear(f)
           IN /\ same \in Dates /\ <<same.y, same.m>> = <<f.y - 1, f.m>>
              /\ same.d = f.d \/ (same.d < f.d /\ DayAfter(same).m # same.m)
=============================================================================
