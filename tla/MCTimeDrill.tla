---------------------------- MODULE MCTimeDrill ----------------------------
(* Days on the edges of months, quarters and years, a leap February among   *)
(* them; publications that add, take away or correct.                      *)
EXTENDS TimeDrill

MCLeap == {Day(2023, 12, 31), Day(2024, 2, 28), Day(2024, 2, 29), Day(2024, 3, 31)}
MCNew == {Day(2024, 12, 30), Day(2024, 12, 31), Day(2025, 3, 31), Day(2025, 4, 1)}

MCHoldings ==
    { [ours |-> MCLeap \cup MCNew, all |-> MCLeap \cup MCNew],
      [ours |-> MCLeap \ {Day(2024, 2, 29)}, all |-> MCLeap \cup {Day(2025, 1, 1)}],
      [ours |-> {Day(2024, 12, 31), Day(2025, 4, 1)}, all |-> MCNew],
      [ours |-> {}, all |-> {}] }

MCFocuses ==
    {NoDate, Day(2024, 2, 29), Day(2024, 1, 31), Day(2024, 12, 31), Day(2023, 10, 1)}

MCToday == Day(2025, 4, 2)

MCRanges ==
    { [start |-> Day(2023, 12, 31), end |-> Day(2025, 4, 1)],
      [start |-> Day(2024, 2, 1), end |-> Day(2024, 12, 30)],
      [start |-> Day(2025, 4, 1), end |-> Day(2024, 4, 1)] }
=============================================================================
