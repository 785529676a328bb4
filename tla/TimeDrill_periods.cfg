SPECIFICATION Spec
CONSTANTS
    Drillers = {d1}
    Holdings <- MCHoldings
    Focuses <- MCFocuses
    Today <- MCToday
    Ranges <- MCRanges
    DefaultLimit = 4
    MaxDrills = 3
    MaxEditions = 2
INVARIANTS TypeOK PeriodEnds ClickedPeriod Comparisons
CHECK_DEADLOCK FALSE
