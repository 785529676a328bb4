\* First start, migration, interruptions, restarts, and two openers at once.
SPECIFICATION Spec
CONSTANTS
    Openers = {o1, o2}
    LegacyRows = {0, 2}
    MaxEvents = 3
INVARIANTS Inv OpenAccepts
PROPERTY LostStaysRefused
CHECK_DEADLOCK FALSE
