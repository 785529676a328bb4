\* Two generators of one query, with failures, disconnects, deletion, restarts.
SPECIFICATION Spec
CONSTANTS
    Streamers = {s1, s2}
    Texts = {x1, x2}
    Core = Core
    Empty = Empty
INVARIANTS Inv NetHolds DeliveredKept WarningTrue
CHECK_DEADLOCK FALSE
