\* Repeated denials of one user: alerts, freezes, unfreezing, failures, restarts.
SPECIFICATION Spec
CONSTANTS
    Threads = {t1, t2}
    Users = {u1}
    Rules = {"REPEATED_ACCESS_DENIED"}
    Rows = {1}
    AlertThreshold = 2
    AlertWindow = 1
    DayLength = 3
    FreezeFor = 2
    MaxTime = 3
    MaxEvents = 4
    NoThread = NoThread
    Threshold <- MCThreshold
    Window <- MCWindow
    DayStart <- MCDayStart
SYMMETRY Symmetry
INVARIANTS Inv ThirdDenialFrozen BurstAlerted
PROPERTY Implements
CHECK_DEADLOCK FALSE
