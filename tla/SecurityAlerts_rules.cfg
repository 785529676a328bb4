\* Share links and export volume: the rules without a freeze, which read the
\* clock inside the lock, stamp their alert anew, and sum rows per day.
SPECIFICATION FairSpec
CONSTANTS
    Threads = {t1, t2}
    Users = {u1}
    Rules = {"SHARE_LINK_FREQUENCY", "DAILY_EXPORT_VOLUME"}
    Rows = {1, 2}
    AlertThreshold = 2
    AlertWindow = 1
    DayLength = 2
    FreezeFor = 2
    MaxTime = 2
    MaxEvents = 2
    NoThread = NoThread
    Threshold <- MCThreshold
    Window <- MCWindow
    DayStart <- MCDayStart
CHECK_DEADLOCK FALSE
INVARIANTS AlertsSpaced BurstAlerted
PROPERTY LockReleased
