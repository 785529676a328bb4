\* One request of the session at a time, with failures and restarts.
SPECIFICATION SessionSpec
CONSTANTS
    Threads = {t1}
    Questions = {q1, q2}
    NoPending = NoPending
INVARIANTS Inv ResumesWhereTold
CHECK_DEADLOCK FALSE
