\* A request that ends unserved after a restart: is the pending query kept?
SPECIFICATION SessionSpec
CONSTANTS
    Threads = {t1}
    Questions = {q1, q2}
    NoPending = NoPending
INVARIANT RestartResumes
CHECK_DEADLOCK FALSE
