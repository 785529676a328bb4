SPECIFICATION Spec
CONSTANTS
    Organizations <- MCOrganizations
    Metrics <- MCMetrics
    MaxLimit = 5
    Requests = {r1, r2}
    Accounts = {"staff", "reader", "admin"}
    QueryIds = {q1, q2}
    ShareIds = {s1}
    Environments <- MCEnvironments
    Plans <- MCPlans
    Sensitive <- MCSensitive
SYMMETRY Symmetric
INVARIANTS TypeOK WithinRights NoOrphanShare Accounted ClearedForgets
