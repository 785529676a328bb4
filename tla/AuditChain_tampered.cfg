\* Appends, edits and deletions under two verifications.
SPECIFICATION Spec
CONSTANTS
    Bodies = {b1, b2}
    Hashes <- MCHashes
    H <- MCH
    Genesis <- MCGenesis
    Verifiers = {v1, v2}
    MaxEvents = 3
INVARIANTS Inv TrueMeansHonest
PROPERTIES DeletionStopsLog Implements
CHECK_DEADLOCK FALSE
