SPECIFICATION OneLockerSpec
CONSTANTS
    Plans = {p1}
    Sets = {s1}
    Cases = {t1, t2}
    Clients = {c1, c2}
    Drafts <- MCDrafts
    ManualNames = {v1}
    MaxEdits = 1
    MaxSnapshots = 2
SYMMETRY Symmetry
INVARIANTS
    SnapshotNamesUnique
PROPERTIES
    CompositionFrozenWhileLocked
    
    LockCapturesThePlan
CHECK_DEADLOCK FALSE
