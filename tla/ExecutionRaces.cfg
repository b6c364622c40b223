SPECIFICATION Spec
CONSTANTS
    Runs = {e1}
    Clients = {c1, c2}
    StepArgs = {"Fail"}
    OverrideArgs = {"Blocked"}
    EvidenceRefs = {x1}
    Bugs = {b1}
    NoOverride = NoOverride
    MaxList = 1
SYMMETRY ClientSymmetry
INVARIANTS
    InProgressShowsNoResult
PROPERTIES
    TerminalForever
    SettledIsFrozen
CHECK_DEADLOCK FALSE
