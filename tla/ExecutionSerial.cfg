SPECIFICATION SerialSpec
CONSTANTS
    Runs = {e1}
    Clients = {c1, c2}
    StepArgs = {"Pass", "Fail", "Blocked", "Skipped", "Unexecuted"}
    OverrideArgs = {"Blocked"}
    EvidenceRefs = {x1, x2}
    Bugs = {b1}
    NoOverride = NoOverride
    MaxList = 2
INVARIANTS
    VerdictIsAuditable
    AcknowledgedIsKept
PROPERTIES
    ImplementsLifecycle
CHECK_DEADLOCK FALSE
