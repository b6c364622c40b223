SPECIFICATION Spec
CONSTANTS
    Runs = {e1}
    Clients = {c1, c2}
    StepArgs = {"Pass", "Fail"}
    OverrideArgs = {}
    EvidenceRefs = {}
    Bugs = {}
    NoOverride = NoOverride
    MaxList = 2
PROPERTY FrozenOnceEnded
CHECK_DEADLOCK FALSE
