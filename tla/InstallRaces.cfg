SPECIFICATION Spec
CONSTANTS
    Admins = {a1, a2}
    Processes = {p1, p2}
    Projects = {j1}
    Wits = {"w1", "w2"}
    Fields = {"f1", "f2"}
    States = {"New", "s2"}
    FieldsOf <- MCFieldsOf
    StatesOf <- MCStatesOf
    Picklists = {"f1"}
    DefaultStates = {"New"}
    Old = 1
    Current = 2
    Legacy <- MCLegacy
SYMMETRY Symmetry
INVARIANTS
    InstalledMeansComplete
    ProjectsGetCompleteProcesses
PROPERTIES
    UpgradedMeansComplete
CHECK_DEADLOCK FALSE
