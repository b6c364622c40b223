SPECIFICATION Spec
CONSTANTS
    Admins = {a1}
    Processes = {p1, p2}
    Projects = {j1}
    Wits = {"w1", "w2"}
    Fields = {"f1", "f2"}
    States = {"New", "s2"}
    FieldsOf <- MCFieldsOf
    StatesOf <- MCStatesOf
    Picklists = {"f1"}
    DefaultStates = {"New"}
    Old = 1
    Current = 2
    Legacy <- MCLegacy
PROPERTY PartialIsCompleted
CHECK_DEADLOCK FALSE
