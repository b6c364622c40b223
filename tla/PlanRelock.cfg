SPECIFICATION OneLockerSpec
CONSTANTS
    Plans = {p1}
    Sets = {s1}
    Cases = {t1}
    Clients = {c1}
    Drafts <- MCDrafts
    ManualNames = {}
    MaxEdits = 1
    MaxSnapshots = 2
PROPERTY RelockReusesIdenticalSnapshot
CHECK_DEADLOCK FALSE
