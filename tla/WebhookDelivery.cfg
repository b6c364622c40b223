SPECIFICATION Spec
CONSTANTS
    Tokens = {t1}
    Posts = {h1}
    Workers = {w1, w2}
    Reports <- MCReports
    Results <- MCResults
    CaseKeys <- MCCaseKeys
    NoKey = "none"
    Top = 3
    MaxMessages = 2
    MaxDequeue = 2
INVARIANTS
    
    OneLeftoverPerFailure
PROPERTIES
    RevokedTokenIsShut
    EveryReportSettles
CHECK_DEADLOCK FALSE
