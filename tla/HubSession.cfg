SPECIFICATION HubSpec
CONSTANTS
    OpenedWithId = {"plan", "set", "case", "exec", "pre"}
    Sessions <- MCSessions
    MaxRecords = 3
    MaxMounts = 7
INVARIANTS
    SubmitsAreAccountedFor
    ResolverStaleOnlyAfterLimitedCreate
    
PROPERTIES
    SavesEraseOnlyWhatWasEmptied
    
CHECK_DEADLOCK FALSE
