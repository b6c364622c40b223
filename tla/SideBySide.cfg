SPECIFICATION MCSpec
CONSTANTS
    NumSteps = 2
    Marks = {"Pass", "Fail"}
    Overrides = {"none", "Blocked"}
    MaxFiles = 1
    MaxEdits = 4
    MaxRuns = 2
    MaxFailures = 1
    MaxBugs = 2
    Targets = {w1, w2}
    LinkTypes = {"TestedBy", "Covers"}
    Handlers = {h1, h2}
    MaxRelations = 3
    MaxClicks = 3
    BatchSize = 2
    MaxCalls = 2
    MaxCreates = 4
    Acceptances = {a1, a2}
    MaxMisses = 2
    Tabs = {t1, t2}
    Removers = {"remove"}
    MaxEntries = 3
    MaxRefused = 1
    Editors = {e1, e2}
    MaxVersions = 4
    MaxBroken = 2
    Requests = {r1, r2, r3, r4}
    Limit = 2
    Modes = {"hard", "soft", "none"}
    Subscriptions = {s1, s2}
    MaxEvents = 4
    MaxOutages = 1
    Files = {f1, f2}
    Contents <- MCContents
    Manual = {"B"}
    Retired = {"C"}
    Workers = {k1, k2}
    MaxPushes = 2
    MaxCases = 4
    MaxFaults = 1
    Reports <- MCReports
    Portfolios <- MCPortfolios
    Jobs = {j1, j2}
    ListLimit = 2
    MaxMishaps = 1
    StoredSteps = {0, 2}
    Suggested = 2
    MaxDialogs = 2
    MaxChanges = 3
    Environments = {"qa", "dev"}
    Verdicts = {"Pass", "Fail"}
    Filters <- MCFilters
    Executions <- MCExecutions
    Ledgers <- MCLedgers
    Links <- MCLinks
    Columns = {"t1", "t2"}
    PageSize = 3
    Window = 2
    RunLimit = 4
    MaxNew = 1
    MaxAsks = 3
    Titles = {"old", "new"}
    TagNames = {"smoke"}
    StepTexts <- MCStepTexts
    MaxStepCount = 3
    MaxOf <- MCMaxOf
    MaxLines = 6
INVARIANTS
    CompletedRunIsWhatWasSaved
    LeftoversComeFromFailures
    SuggestedCasesAreAccountedFor
    AcknowledgedEditsAreStored
    
    
    LicenceFollowsStripe
    
    
    
    TwinsNeedAStaleListing
    
    
    DiffIsAShortestScript
    LinesStayInTheirBlock
    RewritingKeepsScenarios
PROPERTIES
    RemovalTakesTheLinkClicked
    WrittenStepsAreKept
CHECK_DEADLOCK FALSE
