SPECIFICATION Spec
CONSTANTS
    FilContents = {1,2}
    FilMaxCalls = 2
    FilMaxUndos = 1
    FilMaxOutside = 2
    FilMaxCrashes = 1
    ProcIds = {"p1","p2"}
    ProcLimit = 1
    ProcMaxCalls = 3
    ConWindow = 10
    ConReserved = 1
    ConLeast = 1
    ConMaxRefs = 2
    ConSizes = {1, 3}
    ConMaxLen = 5
    SkImports = {"i1","i2"}
    SkMaxSwitches = 1
    PkgChoices = {"s1","s2"}
    PkgContents = {1,2}
    PkgMaxChanges = 2
    PrepWindows = {14, 24}
    PrepRuleSizes = {0, 2, 3}
    PrepRuleLimit = 2
    PrepRulesTotal = 3
    PrepFileSizes = {1, 3}
    PrepInline = 3
    PrepInlineTotal = 4
    PrepSkillSizes = {1, 4}
    PrepMemories <- MCMems
    PrepHistories <- MCHist
    PrepSummary = 3
    PrepFetched = 3
    PrepShown = 2
    PrepMaxRuns = 2
    GateFiles = {"f1", "f2"}
    GateContents = {1, 2}
    GateMaxCalls = 3
    AccRuns = {"r1","r2"}
    AccReadOnly = {"r2"}
    AccHome <- MCHome
    AccCalls <- MCCalls
    AccGuarded <- MCGuarded
    AccRulePaths = {"a", "env"}
    AccDay = 1
    AccHorizon = 1
    AccMaxPending = 1
INVARIANTS ToolsTypeOK FilRecoverable PkgInstalledAsShown PrepPromptHolds 
PROPERTIES ProcAccounted ConRequestWhole SkKept AccAskedAndBounded
VIEW Undecorated
CHECK_DEADLOCK FALSE
