SPECIFICATION Spec
CONSTANTS
    BudTurnLimit = 2
    BudTotalLimit = 3
    BudTurnTime = 2
    BudTotalTime = 3
    BudHorizon = 4
    BudMaxStarts = 3
    DelRuns = {"r1", "r2", "r3"}
    DelNoRun = "user"
    DelLimit = 2
    ChrTabs = {1, 2}
    ChrFirstTabs = {1}
    ChrTasks = {"r1", "r2"}
    ChrMaxGrants = 3
    ChrMaxActs = 1
    ChrOps = {1}
    TrRuns = {"r1","r2"}
    TrKeys = {"k1","k2"}
    TrMaxRows = 4
    AudBodies = {"x","y"}
    AudSizes = {1,2}
    AudRetention = 1
    AudLimit = 3
    AudHorizon = 2
    AudMaxRows = 3
    AudMaxOutside = 1
    SbQueries = {"q1","q2","q3","q4"}
    SbMax = 2
    SbWidth = 2
    SbMaxCalls = 4
    SbMaxTurns = 2
    StrPieces = {1, 2}
    StrMax = 3
    StrMaxSaid = 4
    StrMaxMessages = 2
    ViewRuns = {"r1", "r2"}
    ViewNoRun = "none"
    ViewSent = {"m1"}
    ViewReplies = {"a1"}
    ViewMaxSteps = 2
    ViewMaxAsked = 3
INVARIANTS RunsTypeOK   
   
PROPERTIES  ViewShowsOnce
CHECK_DEADLOCK FALSE
