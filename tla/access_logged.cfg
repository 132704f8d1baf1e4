SPECIFICATION AccSpec
CONSTANTS
    AccRuns = {"r1", "r2"}
    AccReadOnly = {"r2"}
    AccHome <- MCHome
    AccCalls <- MCCalls
    AccGuarded <- MCGuarded
    AccRulePaths = {"a", "env"}
    AccDay = 1
    AccHorizon = 1
    AccMaxPending = 1
PROPERTY AccRunsAsAsked
CHECK_DEADLOCK FALSE
