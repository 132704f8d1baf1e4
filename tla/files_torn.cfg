SPECIFICATION FilSpec
CONSTANTS
    FilContents = {1, 2}
    FilMaxCalls = 2
    FilMaxUndos = 1
    FilMaxOutside = 0
    FilMaxCrashes = 1
INVARIANT FilSnapshotsWhole
CHECK_DEADLOCK FALSE
