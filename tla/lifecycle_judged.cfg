SPECIFICATION Spec
CONSTANTS
    c1 = c1
    c2 = c2
    Calls = {c1, c2}
    ToolKinds = {"once", "complete"}
    MaxSessions = 2
    MaxStarts = 1
    MaxMessages = 0
    MaxQueue = 2
    PatientUser = TRUE
SYMMETRY CallSymmetry
PROPERTY CompletionIsJudged
CHECK_DEADLOCK FALSE
