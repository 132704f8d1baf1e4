SPECIFICATION Spec
CONSTANTS
    c1 = c1
    c2 = c2
    Calls = {c1, c2}
    ToolKinds = {"auto", "ask", "once", "deny", "plan", "complete"}
    MaxSessions = 2
    MaxStarts = 1
    MaxMessages = 0
    MaxQueue = 2
    PatientUser = TRUE
SYMMETRY CallSymmetry
INVARIANT EveryCallIsAnswered
PROPERTY VerdictIsCurrent
CHECK_DEADLOCK FALSE
