SPECIFICATION Spec
CONSTANTS
    c1 = c1
    c2 = c2
    Calls = {c1, c2}
    ToolKinds = {"ask", "once"}
    MaxSessions = 2
    MaxStarts = 1
    MaxMessages = 1
    MaxQueue = 2
    PatientUser = FALSE
SYMMETRY CallSymmetry
INVARIANT EffectsAreApproved
PROPERTY QuestionIsAnswerable
CHECK_DEADLOCK FALSE
