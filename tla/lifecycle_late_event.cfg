SPECIFICATION Spec
CONSTANTS
    c1 = c1
    Calls = {c1}
    ToolKinds = {"auto"}
    MaxSessions = 2
    MaxStarts = 2
    MaxMessages = 0
    MaxQueue = 2
    PatientUser = FALSE
PROPERTY LateEventsAreIgnored
CHECK_DEADLOCK FALSE
