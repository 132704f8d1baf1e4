SPECIFICATION HostSpec
CONSTANTS
    c1 = c1
    Calls = {c1}
    ToolKinds = {"auto", "ask", "once", "deny", "plan", "complete"}
    MaxSessions = 2
    MaxStarts = 2
    MaxMessages = 1
    MaxQueue = 2
    PatientUser = FALSE
INVARIANT TypeOK
PROPERTIES CancelledIsFinal StoppedStaysStopped KeepsContract RunsComeToRest
CHECK_DEADLOCK FALSE
