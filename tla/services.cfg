SPECIFICATION FairSpec
CONSTANTS
    Autos = {"a1", "a2"}
    AutoSchedules <- MCSchedules
    AutoGrace = 1
    AutoHorizon = 3
    OAuthMaxFlows = 3
    OAuthMaxTokens = 2
    McpUses = {"u1", "u2"}
    McpDrops = {"d1"}
    McpNobody = "nobody"
    McpMaxConfig = 2
    McpMaxConns = 3
    BrMaxConns = 2
    BrRequests = {"q1", "q2"}
    OutMaxBytes = 5
    OutTag = 1
    OutManaged = 7
    OutPoll = 2
    OutWritten = 9
    OutChunks = {1, 2, 3, 4}
    FxHosts = {"h", "e"}
    FxEngine = {"e"}
    FxAddresses = {"pub", "priv"}
    FxPublic = {"pub"}
    FxMaxHops = 3
    FxMaxBytes = 2
    None = "none"
    Writes = {"w1", "w2", "w3"}
    Paths = {"p1"}
    Runs = {"r1", "r2"}
    PathOf <- MCPathOf
    RunOf <- MCRunOf
    Faults = {"exit", "stop"}
    Reads = {"q1", "q2", "q3", "q4"}
    Limit = 2
INVARIANTS ServicesTypeOK  OAuthFlowsHold McpServesAsConfigured
INVARIANTS BrLinked  FxGoesWhereAllowed
INVARIANTS OneWriterPerFile SlotsAreCounted
PROPERTIES EveryWaitEnds LeasesTakeTurns ReadsTakeTurns WritesEndUnlessStopped
CHECK_DEADLOCK FALSE
