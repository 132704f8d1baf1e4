SPECIFICATION LeaseFairSpec
CONSTANTS
    None = "none"
    Writes = {"w1", "w2", "w3"}
    Paths = {"p1"}
    Runs = {"r1", "r2"}
    PathOf <- MCPathOf
    RunOf <- MCRunOf
    Faults = {"stop"}
PROPERTY EveryWriteEnds
CHECK_DEADLOCK FALSE
