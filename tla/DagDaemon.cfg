SPECIFICATION FairSpec
CONSTANTS
    a = a
    b = b
    c = c
    Nodes = {a, b, c}
    Deps <- Pair
    Agents = {}
    Runners = {daemon}
    Exits = {daemon}
    Charged = {}
    LeaseStates = {"live", "lapsed"}
    MaxNodesPerTick = 2
    MaxFaults = 4
    None = None
INVARIANTS
    ExecutingNodeRunning
PROPERTIES
    DaemonSettles
CHECK_DEADLOCK FALSE
