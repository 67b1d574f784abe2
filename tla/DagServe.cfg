SPECIFICATION FairSpec
CONSTANTS
    a = a
    b = b
    c = c
    Nodes = {a, b, c}
    Deps <- Join
    Agents = {g, h}
    Runners = {serve}
    Exits = {}
    Charged = {a}
    LeaseStates = {"live", "lapsed"}
    MaxNodesPerTick = 2
    MaxFaults = 3
    None = None

    
PROPERTIES
    TerminalNodesFinal
    ImplementsGraphRun
    ClaimNotStolen
    RestartReclaims
CHECK_DEADLOCK FALSE
