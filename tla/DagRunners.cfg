SPECIFICATION Spec
CONSTANTS
    a = a
    b = b
    c = c
    Nodes = {a, b, c}
    Deps <- Join
    Agents = {g}
    Runners = {serve, cli}
    Exits = {cli}
    Charged = {a, c}
    LeaseStates = {"live", "lapsed", "away"}
    MaxNodesPerTick = 2
    MaxFaults = 1
    None = None
INVARIANTS
    DependencyOrder
    TaskStatusTracksNodes
    CompletedClaimStands
CHECK_DEADLOCK FALSE
