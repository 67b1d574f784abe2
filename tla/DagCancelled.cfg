SPECIFICATION Spec
CONSTANTS
    a = a
    b = b
    c = c
    Nodes = {a, b, c}
    Deps <- Pair
    Agents = {g}
    Runners = {daemon}
    Exits = {daemon}
    Charged = {}
    LeaseStates = {"live"}
    MaxNodesPerTick = 2
    MaxFaults = 0
    None = None
PROPERTIES
    TerminalTaskFinal
CHECK_DEADLOCK FALSE
