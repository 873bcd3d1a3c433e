SPECIFICATION Spec
CONSTANTS
    NumOutputs = 2
    MinPower = 1
    SpeedMax = 2
    MaxCount = 1
    CountSpan = 2
    MaxOrders = 2
    Ports <- MCPorts
    Powers <- MCPowers
    Orders <- MCOrders
    Writes <- MCWrites
INVARIANT NoOverrun
PROPERTY PairStopsTogether
PROPERTY EndOfProgramStops
PROPERTY IdleRunsDown
