SPECIFICATION FairSpec
CONSTANTS
    Word = 4
    Rated = 1
    Full = 10
    InitialSoc = 3
    SocStep = 5
    rack = rack
    Setpoints <- MCSetpoints
    Gpus = {g1}
    Demand = 3
    BootCap = 3
    MaxClock = 3
    Overhead = 0
    AllowableMin = 1
    AllowableMax = 3
    SetPoints = {2}
    meter = meter
    operator = operator
    None = None
    FixedLoad = 5
    Nodes = 2
    Energy = 0
    MaxWrites = 1
    MaxPatches = 1
PROPERTIES
    ImplementsMeter
    RestsAtLoad
