SPECIFICATION Spec
CONSTANTS
    Gpus = {g1, g2}
    Clients = {c1, c2}
    None = None
    Demand = 40
    BootCap = 48
    MaxClock = 19
    Overhead = 100
    AllowableMin = 12
    AllowableMax = 40
    SetPoints <- MCSetPoints
INVARIANTS
    TypeOK
    TotalOfOneInstant
    ThrottleAgrees
