SPECIFICATION FairSpec
CONSTANTS
    Phases = {1}
    Fresh <- MCFresh
    Refused <- MCRefused
    Unencodable <- MCUnencodable
    SawMin = 1500
    SawMax = 1505
    SawStep = 5
    Nodes = 7
    Share = 4
    BaseW = 3000
    I64Half = 67108864
    I32Half = 65536
    Sim = Sim
    Pdu = Pdu
    Clients = {c1}
    Pollers = {p1}
    None = None
    Malformed = Malformed
    Batches <- MCBatches
    Requests <- MCRequests
    NodeDraws = {2000}
INVARIANTS
    TypeOK
    LockInv
    LockProgress
    NoTornRead
PROPERTIES
    DrivenSurvivesTick
    NobodyStarves
    MibsConverge
    PduCarriesPower
    ImplementsOidStore
