SPECIFICATION WalkSpec
CONSTANTS
    Phases = {1}
    Fresh <- MCFresh
    Refused <- MCRefused
    Unencodable = {}
    SawMin = 1500
    SawMax = 1505
    SawStep = 5
    Nodes = 7
    Share = 4
    BaseW = 3000
    I64Half = 67108864
    I32Half = 65536
    Pollers = {}
    Batches <- MCBatches
    Requests = {}
    NodeDraws = {2000}
    Malformed = Malformed
    Root <- Pdu2
PROPERTIES
    RawValues
