SPECIFICATION Spec
CONSTANTS
    Phases = {1, 2, 3}
    Fresh <- MCFresh
    Refused <- MCRefused
    Unencodable <- MCUnencodable
    SawMin = 1500
    SawMax = 1600
    SawStep = 5
    Nodes = 7
    Share = 4
    BaseW = 3000
    I64Half = 67108864
    I32Half = 65536
    Sim = Sim
    Pdu = Pdu
    Clients = {c1}
    Pollers = {p1}
    None = None
    Malformed = Malformed
    Batches <- CreateOnly
    Requests <- MCRequests
    NodeDraws = {2000, 10200}
PROPERTIES
    EveryDrivenSurvivesTick
