SPECIFICATION FairSpec
CONSTANTS
    gateway = gateway
    stranger = stranger
    Clients = {gateway}
    Users = {gateway}
    OurEngine = OurEngine
    NoEngine = NoEngine
    None = None
    Values = {0, 1}
    InitialValue = 0
    Strays <- MCStrays
    Window = 0
    MaxTime = 1
    MaxId = 3
    MaxNet = 2
INVARIANTS
    TypeOK
    NeverDropped
    RepliesReadable
    FreshReading
PROPERTIES
    Answered
