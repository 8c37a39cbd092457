SPECIFICATION FairSpec
CONSTANTS
    Seeds <- MCSeeds
    Batches <- MCBatches
    Clients = {c1, c2}
    Room = 2
    None = None
INVARIANTS
    TypeOK
    EventsTellAll
PROPERTIES
    WholeBatches
    AnsweredStands
    MasterConverges
