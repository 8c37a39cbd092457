SPECIFICATION Spec
CONSTANTS
    Seeds <- MCSeeds
    Batches <- MCBatches
    Clients = {c1, c2}
    Room = 2
    None = None
INVARIANTS
    ServesEngineeringValues
