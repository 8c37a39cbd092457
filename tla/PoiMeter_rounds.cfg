SPECIFICATION FairSpec
CONSTANTS
    Word = 8
    r1 = r1
    r2 = r2
    Racks = {r1, r2}
    FixedLoad = 5
    Compute = TRUE
    Nodes = 2
    SawMin = 13
    SawMax = 19
    SawStep = 3
    Sites <- MCSites
    PutBatches <- MCBatches
INVARIANT TypeOK
PROPERTIES NoRackMissing LastDrawHeld DrivenPairsStay MeterConverges
