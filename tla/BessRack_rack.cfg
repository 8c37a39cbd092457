SPECIFICATION FairSpec
CONSTANTS
    Word = 8
    Rated = 5
    Full = 50
    InitialSoc = 23
    SocStep = 10
    Writable = TRUE
    PutBatches <- Drives
    Fc16Batches <- Setpoints
    Fc6Writes <- HalfSetpoint
INVARIANTS
    TypeOK
PROPERTIES
    MetersWhatLeft
    WithinReportedLimits
    DrivenWordsStay
    RunsDown
