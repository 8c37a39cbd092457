SPECIFICATION FairSpec
CONSTANTS
    Inputs = {1}
    MinOf <- MCMin
    MaxOf <- MCMax
    StepOf <- MCStep
    Device = Device
    Unknown = Unknown
    Managers = {m1}
    None = None
    MaxId = 3
    MaxNet = 2
INVARIANTS
    TypeOK
    FreshReading
PROPERTIES
    Answered
\* The process may end.
CHECK_DEADLOCK FALSE
