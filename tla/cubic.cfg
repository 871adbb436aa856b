SPECIFICATION FairSpec
CONSTANTS
    InitialWindow = 2
    IdlePeriod = 2
    Sizes = {1, 3}
    MaxWindow = 6
    MaxOutstanding = 5
INVARIANTS
    TypeOK
PROPERTIES
    SentWithinWindow
    SendingResumes
