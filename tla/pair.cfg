SPECIFICATION FairSpec
CONSTANTS
    Client = c
    Server = s
    Regimes <- AnyRegimes
    MaxCopies = 2
INVARIANTS
    TypeOK
    AckIsOwed
    SidesAgree
PROPERTIES
    ImplementsSession
    CloseCompletes
    NothingLingers
CHECK_DEADLOCK FALSE
