SPECIFICATION FairSpec
CONSTANTS
    Vectors <- TwoVectors
    Packages <- Packed
    ChunkSize = 3
INVARIANTS
    TypeOK
    DeliveredIntact
    NothingForgotten
    VectorsArrive
PROPERTIES
    TransferCompletes
CHECK_DEADLOCK FALSE
