SPECIFICATION FairMission
CONSTANTS
    Bytes = {"E", "G", "d", "g", "s", "t", "x"}
    DroneKeys <- AnyDroneKeys
    GroundKeys <- AnyGroundKeys
    KeySize = 3
    Regimes <- AnyRegimes
    Sessions = {"relay"}
    Streams = {"up", "down"}
    MaxWrites = 2
    TagSize = 2
    Plaintexts <- AnyPlaintexts
    Ciphers = {"AES256GCM", "CHACHA20"}
INVARIANTS
    TypeOK
    SecretIsCurrent
    SecretsMatch
    InOrder
    MissionIsReadable
PROPERTIES
    HandshakeCompletes
    DataArrives
CHECK_DEADLOCK FALSE
