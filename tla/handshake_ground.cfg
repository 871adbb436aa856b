SPECIFICATION FairMission
CONSTANTS
    Bytes = {"E", "G", "d", "g", "s", "t", "x"}
    DroneKeys <- AnyDroneKeys
    GroundKeys <- AnyGroundKeys
    KeySize = 3
    Regimes <- GroundRegimes
    Sessions = {"relay"}
    Streams = {"up", "down"}
    MaxWrites = 2
    TagSize = 2
    Plaintexts <- AnyPlaintexts
    Ciphers = {"AES256GCM", "CHACHA20"}
PROPERTIES
    GroundInitiatedCompletes
CHECK_DEADLOCK FALSE
