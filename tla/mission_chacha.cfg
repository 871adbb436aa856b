SPECIFICATION MissionSpec
CONSTANTS
    Bytes = {"E", "G", "d", "g", "s", "t", "x"}
    DroneKeys <- AnyDroneKeys
    GroundKeys <- AnyGroundKeys
    KeySize = 3
    Regimes <- QuietMission
    Sessions = {"relay"}
    Streams = {"up", "down"}
    MaxWrites = 2
    TagSize = 2
    Plaintexts <- AnyPlaintexts
    Ciphers = {"CHACHA20"}
INVARIANTS
    EncryptedDataDecrypts
CHECK_DEADLOCK FALSE
