SPECIFICATION Spec
CONSTANTS
    Messages <- AllMessages
    SizeBits = 9
INVARIANTS
    TypeOK
    ReadBack
    DamageIsNoticed
    BordersAreNoticed
CHECK_DEADLOCK FALSE
