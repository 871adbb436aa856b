SPECIFICATION KeepAliveSpec
CONSTANTS
    Seqs = {1, 2}
    Modulus = 4
    Windows = {0, 1, 3}
    Buffers = {0, 1, 2, 3}
    Intervals = {1, 3}
    Slack = 1
    MaxTicks = 6
    MaxSpent = 3
    Period = 2
    Delay = 2
INVARIANTS
    TypeOK
    WithinCredit
    KeepAlivesSuffice
PROPERTIES
    OnlyForward
