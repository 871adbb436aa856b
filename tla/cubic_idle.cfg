SPECIFICATION Spec
CONSTANTS
    InitialWindow = 2
    IdlePeriod = 2
    Sizes = {1, 3}
    MaxWindow = 8
    MaxOutstanding = 7
PROPERTIES
    BusyKeepsWindow
