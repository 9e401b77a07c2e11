CONSTANTS
    ByteBits = 2
    Setups <- MCSetups
    Readings <- MCReadings
    MaxScans = 2
    Faults <- MCFaults
    MaxFaults = 1
    MaxSwitches = 1
    AmbientMax = 7
    BacklightMax = 5
SPECIFICATION Spec
INVARIANTS
    TypeOK
    ValuesRight
    CallbacksRight
    ArrayFits
    EndsWithCause
CHECK_DEADLOCK FALSE
