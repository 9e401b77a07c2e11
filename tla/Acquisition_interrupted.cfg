CONSTANTS
    u1 = u1
    u2 = u2
    Nobody = Nobody
    Users <- One
    Faults <- Stops
    MaxFaults = 1
    MaxUnsticks = 0
SPECIFICATION Spec
INVARIANT DeviceOffWhenFinished
CHECK_DEADLOCK FALSE
