CONSTANTS
    a = a
    b = b
    accel = accel
    als = als
    other = other
    Nobody = Nobody
    Drivers <- MCDrivers
    Usages <- MCUsages
    Usage <- TwoUsages
    Reports <- MCReports
    Confused <- OnlyB
    Mute <- None
SPECIFICATION FairSpec
INVARIANTS
    TypeOK
    CallbackAlive
    OpenWhileUsed
    PowerFollows
    ScanWhileOn
    NothingLeft
PROPERTY
    RemovalEnds
CHECK_DEADLOCK FALSE
