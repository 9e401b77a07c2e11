CONSTANTS
    t1 = t1
    t2 = t2
    fan = fan
    rf = rf
    on = on
    off = off
    None = None
    Threads <- MCThreads
    Cells <- MCCells
    Switches <- MCSwitches
    Values <- MCValues
SPECIFICATION FairSpec
INVARIANTS
    TypeOK
    ReadRight
    WriteRight
PROPERTY
    CallsReturn
CHECK_DEADLOCK FALSE
