CONSTANTS
    u1 = u1
    u2 = u2
    Nobody = Nobody
    Users <- Two
    Faults <- All
    MaxFaults = 3
    MaxUnsticks = 1
SPECIFICATION FairSpec
INVARIANTS
    TypeOK
    DescriptorTracked
    QuietAfterCleanCall
    StopTurnsBufferOff
PROPERTIES
    ReadsGoOn
    PollEnds
CHECK_DEADLOCK FALSE
