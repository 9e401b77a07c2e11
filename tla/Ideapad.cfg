CONSTANTS
    Radios <- MCRadios
    MaxEvents = 2
SPECIFICATION FairSpec
INVARIANTS
    TypeOK
    UsesLive
    Undone
    RadiosFollow
    TouchpadFollows
    BacklightFollows
PROPERTY
    RemovalEnds
CHECK_DEADLOCK FALSE
