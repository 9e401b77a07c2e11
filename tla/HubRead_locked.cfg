CONSTANTS
    r1 = r1
    r2 = r2
    x = x
    y = y
    Nobody = Nobody
    Readers <- MCReaders
    Attrs <- MCAttrs
    Reports <- MCReports
SPECIFICATION Spec
INVARIANT PendingProtected
CHECK_DEADLOCK FALSE
