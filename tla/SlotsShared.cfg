SPECIFICATION FairSpec
CONSTANTS
    NoKey = NoKey
    Processes = {p1, p2, p3}
    Cap = 1
    MaxFaults = 1
INVARIANTS
    KeyNeverOvercounts
    ExcessIsForgotten
    ExpiryArmed
PROPERTIES
    LeakHeals
