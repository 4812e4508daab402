SPECIFICATION FairSpec
CONSTANTS
    None = None
    Prompts = {p1, p2}
    Servers = {srv1, srv2}
INVARIANTS
    TargetWasRegistered
PROPERTIES
    KeepsPromise
CHECK_DEADLOCK FALSE
