SPECIFICATION FairSpec
CONSTANTS
    NoReview = NoReview
    Reviews = {r1, r2, r3}
    MaxFaults = 1
INVARIANTS
    OneRunAtATime
    RunsAreAccountedFor
    StatusIsLogged
PROPERTIES
    SettledStays
    ApprovedSettles
CHECK_DEADLOCK FALSE
