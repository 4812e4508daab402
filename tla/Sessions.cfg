SPECIFICATION Spec
CONSTANTS
    Users = {u1}
    MaxTokens = 3
    MaxFamilies = 1
    Requests = {q1, q2}
    Grants <- MCGrants
    Secrets = {s1}
    None = None
    MaxChanges = 1
SYMMETRY MCSymmetry
INVARIANTS
    OneLiveToken
    ReuseClosesFamily
    ReadersNeverWrite
PROPERTIES
    DeadFamilyStaysDead
CHECK_DEADLOCK FALSE
