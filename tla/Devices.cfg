SPECIFICATION Spec
CONSTANTS
    None = None
    Sweeps = {s1, s2, s3}
    Rows = {r1, r2, r3, r4}
    Ips = {a1, a2}
    Macs = {m1, m2}
    Hostnames = {x}
    a1 = a1
    MaxOverlaps = 1
    Ranges <- MCRanges
SYMMETRY MCSymmetry
INVARIANTS
    MacNamesOneDevice
    OnlineAddressesDiffer
    IpHistoryIsCurrent
CHECK_DEADLOCK FALSE
