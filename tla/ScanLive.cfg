SPECIFICATION FairSpec
CONSTANTS
    NoScan = NoScan
    NoDevice = NoDevice
    CollectTask = CollectTask
    CollectLoop = CollectLoop
    Scans = {s1}
    Devices = {d1, d2}
    OnRequest = {d1}
    FirstStatuses = {"absent", "null"}
    MaxScanRetries = 0
    MaxCollectRetries = 0
    MaxFaults = 0
INVARIANTS
    ScanningIsServed
PROPERTIES
    ScanEnds
CHECK_DEADLOCK FALSE
