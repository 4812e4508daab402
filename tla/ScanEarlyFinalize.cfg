SPECIFICATION Spec
CONSTANTS
    NoScan = NoScan
    NoDevice = NoDevice
    CollectTask = CollectTask
    CollectLoop = CollectLoop
    Scans = {s1}
    Devices = {d1, d2}
    OnRequest = {}
    FirstStatuses = {"absent", "null", "offline", "completed"}
    MaxScanRetries = 0
    MaxCollectRetries = 0
    MaxFaults = 0
PROPERTIES
    FinalizedWhenAllCollected
CHECK_DEADLOCK FALSE
