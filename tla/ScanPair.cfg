SPECIFICATION Spec
CONSTANTS
    NoScan = NoScan
    NoDevice = NoDevice
    CollectTask = CollectTask
    CollectLoop = CollectLoop
    Scans = {s1, s2}
    Devices = {d1}
    OnRequest = {}
    FirstStatuses = {"absent", "null", "offline", "completed"}
    MaxScanRetries = 1
    MaxCollectRetries = 1
    MaxFaults = 1
INVARIANTS
    DispatchedRowsExist
    OneCollectorPerDevice
PROPERTIES
    SweptOnce
    KeepsRecord
    QuietCancelStays
CHECK_DEADLOCK FALSE
