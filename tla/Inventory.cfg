SPECIFICATION Spec
CONSTANTS
    None = None
    NoVersion = NoVersion
    editor = editor
    v1 = v1
    v2 = v2
    Names = {editor}
    Versions = {v1, v2}
    Hosts <- MCHosts
    SoftwareLists <- MCLists
    Credentials = {"winrm", "ssh", "snmp"}
    Sweeps = {sweep}
    Local = FALSE
INVARIANTS
    ConfirmedIsProven
    HistoryReplays
CHECK_DEADLOCK FALSE
