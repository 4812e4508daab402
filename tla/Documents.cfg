SPECIFICATION FairSpec
CONSTANTS
    Upload = Upload
    Reindexes = {r1}
    Deletes = {d1}
    MaxRetries = 1
    MaxFaults = 1
INVARIANTS
    IndexedIsSearchable
    FileIsKept
    RetriesStoreOnce
PROPERTIES
    DeletedGainsNothing
    IngestionEnds
CHECK_DEADLOCK FALSE
