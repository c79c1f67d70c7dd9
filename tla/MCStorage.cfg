CONSTANTS
    f1 = f1
    f2 = f2
    Files <- MCFiles
    ListedSize <- MCListedSize
    FullSize <- MCFullSize
    READ_SNAPSHOT_FILE_SIZE = 2
    Failures = FALSE
    MaxConnections = 3
    MaxCrashes = 1
SPECIFICATION MCSpec
CHECK_DEADLOCK FALSE
INVARIANTS  RecordsReadBack  TrieReads
 
