CONSTANTS
    Dests = {k}
    Threads = {r1, r2}
    Passphrases = {"p"}
    Timeouts = {0, 1}
    UNLOCKKEY_RELEASE_DEFAULT_TIME = 1
    MaxTime = 2
    MaxTimers = 3
    MaxFailures = 0
    MaxRestarts = 0
SPECIFICATION MCSpec
CHECK_DEADLOCK FALSE
INVARIANTS MemoryIsSaved 
PROPERTIES  UnlocksEnd
