CONSTANTS
    w1 = w1
    w2 = w2
    w3 = w3
    b1 = b1
    r1 = r1
    Writers = {w1, w2, w3}
    Threaded = {w1}
    Cancelled = {w1}
    Backups = {b1}
    Restores = {r1}
    MaxThreads = 2
    MaxFaults = 1
SPECIFICATION LiveSpec
INVARIANTS WindowIsQuiet TornIsFenced
PROPERTIES ClearedOnlyWhole RequestsEnd
CHECK_DEADLOCK FALSE
