CONSTANTS
    x1 = x1
    x2 = x2
    c1 = c1
    c2 = c2
    Executors = {x1, x2}
    Calls = {c1, c2}
    Owner <- OwnerOfCalls
    MaxInFlight = 1
    MaxWorkers = 1
    MaxRedirects = 1
    MaxPools = 2
    Configs <- Environments
SPECIFICATION LiveSpec
INVARIANTS CapacityAddsUp OffersAreBacked StoppedIsClean
PROPERTIES ChecksEnd
CHECK_DEADLOCK FALSE
