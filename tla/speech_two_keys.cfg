CONSTANTS
    r1 = r1
    r2 = r2
    o1 = o1
    k1 = k1
    v1 = v1
    v2 = v2
    k2 = k2
    Requests = {r1, r2}
    Rivals = {}
    Keys = {k1, k2}
    Versions = {v1, v2}
    Keyrings <- Rotations
    Quota = 2
    MaxSlots = 1
    Total = 2
    Reserve = 1
    Lease = 2
    StaleAfter = 3
    MaxRestarts = 1
SYMMETRY Symmetry
SPECIFICATION Spec
INVARIANTS CalledAtMostOnce WorkKeepsItsResources TranscriptIsRecorded
CHECK_DEADLOCK FALSE
