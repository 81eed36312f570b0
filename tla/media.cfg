CONSTANTS
    u1 = u1
    u2 = u2
    u3 = u3
    k1 = k1
    k2 = k2
    k3 = k3
    s1 = s1
    s2 = s2
    b1 = b1
    b2 = b2
    i1 = i1
    i2 = i2
    Uploads = {u1, u2}
    Keys = {k1, k2, k3}
    SessionOf <- TwoSessions
    Bodies = {b1, b2}
    ImageOf <- TwoImages
    MaxItems = 2
    MaxImages = 1
    MaxFaults = 1
SYMMETRY Symmetry
SPECIFICATION Spec
INVARIANTS EvidenceIsSound PendingIsKept QuotaHolds
PROPERTIES KeepsPromise
CHECK_DEADLOCK FALSE
