CONSTANTS
    r1 = r1
    r2 = r2
    p1 = p1
    p2 = p2
    k1 = k1
    k2 = k2
    s1 = s1
    Requests = {r1, r2}
    Subjects = {s1}
    Processes = {p1, p2}
    Kinds = {"read", "submit", "review"}
    Keys = {k1, k2}
    MaxEntries = 1
    Ttl = 1
    FetchTicks = 1
    MaxFaults = 1
SYMMETRY Symmetry
SPECIFICATION Spec
INVARIANTS AuditIsExact OneIdentity
PROPERTIES KeyTrustEnds
CHECK_DEADLOCK FALSE
