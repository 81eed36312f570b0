CONSTANTS
    s1 = s1
    s2 = s2
    r3 = r3
    Sessions = {s1, s2}
    Reviews = {r1, r3}
    SessionOf <- CallsOfTwoSessions
    Senders = {d1}
    Closers = {k1, k2}
    MaxConcurrent = 1
SPECIFICATION LiveSpec
INVARIANTS PermitsAddUp ShutdownIsQuiet
PROPERTIES WorkEnds
CHECK_DEADLOCK FALSE
