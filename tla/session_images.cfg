CONSTANTS
    Calls = {c1, c2}
    Evidence = {m1}
    Media = {m1}
    Legacy = {}
    Questions = {q1}
    MaxVersion = 1
    MaxEvents = 2
    MaxFaults = 1
SPECIFICATION LiveSpec
INVARIANTS AuditIsFaithful ScoredFactsCurrent
PROPERTIES StandingDraftSettles
