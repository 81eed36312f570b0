CONSTANTS
    s1 = s1
    s2 = s2
    Sessions = {s1, s2}
    MaxOps = 3
    MaxText = 2
SPECIFICATION ComposerLiveSpec
INVARIANTS BlockedOnlyWhileSpeaking
CHECK_DEADLOCK FALSE
