CONSTANTS
    Calls = {c1, c2}
    Evidence = {t1}
    Media = {}
    Legacy = {t1}
    Questions = {q1}
    MaxVersion = 2
    MaxEvents = 2
    MaxFaults = 1
SPECIFICATION Spec
SYMMETRY CallSymmetry
INVARIANTS VerdictHeardEveryAnswer DeliveredOnce RecordsAreTrue AgentReadsEveryFact
PROPERTIES KeepsPromise
