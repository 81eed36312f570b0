CONSTANTS
    n1 = n1
    i1 = i1
    i2 = i2
    f1 = f1
    f2 = f2
    f3 = f3
    GoalUnits = 10
    TitleUnits = 3
    VisualFacts = {f1, f2, f3}
    Words <- Unrelated
    Notes = {n1}
    Links = {}
    Images = {i1, i2}
    Tools = {"text", "image"}
    Texts <- SomeTexts
    Responses <- Replies
    MaxEvidence = 2
    MaxAnswers = 1
    MaxEvents = 4
    MaxRuns = 2
SYMMETRY Symmetry
SPECIFICATION VerdictSpec
INVARIANTS ImagesAreNarrated RecordIsExact LikelyIffEarned
CHECK_DEADLOCK FALSE
