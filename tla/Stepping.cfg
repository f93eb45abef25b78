SPECIFICATION FairSpec
CONSTANTS
    Script = "main"
    Functions <- MCFunctions
    LinesOf <- MCLinesOf
    FileOf <- MCFileOf
    DefLines = {2}
    BreakLines = {1, 3}
    MaxBps = 2
    MaxIgnore = 1
    MaxDepth = 3
    MaxCount = 2
    Sessions <- MCSessions
CHECK_DEADLOCK FALSE
INVARIANTS
    TypeOK
    NextStays
    StepCounts
    ContinueOnlyBreaks
PROPERTIES
    BreakStops
    FinishSeen
    AbortsEnd
