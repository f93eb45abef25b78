SPECIFICATION FairSpec
CONSTANTS
    Files = {"a", "b"}
    Scopes = {"f"}
    Values = {"v"}
    Unknown = Unknown
    Nothing = Nothing
    Runners = {"r1", "r2"}
    Main = Main
    Gone = Gone
    Garbage = Garbage
    Ports = 1
    MaxSent = 1
    MaxOps = 1
    Features = {"early_end", "broken", "garbage", "analysis"}
CHECK_DEADLOCK FALSE
INVARIANTS
    TypeOK
    EntriesWatched
PROPERTIES
    DiesOfCauseOnly
    WaitReturns
    KnowledgeStays
