SPECIFICATION Spec
CONSTANTS
    v0 = v0
    v1 = v1
    bad = bad
    main = main
    receiver = receiver
    Empty = v0
    Bad = bad
    Absent = Absent
    Dir = Dir
    None = None
    Main = main
    Threads <- MCThreads
    Paths <- MCPaths
    Texts <- MCTexts
    Raw = {}
    Written <- MCWritten
    Decode <- MCDecode
    Init0 <- MCInit0
    Candidates <- MCCandidates
    Importer <- MCImporter
    MovePairs <- MCMovePairs
    MaxChanges = 2
INVARIANTS
    TypeOK
    CachedAreWatched
    ModulesFresh
    ConclusionsFresh
