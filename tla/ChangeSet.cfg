SPECIFICATION FairSpec
CONSTANTS
    v0 = v0
    v1 = v1
    v2 = v2
    crlf = crlf
    Empty = v0
    Absent = Absent
    Dir = Dir
    None = None
    Paths <- MCPaths
    Texts <- MCTexts
    Raw <- MCRaw
    Decode <- MCDecode
    InitTrees <- MCInitTrees
    Scripts <- AllScripts
    Faults = {"stop", "disk", "observer"}
CHECK_DEADLOCK FALSE
INVARIANTS
    TypeOK
    RollbackRestores
    CauseReachesCaller
    UndoRestores
    RedoRepeats
PROPERTIES
    ImplementsAtomic
    StopIsHeard
    CallsEnd
