SPECIFICATION Spec
CONSTANTS
    v0 = v0
    v1 = v1
    v2 = v2
    crlf = crlf
    Empty = v0
    Absent = Absent
    Dir = Dir
    None = None
    Paths <- MCPaths
    Texts <- MCTexts
    Raw <- MCRaw
    Decode <- MCDecode
    Ignored <- MCIgnored
    InitTrees <- MCInitTrees
    Scripts <- RelatedScripts
    Features = {"restart"}
    MaxDos = 3
    MaxUndos = 3
CHECK_DEADLOCK FALSE
INVARIANT HistoryReplays
