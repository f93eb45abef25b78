SPECIFICATION Spec
CONSTANTS
    v0 = v0
    v1 = v1
    v2 = v2
    crlf = crlf
    Empty = v0
    Absent = Absent
    Dir = Dir
    None = None
    Paths <- MCPaths
    Texts <- MCTexts
    Raw <- MCRaw
    Decode <- MCDecode
    InitTrees <- MCInitTrees
    Scripts <- PackageRename
    Faults = {"stop"}
CHECK_DEADLOCK FALSE
INVARIANT InterruptReachesCaller
