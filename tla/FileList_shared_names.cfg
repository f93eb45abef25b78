SPECIFICATION Spec
CONSTANTS
    v0 = v0
    v1 = v1
    Empty = v0
    Absent = Absent
    Dir = Dir
    None = None
    Paths <- MCPaths
    Texts <- MCTexts
    Raw <- MCRaw
    Decode <- MCDecode
    Ignored <- MCIgnored
    InitTrees <- MCInitTrees
    FilePaths <- MixedFilePaths
    FolderPaths <- MixedFolderPaths
    MovePairs <- MCMovePairs
    MaxChanges = 2
    Features = {"outside", "race", "stale_move", "validate_gone"}
INVARIANT
    KnownAreObserved
