SPECIFICATION OneSpec
CONSTANTS
    NoValue = NoValue
    Unbound = Unbound
    None = None
    x = x
    y = y
    Vars <- MCVars
    ParamSets <- MCParamSets
    Names <- MCNames
    Definitions <- MCDefinitions
    MaxChangers = 2
    MaxLines = 5
    MaxDepth = 2
CHECK_DEADLOCK FALSE
INVARIANTS
    SignatureKept
    ExtractionKept
