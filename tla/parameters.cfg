CONSTANTS
    Objects = {whole, part}
    Parts = {"", "a", "b"}
    Blank = ""
    MaxParts = 2
    Names <- NameSet
    Default = "refused"
    None = None
    MaxCalls = 4
SYMMETRY Symmetry
SPECIFICATION Spec
INVARIANTS TypeOK ReadsAgree
PROPERTIES ImplementsParameterMap
CHECK_DEADLOCK FALSE
