CONSTANTS
    Loggers = {l1, l2, l3}
    Paths = {p, q}
    None = None
    Dangling = Dangling
    MaxRefs = 4
SYMMETRY Symmetry
SPECIFICATION Spec
INVARIANTS TypeOK NoDanglingSink RefCountExact
PROPERTIES LinesOfLivingKept
CHECK_DEADLOCK FALSE
