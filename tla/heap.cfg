CONSTANTS
    NUM_BITS = 3
    Pow2 <- Pow2Table
    MonotoneClient = TRUE
    MaxSize = 5
SPECIFICATION HeapSpec
INVARIANTS ShapeInv NoValueLost PeekIsMin
PROPERTY ImplementsPriorityQueue
