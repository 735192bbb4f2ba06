CONSTANTS
    Port <- PortNames
    kind <- KindTable
    type <- TypeTable
    Bidirectional <- Pairs
    place <- PlaceTable
    Spare = {"j", "p"}
    Doomed = {"receiver"}
    None = None
    MaxSends = 2
SPECIFICATION Spec
CONSTRAINT Apart
INVARIANTS TypeOK LinksCompatible LinksMutual NoDanglingLink ReceivedOnceInOrder NothingLostUnnoticed
CHECK_DEADLOCK FALSE
