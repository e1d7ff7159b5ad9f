SPECIFICATION Spec
CONSTANTS
    Slots = {0, 2}
    Menu = {"newRoom"}
    MaxRequests <- MCOneEach
    TypeReadable = TRUE
    MAX_ROOM = 2
    MaxSent = 5
CONSTRAINT OnlyCoalesced
INVARIANTS LeftoverReadNext
CHECK_DEADLOCK FALSE
