SPECIFICATION Spec
CONSTANTS
    Slots = {0, 2}
    Menu = {"signup", "login", "newRoom", "joinRoom"}
    MaxRequests <- MCOneEach
    TypeReadable = TRUE
    MAX_ROOM = 2
    MaxSent = 5
CONSTRAINT OnlyLate
INVARIANTS OwnArgs
CHECK_DEADLOCK FALSE
