CONSTANTS
    Clients = {c1, c2, c3}
    NoOne = NoOne
    SecondSlot = NoOne
    Descriptors = {4, 5, 6}
    Cells = {1}
    MAX_ROOM = 1
    Sizes = {3}
    Lines = {"quit", "kick", "invite"}
    MaxID = 1
    MaxConnects = 3
    MaxRequests = 3
    Ends = {"seat", "count", "gone", "num", "full", "name", "early", "occupied", "kickSelf", "hostless", "looked", "deleted", "reuse"}
SPECIFICATION Spec
CHECK_DEADLOCK FALSE
INVARIANTS TypeOK CountIsSeats KeepsSeat OwnThreadReads HostSeated
SYMMETRY Symmetry
