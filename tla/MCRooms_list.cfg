CONSTANTS
    Clients = {c1, c2}
    NoOne = NoOne
    SecondSlot = NoOne
    Descriptors = {4, 5}
    Cells = {1, 2, 3}
    MAX_ROOM = 2
    Sizes = {2}
    Lines = {"ready", "quit"}
    MaxID = 3
    MaxConnects = 3
    MaxRequests = 3
    Ends = {"seat", "count", "gone", "num", "name", "early", "occupied", "kickSelf"}
SPECIFICATION Spec
CHECK_DEADLOCK FALSE
INVARIANTS ListIsRight OneSeat Up
SYMMETRY Symmetry
