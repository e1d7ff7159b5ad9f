CONSTANTS
    Clients = {c1, c2}
    NoOne = NoOne
    SecondSlot = c1
    Descriptors = {4, 5}
    Cells = {1}
    MAX_ROOM = 1
    Sizes = {2}
    Lines = {"ready", "quit"}
    MaxID = 1
    MaxConnects = 2
    MaxRequests = 3
    Ends = {"seat", "count", "gone", "num", "full", "name", "early", "occupied", "kickSelf"}
SPECIFICATION FairSpec
CHECK_DEADLOCK FALSE
PROPERTIES GoneIsNoticed ReadyAnswered
