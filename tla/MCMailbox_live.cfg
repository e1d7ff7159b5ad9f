SPECIFICATION FairSpec
CONSTANTS
    Slots = {0, 1}
    Menu = {"login", "newRoom", "joinRoom", "changePass", "signOut"}
    MaxRequests <- MCOneEach
    TypeReadable = TRUE
    MAX_ROOM = 1
    MaxSent = 5
CONSTRAINT Undisturbed
PROPERTIES Heard Answered
CHECK_DEADLOCK FALSE
