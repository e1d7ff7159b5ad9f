SPECIFICATION Spec
CONSTANTS
    Slots = {0, 2}
    Menu = {"signup", "login", "newRoom", "joinRoom", "changePass", "signOut"}
    MaxRequests <- MCTwoOfOne
    TypeReadable = FALSE
    MAX_ROOM = 1
    MaxSent = 5
CONSTRAINT Undisturbed
INVARIANTS TypeOK ConversationsApart OneReader AccountKnown
PROPERTIES Delivered
CHECK_DEADLOCK FALSE
