CONSTANTS
    hust = hust
    ann = ann
    bob = bob
    right = right
    wrong = wrong
    Slots = {1, 2}
    Names = {hust, ann, bob}
    Passwords = {right, wrong}
    Preset <- MCPreset
    Files <- MCFiles
    MaxThreads = 2
    MaxAccounts = 4
    Nil = Nil
    MaxConnects = 2
    MaxRequests = 2
    MaxStarts = 2
SPECIFICATION Spec
SYMMETRY MCNames
CHECK_DEADLOCK FALSE
INVARIANTS TypeOK WrongBlocks BlockedForCause SignedUpKept LoggedInRight
