CONSTANTS
    MAX_CLIENT = 2
    MaxConns = 2
    Quiet = {0, 1}
    Requesting = {1}
SPECIFICATION FairSpec
CONSTRAINT Undamaged
CHECK_DEADLOCK FALSE
INVARIANTS TypeOK SlotsAgree CountIsUsed WokenUp
PROPERTY Heard
