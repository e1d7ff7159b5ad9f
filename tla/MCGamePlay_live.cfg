CONSTANTS
    a = a
    b = b
    Blank = Blank
    Dash = Dash
    N = 3
    ROOM_QUEST_NUM = 1
    Questions = {1}
    Ans <- JustTwo
    MaxAns = 3
    Letters = {a, b}
    Words <- MCWords
    Guesses <- MCGuesses
    AnswerKept = 3
    Rolls = {0, 5}
    Timely = TRUE
    SendRaces = FALSE
    Resets = TRUE
    MaxDrops = 2
    PendingCap = 1
SPECIFICATION FairSpec
PROPERTIES
    RoundEnds
    DropIsNoticed
CHECK_DEADLOCK FALSE
