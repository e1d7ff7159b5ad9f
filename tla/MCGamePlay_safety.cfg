CONSTANTS
    a = a
    b = b
    Blank = Blank
    Dash = Dash
    N = 3
    ROOM_QUEST_NUM = 2
    Questions = {1, 2, 3}
    Ans <- AllLengths
    MaxAns = 3
    Letters = {a, b}
    Words <- MCWords
    Guesses = {a, b}
    AnswerKept = 2
    Rolls = {0, 5}
    Timely = TRUE
    SendRaces = FALSE
    Resets = FALSE
    MaxDrops = 1
    PendingCap = 1
SPECIFICATION Spec
INVARIANTS
    TypeOK
    LettersCountedOnce
    ScoreBounded
    RepliesMatchPrompts
    NoCrash
    OneTurnPerRound
    WinnerHasTheHighestScore
PROPERTIES
    RulesKept
CHECK_DEADLOCK FALSE
