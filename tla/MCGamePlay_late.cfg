CONSTANTS
    a = a
    b = b
    Blank = Blank
    Dash = Dash
    N = 2
    ROOM_QUEST_NUM = 1
    Questions = {1}
    Ans <- JustOne
    MaxAns = 1
    Letters = {a, b}
    Words <- MCAllWords
    Guesses = {b, Dash}
    AnswerKept = 3
    Rolls = {0, 1}
    Timely = FALSE
    SendRaces = TRUE
    Resets = TRUE
    MaxDrops = 1
    PendingCap = 2
SPECIFICATION Spec
INVARIANTS
    ScoreRolledThisRound
PROPERTIES
    RulesKept
CHECK_DEADLOCK FALSE
