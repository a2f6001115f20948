SPECIFICATION Spec
CONSTANTS
    LineLens = {1, 2, 26}
    AnswerLens = {0, 12}
    MaxLines = 2
    MaxPieces = 4
PROPERTIES ClosingNoticed
CHECK_DEADLOCK FALSE
