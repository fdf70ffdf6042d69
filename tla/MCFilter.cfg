SPECIFICATION FairSpec
CONSTANTS
    Lines = {a, blank}
    Blank = blank
    MaxLines = 3
    MaxBlocks = 2
    Numbers <- MCNumbers
    Stride = 2
    MaxJQResults = 2
INVARIANTS
    AnswerRight
    DeadlineNoticed
PROPERTIES
    Returns
