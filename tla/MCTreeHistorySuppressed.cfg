\* A recorded insertion that continues one without history.
CONSTANTS
    a = a
    b = b
    lf = lf
    Char <- MCChar
    LF = lf
    InitialTexts <- LineText
    Texts <- OneChar
    Handles = {}
    MaxBuffers = 1
    MaxMod = 2
    MaxUndo = 1
    MaxOpOffset = 0
SPECIFICATION Spec
PROPERTIES
    RecordedEditLeavesUndo
\* At its bounds the tree has operations left only on other texts.
CHECK_DEADLOCK FALSE
