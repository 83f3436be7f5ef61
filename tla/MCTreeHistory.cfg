\* Two insertions, two undo entries and a root that a client keeps and goes back
\* to: the history is a timeline of texts, coalesced in one buffer.
CONSTANTS
    a = a
    b = b
    lf = lf
    Char <- MCChar
    LF = lf
    InitialTexts <- NoText
    Texts <- CharOrLine
    Handles = {h}
    MaxBuffers = 0
    MaxMod = 2
    MaxUndo = 2
    MaxOpOffset = 2
SPECIFICATION Spec
PROPERTIES
    RetainedTextStable
    ImplementsDocument
\* At its bounds the tree has operations left only on other texts.
CHECK_DEADLOCK FALSE
