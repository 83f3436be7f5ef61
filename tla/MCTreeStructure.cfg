\* Pieces, cursors, metadata and line queries of all retained roots, over two
\* builder buffers between which a line ending may be split; the tree is a text.
CONSTANTS
    a = a
    cr = cr
    lf = lf
    Char <- MCChar
    LF = lf
    CR = cr
    InitialTexts <- EndingParts
    Texts <- LineEndings
    Handles = {}
    MaxBuffers = 2
    MaxMod = 2
    MaxUndo = 0
    MaxOpOffset = 0
SPECIFICATION Spec
INVARIANTS
    LineStartsExact
    RootsTiled
    PiecesInBuffers
    MetadataExact
    LineQueriesMatchText
PROPERTIES
    ImplementsDocument
\* At its bounds the tree has operations left only on other texts.
CHECK_DEADLOCK FALSE
