\* Short documents, two keys per frame, every failure of start-up and of drawing.
CONSTANTS
    a = a
    lf = lf
    cr = cr
    LF = lf
    CR = cr
    Texts <- MCTexts
    Handles = {}
    NoOffset <- Sentinel
    Typed = {a}
    Spaces <- TwoSpaces
    Files <- MCFiles
    Columns = {2}
    Wide = 16
    MaxLength = 4
    MaxHistory = 2
    MaxKeys = 2
SPECIFICATION AppSpec
INVARIANTS
    AppTypeOK
    CursorInDocument
    FrameShowsDocument
    LineSpansExact
    VerticalMovesReturn
    NothingLosesItsSupport
    AllReleased
PROPERTIES
    LineMovesHitLine
\* The application ends.
CHECK_DEADLOCK FALSE
