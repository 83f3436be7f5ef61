\* A snapshot of a retained root with the metadata of the current one.
CONSTANTS
    a = a
    b = b
    lf = lf
    Char <- MCChar
    LF = lf
    InitialTexts <- LineText
    Texts <- CharOrLine
    Handles = {h}
    SnapIds = {s}
    MaxBuffers = 1
    MaxMod = 2
    MaxUndo = 0
    MaxOpOffset = 0
SPECIFICATION SnapsSpec
INVARIANTS
    AtFindsNode
\* After release_tree and the release of the snapshots nothing is left to do.
CHECK_DEADLOCK FALSE
