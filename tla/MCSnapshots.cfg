\* Two snapshots, which may be assigned to each other, of a tree whose edits
\* coalesce pieces in the modification buffer and take them apart.
CONSTANTS
    a = a
    b = b
    lf = lf
    Char <- MCChar
    LF = lf
    InitialTexts <- NoText
    Texts <- CharOrLine
    Handles = {h}
    SnapIds = {s, t}
    MaxBuffers = 1
    MaxMod = 2
    MaxUndo = 0
    MaxOpOffset = 0
SYMMETRY SnapSymmetry
SPECIFICATION SnapsSpec
INVARIANTS
    SnapsTypeOK
    SnapshotPiecesInView
PROPERTIES
    SnapshotTextStable
\* After release_tree and the release of the snapshots nothing is left to do.
CHECK_DEADLOCK FALSE
