\* A tree and three snapshots that are copied and dropped concurrently.
CONSTANTS
    s1 = s1
    s2 = s2
    s3 = s3
    tree = tree
    Holders <- MCHolders
    Tree = tree
SPECIFICATION Spec
INVARIANTS
    ReadersHaveStorage
    ReleasedExactlyOnce
PROPERTIES
    StorageReleasedInTheEnd
\* When everything is released nothing is left to do.
CHECK_DEADLOCK FALSE
