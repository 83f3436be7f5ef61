\* Segments of two and four slots, seven objects, and a generation that comes
\* round after three: handles go stale by erase, by reuse and by clear.
CONSTANTS
    SmallSegment = 2
    MaxSegments = 2
    Generations = 4
    MaxEmplaces = 7
SPECIFICATION Spec
INVARIANTS
    TypeOK
    FreeListComplete
    HandlesMeanTheirObject
