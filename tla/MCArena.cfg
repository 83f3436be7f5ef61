\* Arenas that chain blocks and arenas that may not: allocations fill, overflow
\* and outsize a block of four cells, under two nested Temps.
CONSTANTS
    Page = 2
    ReserveSize = 4
    CommitSize = 2
    Flags = {TRUE, FALSE}
    Sizes = {1, 4}
    Alignments = {1, 2}
    Wide = 64
    MaxBlocks = 3
    MaxPushes = 2
    MaxTemps = 2
SPECIFICATION Spec
INVARIANTS
    TypeOK
    AllocationsKept
    ZeroedPushesClean
