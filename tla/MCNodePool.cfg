\* Two threads and seven calls: enough for a node to leave the list and come
\* back while the other thread holds its link.
CONSTANTS
    editor = editor
    reader = reader
    Threads <- MCThreads
    MaxNodes = 2
    MaxCalls = 7
SPECIFICATION Spec
INVARIANTS
    TypeOK
    EveryNodeInOnePlace
PROPERTIES
    CallsReturn
\* The threads stop after MaxCalls calls.
CHECK_DEADLOCK FALSE
