\* Three threads, four rounds and a generation that wraps after two.
CONSTANTS
    t1 = t1
    t2 = t2
    t3 = t3
    Threads <- MCThreads
    Generations = 2
    MaxCalls = 4
SPECIFICATION Spec
INVARIANTS
    NobodyPassesEarly
    WaitingCountExact
PROPERTIES
    EveryoneLeaves
\* The threads stop when each has made its calls.
CHECK_DEADLOCK FALSE
