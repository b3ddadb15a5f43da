CONSTANTS
    NPool = 3
    NChunk = 4
    MaxGraph = 2
    MayAbort = TRUE
    Graphs <- Mixed
SPECIFICATION FairSpec
INVARIANTS
    Lockstep
    ParamsQuiet
    EachOnce
PROPERTIES
    GraphEnds
