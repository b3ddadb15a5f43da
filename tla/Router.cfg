CONSTANTS
    m1 = m1  m2 = m2  h1 = h1  h2 = h2
    Model = {m1, m2}
    Http = {h1, h2}
    Workloads <- AllWorkloads
    NoModel = NoModel
    MaxModels = 1
    PipeBound = 1
    Dozers = {m1}
    MayVanish = {m2}
    EofGap = FALSE
SPECIFICATION FairSpec
INVARIANTS
    Capacity
    AliveIsRunning
PROPERTIES
    StopHonoured
    DeadIsUnloaded
    LoadEnds
    RouterStops
