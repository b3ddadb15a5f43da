CONSTANTS
    NoTask = NoTask
    r1 = r1  r2 = r2
    t1 = t1  t2 = t2  t3 = t3
    Reader = {r1, r2}
    Task = {t1, t2, t3}
    ReaderOf <- TwoReaders
    MaxPartial = 1
    Leavers = {r1}
SPECIFICATION FairSpec
INVARIANTS
    NoOrphan
    EndsComplete
PROPERTIES
    RefinesChannel
    ReaderEnds
