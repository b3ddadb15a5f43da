CONSTANTS
    N = 2
    NCtx = 7
    NBatch = 6
    AddBos = 0
    KillSwitch = 3
    Configs <- Sound
SPECIFICATION Spec
INVARIANTS
    InSync
    ReadsOwn
    NoAbort
