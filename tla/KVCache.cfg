CONSTANTS
    x = x  y = y
    Tok = {x, y}
    NoTok = NoTok
    Seq_id <- Sequences2
    LastPos = 3
    Confs <- AllConfs
    Batches <- Few
    Ranges <- Parts
    Deltas <- Back
    CopyBound = 1
SPECIFICATION Spec
INVARIANTS
    CellsExact
PROPERTIES
    RefinesMemory
