CONSTANTS
    Seq_id <- Sequences2
    Batches <- AllBatches
    NBatch = 4
    Ways <- AllWays
    Sizes = {1, 2, 3}
    LastPos = 3
SPECIFICATION Spec
INVARIANTS
    OnceInOrder
    OutputsMatch
