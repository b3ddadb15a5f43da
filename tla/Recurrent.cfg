CONSTANTS
    Confs <- AllConfs
    Careless = {}
SPECIFICATION MemSpec
INVARIANTS
    CellsSound
PROPERTIES
    RefinesStates
