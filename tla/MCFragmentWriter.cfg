SPECIFICATION Spec
CONSTANTS
    Movies <- MCMovies
    Configs <- MCConfigs
    Micro = 2
    NoDts = 1000
    ShortRange = 65536
    MoofSize = 4
INVARIANTS
    FragmentsAsPlanned
    PayloadsFit
    TfraFindsSyncs
    InDecodeOrder
    SidxDescribesFragments
PROPERTIES
    OutputEnds
CHECK_DEADLOCK FALSE
