SPECIFICATION Spec
CONSTANTS
    NTracks = 2
    ChunkLists <- MCShortLists
    Estimates <- MCEsts
    UdtaSizes <- MCUdtas
    MoovEnds <- MCEnds
    MaxU32 = 30
    Co64Configs <- MCBoth
    Faults <- MCNoFaults
INVARIANTS
    OffsetsFit32
CHECK_DEADLOCK FALSE
