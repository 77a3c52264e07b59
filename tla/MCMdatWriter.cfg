SPECIFICATION Spec
CONSTANTS
    NTracks = 3
    ChunkLists <- MCChunkLists
    Estimates <- MCFewEsts
    UdtaSizes <- MCNoUdta
    MoovEnds <- MCEnds
    MaxU32 = 40
    Co64Configs <- MCNo
    Faults <- MCFaults
INVARIANTS
    ChunksReadTheirOwnBytes
    MdatIsFilled
    StcoPointsAtChunks
PROPERTIES
    ImplementsChunkMerge
CHECK_DEADLOCK FALSE
