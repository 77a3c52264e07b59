SPECIFICATION Spec
CONSTANTS
    MaxSamples = 4
    Sizes <- MCSizes
    FirstDts <- MCFirstDts
    DtsSteps <- MCSteps
    CtsOffsets <- MCOffsets
    Durations <- MCDurations
    SyncFlags <- MCYes
    NewSdFlags <- MCBoth
    SpanTime = 2
    MaxChunkSize = 3
    NoLimit = 1000
    MovieScale = 3
    MediaScale = 2
INVARIANTS
    ChunksDescribeSpool
    ChunkLimits
    RunsDecodeSamples
CHECK_DEADLOCK FALSE
