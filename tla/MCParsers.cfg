SPECIFICATION Spec
CONSTANTS
    Kinds = {"aac", "dd", "ac4", "avc", "hevc", "asc"}
    AacStreams <- MCAacStreams
    SamplesPerFrame = 1
    AscConfigs <- Ascs
    FreqIndexes = {0, 6, 15}
    DdStreams <- MCDdStreams
    MaxStreams = 2
    SamplesPerBlock = 1
    FullBlocks = 6
    Ac4Streams <- MCAc4Streams
    MaxPres = 2
    MaxGroups = 3
    MaxSubs = 2
    Rest <- MCRest
    AvcStreams <- MCAvcStreams
    MaxAvcNals = 7
    AvcTicks <- MCTicks
    HevcStreams <- MCHevcStreams
    MaxHevcNals = 8
    MaxLsb = 8
    Ids = {0, 1}
INVARIANTS
    FramesAreSamples
    ConfigDescribesStream
    ModesOfOwnGroups
    ConfigSizesAgree
    AccessUnits
    SetsInDescription
    CtsFollowsPoc
 
CHECK_DEADLOCK FALSE
