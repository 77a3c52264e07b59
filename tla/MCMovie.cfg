SPECIFICATION MCSpec
CONSTANTS
    Max32 <- MCMax32
    Movies <- MCMovies
    Streams <- MCStreams
    WantedIds <- MCWantedIds
    SampleEntries <- MCSampleEntries
    Codings <- MCCodings
    MaxStreams = 2
    MaxTracks = 2
    Tracks <- MCTracks
    DtsOffsets <- MCDtsOffsets
INVARIANTS
    TrackIDsUsable
    FileIsReadable
    EstimateCovers
    PresentationFits
    CursorsAtEntries
    LookupsFindSamples
