SPECIFICATION Spec
CONSTANTS
    TrackSet <- MCSyncTracks
    Ranges <- MCSyncRanges
    Styles <- MCYes
INVARIANTS
    GivesUpOnlyOnRapDistance
CHECK_DEADLOCK FALSE
