SPECIFICATION Spec
CONSTANTS
    TrackSet <- MCTracks
    Ranges <- MCRanges
    Styles <- MCBoth
INVARIANTS
    FragmentsCoverTrack
    DurationNotAboveMax
    ShortOnlyIfNeeded
    CutSucceeds
PROPERTIES
    CutEnds
CHECK_DEADLOCK FALSE
