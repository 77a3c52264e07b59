SPECIFICATION Spec
CONSTANTS
    TrackSet <- MCLongTracks
    Ranges <- MCOneRange
    Styles <- MCNo
INVARIANTS
    FragmentsNotEmpty
CHECK_DEADLOCK FALSE
