SPECIFICATION Spec
CONSTANTS
    MaxAu = 4
    Pocs <- MCPocs
    Depths <- MCDepths
    DP_CNT_MAX = 3
    SecSize = 3
    RefAuMax = 0
INVARIANTS
    WithinBounds
    OffsetsAreTight
    DisplayIsPermutation
    MapSectionsAllocated
    DisplayFollowsPoc
PROPERTIES
    OffsetsShiftTogether
    ImplementsDisplayOrder
    FlushEnds
CHECK_DEADLOCK FALSE
