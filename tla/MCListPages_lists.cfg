CONSTANTS
    Visited <- MCVisited
    Names <- MCNames
    Changes <- MCChanges
    MaxMoves = 3
SPECIFICATION FairSpec
INVARIANTS
    TypeOK
    ShownIsAsked
    FieldIsFilter
PROPERTIES
    TypedFilterShows
    OwnChangeShows
CHECK_DEADLOCK FALSE
