CONSTANTS
    MaxRequests = 2
    MaxVersion = 2
    MaxMount = 2
SPECIFICATION FairSpec
INVARIANTS
    TypeOK
    UpdateOverSeen
    RejectErrorInDialog
PROPERTIES
    ChangeIsShown
    PendingEnds
CHECK_DEADLOCK FALSE
