CONSTANTS
    MaxLogins = 2
    Assignments <- MCAssignments
    MaxTroubles = 2
    MaxVersion = 2
    MaxControls = 1
    MaxGeneration = 3
    SubscriberBuf = 1
SPECIFICATION Spec
CHECK_DEADLOCK FALSE
INVARIANTS
    OneSessionPerLogin
    MutationIsAudited
    AtMostOneLateUpdate
    ChecksumNotOlder
PROPERTIES
    ChecksumMovesForward
    LivePageCatchesUp
    RevokedStreamEnds
