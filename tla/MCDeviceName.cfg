SPECIFICATION Spec
CONSTANTS
    Letters <- MCLetters
    NameSize = 3
    Payloads <- MCPayloads
    Stored <- MCStored
    MaxMessages = 3
    MaxFaults = 2
CHECK_DEADLOCK FALSE
INVARIANTS
    TypeOK
    FollowsTopic
    StoredUnlessFailed
PROPERTIES
    NothingQueuedIsLost
    ServiceSpec
    OnlyMutexBlocks
