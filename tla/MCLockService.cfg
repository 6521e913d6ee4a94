SPECIFICATION Spec
CONSTANTS
    LockCount = 2
    Messages <- MCMessages
    MaxDepth = 1
    MaxMessages = 2
    MaxFaults = 2
INVARIANTS
    TypeOK
    CommandIsOwn
    OnlineMeansReported
PROPERTIES
    OpensOnlyOnOwnRequest
    ServiceSpec
    EventuallyOnline
