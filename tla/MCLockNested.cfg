SPECIFICATION Spec
CONSTANTS
    LockCount = 2
    Messages <- MCCommands
    MaxDepth = 2
    MaxMessages = 2
    MaxFaults = 0
PROPERTY OpensOnlyOnOwnRequest
