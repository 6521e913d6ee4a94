SPECIFICATION Spec
CONSTANTS
    LockCount = 2
    Messages <- MCCommands
    MaxDepth = 1
    MaxMessages = 1
    MaxFaults = 1
PROPERTY EventuallyListening
