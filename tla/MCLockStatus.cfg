SPECIFICATION Spec
CONSTANTS
    LockCount = 1
    Messages <- MCCommands
    MaxDepth = 1
    MaxMessages = 1
    MaxFaults = 0
INVARIANT StatusIsCurrent
