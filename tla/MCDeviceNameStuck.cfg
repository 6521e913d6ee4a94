SPECIFICATION Spec
CONSTANTS
    Letters <- MCLetters
    NameSize = 3
    Payloads <- MCRefused
    Stored <- MCStored
    MaxMessages = 1
    MaxFaults = 0
CHECK_DEADLOCK FALSE
PROPERTY Controllable
