SPECIFICATION Spec
CONSTANTS
    Wifi <- MCWifi
    Names <- MCNames
    Default <- MCDefault
    Absent = Absent
    MaxNames = 2
    MaxFaults = 3
INVARIANTS
    TypeOK
    ConfigIsComplete
    RunsOnStoredWifi
PROPERTIES
    ConfigChangesSafely
    ServiceSpec
    ComesBack
