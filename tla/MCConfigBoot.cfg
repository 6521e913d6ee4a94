SPECIFICATION Spec
CONSTANTS
    Wifi <- MCWifi
    Names <- MCNames
    Default <- MCDefault
    Absent = Absent
    MaxNames = 1
    MaxFaults = 0
INVARIANT LoadSucceeds
