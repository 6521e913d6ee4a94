SPECIFICATION Spec
CONSTANT MaxFaults = 3
INVARIANTS
    TypeOK
    OldConnectionIsReset
    KeptIsServed
PROPERTY StaysOnline
