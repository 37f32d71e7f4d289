\* Three nonces, five faults of any kind and two repeated fragments.
CONSTANTS
    PayloadLen = 32
    MaxPayloads = 3
    MaxFaults = 5
    MaxRepeats = 2
SPECIFICATION Spec
INVARIANTS
    TypeOK
    LenWithinTotal
    WholePayloadAccepted
    FirstFragmentProtects
    OneLossDetected
CHECK_DEADLOCK FALSE
