\* One nonce, one repeated fragment.
CONSTANTS
    PayloadLen = 32
    MaxPayloads = 1
    MaxFaults = 0
    MaxRepeats = 1
SPECIFICATION Spec
INVARIANTS
    AcceptedIntact
CHECK_DEADLOCK FALSE
