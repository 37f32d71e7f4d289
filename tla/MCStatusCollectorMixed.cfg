\* The same system: is every emitted status one sample of the battery?
CONSTANT MaxSample = 3
SPECIFICATION Spec
INVARIANTS
    OneSamplePerStatus
CHECK_DEADLOCK FALSE
