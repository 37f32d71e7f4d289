\* Every frame may be lost or repeated, the collector reset at any moment.
CONSTANT MaxSample = 4
SPECIFICATION Spec
INVARIANTS
    TypeOK
    NeverStaleValues
    NoFalseReplay
    WholeRoundEmitted
    MixedOnlyIfStartLost
\* The battery stops after its last sample.
CHECK_DEADLOCK FALSE
