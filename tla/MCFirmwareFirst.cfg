\* One handshake, nothing lost, genuine telemetry.
CONSTANTS
    MaxRequests = 1
    MaxFaults = 0
    MaxCounter = 2
    Depth = 2
SPECIFICATION Spec
PROPERTY NoFalseReplay
