\* The two boards alone on the bus, nothing lost.
CONSTANTS
    MaxRequests = 0
    MaxFaults = 0
    MaxCounter = 2
    Depth = 2
SPECIFICATION FairSpec
PROPERTY BatteryIsAsked
