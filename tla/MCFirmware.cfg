\* Two handshakes and one fault (a frame lost or repeated, a chip that fails, a
\* reboot), besides the payloads that do not arrive and the frames that find
\* their buffer full.
CONSTANTS
    MaxRequests = 2
    MaxFaults = 1
    MaxCounter = 3
    Depth = 2
SPECIFICATION FairSpec
INVARIANTS
    TypeOK
    AcceptedInOrder
    NeverStaleValues
    EachStepUsedOnce
    MixedOnlyIfFrameALost
PROPERTIES
    RecoversWhenAsked
