\* Two payloads of 0, 2 or 7 bytes on two arbitration ids, lists of up to five
\* frames.  A receiver may stop after any frame.
CONSTANTS
    FIRST_FRAME_PAYLOAD = 1
    CONT_FRAME_PAYLOAD = 2
    MAX_SEQUENCE = 3
    FRAG_LAST_FLAG = 2
    TRANSPORT_MAX = 3
    Ids = {nonce, signature}
    Lengths = {0, 2, 7, 8}
    MaxPayloads = 2
    MaxFrames = 5
SYMMETRY Symmetry
SPECIFICATION Spec
INVARIANTS
    TypeOK
    WholeOrRefused
    MixedInPlace
