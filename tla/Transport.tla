----------------------------- MODULE Transport -----------------------------
(***************************************************************************)
(* The fragmentation of can/transport.py: fragment() cuts a payload into   *)
(* frames of at most 8 bytes, and reassemble() rebuilds it from whatever   *)
(* list of frames a receiver has collected.  No frame has an end flag: the *)
(* first one has the length.  The firmware's send_payload() uses the same  *)
(* layout with a flag on the last frame's sequence byte, and pads it; its  *)
(* frames may be on the bus as well.                                       *)
(*                                                                         *)
(* A frame sent can be collected at any later time, in any order, again,   *)
(* or never, and frames of several payloads end up in one list.  The sizes *)
(* are constants, so that small payloads reach the limit of the one-byte   *)
(* sequence number.                                                        *)
(***************************************************************************)
EXTENDS Integers, SequencesExt, FiniteSetsExt

CONSTANTS
    FIRST_FRAME_PAYLOAD,  \* payload bytes in the first frame: 5
    CONT_FRAME_PAYLOAD,   \* payload bytes in each other frame: 7
    MAX_SEQUENCE,         \* the largest value of the sequence byte: 255
    FRAG_LAST_FLAG,       \* the firmware's flag on that byte: 128
    TRANSPORT_MAX,        \* the firmware's buffer: 512
    Ids,                  \* arbitration ids
    Lengths,              \* payload lengths a sender tries
    MaxPayloads,          \* bound: payloads sent
    MaxFrames             \* bound: frames a receiver collects

ASSUME SizeAssumption ==
    /\ {FIRST_FRAME_PAYLOAD, CONT_FRAME_PAYLOAD, MAX_SEQUENCE, FRAG_LAST_FLAG}
          \subseteq Nat \ {0}
    /\ MAX_SEQUENCE + 1 = 2 * FRAG_LAST_FLAG
    /\ TRANSPORT_MAX \in 1..(FIRST_FRAME_PAYLOAD + (FRAG_LAST_FLAG - 1) * CONT_FRAME_PAYLOAD)
ASSUME BoundsAssumption == Lengths \subseteq Nat /\ {MaxPayloads, MaxFrames} \subseteq Nat

VARIABLES
    payloads,  \* the payloads sent: arbitration id, length, and by whom
    got        \* the frames collected: <<payload, place of the frame in it>>

vars == <<payloads, got>>

MAX_PAYLOAD == FIRST_FRAME_PAYLOAD + MAX_SEQUENCE * CONT_FRAME_PAYLOAD

\* The bytes of payload p, each named by the payload and its place; Zero pads.
Zero == <<0, 0>>
Bytes(p) == [k \in 1..payloads[p].len |-> <<p, k>>]

\* The number of frames of a payload of n bytes.
FrameCount(n) ==
    IF n <= FIRST_FRAME_PAYLOAD THEN 1
    ELSE 1 + (n - FIRST_FRAME_PAYLOAD + CONT_FRAME_PAYLOAD - 1) \div CONT_FRAME_PAYLOAD

\* payload[from:upto] of Python, from the byte after `from`.
Slice(p, from, upto) == SubSeq(Bytes(p), from + 1, Min({upto, payloads[p].len}))

\* Mutant of Chunk: the header of the first frame is forgotten.
Chunk_NoHeader(p, i) == Slice(p, i * CONT_FRAME_PAYLOAD, (i + 1) * CONT_FRAME_PAYLOAD)

\* The payload bytes in the frame with sequence number i.
Chunk(p, i) ==
    Slice(p, IF i = 0 THEN 0 ELSE FIRST_FRAME_PAYLOAD + (i - 1) * CONT_FRAME_PAYLOAD,
             FIRST_FRAME_PAYLOAD + i * CONT_FRAME_PAYLOAD)

\* A frame as fragment() makes it.  `total` is the length field; only a frame
\* with sequence byte 0 is asked for it.
PythonFrame(p, i) ==
    [id |-> payloads[p].id, byte0 |-> i, total |-> payloads[p].len, data |-> Chunk(p, i)]

\* The same frame as send_payload() makes it: full, and flagged if it is last.
FirmwareFrame(p, i) ==
    LET last  == i = FrameCount(payloads[p].len) - 1
        width == IF i = 0 THEN FIRST_FRAME_PAYLOAD ELSE CONT_FRAME_PAYLOAD
        data  == Chunk(p, i)
    IN  [id |-> payloads[p].id, byte0 |-> IF last THEN FRAG_LAST_FLAG + i ELSE i,
         total |-> payloads[p].len,
         data |-> [j \in 1..width |-> IF j \in DOMAIN data THEN data[j] ELSE Zero]]

Frame(f) == IF payloads[f[1]].by = "python" THEN PythonFrame(f[1], f[2])
                                            ELSE FirmwareFrame(f[1], f[2])

\* All frames of payload p.
FramesOf(p) == {<<p, i>> : i \in 0..(FrameCount(payloads[p].len) - 1)}

Refused == "ValueError"

\* sorted() by the sequence byte, which leaves frames of one byte as they were:
\* the place of a frame, and the frames in their places.
Place(frames, n) ==
    Cardinality({m \in DOMAIN frames :
                    \/ frames[m].byte0 < frames[n].byte0
                    \/ frames[m].byte0 = frames[n].byte0 /\ m <= n})

Ordered(frames) ==
    [k \in DOMAIN frames |-> frames[CHOOSE n \in DOMAIN frames : Place(frames, n) = k]]

\* The payload bytes of the frames, one frame after the other.
Joined(ordered) == FlattenSeq([n \in DOMAIN ordered |-> ordered[n].data])

\* Mutants of Reassemble: the sequence numbers, or the ids, are not checked.
Reassemble_Unordered(frames) ==
    LET ordered == Ordered(frames)
    IN  IF \/ frames = <<>>
           \/ \E f \in Range(frames) : f.id # frames[1].id
           \/ Len(Joined(ordered)) < ordered[1].total
        THEN Refused
        ELSE SubSeq(Joined(ordered), 1, ordered[1].total)

Reassemble_AnyId(frames) ==
    LET ordered == Ordered(frames)
    IN  IF \/ frames = <<>>
           \/ \E n \in DOMAIN ordered : ordered[n].byte0 # n - 1
           \/ Len(Joined(ordered)) < ordered[1].total
        THEN Refused
        ELSE SubSeq(Joined(ordered), 1, ordered[1].total)

\* reassemble(): the payload, or Refused.  (The checks of a single frame, its
\* size and the header of the first, refuse nothing these senders send.)
Reassemble(frames) ==
    LET ordered == Ordered(frames)
    IN  IF \/ frames = <<>>
           \/ \E f \in Range(frames) : f.id # frames[1].id
           \/ \E n \in DOMAIN ordered : ordered[n].byte0 # n - 1
           \/ Len(Joined(ordered)) < ordered[1].total
        THEN Refused
        ELSE SubSeq(Joined(ordered), 1, ordered[1].total)

\* What reassemble() makes of the frames collected.
Collected == [n \in DOMAIN got |-> Frame(got[n])]
Result == Reassemble(Collected)

Init == payloads = <<>> /\ got = <<>>

\* Somebody calls fragment() and sends the frames; a payload above MAX_PAYLOAD
\* raises ValueError, and nothing is sent.
SendPython ==
    /\ Len(payloads) < MaxPayloads
    /\ \E id \in Ids, len \in Lengths :
          /\ len <= MAX_PAYLOAD
          /\ payloads' = Append(payloads, [id |-> id, len |-> len, by |-> "python"])
    /\ UNCHANGED got

\* A board calls send_payload(), for a nonce, a signature or a certificate.
SendFirmware ==
    /\ Len(payloads) < MaxPayloads
    /\ \E id \in Ids, len \in Lengths \cap (1..TRANSPORT_MAX) :
          payloads' = Append(payloads, [id |-> id, len |-> len, by |-> "firmware"])
    /\ UNCHANGED got

\* A frame that was sent reaches the receiver's list.
Collect ==
    /\ Len(got) < MaxFrames
    /\ \E p \in DOMAIN payloads : \E f \in FramesOf(p) : got' = Append(got, f)
    /\ UNCHANGED payloads

\* The receiver, having called reassemble(), begins a new list.
StartOver ==
    /\ got # <<>>
    /\ got' = <<>>
    /\ UNCHANGED payloads

Next == SendPython \/ SendFirmware \/ Collect \/ StartOver

Spec == Init /\ [][Next]_vars

-----------------------------------------------------------------------------
\* Properties

\* Every frame fits Classic CAN, its sequence number one byte, and only what
\* the senders were given was sent.
TypeOK ==
    /\ Len(payloads) <= MaxPayloads /\ Len(got) <= MaxFrames
    /\ \A p \in DOMAIN payloads :
          /\ payloads[p] \in [id : Ids, len : Lengths, by : {"python", "firmware"}]
          /\ \A f \in FramesOf(p) :
                /\ Frame(f).byte0 \in 0..MAX_SEQUENCE
                /\ Len(Frame(f).data) <= IF f[2] = 0 THEN FIRST_FRAME_PAYLOAD
                                                     ELSE CONT_FRAME_PAYLOAD
    /\ \A n \in DOMAIN got : got[n] \in FramesOf(got[n][1])

\* Frames of one payload alone are put together to that payload if each of
\* them was collected exactly once, in whatever order, and refused otherwise:
\* reassemble() never makes anything of a part of a payload, at every length
\* fragment() takes.  What a board sends it always refuses, for the flag.
WholeOrRefused ==
    \A p \in DOMAIN payloads :
        got # <<>> /\ Range(got) \subseteq FramesOf(p)
            => Result = IF /\ payloads[p].by = "python"
                           /\ Range(got) = FramesOf(p)
                           /\ Len(got) = FrameCount(payloads[p].len)
                        THEN Bytes(p) ELSE Refused

\* A list with frames of several payloads may be accepted, since no frame says
\* which payload it belongs to.  What comes out is all of one arbitration id;
\* it has no padding of a board in it, except in a list so long that a flagged
\* frame passes for the Python frame of that number; and among payloads of one
\* length, it has that length and every byte is at its own place.
MixedInPlace ==
    Result # Refused =>
        /\ \A f, g \in Range(got) : payloads[f[1]].id = payloads[g[1]].id
        /\ Len(got) <= FRAG_LAST_FLAG => Zero \notin Range(Result)
        /\ \A len \in Lengths :
              (\A n \in DOMAIN got : payloads[got[n][1]].len = len)
                  => /\ Len(Result) = len
                     /\ \A k \in DOMAIN Result : Result[k][2] = k
=============================================================================
