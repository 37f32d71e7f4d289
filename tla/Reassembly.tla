----------------------------- MODULE Reassembly -----------------------------
(***************************************************************************)
(* The fragmentation of the firmware, byte by byte: send_payload() of      *)
(* hardware/battery.ino and hardware/vehicle.ino, the reassembly of        *)
(* hardware/battlock_protocol.h, and the length check of the handlers that *)
(* use it (NONCE, CERTIFICATE, SIGNATURE), for the payloads one sender     *)
(* sends under one arbitration id.                                         *)
(*                                                                         *)
(* Every handler has a reassembly buffer of its own and expects one length *)
(* only, so the ids do not interfere and one of them is enough.  Fragments *)
(* get lost on the way or in a full receive buffer, the bus repeats one    *)
(* (its sender sends it again when it missed the acknowledgement), the     *)
(* controller refuses one and send_payload() gives up, and the receiving   *)
(* board reboots.                                                          *)
(***************************************************************************)
EXTENDS Integers

CONSTANTS
    PayloadLen,     \* BATTLOCK_NONCE_LEN, BATTLOCK_SIG_LEN or BATTLOCK_CERT_LEN
    MaxPayloads,    \* bound: payloads sent
    MaxFaults,      \* bound: fragments lost, sends given up and reboots
    MaxRepeats      \* bound: fragments repeated by the bus

FRAG_FIRST_DATA == 5
FRAG_DATA_BYTES == 7
TRANSPORT_MAX == 512

\* The buffer of the struct is long enough for what is sent.
ASSUME LenAssumption == PayloadLen \in 1..TRANSPORT_MAX
ASSUME BoundsAssumption ==
    MaxPayloads \in Nat /\ MaxFaults \in Nat /\ MaxRepeats \in Nat

VARIABLES
    payload,    \* the payload being sent, or sent last
    next,       \* its next fragment; `Chunks` when there is none
    r,          \* the handler's static BattLockReassembly
    accepted,   \* what the handler copied out of it last
    \* history
    seen,       \* what the receiver saw of the payload being sent
    faults,
    repeats

vars == <<payload, next, r, accepted, seen, faults, repeats>>

\* The receiver saw no gap and no repetition that matters; one of the later
\* fragments is missing; one between the first and the last came twice, and
\* more may be missing; the first is missing.
Seen == {"whole", "holed", "repeated", "headless"}

\* battlock_fragment_count()
Chunks ==
    IF PayloadLen <= FRAG_FIRST_DATA
    THEN 1
    ELSE 1 + (PayloadLen - FRAG_FIRST_DATA + FRAG_DATA_BYTES - 1) \div FRAG_DATA_BYTES

\* A byte is named by its payload and its place there; 0 pads a frame.
Offsets == 0..(PayloadLen - 1)
Byte(p, k) == <<p, k>>
Zero == <<0, 0>>
Bytes == {Zero} \cup ((1..MaxPayloads) \X Offsets)
Payload(p) == [k \in Offsets |-> Byte(p, k)]

\* Data bytes in fragment i, and the payload bytes before it.
Width(i) == IF i = 0 THEN FRAG_FIRST_DATA ELSE FRAG_DATA_BYTES
Start(i) == IF i = 0 THEN 0 ELSE FRAG_FIRST_DATA + FRAG_DATA_BYTES * (i - 1)

Fragment(p, i) ==
    [seq  |-> i,
     last |-> i = Chunks - 1,
     data |-> [j \in 0..(Width(i) - 1) |->
                 IF Start(i) + j < PayloadLen THEN Byte(p, Start(i) + j) ELSE Zero]]

Empty == [buffer |-> [k \in Offsets |-> Zero], len |-> 0, total |-> 0]

\* Mutant of Reinitialized: the length is kept.
Reinitialized_KeepsLen(s) == [s EXCEPT !.total = 0]

\* battlock_reassembly_init() leaves the bytes where they are.
Reinitialized(s) == [s EXCEPT !.len = 0, !.total = 0]

\* Mutants of Fed: nothing is clipped; the first fragment is appended to what
\* is in the buffer.
Fed_Unclipped(s, f) ==
    LET len == IF f.seq = 0 THEN 0 ELSE s.len
    IN  [buffer |-> [k \in Offsets |->
                       IF len <= k /\ k < len + Width(f.seq) THEN f.data[k - len]
                                                             ELSE s.buffer[k]],
         len    |-> len + Width(f.seq),
         total  |-> IF f.seq = 0 THEN PayloadLen ELSE s.total]

Fed_Appends(s, f) ==
    LET total == IF f.seq = 0 THEN PayloadLen ELSE s.total
        chunk == IF s.len + Width(f.seq) > total
                 THEN (total - s.len) % 256
                 ELSE Width(f.seq)
    IN  [buffer |-> [k \in Offsets |->
                       IF s.len <= k /\ k < s.len + chunk THEN f.data[k - s.len]
                                                          ELSE s.buffer[k]],
         len    |-> s.len + chunk,
         total  |-> total]

\* battlock_reassembly_feed().  The sequence number only tells the first
\* fragment from the others; the clipped length is cast to uint8_t.  (No write
\* gets near TRANSPORT_MAX, and the `complete` flag is never read.)
Fed(s, f) ==
    LET len   == IF f.seq = 0 THEN 0 ELSE s.len
        total == IF f.seq = 0 THEN PayloadLen ELSE s.total
        chunk == IF len + Width(f.seq) > total
                 THEN (total - len) % 256
                 ELSE Width(f.seq)
    IN  [buffer |-> [k \in Offsets |->
                       IF len <= k /\ k < len + chunk THEN f.data[k - len]
                                                      ELSE s.buffer[k]],
         len    |-> len + chunk,
         total  |-> total]

Init ==
    /\ payload = 0 /\ next = Chunks
    /\ r = Empty
    /\ accepted = [payload |-> 0, bytes |-> Empty.buffer, seen |-> "whole"]
    /\ seen = "whole" /\ faults = 0 /\ repeats = 0

\* send_payload() is called for the next payload.
Send ==
    /\ next = Chunks
    /\ payload < MaxPayloads
    /\ payload' = payload + 1 /\ next' = 0 /\ seen' = "whole"
    /\ UNCHANGED <<r, accepted, faults, repeats>>

\* Mutant of Used: the length is not checked.
Used_Unchecked(s, f) == f.last

\* A handler has fed the fragment f to s.  The last one ends the payload: if
\* the length is the expected one the bytes are used, and in any case the
\* buffer is made ready for the next payload.
Used(s, f) == f.last /\ Fed(s, f).len = PayloadLen
Handled(s, f) == IF f.last THEN Reinitialized(Fed(s, f)) ELSE Fed(s, f)
Taken(s, f) == [payload |-> payload, bytes |-> Fed(s, f).buffer, seen |-> seen]

\* A fragment reaches the handler.
Receive ==
    /\ next < Chunks
    /\ LET f == Fragment(payload, next)
       IN  /\ r' = Handled(r, f)
           /\ accepted' = IF Used(r, f) THEN Taken(r, f) ELSE accepted
    /\ next' = next + 1
    /\ UNCHANGED <<payload, seen, faults, repeats>>

\* A fragment reaches the handler, and once more before any other one does.
ReceiveTwice ==
    /\ next < Chunks
    /\ repeats < MaxRepeats
    /\ repeats' = repeats + 1
    /\ LET f == Fragment(payload, next)
           once == Handled(r, f)
       IN  /\ r' = Handled(once, f)
           /\ accepted' = IF Used(once, f) THEN Taken(once, f)
                          ELSE IF Used(r, f) THEN Taken(r, f)
                          ELSE accepted
    /\ seen' = IF next \in {0, Chunks - 1} \/ seen = "headless" THEN seen ELSE "repeated"
    /\ next' = next + 1
    /\ UNCHANGED <<payload, faults>>

\* What remains of `seen` when fragment `next` does not arrive.
Missed ==
    /\ faults < MaxFaults
    /\ faults' = faults + 1
    /\ seen' = IF next = 0 THEN "headless" ELSE IF seen = "whole" THEN "holed" ELSE seen
    /\ UNCHANGED <<payload, accepted, repeats>>

\* A fragment is lost.
Lose ==
    /\ next < Chunks
    /\ Missed
    /\ next' = next + 1
    /\ UNCHANGED r

\* can_send() fails, and send_payload() returns false; no caller looks.
GiveUp ==
    /\ next < Chunks
    /\ Missed
    /\ next' = Chunks
    /\ UNCHANGED r

\* The receiving board restarts between two fragments.
Reboot ==
    /\ faults < MaxFaults
    /\ faults' = faults + 1
    /\ r' = Empty
    /\ seen' = IF next = 0 THEN "whole" ELSE "headless"
    /\ UNCHANGED <<payload, next, accepted, repeats>>

Next == Send \/ Receive \/ ReceiveTwice \/ Lose \/ GiveUp \/ Reboot

Spec == Init /\ [][Next]_vars

-----------------------------------------------------------------------------
\* Properties

TypeOK ==
    /\ payload \in 0..MaxPayloads
    /\ next \in 0..Chunks
    /\ r \in [buffer : [Offsets -> Bytes], len : 0..PayloadLen, total : {0, PayloadLen}]
    /\ accepted \in [payload : 0..MaxPayloads, bytes : [Offsets -> Bytes],
                     seen : Seen]
    /\ seen \in Seen
    /\ faults \in 0..MaxFaults
    /\ repeats \in 0..MaxRepeats

\* The clipping in battlock_reassembly_feed() computes total - len in unsigned
\* arithmetic: however fragments are lost and repeated, len never passes total.
LenWithinTotal == r.len <= r.total

\* A payload of which every fragment arrives is used, byte for byte, whatever
\* earlier ones left in the buffer.  The first and the last of them may come
\* twice, those between them once.
WholePayloadAccepted ==
    payload > 0 /\ next = Chunks /\ seen = "whole"
        => accepted.payload = payload /\ accepted.bytes = Payload(payload)

\* If its first fragment arrived and none of those behind it was repeated, a
\* payload is used whole or not at all: one with a fragment missing never has
\* the expected length.
FirstFragmentProtects ==
    accepted.payload > 0 /\ accepted.seen \in {"whole", "holed"}
        => accepted.bytes = Payload(accepted.payload)

\* On a bus that repeats nothing a single fault - one fragment lost, one send
\* given up, one reboot - never makes a damaged payload pass for a good one.
OneLossDetected ==
    accepted.payload > 0 /\ faults <= 1 /\ repeats = 0
        => accepted.bytes = Payload(accepted.payload)

\* What the handler uses is one payload, as it was sent: docs/
\* can_transport_contract.md has a set of fragments with a duplicate or a gap
\* rejected.
AcceptedIntact ==
    accepted.payload > 0 => accepted.bytes = Payload(accepted.payload)
=============================================================================
