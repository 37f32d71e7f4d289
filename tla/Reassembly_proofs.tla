-------------------------- MODULE Reassembly_proofs --------------------------
(***************************************************************************)
(* What the reassembly of the firmware guarantees for payloads of every    *)
(* length, however many of them are sent and fragments lost.               *)
(*                                                                         *)
(* While the fragments of a payload have all arrived, the buffer holds its *)
(* first bytes; once one behind the first is missing, the length stays at  *)
(* least one fragment behind and can no longer reach that of the payload.  *)
(* The first and the last fragment may come twice: the first starts over,  *)
(* and behind the last one there is no room.  (One between them that comes *)
(* twice makes up for a missing one, and nothing is claimed of a payload   *)
(* it happened to.)  Without a fault the buffer is ready for the next      *)
(* payload; after a single one that takes a first fragment away, nothing   *)
(* fits into it.                                                           *)
(***************************************************************************)
EXTENDS Reassembly, TLAPS

\* What the steps preserve besides the properties: the shape of the state,
Shape ==
    /\ payload \in Nat /\ next \in 0..Chunks /\ seen \in Seen
    /\ next < Chunks => payload > 0
    /\ next = 0 => seen = "whole"
    /\ r = [buffer |-> r.buffer, len |-> r.len, total |-> r.total]
    /\ r.buffer = [k \in Offsets |-> r.buffer[k]]
    /\ r.len \in Nat /\ r.total \in {0, PayloadLen}
    /\ accepted = [payload |-> accepted.payload, bytes |-> accepted.bytes,
                   seen |-> accepted.seen]
    /\ accepted.payload \in Nat

\* and where the reassembly of the payload being sent stands.
Progress ==
    0 < next /\ next < Chunks =>
        /\ seen = "whole" =>
             /\ r.total = PayloadLen /\ r.len = Start(next)
             /\ \A k \in Offsets : k < r.len => r.buffer[k] = Byte(payload, k)
        /\ seen = "holed" =>
             r.total = PayloadLen /\ r.len + FRAG_DATA_BYTES <= Start(next)

IInv ==
    /\ Shape
    /\ LenWithinTotal
    /\ Progress
    /\ WholePayloadAccepted
    /\ FirstFragmentProtects

\* The fragments of battlock_fragment_count() cover the payload, and all but
\* the last are full.
LEMMA FragmentBounds ==
    /\ Chunks \in Nat /\ Chunks > 0
    /\ \A i \in 0..(Chunks - 1) :
         /\ Start(i) \in Nat /\ Start(i) < PayloadLen
         /\ Width(i) \in {FRAG_FIRST_DATA, FRAG_DATA_BYTES}
         /\ i < Chunks - 1 => /\ Start(i) + Width(i) = Start(i + 1)
                              /\ Start(i + 1) < PayloadLen
         /\ i = Chunks - 1 => PayloadLen <= Start(i) + Width(i)
  BY LenAssumption
     DEF Chunks, Start, Width, FRAG_FIRST_DATA, FRAG_DATA_BYTES, TRANSPORT_MAX

\* A fragment never brings the length past the total, and by its width at most.
LEMMA FedLen ==
    ASSUME NEW s, s.len \in Nat, s.total \in {0, PayloadLen}, s.len <= s.total,
           NEW i \in 0..(Chunks - 1)
    PROVE  LET f == Fed(s, Fragment(payload, i))
               len == IF i = 0 THEN 0 ELSE s.len
               total == IF i = 0 THEN PayloadLen ELSE s.total
           IN  /\ f.len \in Nat /\ f.total = total
               /\ f.len <= f.total
               /\ f.len <= len + Width(i)
               /\ f.len = total \/ f.len = len + Width(i)
<1> DEFINE len == IF i = 0 THEN 0 ELSE s.len
           total == IF i = 0 THEN PayloadLen ELSE s.total
<1>1. Fragment(payload, i).seq = i
  BY DEF Fragment
<1>2. len \in Nat /\ total \in Nat /\ len <= total
  BY LenAssumption DEF TRANSPORT_MAX
<1>3. Width(i) \in {5, 7}
  BY DEF Width, FRAG_FIRST_DATA, FRAG_DATA_BYTES
<1> DEFINE chunk == IF len + Width(i) > total THEN (total - len) % 256 ELSE Width(i)
<1>4. Fed(s, Fragment(payload, i)).len = len + chunk
      /\ Fed(s, Fragment(payload, i)).total = total
  BY <1>1 DEF Fed
<1> HIDE DEF len, total
<1>5. len + Width(i) > total => total - len \in 0..7 /\ (total - len) % 256 = total - len
  BY <1>2, <1>3
<1>6. QED
  BY <1>2, <1>3, <1>4, <1>5 DEF len, total

\* Fed the next fragment, a buffer that holds the payload up to its start
\* holds it up to its end.
LEMMA FedPrefix ==
    ASSUME NEW s, s.len \in Nat, s.total \in {0, PayloadLen}, s.len <= s.total,
           NEW i \in 0..(Chunks - 1),
           i > 0 => /\ s.total = PayloadLen /\ s.len = Start(i)
                    /\ \A k \in Offsets : k < s.len => s.buffer[k] = Byte(payload, k)
    PROVE  LET f == Fed(s, Fragment(payload, i))
           IN  /\ f.len = IF i = Chunks - 1 THEN PayloadLen ELSE Start(i + 1)
               /\ \A k \in Offsets : k < f.len => f.buffer[k] = Byte(payload, k)
<1> DEFINE f == Fed(s, Fragment(payload, i))
           len == IF i = 0 THEN 0 ELSE s.len
<1>1. /\ Start(i) \in Nat /\ Start(i) < PayloadLen /\ Width(i) \in {5, 7}
      /\ i < Chunks - 1 => /\ Start(i) + Width(i) = Start(i + 1)
                           /\ Start(i + 1) < PayloadLen
      /\ i = Chunks - 1 => PayloadLen <= Start(i) + Width(i)
  BY FragmentBounds DEF FRAG_FIRST_DATA, FRAG_DATA_BYTES
<1>2. len = Start(i)
  BY DEF Start
<1>3. /\ f.len \in Nat /\ f.total = PayloadLen /\ f.len <= f.total
      /\ f.len <= len + Width(i)
      /\ f.len = PayloadLen \/ f.len = len + Width(i)
  BY FedLen
<1>4. f.len = IF i = Chunks - 1 THEN PayloadLen ELSE Start(i + 1)
  <2>1. i \in Nat /\ Chunks \in Nat /\ i <= Chunks - 1 /\ PayloadLen \in Nat
    BY FragmentBounds, LenAssumption DEF TRANSPORT_MAX
  <2> HIDE DEF f, len
  <2>2. CASE i = Chunks - 1
    BY <1>1, <1>2, <1>3, <2>1, <2>2
  <2>3. CASE i < Chunks - 1
    BY <1>1, <1>2, <1>3, <2>1, <2>3
  <2>4. QED
    BY <2>1, <2>2, <2>3
<1>5. ASSUME NEW k \in Offsets, k < f.len
      PROVE  f.buffer[k] = Byte(payload, k)
  <2>1. Fragment(payload, i).seq = i
    BY DEF Fragment
  <2>2. f.buffer[k] = IF len <= k /\ k < f.len THEN Fragment(payload, i).data[k - len]
                                               ELSE s.buffer[k]
    BY <2>1 DEF Fed
  <2>3. k \in Nat /\ k < PayloadLen
    BY LenAssumption DEF Offsets, TRANSPORT_MAX
  <2>4. CASE len <= k
    <3>1. k - len \in 0..(Width(i) - 1)
      BY <1>1, <1>2, <1>3, <1>5, <2>3, <2>4
    <3>2. Start(i) + (k - len) = k
      BY <1>1, <1>2, <2>3
    <3>3. Fragment(payload, i).data[k - len] = Byte(payload, k)
      BY <2>3, <3>1, <3>2 DEF Fragment
    <3>4. QED
      BY <1>5, <2>2, <2>4, <3>3
  <2>5. CASE ~(len <= k)
    BY <1>1, <1>2, <2>2, <2>3, <2>5 DEF Start
  <2>6. QED
    BY <2>4, <2>5
<1>6. QED
  BY <1>4, <1>5

\* The initial state satisfies the invariant.
LEMMA InitEstablishes == Init => IInv
<1> SUFFICES ASSUME Init PROVE IInv
  OBVIOUS
<1>1. Shape
  BY FragmentBounds DEF Init, Shape, Seen, Empty
<1>2. Progress /\ WholePayloadAccepted /\ FirstFragmentProtects
  BY FragmentBounds DEF Init, Progress, WholePayloadAccepted, FirstFragmentProtects
<1>3. LenWithinTotal
  BY DEF Init, LenWithinTotal, Empty
<1>4. QED
  BY <1>1, <1>2, <1>3 DEF IInv

\* A new payload starts with nothing of it seen.
LEMMA SendStep == IInv /\ Send => IInv'
<1> SUFFICES ASSUME IInv, Send PROVE IInv'
  OBVIOUS
<1>1. Shape'
  BY FragmentBounds DEF IInv, Shape, Send, Seen
<1>2. Progress' /\ WholePayloadAccepted'
  BY FragmentBounds DEF IInv, Shape, Send, Progress, WholePayloadAccepted
<1>3. LenWithinTotal' /\ FirstFragmentProtects'
  BY DEF IInv, Send, LenWithinTotal, FirstFragmentProtects, Payload
<1>4. QED
  BY <1>1, <1>2, <1>3 DEF IInv

\* A fragment that does not arrive leaves the buffer as it is, and the payload
\* holed or headless.
LEMMA MissingStep == IInv /\ (Lose \/ GiveUp) => IInv'
<1> SUFFICES ASSUME IInv, Lose \/ GiveUp PROVE IInv'
  OBVIOUS
<1> USE DEF Lose, GiveUp, Missed
<1>1. Shape'
  BY FragmentBounds DEF IInv, Shape, Seen
<1>2. seen' # "whole"
  BY DEF IInv, Shape, Seen
<1>3. WholePayloadAccepted'
  BY <1>2 DEF WholePayloadAccepted
<1>4. LenWithinTotal' /\ FirstFragmentProtects'
  BY DEF IInv, LenWithinTotal, FirstFragmentProtects, Payload
<1>5. Progress'
  <2> SUFFICES ASSUME 0 < next', next' < Chunks, seen' = "holed"
               PROVE  r.total = PayloadLen /\ r.len + FRAG_DATA_BYTES <= Start(next')
    BY <1>2 DEF Progress
  <2>1. next' = next + 1 /\ 0 < next /\ next < Chunks /\ next \in Nat
    BY FragmentBounds DEF IInv, Shape
  <2>2. Start(next') = Start(next) + FRAG_DATA_BYTES /\ Start(next) \in Nat
    BY <2>1 DEF Start, FRAG_FIRST_DATA, FRAG_DATA_BYTES
  <2>3. r.total = PayloadLen /\ r.len \in Nat /\ r.len <= Start(next)
    <3>1. CASE seen = "whole"
      BY <2>1, <2>2, <3>1 DEF IInv, Progress, Shape
    <3>2. CASE seen = "holed"
      BY <2>1, <2>2, <3>2 DEF IInv, Progress, Shape, FRAG_DATA_BYTES
    <3>3. QED
      BY <2>1, <3>1, <3>2 DEF IInv, Shape, Seen
  <2>4. QED
    BY <2>2, <2>3 DEF FRAG_DATA_BYTES
<1>6. QED
  BY <1>1, <1>3, <1>4, <1>5 DEF IInv

\* After a reboot of the receiver the payload is headless, or not begun.
LEMMA RebootStep == IInv /\ Reboot => IInv'
<1> SUFFICES ASSUME IInv, Reboot PROVE IInv'
  OBVIOUS
<1>1. Shape'
  BY FragmentBounds DEF IInv, Shape, Reboot, Seen, Empty
<1>2. Progress' /\ WholePayloadAccepted'
  BY FragmentBounds DEF IInv, Shape, Reboot, Progress, WholePayloadAccepted
<1>3. LenWithinTotal' /\ FirstFragmentProtects'
  BY DEF IInv, Reboot, LenWithinTotal, FirstFragmentProtects, Payload, Empty
<1>4. QED
  BY <1>1, <1>2, <1>3 DEF IInv

\* What Receive does to all but the count of the repetitions.
Delivered ==
    /\ next < Chunks
    /\ LET f == Fragment(payload, next)
       IN  /\ r' = Handled(r, f)
           /\ accepted' = IF Used(r, f) THEN Taken(r, f) ELSE accepted
    /\ next' = next + 1
    /\ UNCHANGED <<payload, seen, faults>>

\* A fragment extends the prefix of a whole payload, and does not let a holed
\* one catch up.
LEMMA DeliveredStep == IInv /\ Delivered => IInv'
<1> SUFFICES ASSUME IInv, Delivered PROVE IInv'
  OBVIOUS
<1> DEFINE f == Fragment(payload, next)
           s == Fed(r, f)
<1>1. /\ next \in 0..(Chunks - 1) /\ next \in Nat /\ next' = next + 1
      /\ next < Chunks /\ Chunks \in Nat
      /\ payload' = payload /\ seen' = seen
      /\ payload > 0 /\ payload \in Nat
  BY FragmentBounds DEF IInv, Shape, Delivered
<1>2. /\ r.len \in Nat /\ r.total \in {0, PayloadLen} /\ r.len <= r.total
      /\ seen \in Seen
  BY DEF IInv, Shape, LenWithinTotal
<1>3. /\ s.len \in Nat
      /\ s.total = IF next = 0 THEN PayloadLen ELSE r.total
      /\ s.len <= s.total
      /\ s.len <= (IF next = 0 THEN 0 ELSE r.len) + Width(next)
  BY <1>1, <1>2, FedLen
<1>4. f.last = (next = Chunks - 1)
  BY DEF Fragment
<1>5. /\ r' = IF f.last THEN Reinitialized(s) ELSE s
      /\ accepted' = IF f.last /\ s.len = PayloadLen
                     THEN [payload |-> payload, bytes |-> s.buffer, seen |-> seen]
                     ELSE accepted
  BY DEF Delivered, Handled, Used, Taken
<1>6. s = [buffer |-> [k \in Offsets |-> s.buffer[k]], len |-> s.len, total |-> s.total]
  BY DEF Fed
<1>7. r'.len \in Nat /\ r'.total \in {0, PayloadLen} /\ r'.len <= r'.total
      /\ r' = [buffer |-> r'.buffer, len |-> r'.len, total |-> r'.total]
      /\ r'.buffer = [k \in Offsets |-> r'.buffer[k]]
  <2>1. CASE f.last
    <3>1. r' = [buffer |-> s.buffer, len |-> 0, total |-> 0]
      BY <1>5, <1>6, <2>1 DEF Reinitialized
    <3>2. QED
      BY <1>6, <3>1
  <2>2. CASE ~f.last
    BY <1>2, <1>3, <1>5, <1>6, <2>2
  <2>3. QED
    BY <2>1, <2>2
<1>8. Shape' /\ LenWithinTotal'
  <2>1. /\ next' \in 0..Chunks /\ next' > 0
        /\ seen' \in Seen /\ payload' \in Nat /\ payload' > 0
    BY <1>1, <1>2, FragmentBounds
  <2>2. /\ accepted' = [payload |-> accepted'.payload, bytes |-> accepted'.bytes,
                        seen |-> accepted'.seen]
        /\ accepted'.payload \in Nat
    BY <1>1, <1>5 DEF IInv, Shape
  <2>3. QED
    BY <1>7, <2>1, <2>2 DEF Shape, LenWithinTotal
<1>9. ASSUME seen = "whole"
      PROVE  /\ s.len = IF next = Chunks - 1 THEN PayloadLen ELSE Start(next + 1)
             /\ \A k \in Offsets : k < s.len => s.buffer[k] = Byte(payload, k)
  <2>1. next > 0 => /\ r.total = PayloadLen /\ r.len = Start(next)
                    /\ \A k \in Offsets : k < r.len => r.buffer[k] = Byte(payload, k)
    BY <1>1, <1>9 DEF IInv, Progress
  <2>2. QED
    BY <1>1, <1>2, <2>1, FedPrefix
<1>10. ASSUME seen = "holed", next > 0
       PROVE  /\ s.total = PayloadLen /\ s.len < PayloadLen
              /\ next < Chunks - 1 => s.len + FRAG_DATA_BYTES <= Start(next + 1)
  <2>1. r.total = PayloadLen /\ r.len + FRAG_DATA_BYTES <= Start(next)
    BY <1>1, <1>10, FragmentBounds DEF IInv, Progress
  <2>2. /\ Start(next) \in Nat /\ Start(next) < PayloadLen
        /\ next < Chunks - 1 => Start(next) + Width(next) = Start(next + 1)
    BY <1>1, FragmentBounds
  <2>3. Width(next) = 7
    BY <1>1, <1>10 DEF Width, FRAG_DATA_BYTES
  <2>4. QED
    BY <1>2, <1>3, <1>10, <2>1, <2>2, <2>3, LenAssumption
       DEF FRAG_DATA_BYTES, TRANSPORT_MAX
<1>11. PayloadLen \in Nat /\ Chunks \in Nat
  BY LenAssumption, FragmentBounds DEF TRANSPORT_MAX
<1>12. ASSUME seen = "whole", next = Chunks - 1
       PROVE  accepted'.payload = payload /\ accepted'.bytes = Payload(payload)
  <2>1. s.buffer = Payload(payload)
    <3>1. \A k \in Offsets : s.buffer[k] = Byte(payload, k)
      BY <1>9, <1>11, <1>12 DEF Offsets
    <3>2. QED
      BY <1>6, <3>1 DEF Payload
  <2>2. QED
    BY <1>4, <1>5, <1>9, <1>12, <2>1
<1>13. Progress'
  <2> SUFFICES ASSUME 0 < next', next' < Chunks
               PROVE  /\ seen = "whole" =>
                           /\ r'.total = PayloadLen /\ r'.len = Start(next + 1)
                           /\ \A k \in Offsets : k < r'.len => r'.buffer[k] = Byte(payload, k)
                      /\ seen = "holed" =>
                           r'.total = PayloadLen /\ r'.len + FRAG_DATA_BYTES <= Start(next + 1)
    BY <1>1 DEF Progress
  <2>1. next < Chunks - 1 /\ next # Chunks - 1
    BY <1>1
  <2>2. ~f.last
    BY <1>4, <2>1
  <2>3. r' = s
    BY <1>5, <2>2
  <2>4. seen = "whole" => s.total = PayloadLen
    BY <1>1, <1>3 DEF IInv, Progress
  <2>5. seen = "holed" => next > 0
    BY <1>1 DEF IInv, Shape
  <2>6. QED
    BY <1>9, <1>10, <1>11, <2>1, <2>3, <2>4, <2>5
<1>14. WholePayloadAccepted'
  <2> SUFFICES ASSUME next' = Chunks, seen = "whole"
               PROVE  accepted'.payload = payload /\ accepted'.bytes = Payload(payload)
    BY <1>1 DEF WholePayloadAccepted, Payload
  <2>1. QED
    BY <1>1, <1>11, <1>12
<1>15. FirstFragmentProtects'
  <2> SUFFICES ASSUME accepted' # accepted, seen \in {"whole", "holed"}
               PROVE  accepted'.bytes = Payload(payload)
    BY <1>5 DEF IInv, FirstFragmentProtects, Payload
  <2>1. next = Chunks - 1 /\ s.len = PayloadLen
    BY <1>4, <1>5
  <2>2. seen = "whole"
    BY <1>1, <1>2, <1>10, <1>11, <2>1 DEF IInv, Shape, Seen
  <2>3. QED
    BY <1>12, <2>1, <2>2
<1>16. QED
  BY <1>8, <1>13, <1>14, <1>15 DEF IInv

\* The first or the last fragment that comes twice has the effect it has once:
\* the first starts over, and behind the last one the total is 0.
LEMMA EndsTwice ==
    ASSUME IInv, ReceiveTwice, next \in {0, Chunks - 1}
    PROVE  Delivered
<1> DEFINE f == Fragment(payload, next)
           s == Fed(r, f)
           once == Handled(r, f)
<1>1. next < Chunks /\ next' = next + 1 /\ UNCHANGED <<payload, seen, faults>>
  BY DEF ReceiveTwice
<1>2. f.seq = next /\ f.last = (next = Chunks - 1)
  BY DEF Fragment
<1>3. /\ s = [buffer |-> [k \in Offsets |-> s.buffer[k]], len |-> s.len, total |-> s.total]
      /\ once.buffer = s.buffer
      /\ f.last => once = [buffer |-> s.buffer, len |-> 0, total |-> 0]
  BY DEF Fed, Handled, Reinitialized
<1>4. CASE next = 0
  <2>1. Fed(once, f) = s
    <3>1. \A k \in Offsets : once.buffer[k] = s.buffer[k]
      BY <1>3
    <3> QED
      BY <1>2, <1>4, <3>1 DEF Fed
  <2>2. Handled(once, f) = once /\ Used(once, f) = Used(r, f) /\ Taken(once, f) = Taken(r, f)
    BY <2>1 DEF Handled, Used, Taken
  <2> QED
    BY <1>1, <2>2 DEF ReceiveTwice, Delivered
<1>5. CASE next = Chunks - 1 /\ next # 0
  <2>1. f.last /\ once = [buffer |-> s.buffer, len |-> 0, total |-> 0]
    BY <1>2, <1>3, <1>5
  <2>2. Width(next) = 7
    BY <1>5 DEF Width, FRAG_DATA_BYTES
  <2>3. Fed(once, f) = [buffer |-> [k \in Offsets |-> s.buffer[k]], len |-> 0, total |-> 0]
    <3> HIDE DEF f, s, once
    <3>1. /\ once.len = 0 /\ once.total = 0 /\ once.buffer = s.buffer
          /\ f.seq = next /\ next # 0
      BY <1>2, <1>5, <2>1
    <3>2. (0 - 0) % 256 = 0
      OBVIOUS
    <3>3. \A k \in Offsets : k \in Nat
      BY LenAssumption DEF Offsets, TRANSPORT_MAX
    <3> QED
      BY <2>2, <3>1, <3>2, <3>3 DEF Fed
  <2>4. s.buffer = [k \in Offsets |-> s.buffer[k]]
    BY <1>3
  <2>5. Handled(once, f) = once /\ ~Used(once, f)
    <3>1. Fed(once, f) = once
      BY <2>1, <2>3, <2>4
    <3>2. PayloadLen # 0
      BY LenAssumption
    <3> QED
      BY <2>1, <3>1, <3>2 DEF Handled, Reinitialized, Used
  <2> QED
    BY <1>1, <2>5 DEF ReceiveTwice, Delivered
<1> QED
  BY <1>4, <1>5, <1>1 DEF ReceiveTwice

\* One between them leaves a payload of which nothing is claimed.
LEMMA MiddleTwice ==
    ASSUME IInv, ReceiveTwice, next \notin {0, Chunks - 1}
    PROVE  IInv' /\ accepted' = accepted
<1> DEFINE f == Fragment(payload, next)
           once == Handled(r, f)
<1>1. /\ next \in 0..(Chunks - 1) /\ next' \in 0..Chunks /\ next' > 0 /\ next' < Chunks
      /\ payload' = payload /\ payload > 0 /\ payload \in Nat
      /\ seen' \in {"repeated", "headless"}
  BY FragmentBounds DEF IInv, Shape, ReceiveTwice
<1>2. ~f.last
  BY DEF Fragment
<1>3. /\ once = Fed(r, f) /\ r' = Fed(once, f) /\ accepted' = accepted
  BY <1>2 DEF ReceiveTwice, Handled, Used
<1>4. /\ once.len \in Nat /\ once.total \in {0, PayloadLen} /\ once.len <= once.total
  BY <1>1, <1>3, FedLen DEF IInv, Shape, LenWithinTotal
<1>5. /\ r'.len \in Nat /\ r'.total \in {0, PayloadLen} /\ r'.len <= r'.total
  BY <1>1, <1>3, <1>4, FedLen
<1>6. /\ r' = [buffer |-> r'.buffer, len |-> r'.len, total |-> r'.total]
      /\ r'.buffer = [k \in Offsets |-> r'.buffer[k]]
  BY <1>3 DEF Fed
<1> HIDE DEF f, once
<1>7. Shape' /\ LenWithinTotal'
  BY <1>1, <1>3, <1>5, <1>6 DEF IInv, Shape, Seen, LenWithinTotal
<1>8. Progress' /\ WholePayloadAccepted'
  BY <1>1 DEF Progress, WholePayloadAccepted
<1>9. FirstFragmentProtects'
  BY <1>3 DEF IInv, FirstFragmentProtects, Payload
<1> QED
  BY <1>3, <1>7, <1>8, <1>9 DEF IInv

LEMMA ReceiveStep == IInv /\ (Receive \/ ReceiveTwice) => IInv'
<1>1. Receive => Delivered
  BY DEF Receive, Delivered
<1> QED
  BY <1>1, EndsTwice, MiddleTwice, DeliveredStep

\* The invariant holds in every reachable state.
THEOREM Invariance == Spec => []IInv
<1>1. IInv /\ [Next]_vars => IInv'
  <2> SUFFICES ASSUME IInv, [Next]_vars PROVE IInv'
    OBVIOUS
  <2>1. CASE Send
    BY <2>1, SendStep
  <2>2. CASE Receive \/ ReceiveTwice
    BY <2>2, ReceiveStep
  <2>3. CASE Lose \/ GiveUp
    BY <2>3, MissingStep
  <2>4. CASE Reboot
    BY <2>4, RebootStep
  <2>5. CASE UNCHANGED vars
    BY <2>5 DEF vars, IInv, Shape, LenWithinTotal, Progress, WholePayloadAccepted,
                FirstFragmentProtects, Payload
  <2>6. QED
    BY <2>1, <2>2, <2>3, <2>4, <2>5 DEF Next
<1>2. QED
  BY <1>1, InitEstablishes, PTL DEF Spec

\* battlock_reassembly_feed() never takes the length past the total, so the
\* unsigned subtraction that clips a fragment does not wrap.
THEOREM NoOverrun == Spec => []LenWithinTotal
<1>1. IInv => LenWithinTotal
  BY DEF IInv
<1>2. QED
  BY <1>1, Invariance, PTL

\* A payload of any length whose fragments all arrive, the first and the last
\* of them possibly twice, is used as it was sent, whatever was left in the
\* buffer before.
THEOREM WholeIsAccepted == Spec => []WholePayloadAccepted
<1>1. IInv => WholePayloadAccepted
  BY DEF IInv
<1>2. QED
  BY <1>1, Invariance, PTL

\* A payload of any length whose first fragment arrived, and of which none
\* behind it was repeated, is used as it was sent or not at all.
THEOREM FirstFragmentSuffices == Spec => []FirstFragmentProtects
<1>1. IInv => FirstFragmentProtects
  BY DEF IInv
<1>2. QED
  BY <1>1, Invariance, PTL

-----------------------------------------------------------------------------
\* Types

\* Beyond the shape of the state: the bounds, and what the bytes are.
Values ==
    /\ payload \in 0..MaxPayloads
    /\ r.buffer \in [Offsets -> Bytes]
    /\ accepted.bytes \in [Offsets -> Bytes]
    /\ accepted.payload \in 0..MaxPayloads
    /\ accepted.seen \in Seen
    /\ faults \in 0..MaxFaults
    /\ repeats \in 0..MaxRepeats

\* What a fragment writes into the buffer are bytes of the payload or padding.
LEMMA FedBytes ==
    ASSUME payload \in 1..MaxPayloads, NEW s, s.buffer \in [Offsets -> Bytes],
           s.len \in Nat, s.total \in {0, PayloadLen}, s.len <= s.total,
           NEW i \in 0..(Chunks - 1)
    PROVE  Fed(s, Fragment(payload, i)).buffer \in [Offsets -> Bytes]
<1> DEFINE f == Fragment(payload, i)
           len == IF i = 0 THEN 0 ELSE s.len
<1>1. Fed(s, f).len <= len + Width(i) /\ Fed(s, f).len \in Nat /\ len \in Nat
  BY FedLen
<1>2. f.seq = i
  BY DEF Fragment
<1>3. \A j \in 0..(Width(i) - 1) : f.data[j] \in Bytes
  <2>1. Start(i) \in Nat /\ Width(i) \in {5, 7} /\ PayloadLen \in Nat
    BY FragmentBounds, LenAssumption DEF FRAG_FIRST_DATA, FRAG_DATA_BYTES, TRANSPORT_MAX
  <2>2. ASSUME NEW j \in 0..(Width(i) - 1), Start(i) + j < PayloadLen
        PROVE  Byte(payload, Start(i) + j) \in Bytes
    <3>1. Start(i) + j \in Offsets
      BY <2>1, <2>2 DEF Offsets
    <3> QED
      BY <3>1 DEF Byte, Bytes
  <2>3. Zero \in Bytes
    BY DEF Bytes
  <2> QED
    BY <2>2, <2>3 DEF Fragment
<1>4. Fed(s, f).buffer = [k \in Offsets |->
          IF len <= k /\ k < Fed(s, f).len THEN f.data[k - len] ELSE s.buffer[k]]
  BY <1>2 DEF Fed
<1>5. ASSUME NEW k \in Offsets, len <= k, k < Fed(s, f).len
      PROVE  f.data[k - len] \in Bytes
  <2>1. k \in Nat /\ Width(i) \in {5, 7}
    BY LenAssumption DEF Offsets, TRANSPORT_MAX, Width, FRAG_FIRST_DATA, FRAG_DATA_BYTES
  <2>2. k - len \in 0..(Width(i) - 1)
    BY <1>1, <1>5, <2>1
  <2> QED
    BY <1>3, <2>2
<1>6. \A k \in Offsets : s.buffer[k] \in Bytes
  OBVIOUS
<1> HIDE DEF f, len
<1> QED
  BY <1>4, <1>5, <1>6 DEF f

\* Fed the next fragment, the buffer still holds bytes and the length fits.
LEMMA HandledBytes ==
    ASSUME payload \in 1..MaxPayloads, NEW s, s.buffer \in [Offsets -> Bytes],
           s.len \in Nat, s.total \in {0, PayloadLen}, s.len <= s.total,
           NEW i \in 0..(Chunks - 1)
    PROVE  LET h == Handled(s, Fragment(payload, i))
           IN  /\ h.buffer \in [Offsets -> Bytes]
               /\ h.len \in Nat /\ h.total \in {0, PayloadLen} /\ h.len <= h.total
<1> DEFINE f == Fed(s, Fragment(payload, i))
<1>1. f.buffer \in [Offsets -> Bytes]
  BY FedBytes
<1>2. f.len \in Nat /\ f.total \in {0, PayloadLen} /\ f.len <= f.total
  BY FedLen
<1>3. f = [buffer |-> f.buffer, len |-> f.len, total |-> f.total]
  BY DEF Fed
<1>4. Handled(s, Fragment(payload, i)) \in {f, Reinitialized(f)}
  BY DEF Handled
<1>5. /\ Reinitialized(f).buffer = f.buffer
      /\ Reinitialized(f).len = 0 /\ Reinitialized(f).total = 0
  BY DEF Reinitialized, Fed
<1> HIDE DEF f
<1> QED
  BY <1>1, <1>2, <1>4, <1>5

LEMMA ReceiveTypes ==
    ASSUME IInv, Values, Receive \/ ReceiveTwice
    PROVE  Values'
<1> DEFINE f == Fragment(payload, next)
           once == Handled(r, f)
<1>1. payload \in 1..MaxPayloads /\ next \in 0..(Chunks - 1)
  BY FragmentBounds, BoundsAssumption DEF IInv, Shape, Receive, ReceiveTwice, Values
<1>2. /\ r.buffer \in [Offsets -> Bytes]
      /\ r.len \in Nat /\ r.total \in {0, PayloadLen} /\ r.len <= r.total
  BY DEF IInv, Shape, LenWithinTotal, Values
<1>3. /\ once.buffer \in [Offsets -> Bytes]
      /\ once.len \in Nat /\ once.total \in {0, PayloadLen} /\ once.len <= once.total
  BY <1>1, <1>2, HandledBytes
<1>4. Fed(r, f).buffer \in [Offsets -> Bytes]
  BY <1>1, <1>2, FedBytes
<1>5. Fed(once, f).buffer \in [Offsets -> Bytes]
  <2> HIDE DEF once
  <2> QED
    BY <1>1, <1>3, FedBytes
<1>6. Handled(once, f).buffer \in [Offsets -> Bytes]
  <2> HIDE DEF once
  <2> QED
    BY <1>1, <1>3, HandledBytes
<1>7. r'.buffer \in [Offsets -> Bytes]
  BY <1>3, <1>6 DEF Receive, ReceiveTwice
<1>8. accepted' \in {accepted, Taken(r, f), Taken(once, f)}
  BY DEF Receive, ReceiveTwice
<1>9. /\ payload' = payload /\ faults' = faults /\ seen \in Seen
      /\ repeats' \in 0..MaxRepeats
  BY BoundsAssumption DEF Receive, ReceiveTwice, IInv, Shape, Values
<1>10. /\ accepted'.bytes \in [Offsets -> Bytes]
       /\ accepted'.payload \in 0..MaxPayloads
       /\ accepted'.seen \in Seen
  <2>1. CASE accepted' = accepted
    BY <2>1 DEF Values
  <2>2. CASE accepted' \in {Taken(r, f), Taken(once, f)}
    <3> HIDE DEF f, once
    <3> QED
      BY <1>1, <1>4, <1>5, <1>9, <2>2 DEF Taken
  <2> QED
    BY <1>8, <2>1, <2>2
<1> QED
  BY <1>7, <1>9, <1>10 DEF Values

LEMMA TypesHold == Spec => []Values
<1>1. [k \in Offsets |-> Zero] \in [Offsets -> Bytes]
  BY DEF Bytes
<1>2. Init => Values
  BY <1>1, BoundsAssumption DEF Init, Values, Empty, Seen
<1>3. IInv /\ Values /\ [Next]_vars => Values'
  <2> SUFFICES ASSUME IInv, Values, [Next]_vars PROVE Values'
    OBVIOUS
  <2>1. CASE Send
    BY <2>1, BoundsAssumption DEF Send, Values
  <2>2. CASE Lose \/ GiveUp
    BY <2>2, BoundsAssumption DEF Lose, GiveUp, Missed, Values
  <2>3. CASE Reboot
    BY <1>1, <2>3, BoundsAssumption DEF Reboot, Empty, Values
  <2>4. CASE UNCHANGED vars
    BY <2>4 DEF vars, Values
  <2> QED
    BY <2>1, <2>2, <2>3, <2>4, ReceiveTypes DEF Next
<1> QED
  BY <1>2, <1>3, Invariance, PTL DEF Spec

\* The state of the reassembly is always of the kinds it is meant to be: in the
\* buffer there are bytes of payloads that were sent and padding, and its length
\* fits the payload.
THEOREM TypeCorrect == Spec => []TypeOK
<1>1. IInv /\ Values => TypeOK
  <2> SUFFICES ASSUME IInv, Values PROVE TypeOK
    OBVIOUS
  <2>1. r.len \in 0..PayloadLen
    BY LenAssumption DEF IInv, Shape, LenWithinTotal, TRANSPORT_MAX
  <2>2. r \in [buffer : [Offsets -> Bytes], len : 0..PayloadLen, total : {0, PayloadLen}]
    BY <2>1 DEF IInv, Shape, Values
  <2>3. accepted \in [payload : 0..MaxPayloads, bytes : [Offsets -> Bytes],
                      seen : Seen]
    BY DEF IInv, Shape, Values
  <2> QED
    BY <2>2, <2>3 DEF IInv, Shape, Values, TypeOK
<1> QED
  BY <1>1, Invariance, TypesHold, PTL

-----------------------------------------------------------------------------
\* A single fault, and nothing repeated

\* Without a fault the buffer is ready whenever no payload is under way; after
\* the one that takes the first fragment away, nothing fits into it.
LossInv ==
    repeats = 0 =>
        /\ seen # "repeated"
        /\ faults = 0 => seen = "whole"
        /\ faults = 0 /\ next \in {0, Chunks} => r.len = 0 /\ r.total = 0
        /\ faults <= 1 /\ seen = "headless" /\ next < Chunks => r.len = 0 /\ r.total = 0
        /\ OneLossDetected

LEMMA ReceiveOneLoss ==
    ASSUME IInv, IInv', Values, LossInv, Receive, repeats = 0
    PROVE  LossInv'
<1> DEFINE f == Fragment(payload, next)
           s == Fed(r, f)
<1>1. /\ next \in 0..(Chunks - 1) /\ next \in Nat /\ Chunks \in Nat /\ faults \in Nat
      /\ next' = next + 1 /\ next < Chunks
      /\ UNCHANGED <<payload, seen, faults, repeats>>
      /\ seen = "headless" => next > 0
  BY FragmentBounds, BoundsAssumption DEF IInv, Shape, Values, Receive
<1>2. /\ s.len \in Nat /\ s.len <= s.total
      /\ s.total = IF next = 0 THEN PayloadLen ELSE r.total
  BY <1>1, FedLen DEF IInv, Shape, LenWithinTotal
<1>3. /\ f.last = (next = Chunks - 1)
      /\ r' = IF f.last THEN Reinitialized(s) ELSE s
      /\ accepted' = IF f.last /\ s.len = PayloadLen
                     THEN [payload |-> payload, bytes |-> s.buffer, seen |-> seen]
                     ELSE accepted
  BY DEF Receive, Handled, Used, Taken, Fragment
<1>4. Reinitialized(s).len = 0 /\ Reinitialized(s).total = 0
  BY DEF Reinitialized, Fed
<1> HIDE DEF f, s
<1>5. faults = 0 /\ next' \in {0, Chunks} => r'.len = 0 /\ r'.total = 0
  <2>1. next' \in {0, Chunks} => next = Chunks - 1
    BY <1>1
  <2>2. next = Chunks - 1 => r' = Reinitialized(s)
    BY <1>3
  <2> QED
    BY <1>4, <2>1, <2>2
<1>6. faults <= 1 /\ seen = "headless" => s.len = 0 /\ s.total = 0
  BY <1>1, <1>2 DEF LossInv
<1>7. faults <= 1 /\ seen = "headless" /\ next' < Chunks => r'.len = 0 /\ r'.total = 0
  BY <1>3, <1>4, <1>6
<1>8. OneLossDetected'
  <2> SUFFICES ASSUME accepted'.payload > 0, faults <= 1
               PROVE  accepted'.bytes = Payload(accepted'.payload)
    BY <1>1 DEF OneLossDetected, Payload
  <2>1. CASE accepted' = accepted
    BY <2>1 DEF LossInv, OneLossDetected, Payload
  <2>2. CASE accepted' # accepted
    <3>1. seen \in {"whole", "holed"} /\ accepted'.seen = seen
      BY <1>3, <1>6, <2>2, LenAssumption DEF IInv, Shape, Seen, LossInv, TRANSPORT_MAX
    <3> QED
      BY <3>1 DEF IInv, FirstFragmentProtects, Payload
  <2> QED
    BY <2>1, <2>2
<1> QED
  BY <1>1, <1>5, <1>7, <1>8 DEF LossInv

\* One fragment lost, one send given up or one reboot is never enough to make a
\* damaged payload pass for a good one, at any length of the payload, while the
\* bus repeats nothing.
THEOREM OneLossIsDetected == Spec => []OneLossDetected
<1>1. Init => LossInv
  BY DEF Init, LossInv, OneLossDetected, Empty
<1>2. IInv /\ IInv' /\ Values /\ LossInv /\ [Next]_vars => LossInv'
  <2> SUFFICES ASSUME IInv, IInv', Values, LossInv, [Next]_vars PROVE LossInv'
    OBVIOUS
  <2>1. /\ next \in Nat /\ Chunks \in Nat /\ Chunks > 0 /\ faults \in Nat
        /\ next <= Chunks
    BY FragmentBounds, BoundsAssumption DEF IInv, Shape, Values
  <2>2. /\ repeats = 0 /\ accepted' = accepted /\ faults' \in Nat /\ faults <= faults'
        => OneLossDetected'
    <3>1. faults' \in Nat /\ faults <= faults' /\ faults' <= 1 => faults <= 1
      BY <2>1
    <3> QED
      BY <3>1 DEF LossInv, OneLossDetected, Payload
  <2>3. CASE Send
    <3>1. /\ next = Chunks /\ next' = 0 /\ seen' = "whole"
          /\ UNCHANGED <<r, accepted, faults, repeats>>
      BY <2>3 DEF Send
    <3> QED
      BY <2>1, <2>2, <3>1 DEF LossInv
  <2>4. CASE Lose \/ GiveUp
    <3>1. /\ faults' = faults + 1 /\ UNCHANGED <<r, accepted, repeats>>
          /\ seen' = IF next = 0 THEN "headless" ELSE IF seen = "whole" THEN "holed" ELSE seen
      BY <2>4 DEF Lose, GiveUp, Missed
    <3>2. repeats = 0 /\ faults' <= 1 => /\ seen' # "repeated"
                                          /\ seen' = "headless" => r.len = 0 /\ r.total = 0
      BY <2>1, <3>1 DEF LossInv
    <3> QED
      BY <2>1, <2>2, <3>1, <3>2 DEF LossInv
  <2>5. CASE Reboot
    <3>1. faults' = faults + 1 /\ r'.len = 0 /\ r'.total = 0 /\ accepted' = accepted /\ repeats' = repeats
          /\ seen' \in {"whole", "headless"}
      BY <2>5 DEF Reboot, Empty
    <3> QED
      BY <2>1, <2>2, <3>1 DEF LossInv
  <2>6. CASE UNCHANGED vars
    BY <2>6 DEF vars, LossInv, OneLossDetected, Payload
  <2>7. CASE Receive
    <3>1. repeats' = repeats
      BY <2>7 DEF Receive
    <3> QED
      BY <2>7, <3>1, ReceiveOneLoss DEF LossInv
  <2>8. CASE ReceiveTwice
    <3>1. repeats' # 0
      BY <2>8, BoundsAssumption DEF ReceiveTwice, Values
    <3> QED
      BY <3>1 DEF LossInv
  <2> QED
    BY <2>3, <2>4, <2>5, <2>6, <2>7, <2>8 DEF Next
<1>3. LossInv => OneLossDetected
  BY DEF LossInv, OneLossDetected
<1> QED
  BY <1>1, <1>2, <1>3, Invariance, TypesHold, PTL DEF Spec
=============================================================================
