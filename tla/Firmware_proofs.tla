--------------------------- MODULE Firmware_proofs ---------------------------
(***************************************************************************)
(* The safety of the two sketches for any number of requests, faults and   *)
(* samples, and any depth of the receive buffers.                          *)
(*                                                                         *)
(* The invariant has three parts.  SamplesInOrder places the samples on    *)
(* one line: accepted, pending, waiting on the bus, not yet taken.         *)
(* StepsPaidFor balances the steps of the handshake with the frames that   *)
(* carry them.  Pairs says of every frame B on its way that it finds its   *)
(* own frame A pending, or a vehicle that will ignore it, or that its      *)
(* frame A did not arrive.                                                 *)
(***************************************************************************)
EXTENDS Firmware, FiniteSetTheorems, FunctionTheorems, SequenceTheorems, TLAPS

Now == <<boot, counter>>

\* Frames of one buffer: a frame A is later than those before it, or repeats the
\* one before it; a frame B is not earlier.
InOrder(t) ==
    \A i, j \in 1..Len(t) :
        i < j /\ t[i].id = "STATUS_A" =>
            /\ t[j].id = "STATUS_A" =>
                 \/ Earlier(t[i].sample, t[j].sample)
                 \/ /\ t[i].sample = t[j].sample
                    /\ \A k \in i..j : t[k].id = "STATUS_A"
            /\ t[j].id = "STATUS_B" => ~Earlier(t[j].sample, t[i].sample)

\* The frames of a buffer do not fall behind the frame A of sample s; those
\* that repeat it come first.
Follows(t, s) ==
    \A j \in 1..Len(t) :
        /\ t[j].id = "STATUS_A" =>
             \/ Earlier(s, t[j].sample)
             \/ t[j].sample = s /\ \A k \in 1..j : t[k].id = "STATUS_A"
        /\ t[j].id = "STATUS_B" => ~Earlier(t[j].sample, s)

\* The frames A of a buffer are later than sample s.
Above(t, s) == \A j \in 1..Len(t) : t[j].id = "STATUS_A" => Earlier(s, t[j].sample)

\* The frames A and B of a buffer are of samples taken before s.
Below(t, s) ==
    \A j \in 1..Len(t) : t[j].id \in {"STATUS_A", "STATUS_B"} => Earlier(t[j].sample, s)

\* Types, and what bounds the boots and the counters.
TypeInv ==
    /\ TypeOK
    /\ boot <= faults + 1
    /\ stage = "stream_b" => counter > 0

SamplesInOrder ==
    /\ InOrder(toVehicle)
    /\ Below(toVehicle, Now)
    /\ have_frame_a => Earlier(pending, Now) /\ Follows(toVehicle, pending)
    /\ \A n \in 1..Len(accepted) :
         /\ Earlier(accepted[n].a, Now)
         /\ Above(toVehicle, accepted[n].a)
         /\ have_frame_a => Earlier(accepted[n].a, pending)
    /\ AcceptedInOrder
    /\ NeverStaleValues

\* How many frames of one kind are waiting in a buffer.
At(buf, id) == {j \in 1..Len(buf) : buf[j].id = id}
Waiting(buf, id) == Cardinality(At(buf, id))

\* Every step of the handshake was paid for with one before it: those made,
\* and those that a waiting frame, or a board on its way, will make.
StepsPaidFor ==
    /\ done["challenges"] + Waiting(toVehicle, "CERTIFICATE") <= done["certificates"]
    /\ done["signatures"] + Waiting(toBattery, "NONCE")
         + (IF has_challenge THEN 1 ELSE 0) <= done["challenges"]
    /\ done["sessions"] + Waiting(toVehicle, "SIGNATURE")
         + (IF vStage = "session" THEN 1 ELSE 0) <= done["signatures"]
    /\ done["activations"] + Waiting(toBattery, "SESSION_ID")
         <= done["sessions"] + done["repeats"]

\* The frame A of sample s is in a buffer before place n, and after it only
\* requests of the third node.
Told(t, n, s) ==
    \E i \in 1..(n - 1) :
        /\ t[i].id = "STATUS_A" /\ t[i].sample = s
        /\ \A k \in (i + 1)..(n - 1) : t[k].id = "AUTH_REQUEST"

OnlyRequests(t, n) == \A k \in 1..(n - 1) : t[k].id = "AUTH_REQUEST"

\* The vehicle has no other frame A pending than that of sample s, or will
\* ignore a frame B.
Half(s) ==
    \/ have_frame_a => pending = s
    \/ vState # "ACTIVE_SESSION" /\ vStage = "receive"

\* A frame B of sample s at place n finds its own frame A, or that was lost.
Paired(t, n, s) ==
    \/ Told(t, n, s)
    \/ OnlyRequests(t, n) /\ Half(s)
    \/ s \in lost

\* The frame B at place n repeats the one before it.
Repeated(t, n) == n > 1 /\ t[n - 1].id = "STATUS_B" /\ t[n - 1].sample = t[n].sample

Pairs ==
    /\ \A n \in 1..Len(toVehicle) :
         toVehicle[n].id = "STATUS_B" =>
           Repeated(toVehicle, n) \/ Paired(toVehicle, n, toVehicle[n].sample)
    /\ stage = "stream_b" => Paired(toVehicle, Len(toVehicle) + 1, <<boot, counter - 1>>)

-----------------------------------------------------------------------------
\* The order of samples

\* Earlier is the lexicographic order.
LEMMA EarlierOrder ==
    ASSUME NEW r \in Samples, NEW s \in Samples, NEW t \in Samples
    PROVE  /\ Earlier(r, s) /\ Earlier(s, t) => Earlier(r, t)
           /\ Earlier(r, s) => ~Earlier(s, r)
           /\ Earlier(r, s) /\ ~Earlier(t, s) => Earlier(r, t)
           /\ ~Earlier(r, r)
  BY BoundsAssumption DEF Samples, Earlier

\* What was taken before the next sample is not later than the last one.
LEMMA EarlierThanNext ==
    ASSUME NEW s \in Samples, NEW b \in Nat, NEW c \in Nat, c > 0, Earlier(s, <<b, c>>)
    PROVE  ~Earlier(<<b, c - 1>>, s)
  BY BoundsAssumption DEF Samples, Earlier

\* Samples of one boot are taken in the order of their counter; those of a new
\* boot after all before.
LEMMA NextIsLater ==
    ASSUME NEW s \in Samples, NEW b \in Nat, NEW c \in Nat, Earlier(s, <<b, c>>)
    PROVE  Earlier(s, <<b, c + 1>>) /\ Earlier(s, <<b + 1, 0>>)
  BY BoundsAssumption DEF Samples, Earlier

-----------------------------------------------------------------------------
\* The frames and the buffers

Ids == {"AUTH_REQUEST", "CERTIFICATE", "NONCE", "SIGNATURE", "AUTH_RESULT",
        "SESSION_ID", "STATUS_A", "STATUS_B"}

LEMMA FramesAre == Frames = [id : Ids, ok : BOOLEAN, sample : Samples]
  BY DEF Frames, Ids

LEMMA NoSampleIsSample == NoSample \in Samples
  BY BoundsAssumption DEF Samples, NoSample

LEMMA PlainFrame ==
    ASSUME NEW id \in Ids
    PROVE  Frame(id) \in Frames /\ Frame(id).id = id
  BY FramesAre, NoSampleIsSample DEF Frame

LEMMA ResultFrame ==
    ASSUME NEW ok \in BOOLEAN
    PROVE  Result(ok) \in Frames /\ Result(ok).id = "AUTH_RESULT"
  BY FramesAre, NoSampleIsSample DEF Result, Ids

LEMMA StatusFrame ==
    ASSUME NEW id \in Ids, NEW s \in Samples
    PROVE  Status(id, s) \in Frames /\ Status(id, s).id = id /\ Status(id, s).sample = s
  BY FramesAre DEF Status

\* Buffer b is `buf` with n copies of a frame behind it.
Grown(buf, b, frame, n) ==
    /\ b \in Seq(Frames) /\ Len(buf) \in Nat /\ Len(b) = Len(buf) + n
    /\ \A j \in 1..Len(buf) : j \in 1..Len(b) /\ b[j] = buf[j]
    /\ \A j \in 1..Len(b) : j \in 1..Len(buf) \/ (j > Len(buf) /\ b[j] = frame)

LEMMA ArriveBuffer ==
    ASSUME NEW buf \in Seq(Frames), NEW frame \in Frames, NEW n \in 0..2
    PROVE  Grown(buf, Arrive(buf, frame, n), frame, n)
<1> DEFINE copies == [i \in 1..n |-> frame]
           b == buf \o copies
<1>1. copies \in Seq(Frames) /\ Len(copies) = n /\ \A i \in 1..n : copies[i] = frame
  OBVIOUS
<1> HIDE DEF copies
<1>2. Len(buf) \in Nat
  BY LenProperties
<1>3. /\ b \in Seq(Frames) /\ Len(b) = Len(buf) + n
      /\ \A j \in 1..Len(b) : b[j] = IF j <= Len(buf) THEN buf[j] ELSE copies[j - Len(buf)]
  BY <1>1, <1>2, ConcatProperties
<1>4. \A j \in 1..Len(b) : j > Len(buf) => b[j] = frame
  BY <1>1, <1>2, <1>3
<1>5. Grown(buf, b, frame, n)
  BY <1>2, <1>3, <1>4 DEF Grown
<1> QED
  BY <1>5 DEF Arrive, copies

\* The elements of a buffer whose head was read.
LEMMA TailAt ==
    ASSUME NEW buf \in Seq(Frames), buf # << >>, NEW b, b = Tail(buf)
    PROVE  /\ b \in Seq(Frames) /\ Len(buf) \in Nat /\ Len(b) \in Nat
           /\ Len(buf) = Len(b) + 1
           /\ \A j \in 1..Len(b) : j + 1 \in 1..Len(buf) /\ b[j] = buf[j + 1]
           /\ 1 \in 1..Len(buf) /\ Head(buf) = buf[1] /\ buf[1] \in Frames
<1>1. Len(buf) \in Nat /\ Len(buf) # 0
  BY LenProperties, EmptySeq
<1>2. b \in Seq(Frames) /\ Len(b) = Len(buf) - 1 /\ \A j \in 1..Len(b) : b[j] = buf[j + 1]
  BY HeadTailProperties
<1>3. Head(buf) = buf[1]
  OBVIOUS
<1>4. 1 \in 1..Len(buf) /\ buf[1] \in Frames
  BY <1>1, ElementOfSeq
<1> QED
  BY <1>1, <1>2, <1>3, <1>4

\* The samples of a buffer of frames.
LEMMA SamplesAt ==
    ASSUME NEW buf \in Seq(Frames)
    PROVE  \A j \in 1..Len(buf) : buf[j] \in Frames /\ buf[j].sample \in Samples
<1>1. \A j \in 1..Len(buf) : buf[j] \in Frames
  BY ElementOfSeq
<1>2. \A f \in Frames : f.sample \in Samples
  BY DEF Frames
<1> QED
  BY <1>1, <1>2

-----------------------------------------------------------------------------
\* What reading, sending and losing do to the order of a buffer

\* A frame that is read, or one of no sample that arrives, disturbs nothing.
LEMMA QuietBuffer ==
    ASSUME NEW t \in Seq(Frames), NEW b, NEW s,
           \/ b = t
           \/ t # << >> /\ b = Tail(t)
           \/ \E frame \in Frames, n \in 0..2 : /\ frame.id \notin {"STATUS_A", "STATUS_B"}
                                               /\ Grown(t, b, frame, n)
    PROVE  /\ InOrder(t) => InOrder(b)
           /\ Follows(t, s) => Follows(b, s)
           /\ Above(t, s) => Above(b, s)
           /\ Below(t, s) => Below(b, s)
<1>1. CASE b = t
  BY <1>1
<1>2. CASE t # << >> /\ b = Tail(t)
  <2>1. \A j \in 1..Len(b) : j + 1 \in 1..Len(t) /\ b[j] = t[j + 1]
    BY <1>2, TailAt
  <2>2. Len(b) \in Nat
    BY <1>2, TailAt
  <2>3. InOrder(t) => InOrder(b)
    <3>1. SUFFICES ASSUME InOrder(t), NEW i \in 1..Len(b), NEW j \in 1..Len(b),
                          i < j /\ b[i].id = "STATUS_A"
                   PROVE  /\ b[j].id = "STATUS_A" =>
                               \/ Earlier(b[i].sample, b[j].sample)
                               \/ /\ b[i].sample = b[j].sample
                                  /\ \A k \in i..j : b[k].id = "STATUS_A"
                          /\ b[j].id = "STATUS_B" => ~Earlier(b[j].sample, b[i].sample)
      BY DEF InOrder
    <3>2. /\ i + 1 \in 1..Len(t) /\ b[i] = t[i + 1]
          /\ j + 1 \in 1..Len(t) /\ b[j] = t[j + 1]
          /\ i + 1 < j + 1
      BY <2>1, <2>2, <3>1
    <3>3. (\A k \in (i + 1)..(j + 1) : t[k].id = "STATUS_A")
            => \A k \in i..j : b[k].id = "STATUS_A"
      BY <2>1, <2>2
    <3>4. /\ t[j + 1].id = "STATUS_A" =>
               \/ Earlier(t[i + 1].sample, t[j + 1].sample)
               \/ /\ t[i + 1].sample = t[j + 1].sample
                  /\ \A k \in (i + 1)..(j + 1) : t[k].id = "STATUS_A"
          /\ t[j + 1].id = "STATUS_B" => ~Earlier(t[j + 1].sample, t[i + 1].sample)
      BY <3>1, <3>2 DEF InOrder
    <3> QED
      BY <3>2, <3>3, <3>4
  <2>4. Follows(t, s) => Follows(b, s)
    <3>1. SUFFICES ASSUME Follows(t, s), NEW j \in 1..Len(b)
                   PROVE  /\ b[j].id = "STATUS_A" =>
                               \/ Earlier(s, b[j].sample)
                               \/ b[j].sample = s /\ \A k \in 1..j : b[k].id = "STATUS_A"
                          /\ b[j].id = "STATUS_B" => ~Earlier(b[j].sample, s)
      BY DEF Follows
    <3>2. j + 1 \in 1..Len(t) /\ b[j] = t[j + 1]
      BY <2>1
    <3>3. (\A k \in 1..(j + 1) : t[k].id = "STATUS_A") => \A k \in 1..j : b[k].id = "STATUS_A"
      BY <2>1, <2>2
    <3>4. /\ t[j + 1].id = "STATUS_A" =>
               \/ Earlier(s, t[j + 1].sample)
               \/ t[j + 1].sample = s /\ \A k \in 1..(j + 1) : t[k].id = "STATUS_A"
          /\ t[j + 1].id = "STATUS_B" => ~Earlier(t[j + 1].sample, s)
      BY <3>1, <3>2 DEF Follows
    <3> QED
      BY <3>2, <3>3, <3>4
  <2> QED
    BY <2>1, <2>3, <2>4 DEF Above, Below
<1>3. CASE \E frame \in Frames, n \in 0..2 : /\ frame.id \notin {"STATUS_A", "STATUS_B"}
                                            /\ Grown(t, b, frame, n)
  <2>1. PICK frame \in Frames, n \in 0..2 : /\ frame.id \notin {"STATUS_A", "STATUS_B"}
                                           /\ Grown(t, b, frame, n)
    BY <1>3
  <2>2. /\ Len(t) \in Nat /\ Len(b) \in Nat
        /\ \A j \in 1..Len(t) : j \in 1..Len(b) /\ b[j] = t[j]
        /\ \A j \in 1..Len(b) :
             b[j].id \in {"STATUS_A", "STATUS_B"} => j \in 1..Len(t) /\ b[j] = t[j]
    BY <2>1 DEF Grown
  <2>3. ASSUME NEW i \in 1..Len(t), NEW j \in 1..Len(t), \A k \in i..j : t[k].id = "STATUS_A"
        PROVE  \A k \in i..j : b[k].id = "STATUS_A"
    BY <2>2, <2>3
  <2>4. InOrder(t) => InOrder(b)
    BY <2>2, <2>3 DEF InOrder
  <2>5. Follows(t, s) => Follows(b, s)
    <3>1. \A j \in 1..Len(t) : 1 \in 1..Len(t)
      BY <2>2
    <3> QED
      BY <2>2, <2>3, <3>1 DEF Follows
  <2> QED
    BY <2>2, <2>4, <2>5 DEF Above, Below
<1> QED
  BY <1>1, <1>2, <1>3

\* The frames A of the next sample are later than everything before them.
LEMMA SampleStarts ==
    ASSUME NEW t \in Seq(Frames), NEW b, NEW n \in Samples, NEW next, NEW m \in 0..2,
           Grown(t, b, Status("STATUS_A", n), m),
           Earlier(n, next), \A r \in Samples : Earlier(r, n) => Earlier(r, next)
    PROVE  /\ InOrder(t) /\ Below(t, n) => InOrder(b) /\ Below(b, next)
           /\ \A s \in Samples : Earlier(s, n) =>
                /\ Follows(t, s) => Follows(b, s)
                /\ Above(t, s) => Above(b, s)
<1>1. /\ Status("STATUS_A", n).id = "STATUS_A" /\ Status("STATUS_A", n).sample = n
  BY StatusFrame DEF Ids
<1>2. /\ Len(t) \in Nat /\ Len(b) \in Nat
      /\ \A j \in 1..Len(t) : j \in 1..Len(b) /\ b[j] = t[j]
      /\ \A j \in 1..Len(b) :
           \/ j \in 1..Len(t) /\ b[j] = t[j]
           \/ j > Len(t) /\ b[j].id = "STATUS_A" /\ b[j].sample = n
  BY <1>1 DEF Grown
<1>3. ASSUME NEW i \in 1..Len(t), NEW j \in 1..Len(t), \A k \in i..j : t[k].id = "STATUS_A"
      PROVE  \A k \in i..j : b[k].id = "STATUS_A"
  BY <1>2, <1>3
<1>4. ASSUME InOrder(t), Below(t, n) PROVE InOrder(b)
  <2>1. SUFFICES ASSUME NEW i \in 1..Len(b), NEW j \in 1..Len(b),
                        i < j /\ b[i].id = "STATUS_A"
                 PROVE  /\ b[j].id = "STATUS_A" =>
                             \/ Earlier(b[i].sample, b[j].sample)
                             \/ /\ b[i].sample = b[j].sample
                                /\ \A k \in i..j : b[k].id = "STATUS_A"
                        /\ b[j].id = "STATUS_B" => ~Earlier(b[j].sample, b[i].sample)
    BY DEF InOrder
  <2>2. CASE i \in 1..Len(t) /\ j \in 1..Len(t)
    BY <1>2, <1>3, <1>4, <2>1, <2>2 DEF InOrder
  <2>3. CASE i \in 1..Len(t) /\ j > Len(t)
    BY <1>2, <1>4, <2>1, <2>3 DEF Below
  <2>4. CASE i > Len(t)
    <3>1. \A k \in i..j : k \in 1..Len(b) /\ k > Len(t)
      BY <1>2, <2>4
    <3>2. j > Len(t)
      BY <1>2, <2>1, <2>4
    <3> QED
      BY <1>2, <2>4, <3>1, <3>2
  <2> QED
    BY <1>2, <2>1, <2>2, <2>3, <2>4
<1>5. ASSUME Below(t, n) PROVE Below(b, next)
  BY <1>2, <1>5, SamplesAt DEF Below
<1>6. ASSUME NEW s \in Samples, Earlier(s, n), Follows(t, s) PROVE Follows(b, s)
  <2>1. \A j \in 1..Len(t) : 1 \in 1..Len(t)
    BY <1>2
  <2> QED
    BY <1>2, <1>3, <1>6, <2>1 DEF Follows
<1> QED
  BY <1>2, <1>4, <1>5, <1>6 DEF Above

\* Its frames B are not earlier than any of them.
LEMMA SampleEnds ==
    ASSUME NEW t \in Seq(Frames), NEW b, NEW n \in Samples, NEW next, NEW m \in 0..2,
           Grown(t, b, Status("STATUS_B", n), m), Earlier(n, next),
           \A r \in Samples : Earlier(r, next) => ~Earlier(n, r)
    PROVE  /\ InOrder(t) /\ Below(t, next) => InOrder(b) /\ Below(b, next)
           /\ \A s \in Samples : Earlier(s, next) =>
                /\ Follows(t, s) => Follows(b, s)
                /\ Above(t, s) => Above(b, s)
<1>1. /\ Status("STATUS_B", n).id = "STATUS_B" /\ Status("STATUS_B", n).sample = n
  BY StatusFrame DEF Ids
<1>2. /\ Len(t) \in Nat /\ Len(b) \in Nat
      /\ \A j \in 1..Len(t) : j \in 1..Len(b) /\ b[j] = t[j]
      /\ \A j \in 1..Len(b) :
           \/ j \in 1..Len(t) /\ b[j] = t[j]
           \/ j > Len(t) /\ b[j].id = "STATUS_B" /\ b[j].sample = n
  BY <1>1 DEF Grown
<1>3. ASSUME NEW i \in 1..Len(t), NEW j \in 1..Len(t), \A k \in i..j : t[k].id = "STATUS_A"
      PROVE  \A k \in i..j : b[k].id = "STATUS_A"
  BY <1>2, <1>3
<1>4. ASSUME InOrder(t), Below(t, next) PROVE InOrder(b)
  <2>1. SUFFICES ASSUME NEW i \in 1..Len(b), NEW j \in 1..Len(b),
                        i < j /\ b[i].id = "STATUS_A"
                 PROVE  /\ b[j].id = "STATUS_A" =>
                             \/ Earlier(b[i].sample, b[j].sample)
                             \/ /\ b[i].sample = b[j].sample
                                /\ \A k \in i..j : b[k].id = "STATUS_A"
                        /\ b[j].id = "STATUS_B" => ~Earlier(b[j].sample, b[i].sample)
    BY DEF InOrder
  <2>2. i \in 1..Len(t) /\ b[i] = t[i] /\ t[i].sample \in Samples
    BY <1>2, <2>1, SamplesAt
  <2>3. CASE j \in 1..Len(t) /\ b[j] = t[j]
    BY <1>3, <1>4, <2>1, <2>2, <2>3 DEF InOrder
  <2>4. CASE j > Len(t) /\ b[j].id = "STATUS_B" /\ b[j].sample = n
    BY <1>4, <2>1, <2>2, <2>4 DEF Below
  <2> QED
    BY <1>2, <2>3, <2>4
<1>5. ASSUME Below(t, next) PROVE Below(b, next)
  BY <1>2, <1>5 DEF Below
<1>6. ASSUME NEW s \in Samples, Earlier(s, next), Follows(t, s) PROVE Follows(b, s)
  <2>1. \A j \in 1..Len(t) : 1 \in 1..Len(t)
    BY <1>2
  <2> QED
    BY <1>2, <1>3, <1>6, <2>1 DEF Follows
<1> QED
  BY <1>2, <1>4, <1>5, <1>6 DEF Above

-----------------------------------------------------------------------------
\* Type correctness

\* What the steps below read of a state.
LEMMA Types ==
    ASSUME TypeInv
    PROVE  /\ boot \in Nat /\ counter \in Nat /\ faults \in Nat
           /\ MaxFaults \in Nat /\ MaxCounter \in Nat
           /\ boot <= MaxFaults + 1 /\ counter <= MaxCounter
           /\ Now \in Samples /\ pending \in Samples /\ NoSample \in Samples
           /\ toBattery \in Seq(Frames) /\ toVehicle \in Seq(Frames)
<1>1. /\ boot \in Nat /\ counter \in Nat /\ faults \in Nat
      /\ MaxFaults \in Nat /\ MaxCounter \in Nat
      /\ boot <= MaxFaults + 1 /\ counter <= MaxCounter
  BY BoundsAssumption DEF TypeInv, TypeOK
<1>2. Now \in Samples
  BY <1>1 DEF Now, Samples
<1> QED
  BY <1>1, <1>2, NoSampleIsSample DEF TypeInv, TypeOK

Courses == {"none", "asked", "opened", "heard", "missed"}

\* The environment after a step that may have been a fault.
Kept == faults' \in 0..MaxFaults /\ boot <= faults' + 1 /\ course' \in Courses

LEMMA Spending ==
    ASSUME TypeInv, NEW fault \in BOOLEAN, fault => Faulty, Spent(fault)
    PROVE  faults' \in 0..MaxFaults /\ boot <= faults' + 1
  BY Types DEF Spent, Faulty, TypeInv, TypeOK

LEMMA CourseType ==
    ASSUME TypeInv
    PROVE  /\ course \in Courses
           /\ \A arrived \in BOOLEAN : Noted(arrived) => course' \in Courses
  BY DEF Noted, Courses, TypeInv, TypeOK

LEMMA CopiesAre ==
    ASSUME NEW buf \in Seq(Frames), NEW frame \in Frames, NEW n \in Copies(buf, frame)
    PROVE  /\ n \in 0..2
           /\ frame.id \in Payloads => n \in 0..1
           /\ n \notin Plain(buf, frame) => Faulty
  BY DEF Copies, Plain

\* A frame was sent: the buffer it arrives in grew by its copies.
Sent(buf, b, frame) ==
    \E n \in 0..2 : Grown(buf, b, frame, n) /\ (frame.id \in Payloads => n \in 0..1)

LEMMA SentToVehicle ==
    ASSUME TypeInv, NEW frame \in Frames, ToVehicle(frame)
    PROVE  toVehicle' \in Seq(Frames) /\ Kept /\ Sent(toVehicle, toVehicle', frame)
<1>1. PICK n \in Copies(toVehicle, frame) :
        /\ toVehicle' = Arrive(toVehicle, frame, n)
        /\ Spent(n \notin Plain(toVehicle, frame))
        /\ Noted(n > 0)
  BY DEF ToVehicle
<1>2. /\ n \in 0..2 /\ (frame.id \in Payloads => n \in 0..1)
      /\ n \notin Plain(toVehicle, frame) => Faulty
  BY Types, CopiesAre
<1>3. Grown(toVehicle, toVehicle', frame, n)
  BY <1>1, <1>2, Types, ArriveBuffer
<1>4. faults' \in 0..MaxFaults /\ boot <= faults' + 1
  <2>1. (n \notin Plain(toVehicle, frame)) \in BOOLEAN
    OBVIOUS
  <2> QED
    BY <1>1, <1>2, <2>1, Spending
<1>5. course' \in Courses
  <2>1. (n > 0) \in BOOLEAN
    BY <1>2
  <2> QED
    BY <1>1, <2>1, CourseType
<1> QED
  BY <1>2, <1>3, <1>4, <1>5 DEF Grown, Kept, Sent

LEMMA SentToBattery ==
    ASSUME TypeInv, NEW frame \in Frames, NEW fault \in BOOLEAN, fault => Faulty,
           ToBattery(frame, fault)
    PROVE  toBattery' \in Seq(Frames) /\ Kept /\ Sent(toBattery, toBattery', frame)
<1>1. PICK n \in Copies(toBattery, frame) :
        /\ toBattery' = Arrive(toBattery, frame, n)
        /\ Spent(fault \/ n \notin Plain(toBattery, frame))
        /\ Noted(n > 0)
  BY DEF ToBattery
<1>2. /\ n \in 0..2 /\ (frame.id \in Payloads => n \in 0..1)
      /\ n \notin Plain(toBattery, frame) => Faulty
  BY Types, CopiesAre
<1>3. Grown(toBattery, toBattery', frame, n)
  BY <1>1, <1>2, Types, ArriveBuffer
<1>4. faults' \in 0..MaxFaults /\ boot <= faults' + 1
  <2>1. (fault \/ n \notin Plain(toBattery, frame)) \in BOOLEAN
    OBVIOUS
  <2> QED
    BY <1>1, <1>2, <2>1, Spending
<1>5. course' \in Courses
  <2>1. (n > 0) \in BOOLEAN
    BY <1>2
  <2> QED
    BY <1>1, <2>1, CourseType
<1> QED
  BY <1>2, <1>3, <1>4, <1>5 DEF Grown, Kept, Sent

\* The session's frame, and the repetition of it that is counted.
LEMMA SentSession ==
    ASSUME TypeInv, OpenSession
    PROVE  /\ toBattery' \in Seq(Frames) /\ Kept
           /\ \E n \in 0..2 :
                /\ Grown(toBattery, toBattery', Frame("SESSION_ID"), n)
                /\ done' = [s \in Steps |->
                     IF s = "sessions" \/ (s = "repeats" /\ n = 2) THEN done[s] + 1
                                                                 ELSE done[s]]
<1> DEFINE frame == Frame("SESSION_ID")
<1>1. PICK n \in Copies(toBattery, frame) :
        /\ toBattery' = Arrive(toBattery, frame, n)
        /\ Spent(n \notin Plain(toBattery, frame))
        /\ course' = IF course \notin {"asked", "opened"} THEN course
                     ELSE IF n > 0 THEN "opened" ELSE "missed"
        /\ done' = [s \in Steps |->
             IF s = "sessions" \/ (s = "repeats" /\ n = 2) THEN done[s] + 1 ELSE done[s]]
  BY DEF OpenSession
<1>2. frame \in Frames
  BY PlainFrame DEF Ids
<1> HIDE DEF frame
<1>3. n \in 0..2 /\ (n \notin Plain(toBattery, frame) => Faulty)
  BY <1>2, Types, CopiesAre
<1>4. Grown(toBattery, toBattery', frame, n)
  BY <1>1, <1>2, <1>3, Types, ArriveBuffer
<1>5. Kept
  <2>1. course' \in Courses
    BY <1>1, CourseType DEF Courses
  <2> QED
    BY <1>1, <1>3, <2>1, Spending DEF Kept
<1>6. toBattery' \in Seq(Frames)
  BY <1>4 DEF Grown
<1> QED
  BY <1>1, <1>3, <1>4, <1>5, <1>6 DEF frame

\* The request of the third node reaches both boards, or neither.
LEMMA SentRequests ==
    ASSUME TypeInv, ExternalRequest
    PROVE  /\ toBattery' \in Seq(Frames) /\ toVehicle' \in Seq(Frames) /\ Kept
           /\ Sent(toBattery, toBattery', Frame("AUTH_REQUEST"))
           /\ Sent(toVehicle, toVehicle', Frame("AUTH_REQUEST"))
<1> DEFINE frame == Frame("AUTH_REQUEST")
<1>1. PICK m \in Copies(toBattery, frame), n \in Copies(toVehicle, frame) :
        /\ toBattery' = Arrive(toBattery, frame, m)
        /\ toVehicle' = Arrive(toVehicle, frame, n)
        /\ Spent(m \notin Plain(toBattery, frame) \/ n \notin Plain(toVehicle, frame))
        /\ course' = IF ~Faulty /\ m > 0 /\ n > 0 THEN "asked"
                     ELSE IF course \in {"asked", "opened"} THEN "missed"
                     ELSE course
  BY DEF ExternalRequest
<1>2. frame \in Frames /\ frame.id \notin Payloads
  BY PlainFrame DEF Ids, Payloads
<1> HIDE DEF frame
<1>3. /\ m \in 0..2 /\ (m \notin Plain(toBattery, frame) => Faulty)
      /\ n \in 0..2 /\ (n \notin Plain(toVehicle, frame) => Faulty)
  BY <1>2, Types, CopiesAre
<1>4. Grown(toBattery, toBattery', frame, m) /\ Grown(toVehicle, toVehicle', frame, n)
  BY <1>1, <1>2, <1>3, Types, ArriveBuffer
<1>5. Kept
  <2>1. course' \in Courses
    BY <1>1, CourseType DEF Courses
  <2> QED
    BY <1>1, <1>3, <2>1, Spending DEF Kept
<1>6. toBattery' \in Seq(Frames) /\ toVehicle' \in Seq(Frames)
  BY <1>4 DEF Grown
<1>7. Sent(toBattery, toBattery', frame) /\ Sent(toVehicle, toVehicle', frame)
  BY <1>2, <1>3, <1>4 DEF Sent
<1> QED
  BY <1>5, <1>6, <1>7 DEF frame

LEMMA BatteryReadTypes ==
    ASSUME TypeInv, NEW id, BatteryReads(id)
    PROVE  /\ toBattery' \in Seq(Frames) /\ Head(toBattery) \in Frames
           /\ stage' = "sign"
           /\ UNCHANGED <<counter, boot, vState, vStage, last_counter, pending, have_frame_a,
                          accepted, requests, lost>>
  BY Types, TailAt DEF BatteryReads, vehicleVars

LEMMA VehicleReadTypes ==
    ASSUME TypeInv, NEW id, VehicleReads(id)
    PROVE  /\ toVehicle' \in Seq(Frames) /\ Head(toVehicle) \in Frames
           /\ Head(toVehicle).sample \in Samples
           /\ vStage = "receive"
           /\ UNCHANGED <<bState, stage, has_challenge, counter, boot, requests, lost>>
<1>1. toVehicle' \in Seq(Frames) /\ Head(toVehicle) \in Frames
  BY Types, TailAt DEF VehicleReads
<1>2. Head(toVehicle).sample \in Samples
  BY <1>1, FramesAre
<1> QED
  BY <1>1, <1>2 DEF VehicleReads, batteryVars

LEMMA StepsCounted ==
    ASSUME TypeOK, NEW step \in Steps, Count(step)
    PROVE  done' \in [Steps -> Nat]
  BY DEF TypeOK, Count

LEMMA BatteryTypes == TypeInv /\ BatteryLoop => TypeInv'
<1> SUFFICES ASSUME TypeInv, BatteryLoop PROVE TypeInv'
  OBVIOUS
<1> USE DEF TypeInv, vehicleVars
<1>1. CASE Advertise
  <2>1. /\ toVehicle' \in Seq(Frames) /\ Kept
    <3>1. Frame("AUTH_REQUEST") \in Frames
      BY PlainFrame DEF Ids
    <3>2. CASE ToVehicle(Frame("AUTH_REQUEST"))
      BY <3>1, <3>2, SentToVehicle
    <3>3. CASE UNCHANGED <<toVehicle, faults, course>>
      BY <3>3, Types, CourseType DEF TypeOK, Kept
    <3> QED
      BY <1>1, <3>2, <3>3 DEF Advertise
  <2> QED
    BY <1>1, <2>1 DEF Advertise, TypeOK, Stages, Kept, Courses
<1>2. CASE NoFrameForBattery
  BY <1>2 DEF NoFrameForBattery, TypeOK, Stages
<1>3. CASE BatteryAuthRequest
  <2>1. toVehicle' \in Seq(Frames) /\ Kept
    BY <1>3, PlainFrame, SentToVehicle DEF BatteryAuthRequest, Ids
  <2>2. done' \in [Steps -> Nat]
    BY <1>3, StepsCounted DEF BatteryAuthRequest, Steps
  <2> QED
    BY <1>3, <2>1, <2>2, BatteryReadTypes
       DEF BatteryAuthRequest, TypeOK, Stages, States, Kept, Courses
<1>4. CASE BatteryNonce
  BY <1>4, BatteryReadTypes DEF BatteryNonce, TypeOK, Stages, States
<1>5. CASE BatteryAuthResult
  BY <1>5, BatteryReadTypes DEF BatteryAuthResult, TypeOK, Stages, States
<1>6. CASE BatterySession
  <2>1. done' \in [Steps -> Nat]
    BY <1>6, StepsCounted DEF BatterySession, Steps
  <2> QED
    BY <1>6, <2>1, BatteryReadTypes DEF BatterySession, TypeOK, Stages, States
<1>7. CASE SignChallenge
  <2>1. toVehicle' \in Seq(Frames) /\ Kept
    BY <1>7, PlainFrame, SentToVehicle DEF SignChallenge, Ids
  <2>2. done' \in [Steps -> Nat]
    BY <1>7, StepsCounted DEF SignChallenge, Steps
  <2> QED
    BY <1>7, <2>1, <2>2 DEF SignChallenge, TypeOK, Stages, Kept, Courses
<1>8. CASE NothingSigned
  <2>1. faults' \in 0..MaxFaults /\ boot <= faults' + 1
    BY <1>8, Spending DEF NothingSigned
  <2> QED
    BY <1>8, <2>1 DEF NothingSigned, TypeOK, Stages
<1>9. CASE SendStatusA
  <2>1. toVehicle' \in Seq(Frames) /\ Kept
    <3>1. Status("STATUS_A", <<boot, counter>>) \in Frames
      BY StatusFrame, Types DEF Ids, Now
    <3>2. CASE ToVehicle(Status("STATUS_A", <<boot, counter>>))
      BY <3>1, <3>2, SentToVehicle
    <3>3. CASE Faulty /\ Spent(TRUE) /\ UNCHANGED <<toVehicle, course>>
      BY <3>3, Types, Spending, CourseType DEF Kept
    <3> QED
      BY <1>9, <3>2, <3>3 DEF SendStatusA
  <2>2. counter' = counter + 1 /\ counter' \in 0..MaxCounter /\ counter' > 0
    BY <1>9, Types DEF SendStatusA
  <2>3. lost' \subseteq Samples
    BY <1>9, Types DEF SendStatusA, TypeOK, Now
  <2>4. stage' \in Stages
    BY <1>9 DEF SendStatusA, Stages
  <2> QED
    BY <1>9, <2>1, <2>2, <2>3, <2>4 DEF SendStatusA, TypeOK, Kept, Courses
<1>10. CASE SendStatusB
  <2>1. <<boot, counter - 1>> \in Samples
    BY <1>10, Types DEF SendStatusB, Samples
  <2>2. toVehicle' \in Seq(Frames) /\ Kept
    BY <1>10, <2>1, StatusFrame, SentToVehicle DEF SendStatusB, Ids
  <2> QED
    BY <1>10, <2>2 DEF SendStatusB, TypeOK, Stages, Kept, Courses
<1>11. CASE NoStatus
  BY <1>11 DEF NoStatus, TypeOK, Stages
<1> QED
  BY <1>1, <1>2, <1>3, <1>4, <1>5, <1>6, <1>7, <1>8, <1>9, <1>10, <1>11 DEF BatteryLoop

LEMMA VehicleTypes == TypeInv /\ VehicleLoop => TypeInv'
<1> SUFFICES ASSUME TypeInv, VehicleLoop PROVE TypeInv'
  OBVIOUS
<1> USE DEF TypeInv
<1>1. CASE VehicleStatusA
  BY <1>1, VehicleReadTypes DEF VehicleStatusA, TypeOK
<1>2. CASE VehicleStatusB
  <2>1. pending[2] \in 0..MaxCounter
    BY Types DEF Samples
  <2>2. /\ last_counter' \in 0..MaxCounter
        /\ accepted' \in Seq([session : Nat, a : Samples, b : Samples])
        /\ Kept
    <3>1. Head(toVehicle).sample \in Samples /\ done["sessions"] \in Nat /\ pending \in Samples
      BY <1>2, Types, VehicleReadTypes DEF VehicleStatusB, TypeOK, Steps
    <3>2. [session |-> done["sessions"], a |-> pending, b |-> Head(toVehicle).sample]
             \in [session : Nat, a : Samples, b : Samples]
      BY <3>1
    <3>3. /\ accepted \in Seq([session : Nat, a : Samples, b : Samples])
          /\ last_counter \in 0..MaxCounter /\ course \in Courses
          /\ faults \in 0..MaxFaults /\ boot <= faults + 1
      BY DEF TypeOK, Courses
    <3>4. CASE Faulty /\ Spent(TRUE) /\ UNCHANGED <<last_counter, accepted, course>>
      BY <3>3, <3>4, Spending DEF Kept
    <3>5. CASE UNCHANGED <<last_counter, accepted, faults, course>>
      BY <3>3, <3>5 DEF Kept
    <3>6. CASE /\ accepted' = Append(accepted, [session |-> done["sessions"],
                                  a |-> pending, b |-> Head(toVehicle).sample])
               /\ last_counter' = pending[2] /\ UNCHANGED faults
               /\ course' = IF course = "opened" THEN "heard" ELSE course
      <4>1. Kept
        BY <3>3, <3>6 DEF Kept, Courses
      <4> QED
        BY <2>1, <3>2, <3>3, <3>6, <4>1, AppendProperties
    <3> QED
      BY <1>2, <3>4, <3>5, <3>6 DEF VehicleStatusB
  <2> QED
    BY <1>2, <2>2, VehicleReadTypes DEF VehicleStatusB, TypeOK, Kept, Courses
<1>3. CASE VehicleIgnoresStatus
  BY <1>3, VehicleReadTypes DEF VehicleIgnoresStatus, vehicleVars, TypeOK
<1>4. CASE VehicleAuthRequest
  BY <1>4, VehicleReadTypes DEF VehicleAuthRequest, TypeOK, States
<1>5. CASE VehicleCertificate
  <2>1. toBattery' \in Seq(Frames) /\ done' \in [Steps -> Nat] /\ Kept
    <3>1. CASE ToBattery(Frame("NONCE"), FALSE) /\ Count("challenges")
      BY <3>1, PlainFrame, SentToBattery, StepsCounted DEF Ids, Steps
    <3>2. CASE Faulty /\ Spent(TRUE) /\ UNCHANGED <<toBattery, done, course>>
      BY <3>2, Types, Spending, CourseType DEF Kept, TypeOK
    <3> QED
      BY <1>5, <3>1, <3>2 DEF VehicleCertificate
  <2>2. vState' \in States
    BY <1>5 DEF VehicleCertificate, States
  <2> QED
    BY <1>5, <2>1, <2>2, VehicleReadTypes DEF VehicleCertificate, TypeOK, Kept, Courses
<1>6. CASE VehicleSignature
  <2>1. PICK verdict \in BOOLEAN :
          /\ ~verdict => Faulty
          /\ vState' = IF verdict THEN "AUTHENTICATED" ELSE "DISCONNECTED"
          /\ vStage' = IF verdict THEN "session" ELSE "receive"
          /\ ToBattery(Result(verdict), ~verdict)
    BY <1>6 DEF VehicleSignature
  <2>2. toBattery' \in Seq(Frames) /\ Kept
    BY <2>1, ResultFrame, SentToBattery
  <2> QED
    BY <1>6, <2>1, <2>2, VehicleReadTypes
       DEF VehicleSignature, TypeOK, States, Kept, Courses
<1>7. CASE VehicleSession
  <2>1. toBattery' \in Seq(Frames) /\ Kept
    BY <1>7, SentSession DEF VehicleSession
  <2>2. done' \in [Steps -> Nat]
    <3>1. PICK n \in 0..2 :
            done' = [s \in Steps |->
               IF s = "sessions" \/ (s = "repeats" /\ n = 2) THEN done[s] + 1 ELSE done[s]]
      BY <1>7, SentSession DEF VehicleSession
    <3>2. \A s \in Steps : done[s] \in Nat
      BY DEF TypeOK
    <3> QED
      BY <3>1, <3>2
  <2>3. /\ vStage' = "receive" /\ vState' = "ACTIVE_SESSION" /\ last_counter' = 0
        /\ UNCHANGED <<batteryVars, requests, pending, have_frame_a, accepted, toVehicle,
                       lost>>
    BY <1>7 DEF VehicleSession, OpenSession
  <2>4. last_counter' \in 0..MaxCounter /\ vState' \in States
    BY <2>3, BoundsAssumption DEF States
  <2> QED
    BY <2>1, <2>2, <2>3, <2>4 DEF batteryVars, TypeOK, Kept, Courses
<1> QED
  BY <1>1, <1>2, <1>3, <1>4, <1>5, <1>6, <1>7 DEF VehicleLoop

LEMMA OtherTypes ==
    /\ TypeInv
    /\ ExternalRequest \/ FaultsEnd \/ BatteryReboot \/ VehicleReboot \/ UNCHANGED vars
    => TypeInv'
<1> SUFFICES ASSUME TypeInv,
                    \/ ExternalRequest \/ FaultsEnd \/ BatteryReboot \/ VehicleReboot
                    \/ UNCHANGED vars
             PROVE  TypeInv'
  OBVIOUS
<1> USE DEF TypeInv, batteryVars, vehicleVars
<1>1. CASE ExternalRequest
  <2>1. toBattery' \in Seq(Frames) /\ toVehicle' \in Seq(Frames) /\ Kept
    BY <1>1, SentRequests
  <2>2. requests' \in 0..MaxRequests
    BY <1>1, BoundsAssumption DEF ExternalRequest, TypeOK
  <2> QED
    BY <1>1, <2>1, <2>2 DEF ExternalRequest, TypeOK, Kept, Courses
<1>2. CASE BatteryReboot
  <2>1. << >> \in Seq(Frames)
    BY EmptySeq
  <2>2. /\ faults' = faults + 1 /\ faults' \in 0..MaxFaults
        /\ boot' = boot + 1 /\ boot' <= faults' + 1 /\ boot' \in 1..(MaxFaults + 1)
        /\ counter' \in 0..MaxCounter
    BY <1>2, Types DEF BatteryReboot, Reboot, Faulty, Spent, TypeOK
  <2> QED
    BY <1>2, <2>1, <2>2 DEF BatteryReboot, Reboot, TypeOK, States, Stages
<1>3. CASE VehicleReboot
  <2>1. << >> \in Seq(Frames)
    BY EmptySeq
  <2>2. /\ faults' = faults + 1 /\ faults' \in 0..MaxFaults /\ boot <= faults' + 1
        /\ last_counter' \in 0..MaxCounter
    BY <1>3, Types DEF VehicleReboot, Reboot, Faulty, Spent, TypeOK
  <2> QED
    BY <1>3, <2>1, <2>2, NoSampleIsSample DEF VehicleReboot, Reboot, TypeOK, States
<1>4. CASE FaultsEnd
  <2>1. faults' \in 0..MaxFaults /\ boot <= faults' + 1
    BY <1>4, Types DEF FaultsEnd, Faulty
  <2> QED
    BY <1>4, <2>1 DEF FaultsEnd, TypeOK
<1>5. CASE UNCHANGED vars
  BY <1>5 DEF vars, TypeOK
<1> QED
  BY <1>1, <1>2, <1>3, <1>4, <1>5

LEMMA TypesBegin == Init => TypeInv
<1> SUFFICES ASSUME Init PROVE TypeInv
  OBVIOUS
<1>1. /\ << >> \in Seq(Frames)
      /\ << >> \in Seq([session : Nat, a : Samples, b : Samples])
  BY EmptySeq
<1>2. done \in [Steps -> Nat]
  BY DEF Init
<1>3. /\ 0 \in 0..MaxCounter /\ 0 \in 0..MaxRequests /\ 0 \in 0..MaxFaults
      /\ 1 \in 1..(MaxFaults + 1) /\ NoSample \in Samples
  BY BoundsAssumption, NoSampleIsSample
<1>4. /\ toBattery \in Seq(Frames) /\ toVehicle \in Seq(Frames)
      /\ accepted \in Seq([session : Nat, a : Samples, b : Samples])
      /\ lost \subseteq Samples /\ course = "none"
  BY <1>1 DEF Init
<1>5. /\ bState = "DISCONNECTED" /\ stage = "advertise" /\ vState = "DISCONNECTED"
      /\ vStage = "receive" /\ has_challenge = FALSE /\ have_frame_a = FALSE
      /\ counter = 0 /\ last_counter = 0 /\ requests = 0 /\ faults = 0 /\ boot = 1
      /\ pending = NoSample
  BY DEF Init
<1>6. /\ bState \in States /\ vState \in States /\ stage \in Stages
      /\ vStage \in {"receive", "session"}
      /\ has_challenge \in BOOLEAN /\ have_frame_a \in BOOLEAN
  BY <1>5 DEF States, Stages
<1>7. /\ counter \in 0..MaxCounter /\ last_counter \in 0..MaxCounter
      /\ requests \in 0..MaxRequests /\ faults \in 0..MaxFaults
      /\ boot \in 1..(MaxFaults + 1) /\ pending \in Samples
  BY <1>3, <1>5
<1>8. TypeOK
  BY <1>2, <1>4, <1>6, <1>7 DEF TypeOK
<1> QED
  BY <1>5, <1>8 DEF TypeInv

LEMMA TypesHold == Spec => []TypeInv
<1>1. TypeInv /\ [Next]_vars => TypeInv'
  BY BatteryTypes, VehicleTypes, OtherTypes DEF Next
<1> QED
  BY <1>1, TypesBegin, PTL DEF Spec


\* Every value either sketch keeps, and every frame on the bus, is one it can
\* have, for any number of requests, faults and samples.
THEOREM TypeCorrect == Spec => []TypeOK
<1>1. TypeInv => TypeOK
  BY DEF TypeInv
<1> QED
  BY <1>1, TypesHold, PTL

-----------------------------------------------------------------------------
\* The order of the samples

\* A buffer that lost, or got, nothing that carries a sample.
Undisturbed(t, b) ==
    \/ b = t
    \/ t # << >> /\ b = Tail(t)
    \/ \E frame \in Frames, n \in 0..2 : /\ frame.id \notin {"STATUS_A", "STATUS_B"}
                                        /\ Grown(t, b, frame, n)

\* A step that takes no sample, sends none and handles none.
QuietStep ==
    /\ Undisturbed(toVehicle, toVehicle')
    /\ UNCHANGED <<boot, counter, pending, have_frame_a, accepted>>

LEMMA OtherFramesUndisturbed ==
    ASSUME TypeInv, NEW id \in Ids, id \notin {"STATUS_A", "STATUS_B"},
           ToVehicle(Frame(id))
    PROVE  Undisturbed(toVehicle, toVehicle')
<1> DEFINE frame == Frame(id)
<1>1. frame \in Frames /\ frame.id = id
  BY PlainFrame
<1>2. ToVehicle(frame)
  OBVIOUS
<1> HIDE DEF frame
<1>3. Sent(toVehicle, toVehicle', frame)
  BY <1>1, <1>2, SentToVehicle
<1> QED
  BY <1>1, <1>3 DEF Undisturbed, Sent

\* All steps but six are quiet.
LEMMA QuietSteps ==
    ASSUME TypeInv, Next
    PROVE  \/ QuietStep
           \/ SendStatusA \/ SendStatusB \/ BatteryReboot
           \/ VehicleStatusA \/ VehicleStatusB \/ VehicleReboot
<1> USE DEF vehicleVars, batteryVars
<1>1. Advertise => QuietStep
  BY OtherFramesUndisturbed DEF Advertise, QuietStep, Undisturbed, Ids
<1>2. NoFrameForBattery \/ NothingSigned \/ NoStatus => QuietStep
  BY DEF NoFrameForBattery, NothingSigned, NoStatus, QuietStep, Undisturbed
<1>3. BatteryNonce \/ BatteryAuthResult \/ BatterySession => QuietStep
  BY DEF BatteryNonce, BatteryAuthResult, BatterySession, BatteryReads, QuietStep,
         Undisturbed
<1>4. BatteryAuthRequest => QuietStep
  BY OtherFramesUndisturbed DEF BatteryAuthRequest, BatteryReads, QuietStep, Ids
<1>5. SignChallenge => QuietStep
  BY OtherFramesUndisturbed DEF SignChallenge, QuietStep, Ids
<1>6. VehicleIgnoresStatus => QuietStep
  BY DEF VehicleIgnoresStatus, VehicleReads, QuietStep, Undisturbed
<1>7. VehicleAuthRequest \/ VehicleCertificate \/ VehicleSignature => QuietStep
  BY DEF VehicleAuthRequest, VehicleCertificate, VehicleSignature, VehicleReads, QuietStep,
         Undisturbed
<1>8. VehicleSession => QuietStep
  BY DEF VehicleSession, OpenSession, QuietStep, Undisturbed
<1>9. ExternalRequest => QuietStep
  <2>1. SUFFICES ASSUME ExternalRequest PROVE QuietStep
    OBVIOUS
  <2> DEFINE frame == Frame("AUTH_REQUEST")
  <2>2. frame \in Frames /\ frame.id = "AUTH_REQUEST"
    BY PlainFrame DEF Ids
  <2>3. Sent(toVehicle, toVehicle', frame)
    BY <2>1, SentRequests
  <2> HIDE DEF frame
  <2>4. Undisturbed(toVehicle, toVehicle')
    BY <2>2, <2>3 DEF Undisturbed, Sent
  <2> QED
    BY <2>1, <2>4 DEF ExternalRequest, QuietStep
<1>10. FaultsEnd => QuietStep
  BY DEF FaultsEnd, QuietStep, Undisturbed
<1> QED
  BY <1>1, <1>2, <1>3, <1>4, <1>5, <1>6, <1>7, <1>8, <1>9, <1>10
     DEF Next, BatteryLoop, VehicleLoop

LEMMA QuietOrder ==
    ASSUME TypeInv, SamplesInOrder, QuietStep
    PROVE  SamplesInOrder'
<1>1. \A s : /\ InOrder(toVehicle) => InOrder(toVehicle')
             /\ Follows(toVehicle, s) => Follows(toVehicle', s)
             /\ Above(toVehicle, s) => Above(toVehicle', s)
             /\ Below(toVehicle, s) => Below(toVehicle', s)
  BY Types, QuietBuffer DEF QuietStep, Undisturbed
<1>2. Now' = Now /\ UNCHANGED <<pending, have_frame_a, accepted>>
  BY DEF QuietStep, Now
<1>3. AcceptedInOrder' /\ NeverStaleValues'
  BY <1>2 DEF SamplesInOrder, AcceptedInOrder, NeverStaleValues
<1>4. InOrder(toVehicle') /\ Below(toVehicle', Now)
  BY <1>1 DEF SamplesInOrder
<1>5. have_frame_a => Earlier(pending, Now) /\ Follows(toVehicle', pending)
  BY <1>1 DEF SamplesInOrder
<1>6. \A n \in 1..Len(accepted) :
         /\ Earlier(accepted[n].a, Now)
         /\ Above(toVehicle', accepted[n].a)
         /\ have_frame_a => Earlier(accepted[n].a, pending)
  BY <1>1 DEF SamplesInOrder
<1> QED
  BY <1>2, <1>3, <1>4, <1>5, <1>6 DEF SamplesInOrder, InOrder, Below, Follows, Above

\* What was accepted are samples.
LEMMA AcceptedSamples ==
    ASSUME TypeInv
    PROVE  /\ accepted \in Seq([session : Nat, a : Samples, b : Samples])
           /\ Len(accepted) \in Nat
           /\ \A n \in 1..Len(accepted) :
                accepted[n].a \in Samples /\ accepted[n].b \in Samples
<1>1. accepted \in Seq([session : Nat, a : Samples, b : Samples])
  BY DEF TypeInv, TypeOK
<1>2. \A n \in 1..Len(accepted) : accepted[n] \in [session : Nat, a : Samples, b : Samples]
  BY <1>1, ElementOfSeq
<1> QED
  BY <1>1, <1>2, LenProperties

\* Taking the next sample, with or without a frame A that gets out, keeps
\* everything before it.
LEMMA SendAOrder ==
    ASSUME TypeInv, SamplesInOrder, SendStatusA
    PROVE  SamplesInOrder'
<1>1. /\ counter' = counter + 1 /\ UNCHANGED <<boot, pending, have_frame_a, accepted>>
      /\ Now' = <<boot, counter + 1>>
  BY DEF SendStatusA, vehicleVars, Now
<1>2. \/ toVehicle' = toVehicle
      \/ \E m \in 0..2 : Grown(toVehicle, toVehicle', Status("STATUS_A", Now), m)
  <2> DEFINE frame == Status("STATUS_A", Now)
  <2>1. frame \in Frames
    BY Types, StatusFrame DEF Ids
  <2>2. ToVehicle(frame) \/ UNCHANGED toVehicle
    BY DEF SendStatusA, Now
  <2> HIDE DEF frame
  <2>3. toVehicle' = toVehicle \/ Sent(toVehicle, toVehicle', frame)
    BY <2>1, <2>2, SentToVehicle
  <2> QED
    BY <2>3 DEF frame, Sent
<1>3. Earlier(Now, Now') /\ \A r \in Samples : Earlier(r, Now) => Earlier(r, Now')
  <2>1. \A r \in Samples : Earlier(r, Now) => Earlier(r, Now')
    BY <1>1, Types, NextIsLater DEF Now
  <2>2. Earlier(Now, Now')
    BY <1>1, Types DEF Now, Earlier
  <2> QED
    BY <2>1, <2>2
<1>4. InOrder(toVehicle') /\ Below(toVehicle', Now')
  <2>1. CASE toVehicle' = toVehicle
    <3>1. \A j \in 1..Len(toVehicle) : toVehicle[j].sample \in Samples
      BY Types, SamplesAt
    <3>2. InOrder(toVehicle) /\ Below(toVehicle, Now)
      BY DEF SamplesInOrder
    <3>3. Below(toVehicle, Now')
      BY <1>3, <3>1, <3>2 DEF Below
    <3> QED
      BY <2>1, <3>2, <3>3
  <2>2. CASE \E m \in 0..2 : Grown(toVehicle, toVehicle', Status("STATUS_A", Now), m)
    BY <1>3, <2>2, Types, SampleStarts DEF SamplesInOrder
  <2> QED
    BY <1>2, <2>1, <2>2
<1>5. have_frame_a => Earlier(pending, Now') /\ Follows(toVehicle', pending)
  BY <1>2, <1>3, Types, SampleStarts DEF SamplesInOrder
<1>6. ASSUME NEW n \in 1..Len(accepted)
      PROVE  /\ Earlier(accepted[n].a, Now')
             /\ Above(toVehicle', accepted[n].a)
             /\ have_frame_a => Earlier(accepted[n].a, pending)
  BY <1>2, <1>3, Types, AcceptedSamples, SampleStarts DEF SamplesInOrder
<1>7. AcceptedInOrder' /\ NeverStaleValues'
  BY <1>1 DEF SamplesInOrder, AcceptedInOrder, NeverStaleValues
<1> QED
  BY <1>1, <1>4, <1>5, <1>6, <1>7 DEF SamplesInOrder, InOrder, Below, Follows, Above

LEMMA SendBOrder ==
    ASSUME TypeInv, SamplesInOrder, SendStatusB
    PROVE  SamplesInOrder'
<1> DEFINE last == <<boot, counter - 1>>
<1>1. UNCHANGED <<boot, counter, pending, have_frame_a, accepted>> /\ Now' = Now
  BY DEF SendStatusB, vehicleVars, Now
<1>2. /\ counter > 0 /\ last \in Samples /\ Earlier(last, Now)
      /\ \A r \in Samples : Earlier(r, Now) => ~Earlier(last, r)
  <2>1. counter > 0
    BY DEF TypeInv, SendStatusB
  <2>2. last \in Samples
    BY <2>1, Types DEF Samples
  <2>3. Earlier(last, Now)
    BY <2>1, Types DEF Now, Earlier
  <2>4. \A r \in Samples : Earlier(r, Now) => ~Earlier(last, r)
    BY <2>1, Types, EarlierThanNext DEF Now
  <2> QED
    BY <2>1, <2>2, <2>3, <2>4
<1>3. \E m \in 0..2 : Grown(toVehicle, toVehicle', Status("STATUS_B", last), m)
  <2> DEFINE frame == Status("STATUS_B", last)
  <2>1. frame \in Frames
    BY <1>2, StatusFrame DEF Ids
  <2>2. ToVehicle(frame)
    BY DEF SendStatusB
  <2> HIDE DEF frame
  <2>3. Sent(toVehicle, toVehicle', frame)
    BY <2>1, <2>2, SentToVehicle
  <2> QED
    BY <2>3 DEF frame, Sent
<1> HIDE DEF last
<1>4. InOrder(toVehicle') /\ Below(toVehicle', Now)
  BY <1>2, <1>3, Types, SampleEnds DEF SamplesInOrder
<1>5. have_frame_a => Earlier(pending, Now) /\ Follows(toVehicle', pending)
  BY <1>2, <1>3, Types, SampleEnds DEF SamplesInOrder
<1>6. ASSUME NEW n \in 1..Len(accepted)
      PROVE  /\ Earlier(accepted[n].a, Now)
             /\ Above(toVehicle', accepted[n].a)
             /\ have_frame_a => Earlier(accepted[n].a, pending)
  BY <1>2, <1>3, Types, AcceptedSamples, SampleEnds DEF SamplesInOrder
<1>7. AcceptedInOrder' /\ NeverStaleValues'
  BY <1>1 DEF SamplesInOrder, AcceptedInOrder, NeverStaleValues
<1> QED
  BY <1>1, <1>4, <1>5, <1>6, <1>7 DEF SamplesInOrder, InOrder, Below, Follows, Above

\* The vehicle reads a frame A in a session: it is now the pending one.
LEMMA ReadAOrder ==
    ASSUME TypeInv, SamplesInOrder, VehicleStatusA
    PROVE  SamplesInOrder'
<1>1. /\ toVehicle # << >> /\ toVehicle' = Tail(toVehicle) /\ Head(toVehicle).id = "STATUS_A"
      /\ pending' = Head(toVehicle).sample /\ have_frame_a' = TRUE
      /\ UNCHANGED <<boot, counter, accepted>> /\ Now' = Now
  BY DEF VehicleStatusA, VehicleReads, batteryVars, Now
<1>2. /\ Len(toVehicle') \in Nat
      /\ \A j \in 1..Len(toVehicle') :
           j + 1 \in 1..Len(toVehicle) /\ toVehicle'[j] = toVehicle[j + 1]
      /\ 1 \in 1..Len(toVehicle) /\ Head(toVehicle) = toVehicle[1]
  BY <1>1, Types, TailAt
<1>3. InOrder(toVehicle') /\ Below(toVehicle', Now)
  BY <1>1, Types, QuietBuffer DEF SamplesInOrder
<1>4. Earlier(pending', Now)
  BY <1>1, <1>2 DEF SamplesInOrder, Below
<1>5. Follows(toVehicle', pending')
  <2>1. SUFFICES ASSUME NEW j \in 1..Len(toVehicle')
                 PROVE  /\ toVehicle'[j].id = "STATUS_A" =>
                             \/ Earlier(pending', toVehicle'[j].sample)
                             \/ /\ toVehicle'[j].sample = pending'
                                /\ \A k \in 1..j : toVehicle'[k].id = "STATUS_A"
                        /\ toVehicle'[j].id = "STATUS_B" => ~Earlier(toVehicle'[j].sample, pending')
    BY DEF Follows
  <2>2. /\ j + 1 \in 1..Len(toVehicle) /\ toVehicle'[j] = toVehicle[j + 1] /\ 1 < j + 1
        /\ toVehicle[1].id = "STATUS_A" /\ pending' = toVehicle[1].sample
    BY <1>1, <1>2
  <2>3. ASSUME \A k \in 1..(j + 1) : toVehicle[k].id = "STATUS_A", NEW k \in 1..j
        PROVE  toVehicle'[k].id = "STATUS_A"
    <3>1. k \in 1..Len(toVehicle') /\ k + 1 \in 1..(j + 1)
      BY <1>2
    <3> QED
      BY <1>2, <2>3, <3>1
  <2>4. InOrder(toVehicle)
    BY DEF SamplesInOrder
  <2>5. /\ toVehicle[j + 1].id = "STATUS_A" =>
             \/ Earlier(toVehicle[1].sample, toVehicle[j + 1].sample)
             \/ /\ toVehicle[1].sample = toVehicle[j + 1].sample
                /\ \A k \in 1..(j + 1) : toVehicle[k].id = "STATUS_A"
        /\ toVehicle[j + 1].id = "STATUS_B" =>
             ~Earlier(toVehicle[j + 1].sample, toVehicle[1].sample)
    BY <1>2, <2>2, <2>4 DEF InOrder
  <2> QED
    BY <2>2, <2>3, <2>5
<1>6. ASSUME NEW n \in 1..Len(accepted)
      PROVE  /\ Earlier(accepted[n].a, Now)
             /\ Above(toVehicle', accepted[n].a)
             /\ Earlier(accepted[n].a, pending')
  <2>1. Earlier(accepted[n].a, Now) /\ Above(toVehicle, accepted[n].a)
    BY DEF SamplesInOrder
  <2>2. Above(toVehicle', accepted[n].a)
    BY <1>1, <2>1, Types, QuietBuffer
  <2> QED
    BY <1>1, <1>2, <2>1, <2>2 DEF Above
<1>7. AcceptedInOrder' /\ NeverStaleValues'
  BY <1>1 DEF SamplesInOrder, AcceptedInOrder, NeverStaleValues
<1> QED
  BY <1>1, <1>3, <1>4, <1>5, <1>6, <1>7 DEF SamplesInOrder, InOrder, Below, Follows, Above

\* The vehicle reads a frame B that completes the pending sample: that one is
\* used up, whether it is accepted or not.
LEMMA ReadBOrder ==
    ASSUME TypeInv, SamplesInOrder, VehicleStatusB
    PROVE  SamplesInOrder'
<1> DEFINE value == Head(toVehicle).sample
           report == [session |-> done["sessions"], a |-> pending, b |-> value]
<1>1. /\ toVehicle # << >> /\ toVehicle' = Tail(toVehicle) /\ Head(toVehicle).id = "STATUS_B"
      /\ have_frame_a = TRUE /\ have_frame_a' = FALSE
      /\ accepted' = accepted \/ accepted' = Append(accepted, report)
      /\ UNCHANGED <<boot, counter, pending>> /\ Now' = Now
  BY DEF VehicleStatusB, VehicleReads, batteryVars, Now
<1>2. 1 \in 1..Len(toVehicle) /\ Head(toVehicle) = toVehicle[1] /\ value \in Samples
  BY <1>1, Types, TailAt, SamplesAt
<1>3. /\ Earlier(pending, Now) /\ Follows(toVehicle, pending) /\ pending \in Samples
      /\ Above(toVehicle, pending) /\ ~Earlier(value, pending)
  <2>1. Earlier(pending, Now) /\ Follows(toVehicle, pending)
    BY <1>1 DEF SamplesInOrder
  <2>2. \A j \in 1..Len(toVehicle) : 1 \in 1..j
    OBVIOUS
  <2>3. Above(toVehicle, pending)
    BY <1>1, <1>2, <2>1, <2>2 DEF Follows, Above
  <2> QED
    BY <1>1, <1>2, <2>1, <2>3, Types DEF Follows
<1>4. InOrder(toVehicle') /\ Below(toVehicle', Now)
  BY <1>1, Types, QuietBuffer DEF SamplesInOrder
<1>5. \A s : Above(toVehicle, s) => Above(toVehicle', s)
  BY <1>1, Types, QuietBuffer
<1> HIDE DEF value
<1>6. /\ report.a = pending /\ report.b = value
      /\ report \in [session : Nat, a : Samples, b : Samples]
  <2>1. done["sessions"] \in Nat
    BY DEF TypeInv, TypeOK, Steps
  <2> QED
    BY <1>2, <1>3, <2>1
<1> HIDE DEF report
<1>7. /\ Len(accepted) \in Nat /\ Len(accepted') \in Nat
      /\ \A n \in 1..Len(accepted') :
           \/ n \in 1..Len(accepted) /\ accepted'[n] = accepted[n]
           \/ n = Len(accepted) + 1 /\ accepted'[n] = report
  <2>1. CASE accepted' = accepted
    BY <2>1, AcceptedSamples
  <2>2. CASE accepted' = Append(accepted, report)
    BY <1>6, <2>2, AcceptedSamples, AppendProperties
  <2> QED
    BY <1>1, <2>1, <2>2
<1>8. \A n \in 1..Len(accepted) :
        /\ Earlier(accepted[n].a, Now) /\ Above(toVehicle, accepted[n].a)
        /\ Earlier(accepted[n].a, pending)
  BY <1>1 DEF SamplesInOrder
<1>9. \A n \in 1..Len(accepted') :
        Earlier(accepted'[n].a, Now) /\ Above(toVehicle', accepted'[n].a)
  BY <1>3, <1>5, <1>6, <1>7, <1>8
<1>10. AcceptedInOrder'
  <2>1. SUFFICES ASSUME NEW i \in 1..Len(accepted'), NEW j \in 1..Len(accepted'), i < j
                 PROVE  Earlier(accepted'[i].a, accepted'[j].a)
    BY DEF AcceptedInOrder
  <2>2. i \in 1..Len(accepted) /\ accepted'[i] = accepted[i]
    BY <1>7, <2>1
  <2>3. CASE j \in 1..Len(accepted) /\ accepted'[j] = accepted[j]
    BY <2>1, <2>2, <2>3 DEF SamplesInOrder, AcceptedInOrder
  <2>4. CASE accepted'[j] = report
    BY <1>6, <1>8, <2>2, <2>4
  <2> QED
    BY <1>7, <2>3, <2>4
<1>11. NeverStaleValues'
  <2>1. SUFFICES ASSUME NEW i \in 1..Len(accepted')
                 PROVE  ~Earlier(accepted'[i].b, accepted'[i].a)
    BY DEF NeverStaleValues
  <2>2. CASE i \in 1..Len(accepted) /\ accepted'[i] = accepted[i]
    BY <2>2 DEF SamplesInOrder, NeverStaleValues
  <2>3. CASE accepted'[i] = report
    BY <1>3, <1>6, <2>3
  <2> QED
    BY <1>7, <2>2, <2>3
<1> QED
  BY <1>1, <1>4, <1>9, <1>10, <1>11 DEF SamplesInOrder, InOrder, Below, Above

\* Samples of a new boot are later than all before.
LEMMA BatteryRebootOrder ==
    ASSUME TypeInv, SamplesInOrder, BatteryReboot
    PROVE  SamplesInOrder'
<1>1. /\ Now' = <<boot + 1, 0>>
      /\ UNCHANGED <<toVehicle, pending, have_frame_a, accepted>>
  BY DEF BatteryReboot, vehicleVars, Now
<1>2. \A r \in Samples : Earlier(r, Now) => Earlier(r, Now')
  BY <1>1, Types, NextIsLater DEF Now
<1>3. Below(toVehicle, Now')
  <2>1. \A j \in 1..Len(toVehicle) : toVehicle[j].sample \in Samples
    BY Types, SamplesAt
  <2>2. Below(toVehicle, Now)
    BY DEF SamplesInOrder
  <2> QED
    BY <1>2, <2>1, <2>2 DEF Below
<1>4. have_frame_a => Earlier(pending, Now')
  BY <1>2, Types DEF SamplesInOrder
<1>5. \A n \in 1..Len(accepted) : Earlier(accepted[n].a, Now')
  BY <1>2, AcceptedSamples DEF SamplesInOrder
<1>6. AcceptedInOrder' /\ NeverStaleValues'
  BY <1>1 DEF SamplesInOrder, AcceptedInOrder, NeverStaleValues
<1> QED
  BY <1>1, <1>3, <1>4, <1>5, <1>6 DEF SamplesInOrder, InOrder, Below, Follows, Above

LEMMA VehicleRebootOrder ==
    ASSUME TypeInv, SamplesInOrder, VehicleReboot
    PROVE  SamplesInOrder'
<1>1. /\ toVehicle' = << >> /\ have_frame_a' = FALSE
      /\ UNCHANGED accepted /\ Now' = Now
  BY DEF VehicleReboot, batteryVars, Now
<1>2. AcceptedInOrder' /\ NeverStaleValues'
  BY <1>1 DEF SamplesInOrder, AcceptedInOrder, NeverStaleValues
<1> QED
  BY <1>1, <1>2 DEF SamplesInOrder, InOrder, Below, Above

LEMMA SamplesStayInOrder == Spec => []SamplesInOrder
<1>1. Init => SamplesInOrder
  BY DEF Init, SamplesInOrder, InOrder, Below, AcceptedInOrder, NeverStaleValues
<1>2. TypeInv /\ SamplesInOrder /\ [Next]_vars => SamplesInOrder'
  <2>1. SUFFICES ASSUME TypeInv, SamplesInOrder, [Next]_vars PROVE SamplesInOrder'
    OBVIOUS
  <2>2. CASE Next
    BY <2>1, <2>2, QuietSteps, QuietOrder, SendAOrder, SendBOrder, ReadAOrder, ReadBOrder,
       BatteryRebootOrder, VehicleRebootOrder
  <2>3. CASE UNCHANGED vars
    <3>1. QuietStep
      BY <2>3 DEF vars, batteryVars, vehicleVars, QuietStep, Undisturbed
    <3> QED
      BY <2>1, <3>1, QuietOrder
  <2> QED
    BY <2>1, <2>2, <2>3
<1> QED
  BY <1>1, <1>2, TypesHold, PTL DEF Spec

\* The vehicle reports samples VALID in the order the battery took them, each
\* at most once, over any number of sessions and reboots.
THEOREM SamplesOnceAndInOrder == Spec => []AcceptedInOrder
<1>1. SamplesInOrder => AcceptedInOrder
  BY DEF SamplesInOrder
<1> QED
  BY <1>1, SamplesStayInOrder, PTL

\* The frame B that completes a pending frame A is of the same sample or of a
\* later one, so that a VALID report never shows values older than its counter
\* (vehicle.ino, handle_status_b()).
THEOREM ValuesNeverStale == Spec => []NeverStaleValues
<1>1. SamplesInOrder => NeverStaleValues
  BY DEF SamplesInOrder
<1> QED
  BY <1>1, SamplesStayInOrder, PTL

-----------------------------------------------------------------------------
\* The steps of the handshake

LEMMA WaitingIsNat ==
    ASSUME NEW buf \in Seq(Frames), NEW id
    PROVE  IsFiniteSet(At(buf, id)) /\ Waiting(buf, id) \in Nat
<1>1. IsFiniteSet(1..Len(buf))
  BY LenProperties, FS_Interval
<1>2. At(buf, id) \in SUBSET (1..Len(buf))
  BY DEF At
<1>3. IsFiniteSet(At(buf, id))
  BY <1>1, <1>2, FS_Subset
<1> QED
  BY <1>3, FS_CardinalityType DEF Waiting

LEMMA WaitingNone == \A id : Waiting(<< >>, id) = 0
<1> SUFFICES ASSUME NEW id PROVE Waiting(<< >>, id) = 0
  OBVIOUS
<1>1. At(<< >>, id) = {}
  BY DEF At
<1> QED
  BY <1>1, FS_EmptySet DEF Waiting

\* The copies of a frame are so many more of its kind, and none of another.
LEMMA WaitingGrown ==
    ASSUME NEW buf \in Seq(Frames), NEW b, NEW frame, NEW n \in 0..2,
           Grown(buf, b, frame, n), NEW id
    PROVE  /\ Waiting(buf, id) \in Nat /\ Waiting(b, id) \in Nat
           /\ Waiting(b, id) <= Waiting(buf, id) + n
           /\ frame.id # id => Waiting(b, id) <= Waiting(buf, id)
<1>1. /\ Len(buf) \in Nat /\ Len(b) = Len(buf) + n
      /\ \A j \in 1..Len(b) :
           \/ j \in 1..Len(buf) /\ b[j] = buf[j]
           \/ j > Len(buf) /\ b[j] = frame
      /\ \A j \in 1..Len(buf) : j \in 1..Len(b) /\ b[j] = buf[j]
      /\ b \in Seq(Frames)
  BY DEF Grown
<1>2. /\ Waiting(buf, id) \in Nat /\ IsFiniteSet(At(buf, id))
      /\ Waiting(b, id) \in Nat /\ IsFiniteSet(At(b, id))
  BY <1>1, WaitingIsNat
<1>3. CASE frame.id = id
  <2> DEFINE new == (Len(buf) + 1)..Len(b)
             known == At(buf, id)
  <2>1. IsFiniteSet(new) /\ Cardinality(new) = n
    <3>1. /\ Len(buf) + 1 \in Int /\ Len(b) \in Int
          /\ n = IF Len(buf) + 1 > Len(b) THEN 0 ELSE Len(b) - (Len(buf) + 1) + 1
      BY <1>1
    <3> QED
      BY <3>1, FS_Interval
  <2>2. At(b, id) = known \cup new
    BY <1>1, <1>3 DEF At
  <2> HIDE DEF new, known
  <2>3. /\ Cardinality(known \cup new)
             = Cardinality(known) + Cardinality(new) - Cardinality(known \cap new)
        /\ Cardinality(known \cap new) \in Nat
    <3>1. IsFiniteSet(known)
      BY <1>2 DEF known
    <3>2. IsFiniteSet(known \cap new)
      BY <3>1, FS_Intersection
    <3> QED
      BY <2>1, <3>1, <3>2, FS_Union, FS_CardinalityType
  <2>4. Cardinality(known) = Waiting(buf, id) /\ Cardinality(At(b, id)) = Waiting(b, id)
    BY DEF Waiting, known
  <2> QED
    BY <1>2, <1>3, <2>1, <2>2, <2>3, <2>4
<1>4. CASE frame.id # id
  <2>1. At(b, id) = At(buf, id)
    BY <1>1, <1>4 DEF At
  <2> QED
    BY <1>2, <2>1 DEF Waiting
<1> QED
  BY <1>3, <1>4

\* A frame that is read is one less of its kind.
LEMMA WaitingRead ==
    ASSUME NEW buf \in Seq(Frames), buf # << >>, NEW id
    PROVE  /\ Waiting(Tail(buf), id) <= Waiting(buf, id)
           /\ Head(buf).id = id => Waiting(Tail(buf), id) + 1 <= Waiting(buf, id)
<1> DEFINE b == Tail(buf)
           rest == At(buf, id) \ {1}
           next == [j \in At(b, id) |-> j + 1]
<1>1. /\ b \in Seq(Frames) /\ Len(buf) \in Nat /\ Len(b) \in Nat
      /\ \A j \in 1..Len(b) : j + 1 \in 1..Len(buf) /\ b[j] = buf[j + 1]
      /\ 1 \in 1..Len(buf) /\ Head(buf) = buf[1]
  BY TailAt
<1> HIDE DEF b
<1>2. next \in Injection(At(b, id), rest)
  <2>1. \A j \in At(b, id) : j \in Nat /\ j >= 1 /\ j + 1 \in rest
    BY <1>1 DEF At
  <2>2. next \in [At(b, id) -> rest]
    BY <2>1
  <2>3. \A i, j \in At(b, id) : next[i] = next[j] => i = j
    BY <2>1
  <2> QED
    BY <2>2, <2>3, Fun_IsInj
<1> HIDE DEF next
<1>3. IsFiniteSet(At(buf, id)) /\ IsFiniteSet(At(b, id))
      /\ Waiting(buf, id) \in Nat /\ Waiting(b, id) \in Nat
  BY <1>1, WaitingIsNat
<1>4. /\ IsFiniteSet(rest)
      /\ Cardinality(rest) = IF 1 \in At(buf, id) THEN Waiting(buf, id) - 1
                                                  ELSE Waiting(buf, id)
  BY <1>3, FS_RemoveElement DEF Waiting
<1> HIDE DEF rest
<1>5. Waiting(b, id) <= Cardinality(rest)
  BY <1>2, <1>4, FS_Injection DEF Waiting
<1>6. Head(buf).id = id => 1 \in At(buf, id)
  BY <1>1 DEF At
<1> QED
  BY <1>3, <1>4, <1>5, <1>6 DEF b

\* A payload arrives at most once.
LEMMA WaitingSent ==
    ASSUME NEW buf \in Seq(Frames), NEW b, NEW frame, Sent(buf, b, frame), NEW id
    PROVE  /\ Waiting(b, id) \in Nat
           /\ frame.id \in Payloads => Waiting(b, id) <= Waiting(buf, id) + 1
           /\ frame.id # id => Waiting(b, id) <= Waiting(buf, id)
<1>1. PICK n \in 0..2 : Grown(buf, b, frame, n) /\ (frame.id \in Payloads => n \in 0..1)
  BY DEF Sent
<1> QED
  BY <1>1, WaitingGrown

\* No more frames of the four kinds that pay for a step.
Paying == {"CERTIFICATE", "NONCE", "SIGNATURE", "SESSION_ID"}
NoMore(b, buf) ==
    \A id \in Paying : Waiting(b, id) \in Nat /\ Waiting(b, id) <= Waiting(buf, id)

\* What waits, and what was made, in numbers.
LEMMA Numbers ==
    ASSUME TypeInv
    PROVE  /\ \A id : Waiting(toBattery, id) \in Nat /\ Waiting(toVehicle, id) \in Nat
           /\ done["certificates"] \in Nat /\ done["challenges"] \in Nat
           /\ done["signatures"] \in Nat /\ done["sessions"] \in Nat
           /\ done["activations"] \in Nat /\ done["repeats"] \in Nat
  BY Types, WaitingIsNat DEF TypeInv, TypeOK, Steps

LEMMA CountedStep ==
    ASSUME TypeInv, NEW step \in Steps, Count(step)
    PROVE  /\ done'[step] = done[step] + 1
           /\ \A other \in Steps : other # step => done'[other] = done[other]
  BY DEF TypeInv, TypeOK, Count

\* A frame of another kind that arrives, or any that is read, pays for nothing.
LEMMA OtherArrives ==
    ASSUME NEW buf \in Seq(Frames), NEW frame \in Frames, frame.id \notin Paying,
           NEW b, Sent(buf, b, frame)
    PROVE  NoMore(b, buf)
  BY WaitingSent DEF NoMore

LEMMA ReadPaysNothing ==
    ASSUME NEW buf \in Seq(Frames), NEW b, buf # << >>, b = Tail(buf)
    PROVE  NoMore(b, buf)
<1>1. b \in Seq(Frames)
  BY TailAt
<1> QED
  BY <1>1, WaitingRead, WaitingIsNat DEF NoMore

LEMMA StartsEmpty ==
    ASSUME NEW buf \in Seq(Frames)
    PROVE  NoMore(<< >>, buf) /\ NoMore(buf, buf)
  BY WaitingNone, WaitingIsNat DEF NoMore

\* A step that makes no step of the handshake.
NoStepMade ==
    /\ NoMore(toVehicle', toVehicle) /\ NoMore(toBattery', toBattery)
    /\ UNCHANGED done
    /\ has_challenge' => has_challenge
    /\ vStage' = "session" => vStage = "session"

\* It leaves all of them paid for.
LEMMA NothingMade ==
    ASSUME TypeInv, StepsPaidFor, NoStepMade
    PROVE  StepsPaidFor'
<1>1. /\ Waiting(toVehicle', "CERTIFICATE") \in Nat
      /\ Waiting(toVehicle', "CERTIFICATE") <= Waiting(toVehicle, "CERTIFICATE")
      /\ Waiting(toVehicle', "SIGNATURE") \in Nat
      /\ Waiting(toVehicle', "SIGNATURE") <= Waiting(toVehicle, "SIGNATURE")
      /\ Waiting(toBattery', "NONCE") \in Nat
      /\ Waiting(toBattery', "NONCE") <= Waiting(toBattery, "NONCE")
      /\ Waiting(toBattery', "SESSION_ID") \in Nat
      /\ Waiting(toBattery', "SESSION_ID") <= Waiting(toBattery, "SESSION_ID")
  BY DEF NoStepMade, NoMore, Paying
<1>2. /\ Waiting(toVehicle, "CERTIFICATE")' = Waiting(toVehicle', "CERTIFICATE")
      /\ Waiting(toVehicle, "SIGNATURE")' = Waiting(toVehicle', "SIGNATURE")
      /\ Waiting(toBattery, "NONCE")' = Waiting(toBattery', "NONCE")
      /\ Waiting(toBattery, "SESSION_ID")' = Waiting(toBattery', "SESSION_ID")
  BY DEF Waiting, At
<1> QED
  BY <1>1, <1>2, Numbers DEF NoStepMade, StepsPaidFor

\* The battery's steps that pay for nothing.
LEMMA BatteryMakesNothing ==
    ASSUME TypeInv,
           \/ Advertise \/ NoFrameForBattery \/ BatteryAuthResult \/ NothingSigned
           \/ SendStatusA \/ SendStatusB \/ NoStatus \/ BatteryReboot
    PROVE  NoStepMade
<1>1. toBattery \in Seq(Frames) /\ toVehicle \in Seq(Frames)
  BY Types
<1>2. NoMore(toVehicle, toVehicle) /\ NoMore(toBattery, toBattery) /\ NoMore(<< >>, toBattery)
  BY <1>1, StartsEmpty
<1>3. CASE Advertise
  <2> DEFINE frame == Frame("AUTH_REQUEST")
  <2>1. frame \in Frames /\ frame.id \notin Paying
    BY PlainFrame DEF Ids, Paying
  <2>2. ToVehicle(frame) \/ UNCHANGED toVehicle
    BY <1>3 DEF Advertise
  <2> HIDE DEF frame
  <2>3. NoMore(toVehicle', toVehicle)
    BY <1>1, <1>2, <2>1, <2>2, SentToVehicle, OtherArrives
  <2> QED
    BY <1>2, <1>3, <2>3 DEF Advertise, NoStepMade, vehicleVars
<1>4. CASE NoFrameForBattery \/ NothingSigned \/ NoStatus
  <2>1. UNCHANGED <<toVehicle, toBattery, done, has_challenge, vStage>>
    BY <1>4 DEF NoFrameForBattery, NothingSigned, NoStatus, vehicleVars
  <2> QED
    BY <1>2, <2>1 DEF NoStepMade
<1>5. CASE BatteryAuthResult
  <2>1. NoMore(toBattery', toBattery)
    BY <1>1, <1>5, ReadPaysNothing DEF BatteryAuthResult, BatteryReads
  <2> QED
    BY <1>2, <1>5, <2>1 DEF BatteryAuthResult, BatteryReads, NoStepMade, vehicleVars
<1>6. CASE SendStatusA
  <2> DEFINE frame == Status("STATUS_A", <<boot, counter>>)
  <2>1. frame \in Frames /\ frame.id \notin Paying
    BY StatusFrame, Types DEF Now, Ids, Paying
  <2>2. ToVehicle(frame) \/ UNCHANGED toVehicle
    BY <1>6 DEF SendStatusA
  <2> HIDE DEF frame
  <2>3. NoMore(toVehicle', toVehicle)
    BY <1>1, <1>2, <2>1, <2>2, SentToVehicle, OtherArrives
  <2> QED
    BY <1>2, <1>6, <2>3 DEF SendStatusA, NoStepMade, vehicleVars
<1>7. CASE SendStatusB
  <2>1. <<boot, counter - 1>> \in Samples
    BY <1>7, Types DEF SendStatusB, TypeInv, Samples
  <2> DEFINE frame == Status("STATUS_B", <<boot, counter - 1>>)
  <2>2. frame \in Frames /\ frame.id \notin Paying
    BY <2>1, StatusFrame DEF Ids, Paying
  <2>3. ToVehicle(frame)
    BY <1>7 DEF SendStatusB
  <2> HIDE DEF frame
  <2>4. NoMore(toVehicle', toVehicle)
    BY <1>1, <2>2, <2>3, SentToVehicle, OtherArrives
  <2> QED
    BY <1>2, <1>7, <2>4 DEF SendStatusB, NoStepMade, vehicleVars
<1>8. CASE BatteryReboot
  BY <1>2, <1>8 DEF BatteryReboot, Reboot, NoStepMade, vehicleVars
<1> QED
  BY <1>3, <1>4, <1>5, <1>6, <1>7, <1>8

\* Those of the vehicle and of its surroundings.
LEMMA VehicleMakesNothing ==
    ASSUME TypeInv,
           \/ VehicleStatusA \/ VehicleStatusB \/ VehicleIgnoresStatus
           \/ VehicleAuthRequest \/ VehicleReboot \/ ExternalRequest \/ FaultsEnd
    PROVE  NoStepMade
<1>1. toBattery \in Seq(Frames) /\ toVehicle \in Seq(Frames)
  BY Types
<1>2. NoMore(toBattery, toBattery) /\ NoMore(toVehicle, toVehicle) /\ NoMore(<< >>, toVehicle)
  BY <1>1, StartsEmpty
<1>3. CASE VehicleStatusA \/ VehicleStatusB \/ VehicleIgnoresStatus \/ VehicleAuthRequest
  <2>1. /\ toVehicle # << >> /\ toVehicle' = Tail(toVehicle)
        /\ UNCHANGED <<has_challenge, vStage, toBattery, done>>
    BY <1>3 DEF VehicleStatusA, VehicleStatusB, VehicleIgnoresStatus, VehicleAuthRequest,
                VehicleReads, batteryVars, vehicleVars
  <2>2. NoMore(toVehicle', toVehicle)
    BY <1>1, <2>1, ReadPaysNothing
  <2> QED
    BY <1>2, <2>1, <2>2 DEF NoStepMade
<1>4. CASE VehicleReboot
  BY <1>2, <1>4 DEF VehicleReboot, Reboot, NoStepMade, batteryVars
<1>5. CASE ExternalRequest
  <2> DEFINE frame == Frame("AUTH_REQUEST")
  <2>1. frame \in Frames /\ frame.id \notin Paying
    BY PlainFrame DEF Ids, Paying
  <2>2. Sent(toBattery, toBattery', frame) /\ Sent(toVehicle, toVehicle', frame)
    BY <1>5, SentRequests
  <2> HIDE DEF frame
  <2>3. NoMore(toVehicle', toVehicle) /\ NoMore(toBattery', toBattery)
    BY <1>1, <2>1, <2>2, OtherArrives
  <2> QED
    BY <1>5, <2>3 DEF ExternalRequest, NoStepMade, batteryVars, vehicleVars
<1>6. CASE FaultsEnd
  BY <1>2, <1>6 DEF FaultsEnd, NoStepMade, batteryVars, vehicleVars
<1> QED
  BY <1>3, <1>4, <1>5, <1>6

\* A step made by the battery uses up the frame, or the challenge, that pays
\* for it.
LEMMA BatteryPays ==
    ASSUME TypeInv, StepsPaidFor,
           BatteryAuthRequest \/ BatteryNonce \/ BatterySession \/ SignChallenge
    PROVE  StepsPaidFor'
<1>1. toBattery \in Seq(Frames) /\ toVehicle \in Seq(Frames)
  BY Types
<1>2. /\ Waiting(toVehicle, "CERTIFICATE")' = Waiting(toVehicle', "CERTIFICATE")
      /\ Waiting(toVehicle, "SIGNATURE")' = Waiting(toVehicle', "SIGNATURE")
      /\ Waiting(toBattery, "NONCE")' = Waiting(toBattery', "NONCE")
      /\ Waiting(toBattery, "SESSION_ID")' = Waiting(toBattery', "SESSION_ID")
  BY DEF Waiting, At
<1>3. ASSUME NEW id, BatteryReads(id)
      PROVE  /\ NoMore(toBattery', toBattery)
             /\ Waiting(toBattery', id) + 1 <= Waiting(toBattery, id)
  BY <1>1, <1>3, ReadPaysNothing, WaitingRead DEF BatteryReads
<1>4. CASE BatteryAuthRequest
  <2>1. /\ done["certificates"]' = done["certificates"] + 1
        /\ UNCHANGED <<done["challenges"], done["signatures"], done["sessions"],
                       done["activations"], done["repeats"], has_challenge, vStage>>
    BY <1>4, CountedStep DEF BatteryAuthRequest, BatteryReads, vehicleVars, Steps
  <2> DEFINE frame == Frame("CERTIFICATE")
  <2>2. frame \in Frames /\ frame.id = "CERTIFICATE" /\ frame.id \in Payloads /\ ToVehicle(frame)
    BY <1>4, PlainFrame DEF BatteryAuthRequest, Ids, Payloads
  <2> HIDE DEF frame
  <2>3. /\ Waiting(toVehicle', "CERTIFICATE") \in Nat
        /\ Waiting(toVehicle', "CERTIFICATE") <= Waiting(toVehicle, "CERTIFICATE") + 1
        /\ Waiting(toVehicle', "SIGNATURE") \in Nat
        /\ Waiting(toVehicle', "SIGNATURE") <= Waiting(toVehicle, "SIGNATURE")
    BY <1>1, <2>2, SentToVehicle, WaitingSent
  <2>4. NoMore(toBattery', toBattery)
    BY <1>3, <1>4 DEF BatteryAuthRequest
  <2> QED
    BY <1>2, <2>1, <2>3, <2>4, Numbers DEF StepsPaidFor, NoMore, Paying
<1>5. CASE BatteryNonce
  <2>1. UNCHANGED <<done, toVehicle, vStage>> /\ has_challenge'
    BY <1>5 DEF BatteryNonce, BatteryReads, vehicleVars
  <2>2. /\ NoMore(toBattery', toBattery)
        /\ Waiting(toBattery', "NONCE") + 1 <= Waiting(toBattery, "NONCE")
    BY <1>3, <1>5 DEF BatteryNonce
  <2> QED
    BY <1>2, <2>1, <2>2, Numbers DEF StepsPaidFor, NoMore, Paying
<1>6. CASE BatterySession
  <2>1. /\ done["activations"]' = done["activations"] + 1
        /\ UNCHANGED <<done["certificates"], done["challenges"], done["signatures"],
                       done["sessions"], done["repeats"], has_challenge, vStage, toVehicle>>
    BY <1>6, CountedStep DEF BatterySession, BatteryReads, vehicleVars, Steps
  <2>2. /\ NoMore(toBattery', toBattery)
        /\ Waiting(toBattery', "SESSION_ID") + 1 <= Waiting(toBattery, "SESSION_ID")
    BY <1>3, <1>6 DEF BatterySession
  <2> QED
    BY <1>2, <2>1, <2>2, Numbers DEF StepsPaidFor, NoMore, Paying
<1>7. CASE SignChallenge
  <2>1. /\ done["signatures"]' = done["signatures"] + 1
        /\ UNCHANGED <<done["certificates"], done["challenges"], done["sessions"],
                       done["activations"], done["repeats"], vStage, toBattery>>
        /\ has_challenge /\ ~has_challenge'
    BY <1>7, CountedStep DEF SignChallenge, vehicleVars, Steps
  <2> DEFINE frame == Frame("SIGNATURE")
  <2>2. frame \in Frames /\ frame.id = "SIGNATURE" /\ frame.id \in Payloads /\ ToVehicle(frame)
    BY <1>7, PlainFrame DEF SignChallenge, Ids, Payloads
  <2> HIDE DEF frame
  <2>3. /\ Waiting(toVehicle', "SIGNATURE") \in Nat
        /\ Waiting(toVehicle', "SIGNATURE") <= Waiting(toVehicle, "SIGNATURE") + 1
        /\ Waiting(toVehicle', "CERTIFICATE") \in Nat
        /\ Waiting(toVehicle', "CERTIFICATE") <= Waiting(toVehicle, "CERTIFICATE")
    BY <1>1, <2>2, SentToVehicle, WaitingSent
  <2> QED
    BY <1>2, <2>1, <2>3, Numbers DEF StepsPaidFor
<1> QED
  BY <1>4, <1>5, <1>6, <1>7

\* So does one made by the vehicle.
LEMMA VehiclePays ==
    ASSUME TypeInv, StepsPaidFor, VehicleCertificate \/ VehicleSignature \/ VehicleSession
    PROVE  StepsPaidFor'
<1>1. toBattery \in Seq(Frames) /\ toVehicle \in Seq(Frames)
  BY Types
<1>2. /\ Waiting(toVehicle, "CERTIFICATE")' = Waiting(toVehicle', "CERTIFICATE")
      /\ Waiting(toVehicle, "SIGNATURE")' = Waiting(toVehicle', "SIGNATURE")
      /\ Waiting(toBattery, "NONCE")' = Waiting(toBattery', "NONCE")
      /\ Waiting(toBattery, "SESSION_ID")' = Waiting(toBattery', "SESSION_ID")
  BY DEF Waiting, At
<1>3. ASSUME NEW id, VehicleReads(id)
      PROVE  /\ NoMore(toVehicle', toVehicle)
             /\ Waiting(toVehicle', id) + 1 <= Waiting(toVehicle, id)
             /\ UNCHANGED has_challenge
  BY <1>1, <1>3, ReadPaysNothing, WaitingRead DEF VehicleReads, batteryVars
<1>4. CASE VehicleCertificate
  <2>1. /\ NoMore(toVehicle', toVehicle)
        /\ Waiting(toVehicle', "CERTIFICATE") + 1 <= Waiting(toVehicle, "CERTIFICATE")
        /\ UNCHANGED <<has_challenge, vStage>>
    BY <1>3, <1>4 DEF VehicleCertificate
  <2>2. CASE UNCHANGED <<toBattery, done>>
    BY <1>2, <2>1, <2>2, Numbers DEF StepsPaidFor, NoMore, Paying
  <2>3. CASE ToBattery(Frame("NONCE"), FALSE) /\ Count("challenges")
    <3>1. /\ done["challenges"]' = done["challenges"] + 1
          /\ UNCHANGED <<done["certificates"], done["signatures"], done["sessions"],
                         done["activations"], done["repeats"]>>
      BY <2>3, CountedStep DEF Steps
    <3> DEFINE frame == Frame("NONCE")
    <3>2. /\ frame \in Frames /\ frame.id = "NONCE" /\ frame.id \in Payloads
          /\ ToBattery(frame, FALSE)
      BY <2>3, PlainFrame DEF Ids, Payloads
    <3> HIDE DEF frame
    <3>3. /\ Waiting(toBattery', "NONCE") \in Nat
          /\ Waiting(toBattery', "NONCE") <= Waiting(toBattery, "NONCE") + 1
          /\ Waiting(toBattery', "SESSION_ID") \in Nat
          /\ Waiting(toBattery', "SESSION_ID") <= Waiting(toBattery, "SESSION_ID")
      BY <1>1, <3>2, SentToBattery, WaitingSent
    <3> QED
      BY <1>2, <2>1, <3>1, <3>3, Numbers DEF StepsPaidFor, NoMore, Paying
  <2> QED
    BY <1>4, <2>2, <2>3 DEF VehicleCertificate
<1>5. CASE VehicleSignature
  <2>1. /\ NoMore(toVehicle', toVehicle)
        /\ Waiting(toVehicle', "SIGNATURE") + 1 <= Waiting(toVehicle, "SIGNATURE")
        /\ UNCHANGED <<has_challenge, done>> /\ vStage = "receive"
    BY <1>3, <1>5 DEF VehicleSignature, VehicleReads
  <2>2. PICK verdict \in BOOLEAN :
          (~verdict => Faulty) /\ ToBattery(Result(verdict), ~verdict)
    BY <1>5 DEF VehicleSignature
  <2> DEFINE frame == Result(verdict)
  <2>3. frame \in Frames /\ frame.id \notin Paying /\ ToBattery(frame, ~verdict)
    BY <2>2, ResultFrame DEF Paying
  <2> HIDE DEF frame
  <2>4. Sent(toBattery, toBattery', frame)
    BY <2>2, <2>3, SentToBattery
  <2>5. NoMore(toBattery', toBattery)
    BY <1>1, <2>3, <2>4, OtherArrives
  <2> QED
    BY <1>2, <2>1, <2>5, Numbers DEF StepsPaidFor, NoMore, Paying
<1>6. CASE VehicleSession
  <2> DEFINE frame == Frame("SESSION_ID")
  <2>1. PICK n \in 0..2 :
          /\ Grown(toBattery, toBattery', frame, n)
          /\ done' = [s \in Steps |->
               IF s = "sessions" \/ (s = "repeats" /\ n = 2) THEN done[s] + 1 ELSE done[s]]
    BY <1>6, SentSession DEF VehicleSession
  <2>2. /\ UNCHANGED <<has_challenge, toVehicle>>
        /\ vStage = "session" /\ vStage' = "receive"
    BY <1>6 DEF VehicleSession, OpenSession, batteryVars
  <2>3. frame.id = "SESSION_ID"
    BY PlainFrame DEF Ids
  <2> HIDE DEF frame
  <2>4. /\ Waiting(toBattery', "SESSION_ID") \in Nat
        /\ Waiting(toBattery', "SESSION_ID") <= Waiting(toBattery, "SESSION_ID") + n
        /\ Waiting(toBattery', "NONCE") \in Nat
        /\ Waiting(toBattery', "NONCE") <= Waiting(toBattery, "NONCE")
    BY <1>1, <2>1, <2>3, WaitingGrown
  <2>5. /\ done'["sessions"] = done["sessions"] + 1
        /\ done'["repeats"] = IF n = 2 THEN done["repeats"] + 1 ELSE done["repeats"]
        /\ done'["certificates"] = done["certificates"]
        /\ done'["challenges"] = done["challenges"]
        /\ done'["signatures"] = done["signatures"]
        /\ done'["activations"] = done["activations"]
    BY <2>1 DEF Steps
  <2>6. /\ done'["activations"] + Waiting(toBattery', "SESSION_ID")
               <= done'["sessions"] + done'["repeats"]
    BY <2>4, <2>5, Numbers DEF StepsPaidFor
  <2> QED
    BY <1>2, <2>2, <2>4, <2>5, <2>6, Numbers DEF StepsPaidFor
<1> QED
  BY <1>4, <1>5, <1>6

\* Both sketches together use no step of the handshake twice, whatever frames
\* are lost or repeated, whenever a board reboots, and however often a third node asks for
\* an authentication (battery.ino and vehicle.ino, loop()).
THEOREM HandshakeStepsOnce == Spec => []EachStepUsedOnce
<1>1. Init => StepsPaidFor
  BY WaitingNone DEF Init, StepsPaidFor, Steps
<1>2. TypeInv /\ StepsPaidFor /\ [Next]_vars => StepsPaidFor'
  <2>1. SUFFICES ASSUME TypeInv, StepsPaidFor, [Next]_vars PROVE StepsPaidFor'
    OBVIOUS
  <2>2. CASE BatteryLoop
    BY <2>1, <2>2, BatteryMakesNothing, BatteryPays, NothingMade DEF BatteryLoop
  <2>3. CASE VehicleLoop
    BY <2>1, <2>3, VehicleMakesNothing, VehiclePays, NothingMade DEF VehicleLoop
  <2>4. CASE ExternalRequest \/ FaultsEnd \/ BatteryReboot \/ VehicleReboot
    BY <2>1, <2>4, BatteryMakesNothing, VehicleMakesNothing, NothingMade
  <2>5. CASE UNCHANGED vars
    <3>1. NoStepMade
      BY <2>1, <2>5, Types, StartsEmpty
         DEF vars, batteryVars, vehicleVars, NoStepMade
    <3> QED
      BY <2>1, <3>1, NothingMade
  <2> QED
    BY <2>1, <2>2, <2>3, <2>4, <2>5 DEF Next
<1>3. TypeInv /\ StepsPaidFor => EachStepUsedOnce
  BY Numbers DEF StepsPaidFor, EachStepUsedOnce
<1> QED
  BY <1>1, <1>2, <1>3, TypesHold, PTL DEF Spec

-----------------------------------------------------------------------------
\* Frames A and B

\* Copies of a frame are behind the places of a buffer; requests may stand
\* between a frame A and the place of its frame B.
LEMMA PairGrown ==
    ASSUME NEW t \in Seq(Frames), NEW b, NEW frame, NEW m \in 0..2,
           Grown(t, b, frame, m), NEW n \in 1..(Len(t) + 1)
    PROVE  /\ \A s : Told(t, n, s) => Told(b, n, s)
           /\ OnlyRequests(t, n) => OnlyRequests(b, n)
           /\ n = Len(t) + 1 /\ frame.id = "AUTH_REQUEST" =>
                /\ \A s : Told(t, n, s) => Told(b, Len(b) + 1, s)
                /\ OnlyRequests(t, n) => OnlyRequests(b, Len(b) + 1)
<1>1. /\ Len(t) \in Nat /\ Len(b) \in Nat /\ Len(b) = Len(t) + m
      /\ \A j \in 1..Len(t) : j \in 1..Len(b) /\ b[j] = t[j]
      /\ \A j \in 1..Len(b) : j \in 1..Len(t) \/ (j > Len(t) /\ b[j] = frame)
      /\ (Len(b) + 1) - 1 = Len(b)
  BY DEF Grown
<1>2. OnlyRequests(t, n) => OnlyRequests(b, n)
  BY <1>1 DEF OnlyRequests
<1>3. ASSUME n = Len(t) + 1, frame.id = "AUTH_REQUEST", OnlyRequests(t, n)
      PROVE  OnlyRequests(b, Len(b) + 1)
  <2>1. \A k \in 1..Len(t) : b[k].id = "AUTH_REQUEST"
    BY <1>1, <1>3 DEF OnlyRequests
  <2>2. \A k \in 1..Len(b) : b[k].id = "AUTH_REQUEST"
    BY <1>1, <1>3, <2>1
  <2> QED
    BY <1>1, <2>2 DEF OnlyRequests
<1>4. ASSUME NEW s, Told(t, n, s)
      PROVE  /\ Told(b, n, s)
             /\ n = Len(t) + 1 /\ frame.id = "AUTH_REQUEST" => Told(b, Len(b) + 1, s)
  <2>1. PICK i \in 1..(n - 1) :
               /\ t[i].id = "STATUS_A" /\ t[i].sample = s
               /\ \A k \in (i + 1)..(n - 1) : t[k].id = "AUTH_REQUEST"
    BY <1>4 DEF Told
  <2>2. i \in 1..Len(t) /\ b[i] = t[i]
    BY <1>1
  <2>3. \A k \in (i + 1)..(n - 1) : b[k].id = "AUTH_REQUEST"
    BY <1>1, <2>1
  <2>4. Told(b, n, s)
    BY <2>1, <2>2, <2>3 DEF Told
  <2>5. ASSUME n = Len(t) + 1, frame.id = "AUTH_REQUEST" PROVE Told(b, Len(b) + 1, s)
    <3>1. \A k \in (i + 1)..Len(b) : b[k].id = "AUTH_REQUEST"
      BY <1>1, <2>2, <2>3, <2>5
    <3>2. i \in 1..Len(b)
      BY <1>1, <2>2
    <3> QED
      BY <1>1, <2>1, <2>2, <3>1, <3>2 DEF Told
  <2> QED
    BY <2>4, <2>5
<1> QED
  BY <1>2, <1>3, <1>4

\* The place of a frame B moves up with every frame that is read.
LEMMA RequestRead ==
    ASSUME NEW t \in Seq(Frames), t # << >>, NEW b, b = Tail(t),
           NEW n \in 2..(Len(t) + 1), OnlyRequests(t, n)
    PROVE  Head(t).id = "AUTH_REQUEST" /\ OnlyRequests(b, n - 1)
<1>1. /\ Len(t) \in Nat /\ Len(b) \in Nat /\ Len(t) = Len(b) + 1
      /\ \A j \in 1..Len(b) : j + 1 \in 1..Len(t) /\ b[j] = t[j + 1]
      /\ Head(t) = t[1]
  BY TailAt
<1> QED
  BY <1>1 DEF OnlyRequests

LEMMA ToldRead ==
    ASSUME NEW t \in Seq(Frames), t # << >>, NEW b, b = Tail(t),
           NEW n \in 2..(Len(t) + 1), NEW s, Told(t, n, s)
    PROVE  \/ Told(b, n - 1, s)
           \/ Head(t).id = "STATUS_A" /\ Head(t).sample = s /\ OnlyRequests(b, n - 1)
<1>1. /\ Len(t) \in Nat /\ Len(b) \in Nat /\ Len(t) = Len(b) + 1
      /\ \A j \in 1..Len(b) : j + 1 \in 1..Len(t) /\ b[j] = t[j + 1]
      /\ Head(t) = t[1]
  BY TailAt
<1>2. PICK i \in 1..(n - 1) :
             /\ t[i].id = "STATUS_A" /\ t[i].sample = s
             /\ \A k \in (i + 1)..(n - 1) : t[k].id = "AUTH_REQUEST"
  BY DEF Told
<1>3. CASE i = 1
  <2>1. \A k \in 1..((n - 1) - 1) : b[k].id = "AUTH_REQUEST"
    BY <1>1, <1>2, <1>3
  <2> QED
    BY <1>1, <1>2, <1>3, <2>1 DEF OnlyRequests
<1>4. CASE i # 1
  <2>1. i - 1 \in 1..((n - 1) - 1) /\ b[i - 1] = t[i]
    BY <1>1, <1>4
  <2>2. \A k \in ((i - 1) + 1)..((n - 1) - 1) : b[k].id = "AUTH_REQUEST"
    BY <1>1, <1>2, <1>4
  <2> QED
    BY <1>2, <2>1, <2>2 DEF Told
<1> QED
  BY <1>3, <1>4

\* The vehicle reads one frame.
LEMMA ReadKeepsPairs ==
    ASSUME TypeInv, Pairs, toVehicle # << >>, toVehicle' = Tail(toVehicle),
           UNCHANGED <<stage, boot, counter, lost>>,
           Head(toVehicle).id = "AUTH_REQUEST" => \A s : Half(s) => Half(s)',
           Head(toVehicle).id \in {"STATUS_A", "STATUS_B"} =>
             \A s : s = Head(toVehicle).sample => Half(s)'
    PROVE  Pairs'
<1>1. /\ toVehicle \in Seq(Frames)
      /\ Len(toVehicle) \in Nat /\ Len(toVehicle') \in Nat
      /\ Len(toVehicle) = Len(toVehicle') + 1
      /\ \A j \in 1..Len(toVehicle') : /\ j + 1 \in 1..Len(toVehicle)
                                       /\ toVehicle'[j] = toVehicle[j + 1]
      /\ Head(toVehicle) = toVehicle[1]
  BY Types, TailAt
<1>2. ASSUME NEW n \in 2..(Len(toVehicle) + 1), NEW s, Paired(toVehicle, n, s)
      PROVE  \/ Told(toVehicle', n - 1, s)
             \/ OnlyRequests(toVehicle', n - 1) /\ Half(s)'
             \/ s \in lost'
  <2>1. CASE Told(toVehicle, n, s)
    <3>1. \/ Told(toVehicle', n - 1, s)
          \/ /\ Head(toVehicle).id = "STATUS_A" /\ Head(toVehicle).sample = s
             /\ OnlyRequests(toVehicle', n - 1)
      <4>1. toVehicle \in Seq(Frames) /\ toVehicle # << >> /\ toVehicle' = Tail(toVehicle)
        BY <1>1
      <4> QED
        BY ONLY <4>1, <2>1, ToldRead, n \in 2..(Len(toVehicle) + 1), Zenon
    <3> QED
      BY <3>1
  <2>2. CASE OnlyRequests(toVehicle, n) /\ Half(s)
    <3>1. Head(toVehicle).id = "AUTH_REQUEST" /\ OnlyRequests(toVehicle', n - 1)
      BY <1>1, <2>2, RequestRead
    <3> QED
      BY <2>2, <3>1
  <2> QED
    BY <1>2, <2>1, <2>2 DEF Paired
<1>3. ASSUME NEW n \in 1..Len(toVehicle'), toVehicle'[n].id = "STATUS_B"
      PROVE  \/ Repeated(toVehicle', n)
             \/ Paired(toVehicle, n, toVehicle[n].sample)'
  <2>1. /\ n + 1 \in 2..(Len(toVehicle) + 1) /\ n + 1 \in 1..Len(toVehicle)
        /\ toVehicle'[n] = toVehicle[n + 1] /\ (n + 1) - 1 = n
    BY <1>1
  <2>2. \/ Repeated(toVehicle, n + 1)
        \/ Paired(toVehicle, n + 1, toVehicle[n + 1].sample)
    BY <1>3, <2>1 DEF Pairs
  <2>3. CASE Paired(toVehicle, n + 1, toVehicle[n + 1].sample)
    <3>1. ASSUME NEW s, s = toVehicle[n + 1].sample
          PROVE  \/ Told(toVehicle', n, s)
                 \/ OnlyRequests(toVehicle', n) /\ Half(s)'
                 \/ s \in lost'
      BY <1>2, <2>1, <2>3, <3>1
    <3>2. toVehicle[n + 1].sample = toVehicle'[n].sample
      BY <2>1
    <3> QED
      BY <3>1, <3>2 DEF Paired, Half
  <2>4. CASE Repeated(toVehicle, n + 1)
    <3>1. toVehicle[n].id = "STATUS_B" /\ toVehicle[n].sample = toVehicle'[n].sample
      BY <2>1, <2>4 DEF Repeated
    <3>2. CASE n = 1
      <4>1. ASSUME NEW s, s = toVehicle'[1].sample PROVE Half(s)'
        BY <1>1, <3>1, <3>2, <4>1
      <4>2. OnlyRequests(toVehicle', 1)
        BY DEF OnlyRequests
      <4> QED
        BY <3>2, <4>1, <4>2 DEF Paired, Half
    <3>3. CASE n # 1
      <4>1. n - 1 \in 1..Len(toVehicle') /\ n > 1 /\ (n - 1) + 1 = n
        BY <1>1, <3>3
      <4>2. toVehicle'[n - 1] = toVehicle[n]
        BY <1>1, <4>1
      <4> QED
        BY <3>1, <4>1, <4>2 DEF Repeated
    <3> QED
      BY <3>2, <3>3
  <2> QED
    BY <2>2, <2>3, <2>4
<1>4. ASSUME stage' = "stream_b"
      PROVE  Paired(toVehicle, Len(toVehicle) + 1, <<boot, counter - 1>>)'
  <2>1. /\ Paired(toVehicle, Len(toVehicle) + 1, <<boot, counter - 1>>)
        /\ Len(toVehicle) + 1 \in 2..(Len(toVehicle) + 1)
        /\ (Len(toVehicle) + 1) - 1 = Len(toVehicle') + 1
    BY <1>1, <1>4 DEF Pairs
  <2>2. ASSUME NEW s, s = <<boot, counter - 1>>
        PROVE  \/ Told(toVehicle', Len(toVehicle') + 1, s)
               \/ OnlyRequests(toVehicle', Len(toVehicle') + 1) /\ Half(s)'
               \/ s \in lost'
    BY <1>2, <2>1, <2>2
  <2>3. <<boot, counter - 1>> = <<boot', counter' - 1>>
    OBVIOUS
  <2> QED
    BY <2>2, <2>3 DEF Paired, Half
<1> QED
  BY <1>3, <1>4 DEF Pairs, Repeated

\* What the vehicle has handled stays handled.
HalfKept == \A s : Half(s) => Half(s)'

\* The vehicle's buffer is as it was.
LEMMA SameKeepsPairs ==
    ASSUME Pairs, HalfKept, UNCHANGED toVehicle, lost \subseteq lost',
           stage' = "stream_b" => stage = "stream_b" /\ UNCHANGED <<boot, counter>>
    PROVE  Pairs'
<1>1. ASSUME NEW n \in 1..Len(toVehicle'), toVehicle'[n].id = "STATUS_B",
             ~Repeated(toVehicle', n)
      PROVE  Paired(toVehicle, n, toVehicle[n].sample)'
  <2>1. Paired(toVehicle, n, toVehicle[n].sample)
    BY <1>1 DEF Pairs
  <2>2. ASSUME NEW s, s = toVehicle[n].sample
        PROVE  \/ Told(toVehicle', n, s)
               \/ OnlyRequests(toVehicle', n) /\ Half(s)'
               \/ s \in lost'
    BY <2>1, <2>2 DEF Paired, HalfKept
  <2> QED
    BY <2>2 DEF Paired, Half
<1>2. ASSUME stage' = "stream_b"
      PROVE  Paired(toVehicle, Len(toVehicle) + 1, <<boot, counter - 1>>)'
  <2>1. Paired(toVehicle, Len(toVehicle) + 1, <<boot, counter - 1>>)
    BY <1>2 DEF Pairs
  <2>2. ASSUME NEW s, s = <<boot, counter - 1>>
        PROVE  \/ Told(toVehicle', Len(toVehicle') + 1, s)
               \/ OnlyRequests(toVehicle', Len(toVehicle') + 1) /\ Half(s)'
               \/ s \in lost'
    BY <2>1, <2>2 DEF Paired, HalfKept
  <2>3. <<boot, counter - 1>> = <<boot', counter' - 1>>
    BY <1>2
  <2> QED
    BY <2>2, <2>3 DEF Paired, Half
<1> QED
  BY <1>1, <1>2 DEF Pairs, Repeated

\* A frame is sent to the vehicle: a frame B as the second of a sample, a
\* frame A as its first, a request at any time, the others between samples.
LEMMA SendKeepsPairs ==
    ASSUME TypeInv, Pairs, HalfKept, lost \subseteq lost', NEW frame, NEW m \in 0..2,
           Grown(toVehicle, toVehicle', frame, m),
           frame.id = "STATUS_B" =>
             stage = "stream_b" /\ frame.sample = <<boot, counter - 1>>,
           stage' = "stream_b" =>
             \/ /\ frame.id = "AUTH_REQUEST"
                /\ stage = "stream_b" /\ UNCHANGED <<boot, counter>>
             \/ /\ frame.id = "STATUS_A" /\ frame.sample = <<boot', counter' - 1>>
                /\ m = 0 => frame.sample \in lost'
    PROVE  Pairs'
<1>1. /\ toVehicle \in Seq(Frames)
      /\ Len(toVehicle) \in Nat /\ Len(toVehicle') = Len(toVehicle) + m
      /\ \A j \in 1..Len(toVehicle) : j \in 1..Len(toVehicle') /\ toVehicle'[j] = toVehicle[j]
      /\ \A j \in 1..Len(toVehicle') :
           \/ j \in 1..Len(toVehicle) /\ toVehicle'[j] = toVehicle[j]
           \/ j > Len(toVehicle) /\ toVehicle'[j] = frame
  BY Types DEF Grown
<1>2. ASSUME NEW n \in 1..(Len(toVehicle) + 1), NEW s, Paired(toVehicle, n, s)
      PROVE  /\ \/ Told(toVehicle', n, s)
                \/ OnlyRequests(toVehicle', n) /\ Half(s)'
                \/ s \in lost'
             /\ n = Len(toVehicle) + 1 /\ frame.id = "AUTH_REQUEST" =>
                  \/ Told(toVehicle', Len(toVehicle') + 1, s)
                  \/ OnlyRequests(toVehicle', Len(toVehicle') + 1) /\ Half(s)'
                  \/ s \in lost'
  <2>1. /\ Told(toVehicle, n, s) => Told(toVehicle', n, s)
        /\ OnlyRequests(toVehicle, n) => OnlyRequests(toVehicle', n)
        /\ n = Len(toVehicle) + 1 /\ frame.id = "AUTH_REQUEST" =>
             /\ Told(toVehicle, n, s) => Told(toVehicle', Len(toVehicle') + 1, s)
             /\ OnlyRequests(toVehicle, n) => OnlyRequests(toVehicle', Len(toVehicle') + 1)
    BY <1>1, PairGrown
  <2> QED
    BY <1>2, <2>1 DEF Paired, HalfKept
<1>3. ASSUME NEW n \in 1..Len(toVehicle'), toVehicle'[n].id = "STATUS_B",
             ~Repeated(toVehicle', n)
      PROVE  Paired(toVehicle, n, toVehicle[n].sample)'
  <2>1. n \in 1..(Len(toVehicle) + 1) /\ Paired(toVehicle, n, toVehicle'[n].sample)
    <3>1. CASE n \in 1..Len(toVehicle) /\ toVehicle'[n] = toVehicle[n]
      <4>1. n > 1 => n - 1 \in 1..Len(toVehicle)
        BY <1>1, <3>1
      <4>2. ~Repeated(toVehicle, n)
        BY <1>1, <1>3, <3>1, <4>1 DEF Repeated
      <4> QED
        BY <1>1, <1>3, <3>1, <4>2 DEF Pairs
    <3>2. CASE n = Len(toVehicle) + 1 /\ toVehicle'[n] = frame
      BY <1>1, <1>3, <3>2 DEF Pairs
    <3>3. CASE n > Len(toVehicle) + 1 /\ toVehicle'[n] = frame
      <4>1. n - 1 \in 1..Len(toVehicle') /\ n - 1 > Len(toVehicle) /\ n > 1
        BY <1>1, <3>3
      <4>2. toVehicle'[n - 1] = frame
        BY <1>1, <4>1
      <4> QED
        BY <1>3, <3>3, <4>1, <4>2 DEF Repeated
    <3> QED
      BY <1>1, <3>1, <3>2, <3>3
  <2>2. ASSUME NEW s, s = toVehicle'[n].sample
        PROVE  \/ Told(toVehicle', n, s)
               \/ OnlyRequests(toVehicle', n) /\ Half(s)'
               \/ s \in lost'
    BY <1>2, <2>1, <2>2
  <2> QED
    BY <2>2 DEF Paired, Half
<1>4. ASSUME stage' = "stream_b"
      PROVE  Paired(toVehicle, Len(toVehicle) + 1, <<boot, counter - 1>>)'
  <2>1. CASE /\ frame.id = "AUTH_REQUEST"
             /\ stage = "stream_b" /\ UNCHANGED <<boot, counter>>
    <3>1. Paired(toVehicle, Len(toVehicle) + 1, <<boot, counter - 1>>)
      BY <2>1 DEF Pairs
    <3>2. ASSUME NEW s, s = <<boot, counter - 1>>
          PROVE  \/ Told(toVehicle', Len(toVehicle') + 1, s)
                 \/ OnlyRequests(toVehicle', Len(toVehicle') + 1) /\ Half(s)'
                 \/ s \in lost'
      BY <1>1, <1>2, <2>1, <3>1, <3>2
    <3>3. <<boot, counter - 1>> = <<boot', counter' - 1>>
      BY <2>1
    <3> QED
      BY <3>2, <3>3 DEF Paired, Half
  <2>2. CASE frame.id = "STATUS_A" /\ frame.sample = <<boot', counter' - 1>> /\ m # 0
    <3>1. /\ Len(toVehicle') \in 1..Len(toVehicle') /\ Len(toVehicle') \notin 1..Len(toVehicle)
          /\ (Len(toVehicle') + 1) - 1 = Len(toVehicle')
      BY <1>1, <2>2
    <3>2. toVehicle'[Len(toVehicle')] = frame
      BY <1>1, <3>1
    <3>3. Told(toVehicle', Len(toVehicle') + 1, <<boot', counter' - 1>>)
      BY <2>2, <3>1, <3>2 DEF Told
    <3> QED
      BY <3>3 DEF Paired
  <2>3. CASE frame.sample = <<boot', counter' - 1>> /\ frame.sample \in lost'
    BY <2>3 DEF Paired
  <2> QED
    BY <1>4, <2>1, <2>2, <2>3
<1> QED
  BY <1>3, <1>4 DEF Pairs, Repeated

\* The battery sends the frames of a sample one after the other.
LEMMA BatteryPairs ==
    ASSUME TypeInv, Pairs, BatteryLoop
    PROVE  Pairs'
<1>1. HalfKept /\ lost \subseteq lost'
  <2>1. UNCHANGED vehicleVars /\ lost \subseteq lost'
    BY DEF BatteryLoop, Advertise, NoFrameForBattery, BatteryAuthRequest, BatteryNonce,
           BatteryAuthResult, BatterySession, BatteryReads, SignChallenge, NothingSigned,
           SendStatusA, SendStatusB, NoStatus
  <2> QED
    BY <2>1 DEF vehicleVars, HalfKept, Half
<1>2. CASE UNCHANGED toVehicle /\ stage' # "stream_b"
  BY <1>1, <1>2, SameKeepsPairs
<1>3. ASSUME NEW id \in Ids, id \notin {"STATUS_A", "STATUS_B"}, ToVehicle(Frame(id)),
             stage' # "stream_b"
      PROVE  Pairs'
  <2> DEFINE frame == Frame(id)
  <2>1. frame \in Frames /\ frame.id = id /\ ToVehicle(frame)
    BY <1>3, PlainFrame
  <2> HIDE DEF frame
  <2>2. Sent(toVehicle, toVehicle', frame)
    BY <2>1, SentToVehicle
  <2>3. PICK m \in 0..2 : Grown(toVehicle, toVehicle', frame, m)
    BY <2>2 DEF Sent
  <2> QED
    BY <1>1, <1>3, <2>1, <2>3, SendKeepsPairs
<1>4. CASE Advertise
  <2>1. stage' # "stream_b" /\ "AUTH_REQUEST" \in Ids
    BY <1>4 DEF Advertise, Ids
  <2>2. CASE bState = "DISCONNECTED"
    BY <1>3, <1>4, <2>1, <2>2 DEF Advertise
  <2>3. CASE bState # "DISCONNECTED"
    BY <1>2, <1>4, <2>1, <2>3 DEF Advertise
  <2> QED
    BY <2>2, <2>3
<1>5. CASE BatteryAuthRequest
  <2>1. stage' # "stream_b" /\ "CERTIFICATE" \in Ids
    BY <1>5 DEF BatteryAuthRequest, BatteryReads, Ids
  <2> QED
    BY <1>3, <1>5, <2>1 DEF BatteryAuthRequest
<1>6. CASE SignChallenge
  <2>1. stage' # "stream_b" /\ "SIGNATURE" \in Ids
    BY <1>6 DEF SignChallenge, Ids
  <2> QED
    BY <1>3, <1>6, <2>1 DEF SignChallenge
<1>7. CASE \/ NoFrameForBattery \/ BatteryNonce \/ BatteryAuthResult \/ BatterySession
           \/ NothingSigned \/ NoStatus
  BY <1>2, <1>7 DEF NoFrameForBattery, BatteryNonce, BatteryAuthResult, BatterySession,
                    BatteryReads, NothingSigned, NoStatus
<1>8. CASE SendStatusA
  <2> DEFINE frame == Status("STATUS_A", <<boot, counter>>)
  <2>1. frame \in Frames /\ frame.id = "STATUS_A" /\ frame.sample = <<boot, counter>>
    BY StatusFrame, Types DEF Now, Ids
  <2>2. /\ counter' = counter + 1 /\ UNCHANGED boot
        /\ \/ ToVehicle(frame)
           \/ UNCHANGED toVehicle /\ stage' # "stream_b"
        /\ toVehicle' = toVehicle => <<boot, counter>> \in lost'
    BY <1>8 DEF SendStatusA
  <2> HIDE DEF frame
  <2>3. CASE ToVehicle(frame)
    <3>1. Sent(toVehicle, toVehicle', frame)
      BY <2>1, <2>3, SentToVehicle
    <3>2. PICK m \in 0..2 : Grown(toVehicle, toVehicle', frame, m)
      BY <3>1 DEF Sent
    <3>3. m = 0 => frame.sample \in lost'
      <4>1. SUFFICES ASSUME m = 0 PROVE toVehicle' = toVehicle
        BY <2>1, <2>2
      <4>2. /\ toVehicle \in Seq(Frames) /\ toVehicle' \in Seq(Frames)
            /\ Len(toVehicle') = Len(toVehicle)
            /\ \A j \in 1..Len(toVehicle') : toVehicle'[j] = toVehicle[j]
        BY <3>2, <4>1, Types DEF Grown
      <4> QED
        BY <4>2, SeqEqual
    <3>4. frame.sample = <<boot', counter' - 1>>
      BY <2>1, <2>2, Types
    <3> QED
      BY <1>1, <2>1, <3>2, <3>3, <3>4, SendKeepsPairs
  <2> QED
    BY <1>2, <2>2, <2>3
<1>9. CASE SendStatusB
  <2> DEFINE frame == Status("STATUS_B", <<boot, counter - 1>>)
  <2>1. <<boot, counter - 1>> \in Samples
    BY <1>9, Types DEF SendStatusB, TypeInv, Samples
  <2>2. frame \in Frames /\ frame.id = "STATUS_B" /\ frame.sample = <<boot, counter - 1>>
    BY <2>1, StatusFrame DEF Ids
  <2>3. /\ ToVehicle(frame)
        /\ stage = "stream_b" /\ stage' # "stream_b"
    BY <1>9 DEF SendStatusB
  <2> HIDE DEF frame
  <2>4. Sent(toVehicle, toVehicle', frame)
    BY <2>2, <2>3, SentToVehicle
  <2>5. PICK m \in 0..2 : Grown(toVehicle, toVehicle', frame, m)
    BY <2>4 DEF Sent
  <2> QED
    BY <1>1, <2>2, <2>3, <2>5, SendKeepsPairs
<1> QED
  BY <1>4, <1>5, <1>6, <1>7, <1>8, <1>9 DEF BatteryLoop

\* The vehicle leaves a handled frame A pending until a frame B comes.
LEMMA VehiclePairs ==
    ASSUME TypeInv, Pairs, VehicleLoop
    PROVE  Pairs'
<1>1. UNCHANGED <<stage, boot, counter, lost>>
  BY DEF VehicleLoop, VehicleStatusA, VehicleStatusB, VehicleIgnoresStatus,
         VehicleAuthRequest, VehicleCertificate, VehicleSignature, VehicleSession,
         OpenSession, VehicleReads, batteryVars
<1>2. CASE VehicleSession
  <2>1. HalfKept /\ UNCHANGED toVehicle
    BY <1>2 DEF VehicleSession, OpenSession, HalfKept, Half
  <2> QED
    BY <1>1, <2>1, SameKeepsPairs
<1>3. ASSUME NEW id, VehicleReads(id), id \notin {"AUTH_REQUEST", "STATUS_A", "STATUS_B"}
      PROVE  Pairs'
  BY <1>1, <1>3, ReadKeepsPairs DEF VehicleReads
<1>4. ASSUME NEW id \in {"STATUS_A", "STATUS_B"}, VehicleReads(id),
             \A s : s = Head(toVehicle).sample => Half(s)'
      PROVE  Pairs'
  BY <1>1, <1>4, ReadKeepsPairs DEF VehicleReads
<1>5. CASE VehicleStatusA
  BY <1>4, <1>5 DEF VehicleStatusA, Half
<1>6. CASE VehicleStatusB
  BY <1>4, <1>6 DEF VehicleStatusB, Half
<1>7. CASE VehicleIgnoresStatus
  <2>1. PICK id \in {"STATUS_A", "STATUS_B"} :
          /\ VehicleReads(id)
          /\ vState # "ACTIVE_SESSION" \/ ~have_frame_a
          /\ UNCHANGED vehicleVars
    BY <1>7 DEF VehicleIgnoresStatus
  <2>2. \A s : Half(s)'
    BY <2>1 DEF VehicleReads, vehicleVars, Half
  <2> QED
    BY <1>4, <2>1, <2>2
<1>8. CASE VehicleAuthRequest
  <2>1. /\ toVehicle # << >> /\ toVehicle' = Tail(toVehicle)
        /\ Head(toVehicle).id = "AUTH_REQUEST"
        /\ \A s : Half(s) => Half(s)'
    BY <1>8 DEF VehicleAuthRequest, VehicleReads, Half
  <2> QED
    BY <1>1, <2>1, ReadKeepsPairs
<1>9. CASE VehicleCertificate \/ VehicleSignature
  BY <1>3, <1>9 DEF VehicleCertificate, VehicleSignature
<1> QED
  BY <1>2, <1>5, <1>6, <1>7, <1>8, <1>9 DEF VehicleLoop

\* A request of the third node may come between the frames of a sample; a
\* vehicle that reboots has nothing pending.
LEMMA OtherPairs ==
    ASSUME TypeInv, Pairs,
           ExternalRequest \/ FaultsEnd \/ BatteryReboot \/ VehicleReboot
    PROVE  Pairs'
<1>1. CASE ExternalRequest
  <2> DEFINE frame == Frame("AUTH_REQUEST")
  <2>1. frame.id = "AUTH_REQUEST" /\ Sent(toVehicle, toVehicle', frame)
    BY <1>1, PlainFrame, SentRequests DEF Ids
  <2> HIDE DEF frame
  <2>2. PICK m \in 0..2 : Grown(toVehicle, toVehicle', frame, m)
    BY <2>1 DEF Sent
  <2>3. HalfKept /\ UNCHANGED <<stage, boot, counter, lost>>
    BY <1>1 DEF ExternalRequest, batteryVars, vehicleVars, HalfKept, Half
  <2> QED
    BY <2>1, <2>2, <2>3, SendKeepsPairs
<1>2. CASE FaultsEnd
  <2>1. HalfKept /\ UNCHANGED <<stage, boot, counter, lost, toVehicle>>
    BY <1>2 DEF FaultsEnd, batteryVars, vehicleVars, HalfKept, Half
  <2> QED
    BY <2>1, SameKeepsPairs
<1>3. CASE BatteryReboot
  <2>1. HalfKept /\ UNCHANGED <<lost, toVehicle>> /\ stage' # "stream_b"
    BY <1>3 DEF BatteryReboot, Reboot, vehicleVars, HalfKept, Half
  <2> QED
    BY <2>1, SameKeepsPairs
<1>4. CASE VehicleReboot
  <2>1. toVehicle' = << >> /\ Len(toVehicle') = 0 /\ \A s : Half(s)'
    BY <1>4 DEF VehicleReboot, Half
  <2>2. OnlyRequests(toVehicle', Len(toVehicle') + 1)
    BY <2>1 DEF OnlyRequests
  <2>3. Paired(toVehicle, Len(toVehicle) + 1, <<boot, counter - 1>>)'
    BY <2>1, <2>2 DEF Paired
  <2> QED
    BY <2>1, <2>3 DEF Pairs
<1> QED
  BY <1>1, <1>2, <1>3, <1>4

\* The frame B of a report is paired with the frame A it reports, unless its own
\* frame A was lost.
LEMMA ReportIsPaired ==
    ASSUME TypeInv, Pairs, MixedOnlyIfFrameALost, VehicleStatusB
    PROVE  MixedOnlyIfFrameALost'
<1>1. /\ vState = "ACTIVE_SESSION" /\ vStage = "receive" /\ have_frame_a
      /\ toVehicle # << >> /\ Head(toVehicle).id = "STATUS_B"
      /\ toVehicle \in Seq(Frames) /\ UNCHANGED lost
  BY Types DEF VehicleStatusB, VehicleReads
<1>2. 1 \in 1..Len(toVehicle) /\ Head(toVehicle) = toVehicle[1]
  BY <1>1, TailAt
<1>3. Paired(toVehicle, 1, Head(toVehicle).sample)
  BY <1>1, <1>2 DEF Pairs, Repeated
<1>4. pending # Head(toVehicle).sample => Head(toVehicle).sample \in lost
  BY <1>1, <1>3 DEF Paired, Told, Half
<1>5. CASE UNCHANGED accepted
  BY <1>1, <1>5 DEF MixedOnlyIfFrameALost
<1>6. CASE accepted' = Append(accepted, [session |-> done["sessions"],
                                a |-> pending, b |-> Head(toVehicle).sample])
  <2> DEFINE report == [session |-> done["sessions"],
                        a |-> pending, b |-> Head(toVehicle).sample]
  <2>1. accepted \in Seq([session : Nat, a : Samples, b : Samples])
    BY DEF TypeInv, TypeOK
  <2>2. report.a # report.b => report.b \in lost
    BY <1>4
  <2>3. accepted' = Append(accepted, report)
    BY <1>6
  <2> HIDE DEF report
  <2>4. \A i \in 1..Len(accepted') :
          (i \in 1..Len(accepted) /\ accepted'[i] = accepted[i]) \/ accepted'[i] = report
    BY <2>1, <2>3, AppendProperties, LenProperties
  <2> QED
    BY <1>1, <2>2, <2>4 DEF MixedOnlyIfFrameALost
<1> QED
  BY <1>5, <1>6 DEF VehicleStatusB

\* A VALID report takes its counter from one sample of the battery and its
\* voltage from another only if the frame A of the second did not arrive,
\* whatever else is lost, repeated or restarted, and even when another handshake
\* begins or ends between the two frames (battery.ino, send_status();
\* vehicle.ino, handle_status_a() and handle_status_b()).
THEOREM MixedOnlyAfterALoss == Spec => []MixedOnlyIfFrameALost
<1> DEFINE Whole == Pairs /\ MixedOnlyIfFrameALost
<1>1. Init => Whole
  BY DEF Init, Pairs, MixedOnlyIfFrameALost
<1>2. TypeInv /\ Whole /\ [Next]_vars => Whole'
  <2>1. SUFFICES ASSUME TypeInv, Whole, [Next]_vars PROVE Whole'
    OBVIOUS
  <2>2. Pairs'
    <3>1. CASE UNCHANGED vars
      BY <2>1, <3>1, SameKeepsPairs DEF vars, batteryVars, vehicleVars, HalfKept, Half
    <3> QED
      BY <2>1, <3>1, BatteryPairs, VehiclePairs, OtherPairs DEF Next
  <2>3. CASE VehicleStatusB
    BY <2>1, <2>2, <2>3, ReportIsPaired
  <2>4. CASE UNCHANGED accepted /\ lost \subseteq lost'
    BY <2>1, <2>2, <2>4 DEF MixedOnlyIfFrameALost
  <2>5. VehicleStatusB \/ (UNCHANGED accepted /\ lost \subseteq lost')
    BY <2>1 DEF Next, BatteryLoop, Advertise, NoFrameForBattery, BatteryAuthRequest,
                BatteryNonce, BatteryAuthResult, BatterySession, BatteryReads,
                SignChallenge, NothingSigned, SendStatusA, SendStatusB, NoStatus,
                VehicleLoop, VehicleStatusA, VehicleIgnoresStatus, VehicleAuthRequest,
                VehicleCertificate, VehicleSignature, VehicleSession, OpenSession,
                VehicleReads, ExternalRequest, FaultsEnd, BatteryReboot, VehicleReboot,
                Reboot, vars, vehicleVars
  <2> QED
    BY <2>3, <2>4, <2>5
<1>3. Whole => MixedOnlyIfFrameALost
  OBVIOUS
<1> QED
  BY <1>1, <1>2, <1>3, TypesHold, PTL DEF Spec
=============================================================================
