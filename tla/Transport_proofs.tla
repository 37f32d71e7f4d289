-------------------------- MODULE Transport_proofs --------------------------
(***************************************************************************)
(* What reassemble() makes of any list of frames: of payloads of every     *)
(* length, cut into frames of every size, collected in any order, again or *)
(* never.  The steps only have to preserve what was sent and collected;    *)
(* the rest is about the operators: the frames of fragment() tile the      *)
(* payload, the sorted list is a rearrangement of the collected one, and   *)
(* what is joined of its first n frames has the bytes up to there.         *)
(***************************************************************************)
EXTENDS Transport, FiniteSetTheorems, FunctionTheorems, SequenceTheorems,
        WellFoundedInduction, TLAPS

-----------------------------------------------------------------------------
\* A set of naturals that is not empty has a least element.
LEMMA LeastElement ==
    ASSUME NEW S, S \subseteq Nat, S # {}
    PROVE  \E n \in S : \A m \in S : n <= m
<1>1. IsWellFoundedOn(OpToRel(<, Nat), Nat)
  BY NatLessThanWellFounded
<1>2. PICK n \in S : \A m \in S : <<m, n>> \notin OpToRel(<, Nat)
  BY <1>1, WFMin
<1>3. \A m \in S : ~ (m < n)
  BY <1>2 DEF OpToRel
<1> QED
  BY <1>3

-----------------------------------------------------------------------------
\* The frames of a payload

\* How many of the len bytes of a payload the first n frames carry.
Reach(n, len) ==
    IF n = 0 THEN 0
    ELSE IF FIRST_FRAME_PAYLOAD + (n - 1) * CONT_FRAME_PAYLOAD < len
         THEN FIRST_FRAME_PAYLOAD + (n - 1) * CONT_FRAME_PAYLOAD ELSE len

\* The place of the first byte of a frame, were the payload long enough.
Start(n) == IF n = 0 THEN 0 ELSE FIRST_FRAME_PAYLOAD + (n - 1) * CONT_FRAME_PAYLOAD

LEMMA SizeTypes ==
    /\ FIRST_FRAME_PAYLOAD \in Nat /\ FIRST_FRAME_PAYLOAD > 0
    /\ CONT_FRAME_PAYLOAD \in Nat /\ CONT_FRAME_PAYLOAD > 0
    /\ FRAG_LAST_FLAG \in Nat /\ FRAG_LAST_FLAG > 0
    /\ MAX_SEQUENCE + 1 = 2 * FRAG_LAST_FLAG
  BY SizeAssumption

LEMMA Multiples ==
    ASSUME NEW a \in Nat, NEW b \in Nat, a <= b, NEW c \in Nat
    PROVE  /\ a * c \in Nat /\ a * c <= b * c
           /\ (a + 1) * c = a * c + c
  OBVIOUS

LEMMA RoundedUp ==
    ASSUME NEW a \in Nat, NEW c \in Nat, c > 0
    PROVE  /\ (a + c - 1) \div c \in Nat
           /\ a <= ((a + c - 1) \div c) * c
           /\ ((a + c - 1) \div c) * c < a + c
  OBVIOUS

\* The frames but the last do not reach the end of the payload, the last does.
LEMMA FramesCover ==
    ASSUME NEW len \in Nat
    PROVE  /\ FrameCount(len) \in Nat /\ FrameCount(len) >= 1
           /\ \A n \in 0..(FrameCount(len) - 1) :
                /\ Start(n) \in Nat /\ Start(n) <= len
                /\ n > 0 => Start(n) < len
           /\ FIRST_FRAME_PAYLOAD + (FrameCount(len) - 1) * CONT_FRAME_PAYLOAD >= len
<1> USE SizeTypes
<1> DEFINE C == CONT_FRAME_PAYLOAD
           F == FIRST_FRAME_PAYLOAD
           a == len - F
           q == (a + C - 1) \div C
<1>1. CASE len <= F
  BY <1>1 DEF FrameCount, Start
<1>2. CASE ~ (len <= F)
  <2>1. a \in Nat /\ a > 0 /\ C \in Nat /\ C > 0 /\ len = F + a
    BY <1>2
  <2>2. FrameCount(len) = 1 + q
    BY <1>2 DEF FrameCount
  <2> HIDE DEF C, a
  <2>3. q \in Nat /\ a <= q * C /\ q * C < a + C
    BY <2>1, RoundedUp
  <2> HIDE DEF q, F
  <2>4. FrameCount(len) - 1 = q
    BY <2>2, <2>3
  <2>5. q > 0
    BY <2>1, <2>3
  <2>6. ASSUME NEW n \in 1..q
        PROVE  /\ F + (n - 1) * C \in Nat /\ F + (n - 1) * C < len
    <3>1. n - 1 \in Nat /\ q - 1 \in Nat /\ n - 1 <= q - 1
      BY <2>3
    <3>2. (n - 1) * C \in Nat /\ (n - 1) * C <= (q - 1) * C
      BY <2>1, <3>1, Multiples
    <3>3. (q - 1) * C = q * C - C
      BY <2>1, <2>3
    <3>4. q * C \in Nat
      BY <2>1, <2>3
    <3> QED
      BY <2>1, <2>3, <3>2, <3>3, <3>4 DEF F
  <2>7. F + q * C >= len
    BY <2>1, <2>3 DEF F
  <2>8. ASSUME NEW n \in 0..(FrameCount(len) - 1)
        PROVE  Start(n) \in Nat /\ Start(n) <= len /\ (n > 0 => Start(n) < len)
    <3>1. CASE n = 0
      BY <3>1 DEF Start
    <3>2. CASE n # 0
      <4>1. n \in 1..q
        BY <2>3, <2>4, <3>2
      <4> QED
        BY <2>6, <3>2, <4>1 DEF Start, F, C
    <3> QED
      BY <3>1, <3>2
  <2> QED
    BY <2>2, <2>3, <2>4, <2>7, <2>8 DEF F, C
<1> QED
  BY <1>1, <1>2

\* The sequence numbers a payload needs: of fragment(), of send_payload().
LEMMA FrameLimits ==
    ASSUME NEW len \in Nat
    PROVE  /\ len <= MAX_PAYLOAD => FrameCount(len) - 1 <= MAX_SEQUENCE
           /\ len <= TRANSPORT_MAX => FrameCount(len) - 1 <= FRAG_LAST_FLAG - 1
<1> USE SizeTypes
<1> DEFINE C == CONT_FRAME_PAYLOAD
           last == FrameCount(len) - 1
<1>1. last \in Nat /\ last > 0 => FIRST_FRAME_PAYLOAD + (last - 1) * C < len
  BY FramesCover DEF Start
<1>2. ASSUME NEW m \in Nat, len <= FIRST_FRAME_PAYLOAD + m * C PROVE last <= m
  <2>1. SUFFICES ASSUME last > m PROVE FALSE
    BY <1>2, FramesCover
  <2> HIDE DEF last
  <2>2. last \in Nat
    BY FramesCover DEF last
  <2>3. last - 1 \in Nat /\ m <= last - 1
    BY <2>1, <2>2
  <2>4. m * C <= (last - 1) * C /\ m * C \in Nat /\ (last - 1) * C \in Nat
    BY <2>3, Multiples
  <2> QED
    BY <1>1, <1>2, <2>1, <2>2, <2>4
<1>3. MAX_SEQUENCE \in Nat /\ FRAG_LAST_FLAG - 1 \in Nat
  BY SizeAssumption
<1>4. len <= TRANSPORT_MAX => len <= FIRST_FRAME_PAYLOAD + (FRAG_LAST_FLAG - 1) * C
  BY <1>3, SizeAssumption, Multiples
<1> HIDE DEF last, C
<1> QED
  BY <1>2, <1>3, <1>4 DEF MAX_PAYLOAD, C, last

\* The bytes in the frame with sequence number n.
LEMMA ChunkBytes ==
    ASSUME NEW p, payloads[p].len \in Nat,
           NEW n \in 0..(FrameCount(payloads[p].len) - 1)
    PROVE  LET len == payloads[p].len
               size == Reach(n + 1, len) - Reach(n, len)
           IN  /\ Chunk(p, n) \in Seq({p} \X Nat)
               /\ Len(Chunk(p, n)) = size
               /\ \A j \in 1..size : Chunk(p, n)[j] = <<p, Reach(n, len) + j>>
               /\ size \in 0..(IF n = 0 THEN FIRST_FRAME_PAYLOAD ELSE CONT_FRAME_PAYLOAD)
               /\ n < FrameCount(len) - 1 =>
                    size = IF n = 0 THEN FIRST_FRAME_PAYLOAD ELSE CONT_FRAME_PAYLOAD
<1> USE SizeTypes
<1> DEFINE len == payloads[p].len
           from == Start(n)
           upto == FIRST_FRAME_PAYLOAD + n * CONT_FRAME_PAYLOAD
           end == Min({upto, len})
           width == IF n = 0 THEN FIRST_FRAME_PAYLOAD ELSE CONT_FRAME_PAYLOAD
<1>1. n \in Nat /\ n * CONT_FRAME_PAYLOAD \in Nat /\ upto \in Nat /\ len \in Nat
  BY Multiples
<1>2. from \in Nat /\ from <= len /\ upto = from + width
  <2>1. from \in Nat /\ from <= len
    BY FramesCover
  <2>2. CASE n = 0
    BY <2>1, <2>2 DEF Start
  <2>3. CASE n # 0
    <3>1. n - 1 \in Nat
      BY <1>1, <2>3
    <3>2. n * CONT_FRAME_PAYLOAD = (n - 1) * CONT_FRAME_PAYLOAD + CONT_FRAME_PAYLOAD
      BY <1>1
    <3> QED
      BY <1>1, <2>1, <2>3, <3>1, <3>2, Multiples DEF Start
  <2> QED
    BY <2>2, <2>3
<1>3. end = IF upto < len THEN upto ELSE len
  <2>1. /\ \E x \in {upto, len} : \A y \in {upto, len} : x <= y
        /\ end = CHOOSE x \in {upto, len} : \A y \in {upto, len} : x <= y
    BY <1>1 DEF Min
  <2> HIDE DEF upto, len, end
  <2>2. end \in {upto, len} /\ end <= upto /\ end <= len
    BY <2>1
  <2> QED
    BY <1>1, <2>2
<1>4. Chunk(p, n) = SubSeq(Bytes(p), from + 1, end)
  BY DEF Chunk, Slice, Start
<1>5. Reach(n, len) = from
  <2>1. CASE n = 0
    BY <2>1 DEF Reach, Start
  <2>2. CASE n # 0
    <3>1. n > 0
      BY <1>1, <2>2
    <3>2. from < len
      BY <3>1, FramesCover
    <3> QED
      BY <2>2, <3>2 DEF Reach, Start
  <2> QED
    BY <2>1, <2>2
<1>6. Reach(n + 1, len) = end
  <2>1. n + 1 # 0 /\ (n + 1) - 1 = n
    BY <1>1
  <2> QED
    BY <1>3, <2>1 DEF Reach
<1>7. n < FrameCount(len) - 1 => upto < len
  <2>1. SUFFICES ASSUME n < FrameCount(len) - 1 PROVE upto < len
    OBVIOUS
  <2>2. n + 1 \in 0..(FrameCount(len) - 1) /\ n + 1 > 0
    BY <1>1, <2>1, FramesCover
  <2>3. Start(n + 1) < len
    BY <2>2, FramesCover
  <2> QED
    BY <1>1, <2>3 DEF Start
<1>8. \A i \in (from + 1)..end : Bytes(p)[i] = <<p, i>> /\ Bytes(p)[i] \in {p} \X Nat
  BY <1>1, <1>2, <1>3 DEF Bytes
<1> HIDE DEF from, upto, end, len
<1>9. from + 1 \in Int /\ end \in Int /\ from <= end /\ end <= upto
  BY <1>1, <1>2, <1>3
<1>10. /\ Chunk(p, n) \in Seq({p} \X Nat)
       /\ Len(Chunk(p, n)) = end - from
       /\ \A j \in 1..(end - from) : Chunk(p, n)[j] = Bytes(p)[from + j]
  <2>1. /\ Chunk(p, n) \in Seq({p} \X Nat)
        /\ Len(Chunk(p, n)) = IF from + 1 <= end THEN end - (from + 1) + 1 ELSE 0
        /\ \A j \in 1..(end - (from + 1) + 1) : Chunk(p, n)[j] = Bytes(p)[(from + 1) + j - 1]
    BY <1>4, <1>8, <1>9, SubSeqProperties
  <2>2. end - (from + 1) + 1 = end - from /\ \A j \in Int : (from + 1) + j - 1 = from + j
    BY <1>2, <1>9
  <2> QED
    BY <1>2, <1>9, <2>1, <2>2
<1>11. \A j \in 1..(end - from) : Chunk(p, n)[j] = <<p, from + j>>
  <2>1. \A j \in 1..(end - from) : from + j \in (from + 1)..end
    BY <1>2, <1>9
  <2> QED
    BY <1>8, <1>10, <2>1
<1>12. end - from \in 0..width /\ (n < FrameCount(len) - 1 => end - from = width)
  BY <1>1, <1>2, <1>3, <1>7, <1>9
<1> QED
  BY <1>5, <1>6, <1>10, <1>11, <1>12 DEF len

\* A frame with its own number, and the last one of a board.
Plain(f) == Frame(f).byte0 = f[2] /\ Frame(f).data = Chunk(f[1], f[2])
Flagged(f) ==
    /\ payloads[f[1]].by # "python"
    /\ f[2] = FrameCount(payloads[f[1]].len) - 1
    /\ Frame(f).byte0 = FRAG_LAST_FLAG + f[2]

LEMMA FrameBytes ==
    ASSUME NEW p, payloads[p].len \in Nat, NEW f \in FramesOf(p)
    PROVE  /\ f = <<p, f[2]>> /\ f[1] = p
           /\ f[2] \in 0..(FrameCount(payloads[p].len) - 1) /\ f[2] \in Nat
           /\ Frame(f).id = payloads[p].id /\ Frame(f).total = payloads[p].len
           /\ Frame(f).byte0 \in Nat
           /\ Plain(f) \/ Flagged(f)
           /\ payloads[p].by = "python" => Plain(f)
           /\ payloads[p].by # "python" /\ f[2] = FrameCount(payloads[p].len) - 1
                => Flagged(f)
           /\ Frame(f).data \in Seq(({p} \X Nat) \cup {Zero})
           /\ Len(Frame(f).data) <= IF f[2] = 0 THEN FIRST_FRAME_PAYLOAD
                                                ELSE CONT_FRAME_PAYLOAD
<1> USE SizeTypes
<1> DEFINE len == payloads[p].len
<1>1. PICK n \in 0..(FrameCount(len) - 1) : f = <<p, n>>
  BY DEF FramesOf
<1>2. f[1] = p /\ f[2] = n /\ n \in Nat /\ FrameCount(len) \in Nat
  BY <1>1, FramesCover
<1> DEFINE width == IF n = 0 THEN FIRST_FRAME_PAYLOAD ELSE CONT_FRAME_PAYLOAD
           padded == [j \in 1..width |-> IF j \in DOMAIN Chunk(p, n) THEN Chunk(p, n)[j]
                                                                     ELSE Zero]
<1>3. /\ Chunk(p, n) \in Seq({p} \X Nat) /\ Len(Chunk(p, n)) \in 0..width
      /\ n < FrameCount(len) - 1 => Len(Chunk(p, n)) = width
  BY ChunkBytes
<1>4. /\ Chunk(p, n) = [j \in 1..Len(Chunk(p, n)) |-> Chunk(p, n)[j]]
      /\ DOMAIN Chunk(p, n) = 1..Len(Chunk(p, n))
      /\ \A j \in 1..Len(Chunk(p, n)) : Chunk(p, n)[j] \in {p} \X Nat
  <2>1. /\ Chunk(p, n) \in [1..Len(Chunk(p, n)) -> {p} \X Nat]
        /\ DOMAIN Chunk(p, n) = 1..Len(Chunk(p, n))
    BY <1>3, LenProperties
  <2> QED
    BY <2>1
<1>5. Chunk(p, n) \in Seq(({p} \X Nat) \cup {Zero})
  BY <1>3, SeqMonotonic
<1>6. CASE payloads[p].by = "python"
  <2>1. Frame(f) = PythonFrame(p, n)
    BY <1>2, <1>6 DEF Frame
  <2>2. /\ Frame(f).id = payloads[p].id /\ Frame(f).byte0 = n /\ Frame(f).total = len
        /\ Frame(f).data = Chunk(p, n)
    BY <2>1 DEF PythonFrame
  <2> QED
    BY <1>1, <1>2, <1>3, <1>5, <1>6, <2>2 DEF Plain, Flagged
<1>7. CASE payloads[p].by # "python"
  <2>1. Frame(f) = FirmwareFrame(p, n)
    BY <1>2, <1>7 DEF Frame
  <2>2. /\ Frame(f).id = payloads[p].id /\ Frame(f).total = len
        /\ Frame(f).byte0 = IF n = FrameCount(len) - 1 THEN FRAG_LAST_FLAG + n ELSE n
        /\ Frame(f).data = padded
    BY <2>1 DEF FirmwareFrame
  <2>3. width \in Nat
    OBVIOUS
  <2>4. padded \in Seq(({p} \X Nat) \cup {Zero}) /\ Len(padded) = width
    <3>1. \A j \in 1..width : padded[j] \in ({p} \X Nat) \cup {Zero}
      BY <1>4
    <3>2. padded = [j \in 1..width |-> padded[j]]
      OBVIOUS
    <3> HIDE DEF padded, width
    <3> QED
      BY <2>3, <3>1, <3>2
  <2>5. n # FrameCount(len) - 1 => padded = Chunk(p, n)
    <3>1. SUFFICES ASSUME n # FrameCount(len) - 1 PROVE padded = Chunk(p, n)
      OBVIOUS
    <3>2. Len(Chunk(p, n)) = width
      BY <1>2, <1>3, <3>1
    <3> QED
      BY <1>4, <3>2
  <2>6. Frame(f).byte0 \in Nat
    BY <1>2, <2>2
  <2>7. Len(Frame(f).data) <= width
    BY <2>2, <2>3, <2>4
  <2> HIDE DEF padded, width
  <2>8. n # FrameCount(len) - 1 => Plain(f)
    BY <1>2, <2>2, <2>5 DEF Plain
  <2>9. n = FrameCount(len) - 1 => Flagged(f)
    BY <1>2, <1>7, <2>2 DEF Flagged
  <2> QED
    BY <1>1, <1>2, <1>7, <2>2, <2>4, <2>6, <2>7, <2>8, <2>9 DEF width
<1> QED
  BY <1>6, <1>7

-----------------------------------------------------------------------------
\* sorted()

\* A rearrangement of a list of n elements.
Rearrangement(perm, n) ==
    /\ perm \in [1..n -> 1..n]
    /\ \A i, j \in 1..n : perm[i] = perm[j] => i = j
    /\ \A m \in 1..n : \E i \in 1..n : perm[i] = m

\* The places of the frames are different, and as many as there are frames.
LEMMA SortedList ==
    ASSUME NEW frames, NEW len \in Nat, DOMAIN frames = 1..len,
           \A n \in 1..len : frames[n].byte0 \in Int
    PROVE  \E perm : /\ Rearrangement(perm, len)
                     /\ Ordered(frames) = [k \in 1..len |-> frames[perm[k]]]
                     /\ \A i, j \in 1..len :
                          i < j => frames[perm[i]].byte0 <= frames[perm[j]].byte0
<1> DEFINE UpTo(n) == {m \in 1..len : \/ frames[m].byte0 < frames[n].byte0
                                      \/ frames[m].byte0 = frames[n].byte0 /\ m <= n}
           place == [n \in 1..len |-> Cardinality(UpTo(n))]
           perm == [k \in 1..len |-> CHOOSE n \in 1..len : Place(frames, n) = k]
<1>1. IsFiniteSet(1..len) /\ Cardinality(1..len) = len
  <2>1. /\ IsFiniteSet(1..len)
        /\ Cardinality(1..len) = IF 1 > len THEN 0 ELSE len - 1 + 1
    BY FS_Interval
  <2> QED
    BY <2>1
<1>2. ASSUME NEW n \in 1..len
      PROVE  /\ IsFiniteSet(UpTo(n)) /\ Cardinality(UpTo(n)) \in 1..len
             /\ n \in UpTo(n)
  <2>1. UpTo(n) \in SUBSET (1..len) /\ n \in UpTo(n)
    OBVIOUS
  <2> HIDE DEF UpTo
  <2>2. IsFiniteSet(UpTo(n)) /\ Cardinality(UpTo(n)) <= len
    BY <1>1, <2>1, FS_Subset
  <2>3. Cardinality(UpTo(n)) \in Nat /\ Cardinality(UpTo(n)) # 0
    BY <2>1, <2>2, FS_CardinalityType, FS_EmptySet
  <2> QED
    BY <2>1, <2>2, <2>3
<1>3. ASSUME NEW m \in 1..len, NEW n \in 1..len, m # n, m \in UpTo(n)
      PROVE  Cardinality(UpTo(m)) < Cardinality(UpTo(n))
  <2>1. UpTo(m) \in SUBSET UpTo(n)
    BY <1>3
  <2>2. n \notin UpTo(m)
    BY <1>3
  <2> HIDE DEF UpTo
  <2>3. /\ Cardinality(UpTo(m)) <= Cardinality(UpTo(n))
        /\ Cardinality(UpTo(m)) = Cardinality(UpTo(n)) => UpTo(m) = UpTo(n)
    BY <1>2, <2>1, FS_Subset
  <2>4. Cardinality(UpTo(m)) \in Nat /\ Cardinality(UpTo(n)) \in Nat
    BY <1>2
  <2>5. UpTo(m) # UpTo(n)
    BY <1>2, <2>2
  <2> QED
    BY <2>3, <2>4, <2>5
<1>4. \A m, n \in 1..len : m # n => m \in UpTo(n) \/ n \in UpTo(m)
  OBVIOUS
<1>5. \A n \in 1..len : Place(frames, n) = place[n]
  BY DEF Place
<1> HIDE DEF UpTo
<1>6. place \in [1..len -> 1..len]
  BY <1>2
<1>7. \A m, n \in 1..len : place[m] = place[n] => m = n
  <2>1. SUFFICES ASSUME NEW m \in 1..len, NEW n \in 1..len, m # n
                 PROVE  place[m] # place[n]
    OBVIOUS
  <2>2. \/ Cardinality(UpTo(m)) < Cardinality(UpTo(n))
        \/ Cardinality(UpTo(n)) < Cardinality(UpTo(m))
    BY <1>3, <1>4, <2>1
  <2>3. Cardinality(UpTo(m)) \in Nat /\ Cardinality(UpTo(n)) \in Nat
    BY <1>2
  <2> QED
    BY <2>2, <2>3
<1>8. \A k \in 1..len : \E n \in 1..len : place[n] = k
  <2> HIDE DEF place
  <2>1. place \in Injection(1..len, 1..len)
    BY <1>6, <1>7, Fun_IsInj
  <2>2. place \in Surjection(1..len, 1..len)
    BY <1>1, <2>1, FS_Injection, Zenon
  <2> QED
    BY <2>2 DEF Surjection
<1>9. \A k \in 1..len : perm[k] \in 1..len /\ place[perm[k]] = k
  <2> HIDE DEF place
  <2>1. \A k \in 1..len : \E n \in 1..len : Place(frames, n) = k
    BY <1>5, <1>8
  <2>2. \A k \in 1..len : perm[k] \in 1..len /\ Place(frames, perm[k]) = k
    BY <2>1
  <2> QED
    BY <1>5, <2>2
<1>10. Rearrangement(perm, len)
  <2>1. perm \in [1..len -> 1..len]
    BY <1>9
  <2> HIDE DEF perm, place
  <2>2. \A m \in 1..len : place[m] \in 1..len /\ perm[place[m]] = m
    BY <1>6, <1>7, <1>9
  <2> QED
    BY <1>9, <2>1, <2>2 DEF Rearrangement
<1>11. Ordered(frames) = [k \in 1..len |-> frames[perm[k]]]
  BY DEF Ordered
<1>12. ASSUME NEW i \in 1..len, NEW j \in 1..len, i < j
       PROVE  frames[perm[i]].byte0 <= frames[perm[j]].byte0
  <2>1. perm[i] \in 1..len /\ perm[j] \in 1..len
        /\ Cardinality(UpTo(perm[i])) = i /\ Cardinality(UpTo(perm[j])) = j
    BY <1>9
  <2> HIDE DEF perm, place
  <2>2. perm[j] \notin UpTo(perm[i])
    <3>1. SUFFICES ASSUME perm[j] \in UpTo(perm[i]) PROVE FALSE
      OBVIOUS
    <3>2. perm[i] # perm[j]
      BY <1>12, <2>1
    <3>3. j < i
      BY <1>3, <2>1, <3>1, <3>2
    <3> QED
      BY <1>12, <3>3
  <2>3. perm[i] # perm[j]
    BY <1>12, <2>1
  <2> QED
    BY <2>1, <2>2, <2>3 DEF UpTo
<1> QED
  BY <1>10, <1>11, <1>12

\* Frames with the numbers 0 to len - 1, each once, are sorted to these numbers.
LEMMA NumberedList ==
    ASSUME NEW frames, NEW len \in Nat, DOMAIN frames = 1..len,
           \A n \in 1..len : frames[n].byte0 \in 0..(len - 1),
           \A m, n \in 1..len : frames[m].byte0 = frames[n].byte0 => m = n
    PROVE  /\ DOMAIN Ordered(frames) = 1..len
           /\ \A k \in 1..len : Ordered(frames)[k].byte0 = k - 1
<1>1. PICK perm : /\ Rearrangement(perm, len)
                  /\ Ordered(frames) = [k \in 1..len |-> frames[perm[k]]]
                  /\ \A i, j \in 1..len :
                       i < j => frames[perm[i]].byte0 <= frames[perm[j]].byte0
  <2>1. \A n \in 1..len : frames[n].byte0 \in Int
    OBVIOUS
  <2> QED
    BY <2>1, SortedList
<1> DEFINE b == [k \in 1..len |-> Ordered(frames)[k].byte0]
<1>2. \A k \in 1..len : perm[k] \in 1..len /\ b[k] = frames[perm[k]].byte0
  BY <1>1 DEF Rearrangement
<1>3. /\ b \in [1..len -> 0..(len - 1)]
      /\ \A i, j \in 1..len : b[i] = b[j] => i = j
      /\ \A i, j \in 1..len : i < j => b[i] <= b[j]
  <2>1. \A k \in 1..len : b[k] \in 0..(len - 1)
    BY <1>2
  <2>2. \A i, j \in 1..len : b[i] = b[j] => i = j
    <3>1. SUFFICES ASSUME NEW i \in 1..len, NEW j \in 1..len, b[i] = b[j] PROVE i = j
      OBVIOUS
    <3>2. frames[perm[i]].byte0 = frames[perm[j]].byte0
      BY <1>2, <3>1
    <3>3. perm[i] = perm[j]
      BY <1>2, <3>2
    <3> QED
      BY <1>1, <3>3 DEF Rearrangement
  <2>3. \A i, j \in 1..len : i < j => b[i] <= b[j]
    BY <1>1, <1>2
  <2> QED
    BY <2>1, <2>2, <2>3
<1>4. \A v \in 0..(len - 1) : \E k \in 1..len : b[k] = v
  <2> HIDE DEF b
  <2>1. IsFiniteSet(1..len) /\ IsFiniteSet(0..(len - 1))
        /\ Cardinality(1..len) = (IF 1 > len THEN 0 ELSE len - 1 + 1)
        /\ Cardinality(0..(len - 1)) = (IF 0 > len - 1 THEN 0 ELSE len - 1 - 0 + 1)
    BY FS_Interval
  <2>2. Cardinality(1..len) = Cardinality(0..(len - 1))
    BY <2>1
  <2>3. b \in Injection(1..len, 0..(len - 1))
    BY <1>3, Fun_IsInj
  <2>4. b \in Surjection(1..len, 0..(len - 1))
    BY <2>1, <2>2, <2>3, FS_Injection, Zenon
  <2> QED
    BY <2>4 DEF Surjection
<1> DEFINE S == {k \in 1..len : b[k] # k - 1}
<1>5. S = {}
  <2> HIDE DEF b
  <2>1. SUFFICES ASSUME S # {} PROVE FALSE
    OBVIOUS
  <2>2. PICK n \in S : \A m \in S : n <= m
    <3>1. S \subseteq Nat
      OBVIOUS
    <3> HIDE DEF S
    <3> QED
      BY <2>1, <3>1, LeastElement
  <2>3. n \in 1..len /\ b[n] # n - 1 /\ \A m \in 1..(n - 1) : b[m] = m - 1
    BY <2>2
  <2>4. PICK m \in 1..len : b[m] = n - 1
    <3>1. n - 1 \in 0..(len - 1)
      BY <2>3
    <3> QED
      BY <1>4, <3>1
  <2>5. m > n
    BY <2>3, <2>4
  <2>6. b[n] <= n - 1 /\ b[n] \in Nat
    BY <1>3, <2>3, <2>4, <2>5
  <2>7. b[n] + 1 \in 1..(n - 1)
    BY <2>3, <2>6
  <2>8. b[b[n] + 1] = b[n] /\ b[n] + 1 \in 1..len
    BY <2>3, <2>6, <2>7
  <2> QED
    BY <1>3, <2>3, <2>7, <2>8
<1> QED
  BY <1>1, <1>5

-----------------------------------------------------------------------------
\* The bytes joined

IsJoin(t, seqs, n) ==
    t = [i \in 1..n |-> IF i = 1 THEN seqs[i] ELSE t[i - 1] \o seqs[i]]

LEMMA JoinExists ==
    ASSUME NEW seqs, NEW len \in Nat
    PROVE  \E t : IsJoin(t, seqs, len)
<1> DEFINE S == {n \in Nat : ~ \E t : IsJoin(t, seqs, n)}
<1>1. SUFFICES ASSUME S # {} PROVE FALSE
  OBVIOUS
<1>2. PICK n \in S : \A m \in S : n <= m
  BY <1>1, LeastElement
<1>3. CASE n = 0
  <2>1. IsJoin([i \in 1..0 |-> seqs[i]], seqs, 0)
    BY DEF IsJoin
  <2> QED
    BY <1>2, <1>3, <2>1
<1>4. CASE n # 0
  <2>1. n - 1 \in Nat /\ n - 1 \notin S
    BY <1>2, <1>4
  <2>2. PICK t : IsJoin(t, seqs, n - 1)
    BY <2>1
  <2> DEFINE u == [i \in 1..n |-> IF i = n THEN IF n = 1 THEN seqs[n] ELSE t[n - 1] \o seqs[n]
                                           ELSE t[i]]
  <2>3. IsJoin(u, seqs, n)
    <3>1. ASSUME NEW i \in 1..n
          PROVE  u[i] = IF i = 1 THEN seqs[i] ELSE u[i - 1] \o seqs[i]
      <4>1. CASE i = n
        <5>1. CASE n = 1
          BY <4>1, <5>1
        <5>2. CASE n # 1
          <6>1. n - 1 \in 1..n /\ n - 1 # n
            BY <2>1, <5>2
          <6> QED
            BY <4>1, <5>2, <6>1
        <5> QED
          BY <5>1, <5>2
      <4>2. CASE i # n /\ i = 1
        BY <2>1, <2>2, <4>2 DEF IsJoin
      <4>3. CASE i # n /\ i # 1
        <5>1. i - 1 \in 1..n /\ i - 1 # n /\ i \in 1..(n - 1)
          BY <2>1, <4>3
        <5>2. t[i] = t[i - 1] \o seqs[i]
          BY <2>2, <4>3, <5>1 DEF IsJoin
        <5> QED
          BY <4>3, <5>1, <5>2
      <4> QED
        BY <4>1, <4>2, <4>3
    <3>2. u = [i \in 1..n |-> u[i]]
      OBVIOUS
    <3> HIDE DEF u
    <3> QED
      BY <3>1, <3>2 DEF IsJoin
  <2> QED
    BY <1>2, <2>3
<1> QED
  BY <1>3, <1>4

\* Frames joined one after the other.
LEMMA OneByOne ==
    ASSUME NEW frames, NEW len \in Nat, len > 0, DOMAIN frames = 1..len
    PROVE  \E t : /\ t[1] = frames[1].data
                  /\ \A i \in 2..len : t[i] = t[i - 1] \o frames[i].data
                  /\ Joined(frames) = t[len]
<1> DEFINE seqs == [n \in 1..len |-> frames[n].data]
<1>1. Len(seqs) = len
  OBVIOUS
<1>2. Joined(frames) = FlattenSeq(seqs)
  BY DEF Joined
<1> HIDE DEF seqs
<1> DEFINE t == CHOOSE t : IsJoin(t, seqs, len)
<1>3. FlattenSeq(seqs) = t[len]
  BY <1>1 DEF FlattenSeq, IsJoin
<1>4. IsJoin(t, seqs, len)
  BY JoinExists
<1> HIDE DEF t
<1>5. \A i \in 1..len : t[i] = IF i = 1 THEN seqs[i] ELSE t[i - 1] \o seqs[i]
  BY <1>4 DEF IsJoin
<1>6. \A i \in 1..len : seqs[i] = frames[i].data
  BY DEF seqs
<1>7. t[1] = frames[1].data
  BY <1>5, <1>6
<1>8. ASSUME NEW i \in 2..len PROVE t[i] = t[i - 1] \o frames[i].data
  <2>1. i \in 1..len /\ i # 1
    OBVIOUS
  <2>2. t[i] = t[i - 1] \o seqs[i] /\ seqs[i] = frames[i].data
    BY <1>5, <1>6, <2>1
  <2> QED
    BY <2>2
<1> QED
  BY <1>2, <1>3, <1>7, <1>8

LEMMA ReachGrows ==
    ASSUME NEW len \in Nat, NEW n \in Nat
    PROVE  /\ Reach(n, len) \in 0..len
           /\ Reach(n, len) <= Reach(n + 1, len)
           /\ FrameCount(len) \in Nat /\ FrameCount(len) >= 1
           /\ n = FrameCount(len) => Reach(n, len) = len
           /\ n > 0 /\ n < FrameCount(len) => Reach(n, len) < len
<1> USE SizeTypes
<1>1. n * CONT_FRAME_PAYLOAD \in Nat
  BY Multiples
<1>2. n # 0 => /\ (n - 1) * CONT_FRAME_PAYLOAD \in Nat
               /\ n * CONT_FRAME_PAYLOAD = (n - 1) * CONT_FRAME_PAYLOAD + CONT_FRAME_PAYLOAD
  <2>1. n # 0 => n - 1 \in Nat
    OBVIOUS
  <2> QED
    BY <2>1, Multiples
<1>3. n + 1 # 0 /\ (n + 1) - 1 = n
  OBVIOUS
<1>4. Reach(n, len) \in 0..len
  BY <1>2 DEF Reach
<1>5. Reach(n, len) <= Reach(n + 1, len)
  <2>1. CASE n = 0
    BY <1>1, <1>3, <2>1 DEF Reach
  <2>2. CASE n # 0
    BY <1>1, <1>2, <1>3, <2>2 DEF Reach
  <2> QED
    BY <2>1, <2>2
<1>6. FrameCount(len) \in Nat /\ FrameCount(len) >= 1
  BY FramesCover
<1>7. n = FrameCount(len) => Reach(n, len) = len
  <2>1. SUFFICES ASSUME n = FrameCount(len) PROVE Reach(n, len) = len
    OBVIOUS
  <2>2. FIRST_FRAME_PAYLOAD + (n - 1) * CONT_FRAME_PAYLOAD >= len /\ n # 0
    BY <1>6, <2>1, FramesCover
  <2> QED
    BY <1>2, <2>2 DEF Reach
<1>8. n > 0 /\ n < FrameCount(len) => Reach(n, len) < len
  <2>1. SUFFICES ASSUME n > 0, n < FrameCount(len) PROVE Reach(n, len) < len
    OBVIOUS
  <2>2. n \in 0..(FrameCount(len) - 1) /\ n # 0
    BY <1>6, <2>1
  <2>3. Start(n) < len
    BY <2>1, <2>2, FramesCover
  <2> QED
    BY <2>2, <2>3 DEF Reach, Start
<1> QED
  BY <1>4, <1>5, <1>6, <1>7, <1>8

\* The bytes up to r, which are in their places, stay there when a frame is joined,
LEMMA BytesStay ==
    ASSUME NEW B, NEW s \in Seq(B), NEW d \in Seq(B), NEW P, NEW r \in Nat,
           Len(s) >= r, \A k \in 1..r : s[k] \in P \X {k}
    PROVE  /\ s \o d \in Seq(B) /\ Len(s \o d) >= r
           /\ \A k \in 1..r : (s \o d)[k] \in P \X {k}
<1>1. Len(s) \in Nat /\ Len(d) \in Nat
  BY LenProperties
<1>2. /\ s \o d \in Seq(B) /\ Len(s \o d) = Len(s) + Len(d)
      /\ \A k \in 1..(Len(s) + Len(d)) :
           (s \o d)[k] = IF k <= Len(s) THEN s[k] ELSE d[k - Len(s)]
  BY ConcatProperties
<1> DEFINE c == s \o d
<1> HIDE DEF c
<1>3. ASSUME NEW k \in 1..r PROVE c[k] \in P \X {k}
  <2>1. k \in 1..(Len(s) + Len(d)) /\ k <= Len(s)
    BY <1>1
  <2>2. c[k] = s[k]
    BY <1>2, <2>1 DEF c
  <2> QED
    BY <2>2
<1> QED
  BY <1>1, <1>2, <1>3 DEF c

\* and those of a frame that continues them come to theirs.
LEMMA BytesContinue ==
    ASSUME NEW B, NEW s \in Seq(B), NEW d \in Seq(B), NEW P,
           \A k \in 1..Len(s) : s[k] \in P \X {k},
           \A j \in 1..Len(d) : d[j] \in P \X {Len(s) + j}
    PROVE  /\ s \o d \in Seq(B) /\ Len(s \o d) = Len(s) + Len(d)
           /\ \A k \in 1..(Len(s) + Len(d)) : (s \o d)[k] \in P \X {k}
<1> DEFINE r == Len(s)
           e == Len(s) + Len(d)
<1>1. r \in Nat /\ Len(d) \in Nat /\ e \in Nat /\ Len(s) = r /\ r + Len(d) = e
  BY LenProperties
<1>2. /\ s \o d \in Seq(B) /\ Len(s \o d) = Len(s) + Len(d)
      /\ \A k \in 1..(Len(s) + Len(d)) :
           (s \o d)[k] = IF k <= Len(s) THEN s[k] ELSE d[k - Len(s)]
  BY ConcatProperties
<1> DEFINE c == s \o d
<1> HIDE DEF c, r, e
<1>3. ASSUME NEW k \in 1..e PROVE c[k] \in P \X {k}
  <2>1. CASE k <= r
    BY <1>1, <1>2, <2>1 DEF c
  <2>2. CASE ~ (k <= r)
    <3>1. k - r \in 1..Len(d) /\ r + (k - r) = k
      BY <1>1, <2>2
    <3>2. c[k] = d[k - r]
      BY <1>1, <1>2, <2>2 DEF c
    <3>3. d[k - r] \in P \X {r + (k - r)}
      BY <3>1 DEF r
    <3> QED
      BY <3>1, <3>2, <3>3
  <2> QED
    BY <2>1, <2>2
<1> QED
  BY <1>1, <1>2, <1>3 DEF c

\* Bytes with the number of their payload and their place in it.
Named == Nat \X Nat

\* The first m frames have the sizes of the frames of a payload of len bytes,
\* and bytes from their places in payloads of P.
Tiles(frames, m, len, P) ==
    \A n \in 1..m :
        /\ Len(frames[n].data) = Reach(n, len) - Reach(n - 1, len)
        /\ \A j \in 1..Len(frames[n].data) :
             frames[n].data[j] \in P \X {Reach(n - 1, len) + j}

\* Then, once joined, the bytes up to there are in their places.
LEMMA JoinedBytes ==
    ASSUME NEW frames, NEW count \in Nat, NEW m \in 1..count, DOMAIN frames = 1..count,
           \A n \in 1..count : frames[n].data \in Seq(Named),
           NEW len \in Nat, NEW P, Tiles(frames, m, len, P)
    PROVE  /\ Joined(frames) \in Seq(Named)
           /\ Len(Joined(frames)) >= Reach(m, len)
           /\ m = count => Len(Joined(frames)) = Reach(m, len)
           /\ \A k \in 1..Reach(m, len) : Joined(frames)[k] \in P \X {k}
<1> USE DEF Tiles
<1>1. PICK t : /\ t[1] = frames[1].data
               /\ \A i \in 2..count : t[i] = t[i - 1] \o frames[i].data
               /\ Joined(frames) = t[count]
  <2>1. count > 0
    OBVIOUS
  <2> QED
    BY <2>1, OneByOne
<1> DEFINE upto(i) == Reach(IF i <= m THEN i ELSE m, len)
           Claim(i) == /\ t[i] \in Seq(Named)
                       /\ Len(t[i]) >= upto(i)
                       /\ i <= m => Len(t[i]) = upto(i)
                       /\ \A k \in 1..upto(i) : t[i][k] \in P \X {k}
           S == {i \in 1..count : ~ Claim(i)}
<1>2. /\ Reach(0, len) = 0
      /\ \A n \in 1..m : Reach(n, len) \in Nat /\ Reach(n - 1, len) \in Nat
                         /\ Reach(n - 1, len) <= Reach(n, len)
  <2>1. Reach(0, len) = 0
    BY DEF Reach
  <2>2. ASSUME NEW n \in 1..m
        PROVE  Reach(n, len) \in Nat /\ Reach(n - 1, len) \in Nat
               /\ Reach(n - 1, len) <= Reach(n, len)
    <3>1. n \in Nat /\ n - 1 \in Nat /\ (n - 1) + 1 = n
      OBVIOUS
    <3>2. Reach(n, len) \in 0..len /\ Reach(n - 1, len) \in 0..len
      BY <3>1, ReachGrows
    <3>3. Reach(n - 1, len) <= Reach((n - 1) + 1, len)
      BY <3>1, ReachGrows
    <3> QED
      BY <3>1, <3>2, <3>3
  <2> QED
    BY <2>1, <2>2
<1>3. Claim(1)
  <2>1. 1 \in 1..m /\ 1 \in 1..count /\ upto(1) = Reach(1, len) /\ Reach(1 - 1, len) = 0
    BY <1>2
  <2>2. Reach(1, len) \in Nat /\ Len(t[1]) = Reach(1, len) - 0 /\ t[1] \in Seq(Named)
    BY <1>1, <1>2, <2>1
  <2>3. \A k \in 1..Reach(1, len) : t[1][k] \in P \X {0 + k}
    BY <1>1, <2>1, <2>2
  <2> QED
    BY <2>1, <2>2, <2>3
<1>4. ASSUME NEW i \in 2..count, Claim(i - 1) PROVE Claim(i)
  <2> DEFINE d == frames[i].data
             s == t[i - 1]
  <2>1. i - 1 \in 1..count /\ i \in 1..count /\ i \in Nat /\ m \in Nat
    OBVIOUS
  <2>2. t[i] = s \o d /\ s \in Seq(Named) /\ d \in Seq(Named)
    BY <1>1, <1>4, <2>1
  <2> HIDE DEF d
  <2>3. CASE i <= m
    <3>1. i \in 1..m /\ i - 1 <= m /\ upto(i) = Reach(i, len) /\ upto(i - 1) = Reach(i - 1, len)
      BY <2>1, <2>3
    <3>2. Reach(i, len) \in Nat /\ Reach(i - 1, len) \in Nat
      BY <1>2, <3>1
    <3>3. Len(s) = Reach(i - 1, len) /\ \A k \in 1..Reach(i - 1, len) : s[k] \in P \X {k}
      BY <1>4, <3>1
    <3>4. /\ Len(d) = Reach(i, len) - Reach(i - 1, len)
          /\ \A j \in 1..Len(d) : d[j] \in P \X {Reach(i - 1, len) + j}
      BY <3>1 DEF d
    <3> HIDE DEF upto, s
    <3>5. /\ t[i] \in Seq(Named) /\ Len(t[i]) = Reach(i, len)
          /\ \A k \in 1..Reach(i, len) : t[i][k] \in P \X {k}
      <4>1. /\ \A k \in 1..Len(s) : s[k] \in P \X {k}
            /\ \A j \in 1..Len(d) : d[j] \in P \X {Len(s) + j}
        BY <3>3, <3>4
      <4>2. /\ s \o d \in Seq(Named) /\ Len(s \o d) = Len(s) + Len(d)
            /\ \A k \in 1..(Len(s) + Len(d)) : (s \o d)[k] \in P \X {k}
        BY ONLY <2>2, <4>1, BytesContinue
      <4>3. Len(s) + Len(d) = Reach(i, len)
        BY <3>2, <3>3, <3>4
      <4> QED
        BY <2>2, <4>2, <4>3
    <3> QED
      BY <2>3, <3>1, <3>2, <3>5
  <2>4. CASE ~ (i <= m)
    <3>1. upto(i) = Reach(m, len) /\ upto(i - 1) = Reach(m, len) /\ Reach(m, len) \in Nat
      <4>1. Reach(m, len) \in Nat
        BY <1>2
      <4>2. i - 1 = m \/ ~ (i - 1 <= m)
        BY <2>1, <2>4
      <4> QED
        BY <2>4, <4>1, <4>2
    <3>2. Len(s) >= Reach(m, len) /\ \A k \in 1..Reach(m, len) : s[k] \in P \X {k}
      BY <1>4, <3>1
    <3> HIDE DEF upto, s
    <3>3. /\ t[i] \in Seq(Named) /\ Len(t[i]) >= Reach(m, len)
          /\ \A k \in 1..Reach(m, len) : t[i][k] \in P \X {k}
      BY <2>2, <3>1, <3>2, BytesStay
    <3> QED
      BY <2>4, <3>1, <3>3
  <2> QED
    BY <2>3, <2>4
<1> HIDE DEF Claim
<1>5. S = {}
  <2>1. SUFFICES ASSUME S # {} PROVE FALSE
    OBVIOUS
  <2>2. PICK n \in S : \A i \in S : n <= i
    <3>1. S \subseteq Nat
      OBVIOUS
    <3> HIDE DEF S
    <3> QED
      BY <2>1, <3>1, LeastElement
  <2>3. n # 1
    BY <1>3, <2>2
  <2>4. n \in 2..count /\ n - 1 \in 1..count /\ n - 1 \notin S
    BY <2>2, <2>3
  <2> QED
    BY <1>4, <2>2, <2>4
<1>6. Claim(count)
  <2>1. count \in 1..count /\ count \notin S
    BY <1>5
  <2> QED
    BY <2>1
<1>7. upto(count) = Reach(m, len) /\ (m = count => count <= m)
  BY DEF upto
<1> HIDE DEF upto, S
<1> QED
  BY <1>1, <1>6, <1>7 DEF Claim

-----------------------------------------------------------------------------
\* What was sent and collected

Payload == [id : Ids, len : Lengths, by : {"python", "firmware"}]

\* No sender cuts a payload that is too long for it,
PayloadsFit ==
    /\ payloads \in Seq(Payload) /\ Len(payloads) <= MaxPayloads
    /\ \A p \in DOMAIN payloads :
         payloads[p].len <= IF payloads[p].by = "python" THEN MAX_PAYLOAD
                                                         ELSE TRANSPORT_MAX

\* and only their frames are collected.
FramesSent ==
    /\ got \in Seq(Nat \X Nat) /\ Len(got) <= MaxFrames
    /\ \A n \in DOMAIN got : /\ got[n][1] \in DOMAIN payloads
                             /\ got[n] \in FramesOf(got[n][1])

IInv == PayloadsFit /\ FramesSent

\* The payloads, one by one.
LEMMA EachPayload ==
    ASSUME PayloadsFit
    PROVE  /\ Len(payloads) \in Nat /\ DOMAIN payloads = 1..Len(payloads)
           /\ \A p \in DOMAIN payloads : /\ payloads[p] \in Payload
                                         /\ payloads[p].len \in Nat
                                         /\ p \in Nat /\ p > 0
<1>1. /\ Len(payloads) \in Nat /\ DOMAIN payloads = 1..Len(payloads)
      /\ \A p \in 1..Len(payloads) : payloads[p] \in Payload
  BY LenProperties, ElementOfSeq DEF PayloadsFit
<1>2. \A new \in Payload : new.len \in Nat
  BY BoundsAssumption DEF Payload
<1>3. \A p \in DOMAIN payloads : payloads[p] \in Payload /\ p \in Nat /\ p > 0
  BY <1>1
<1> QED
  BY <1>1, <1>2, <1>3

\* One more payload leaves the frames of the earlier ones alone.
LEMMA PayloadSent ==
    ASSUME IInv, NEW new \in Payload, payloads' = Append(payloads, new), got' = got,
           Len(payloads) < MaxPayloads,
           new.len <= IF new.by = "python" THEN MAX_PAYLOAD ELSE TRANSPORT_MAX
    PROVE  IInv'
<1>1. /\ Len(payloads) \in Nat /\ DOMAIN payloads = 1..Len(payloads)
      /\ payloads \in Seq(Payload) /\ MaxPayloads \in Nat
  BY EachPayload, BoundsAssumption DEF IInv, PayloadsFit
<1>2. /\ payloads' \in Seq(Payload) /\ Len(payloads') = Len(payloads) + 1
      /\ \A p \in 1..Len(payloads) : payloads'[p] = payloads[p]
      /\ payloads'[Len(payloads) + 1] = new
  BY <1>1, AppendProperties
<1>3. DOMAIN payloads' = 1..(Len(payloads) + 1)
  BY <1>2, LenProperties
<1>4. PayloadsFit'
  <2>1. ASSUME NEW p \in DOMAIN payloads'
        PROVE  payloads'[p].len <= IF payloads'[p].by = "python" THEN MAX_PAYLOAD
                                                                 ELSE TRANSPORT_MAX
    <3>1. CASE p \in DOMAIN payloads
      BY <1>1, <1>2, <3>1 DEF IInv, PayloadsFit
    <3>2. CASE p = Len(payloads) + 1
      BY <1>2, <3>2
    <3> QED
      BY <1>1, <1>3, <3>1, <3>2
  <2> QED
    BY <1>1, <1>2, <2>1 DEF PayloadsFit, MAX_PAYLOAD
<1>5. \A p \in DOMAIN payloads : p \in DOMAIN payloads' /\ FramesOf(p)' = FramesOf(p)
  BY <1>1, <1>2, <1>3 DEF FramesOf
<1>6. FramesSent'
  BY <1>5 DEF IInv, FramesSent
<1> QED
  BY <1>4, <1>6 DEF IInv

\* The invariant holds in every reachable state.
THEOREM Invariance == Spec => []IInv
<1>1. Init => IInv
  <2> SUFFICES ASSUME Init PROVE IInv
    OBVIOUS
  <2>1. payloads = << >> /\ got = << >> /\ DOMAIN payloads = {} /\ DOMAIN got = {}
    BY DEF Init
  <2>2. /\ << >> \in Seq(Payload) /\ << >> \in Seq(Nat \X Nat) /\ Len(<< >>) = 0
        /\ MaxPayloads \in Nat /\ MaxFrames \in Nat
    BY EmptySeq, BoundsAssumption
  <2>3. PayloadsFit
    BY <2>1, <2>2 DEF PayloadsFit
  <2>4. FramesSent
    BY <2>1, <2>2 DEF FramesSent
  <2> QED
    BY <2>3, <2>4 DEF IInv
<1>2. IInv /\ [Next]_vars => IInv'
  <2> SUFFICES ASSUME IInv, [Next]_vars PROVE IInv'
    OBVIOUS
  <2>1. CASE SendPython
    <3>1. PICK id \in Ids, len \in Lengths :
            /\ len <= MAX_PAYLOAD
            /\ payloads' = Append(payloads, [id |-> id, len |-> len, by |-> "python"])
      BY <2>1 DEF SendPython
    <3> DEFINE new == [id |-> id, len |-> len, by |-> "python"]
    <3>2. new \in Payload /\ new.len <= MAX_PAYLOAD /\ new.by = "python"
      BY <3>1 DEF Payload
    <3>3. got' = got /\ Len(payloads) < MaxPayloads /\ payloads' = Append(payloads, new)
      BY <2>1, <3>1 DEF SendPython
    <3> HIDE DEF new
    <3> QED
      BY <3>2, <3>3, PayloadSent
  <2>2. CASE SendFirmware
    <3>1. PICK id \in Ids, len \in Lengths \cap (1..TRANSPORT_MAX) :
            payloads' = Append(payloads, [id |-> id, len |-> len, by |-> "firmware"])
      BY <2>2 DEF SendFirmware
    <3> DEFINE new == [id |-> id, len |-> len, by |-> "firmware"]
    <3>2. new \in Payload /\ new.len <= TRANSPORT_MAX /\ new.by # "python"
      BY <3>1 DEF Payload
    <3>3. got' = got /\ Len(payloads) < MaxPayloads /\ payloads' = Append(payloads, new)
      BY <2>2, <3>1 DEF SendFirmware
    <3> HIDE DEF new
    <3> QED
      BY <3>2, <3>3, PayloadSent
  <2>3. CASE Collect
    <3>1. PICK p \in DOMAIN payloads : \E f \in FramesOf(p) : got' = Append(got, f)
      BY <2>3 DEF Collect
    <3>2. PICK f \in FramesOf(p) : got' = Append(got, f)
      BY <3>1
    <3>3. p \in Nat /\ payloads[p].len \in Nat
      BY EachPayload DEF IInv
    <3>4. f[1] = p /\ f \in Nat \X Nat
      <4>1. f = <<p, f[2]>> /\ f[2] \in Nat
        BY <3>3, FrameBytes
      <4> QED
        BY <3>3, <4>1
    <3>5. /\ got \in Seq(Nat \X Nat) /\ Len(got) \in Nat /\ DOMAIN got = 1..Len(got)
          /\ Len(got) < MaxFrames /\ MaxFrames \in Nat
      BY <2>3, LenProperties, BoundsAssumption DEF IInv, FramesSent, Collect
    <3>6. /\ got' \in Seq(Nat \X Nat) /\ Len(got') = Len(got) + 1
          /\ \A n \in 1..Len(got) : got'[n] = got[n]
          /\ got'[Len(got) + 1] = f
      BY <3>2, <3>4, <3>5, AppendProperties
    <3>7. payloads' = payloads /\ \A q : FramesOf(q)' = FramesOf(q)
      BY <2>3 DEF Collect, FramesOf
    <3>8. ASSUME NEW n \in DOMAIN got'
          PROVE  got'[n][1] \in DOMAIN payloads /\ got'[n] \in FramesOf(got'[n][1])
      <4>1. n \in 1..Len(got) \/ n = Len(got) + 1
        BY <3>5, <3>6, LenProperties
      <4>2. CASE n \in 1..Len(got)
        BY <3>5, <3>6, <4>2 DEF IInv, FramesSent
      <4>3. CASE n = Len(got) + 1
        BY <3>4, <3>6, <4>3
      <4> QED
        BY <4>1, <4>2, <4>3
    <3>9. FramesSent'
      BY <3>5, <3>6, <3>7, <3>8 DEF FramesSent
    <3> QED
      BY <3>7, <3>9 DEF IInv, PayloadsFit
  <2>4. CASE StartOver
    <3>1. got' = << >> /\ payloads' = payloads /\ DOMAIN got' = {}
      BY <2>4 DEF StartOver
    <3>2. << >> \in Seq(Nat \X Nat) /\ Len(<< >>) = 0 /\ MaxFrames \in Nat
      BY EmptySeq, BoundsAssumption
    <3>3. FramesSent'
      BY <3>1, <3>2 DEF FramesSent
    <3> QED
      BY <3>1, <3>3 DEF IInv, PayloadsFit
  <2>5. CASE UNCHANGED vars
    BY <2>5 DEF vars, IInv, PayloadsFit, FramesSent, FramesOf
  <2> QED
    BY <2>1, <2>2, <2>3, <2>4, <2>5 DEF Next
<1> QED
  BY <1>1, <1>2, PTL DEF Spec

\* Every frame fits Classic CAN and its number one byte, at every payload length.
THEOREM TypeCorrect == Spec => []TypeOK
<1>1. IInv => TypeOK
  <2> SUFFICES ASSUME IInv PROVE TypeOK
    OBVIOUS
  <2>1. ASSUME NEW p \in DOMAIN payloads, NEW f \in FramesOf(p)
        PROVE  /\ Frame(f).byte0 \in 0..MAX_SEQUENCE
               /\ Len(Frame(f).data) <= IF f[2] = 0 THEN FIRST_FRAME_PAYLOAD
                                                    ELSE CONT_FRAME_PAYLOAD
    <3>1. payloads[p].len \in Nat
      BY EachPayload DEF IInv
    <3>2. /\ f[1] = p /\ f[2] \in 0..(FrameCount(payloads[p].len) - 1) /\ f[2] \in Nat
          /\ FrameCount(payloads[p].len) \in Nat
          /\ Plain(f) \/ Flagged(f)
          /\ Len(Frame(f).data) <= IF f[2] = 0 THEN FIRST_FRAME_PAYLOAD
                                               ELSE CONT_FRAME_PAYLOAD
      BY <3>1, FrameBytes, FramesCover
    <3>3. /\ payloads[p].len <= MAX_PAYLOAD =>
               FrameCount(payloads[p].len) - 1 <= MAX_SEQUENCE
          /\ payloads[p].len <= TRANSPORT_MAX =>
               FrameCount(payloads[p].len) - 1 <= FRAG_LAST_FLAG - 1
      BY <3>1, FrameLimits
    <3>4. payloads[p].len <= IF payloads[p].by = "python" THEN MAX_PAYLOAD ELSE TRANSPORT_MAX
      BY DEF IInv, PayloadsFit
    <3>5. MAX_SEQUENCE \in Nat /\ FRAG_LAST_FLAG \in Nat
          /\ MAX_SEQUENCE + 1 = 2 * FRAG_LAST_FLAG /\ FRAG_LAST_FLAG > 0
      BY SizeAssumption
    <3>6. Frame(f).byte0 \in 0..MAX_SEQUENCE
      <4>1. CASE Flagged(f)
        BY <3>2, <3>3, <3>4, <3>5, <4>1 DEF Flagged
      <4>2. CASE Plain(f)
        BY <3>2, <3>3, <3>4, <3>5, <4>2 DEF Plain
      <4> QED
        BY <3>2, <4>1, <4>2
    <3> QED
      BY <3>2, <3>6
  <2>2. \A p \in DOMAIN payloads :
          payloads[p] \in [id : Ids, len : Lengths, by : {"python", "firmware"}]
    BY EachPayload DEF IInv, Payload
  <2> QED
    BY <2>1, <2>2 DEF TypeOK, IInv, PayloadsFit, FramesSent
<1> QED
  BY <1>1, Invariance, PTL

-----------------------------------------------------------------------------
\* What is made of the frames collected

\* A frame with its own number has the bytes of its place.
LEMMA PlainBytes ==
    ASSUME NEW p \in Nat, payloads[p].len \in Nat, NEW f \in FramesOf(p), Plain(f)
    PROVE  LET n == Frame(f).byte0 + 1
               len == payloads[p].len
           IN  /\ n \in 1..FrameCount(len)
               /\ Frame(f).data \in Seq({p} \X Nat)
               /\ Len(Frame(f).data) = Reach(n, len) - Reach(n - 1, len)
               /\ \A j \in 1..Len(Frame(f).data) :
                    Frame(f).data[j] \in {p} \X {Reach(n - 1, len) + j}
<1> DEFINE len == payloads[p].len
           i == f[2]
<1>1. /\ f[1] = p /\ i \in 0..(FrameCount(len) - 1) /\ i \in Nat
      /\ Frame(f).byte0 = i /\ Frame(f).data = Chunk(p, i)
  BY FrameBytes DEF Plain
<1>2. FrameCount(len) \in Nat
  BY FramesCover
<1>3. /\ Chunk(p, i) \in Seq({p} \X Nat)
      /\ Len(Chunk(p, i)) = Reach(i + 1, len) - Reach(i, len)
      /\ \A j \in 1..(Reach(i + 1, len) - Reach(i, len)) :
           Chunk(p, i)[j] = <<p, Reach(i, len) + j>>
  BY <1>1, ChunkBytes
<1>4. (i + 1) - 1 = i /\ i + 1 \in 1..FrameCount(len)
  BY <1>1, <1>2
<1> HIDE DEF i, len
<1> QED
  BY <1>1, <1>3, <1>4 DEF len

\* The list collected.
LEMMA EachFrame ==
    ASSUME IInv
    PROVE  /\ Len(got) \in Nat /\ DOMAIN got = 1..Len(got) /\ DOMAIN Collected = 1..Len(got)
           /\ got # << >> => Len(got) > 0
           /\ Collected = << >> <=> got = << >>
           /\ \A n \in 1..Len(got) :
                LET p == got[n][1]
                    len == payloads[p].len
                IN  /\ Collected[n] = Frame(got[n])
                    /\ p \in Nat /\ p > 0 /\ p \in DOMAIN payloads
                    /\ len \in Nat /\ FrameCount(len) \in Nat /\ FrameCount(len) >= 1
                    /\ got[n] \in FramesOf(p) /\ got[n] = <<p, got[n][2]>>
                    /\ got[n][2] \in 0..(FrameCount(len) - 1)
                    /\ Collected[n].byte0 \in Nat
                    /\ Collected[n].total = len
                    /\ Collected[n].data \in Seq(Nat \X Nat)
<1>1. Len(got) \in Nat /\ DOMAIN got = 1..Len(got) /\ (got # << >> => Len(got) > 0)
  BY LenProperties, EmptySeq DEF IInv, FramesSent
<1>2. /\ DOMAIN Collected = 1..Len(got)
      /\ \A n \in 1..Len(got) : Collected[n] = Frame(got[n])
  BY <1>1 DEF Collected
<1>3. Collected = << >> <=> got = << >>
  <2>1. CASE got = << >>
    BY <2>1 DEF Collected
  <2>2. CASE got # << >>
    <3>1. 1 \in DOMAIN Collected
      BY <1>1, <1>2, <2>2
    <3> QED
      BY <2>2, <3>1
  <2> QED
    BY <2>1, <2>2
<1>4. ASSUME NEW n \in 1..Len(got)
      PROVE  LET p == got[n][1]
                 len == payloads[p].len
             IN  /\ p \in Nat /\ p > 0 /\ p \in DOMAIN payloads
                 /\ len \in Nat /\ FrameCount(len) \in Nat /\ FrameCount(len) >= 1
                 /\ got[n] \in FramesOf(p) /\ got[n] = <<p, got[n][2]>>
                 /\ got[n][2] \in 0..(FrameCount(len) - 1)
                 /\ Frame(got[n]).byte0 \in Nat
                 /\ Frame(got[n]).total = len
                 /\ Frame(got[n]).data \in Seq(Nat \X Nat)
  <2> DEFINE p == got[n][1]
             len == payloads[p].len
  <2>1. p \in DOMAIN payloads /\ got[n] \in FramesOf(p)
    BY <1>1 DEF IInv, FramesSent
  <2> HIDE DEF p
  <2>2. p \in Nat /\ p > 0 /\ len \in Nat
    BY <2>1, EachPayload DEF IInv
  <2>3. FrameCount(len) \in Nat /\ FrameCount(len) >= 1
    BY <2>2, FramesCover
  <2>4. /\ got[n] = <<p, got[n][2]>> /\ got[n][2] \in 0..(FrameCount(len) - 1)
        /\ Frame(got[n]).byte0 \in Nat /\ Frame(got[n]).total = len
        /\ Frame(got[n]).data \in Seq(({p} \X Nat) \cup {Zero})
    BY <2>1, <2>2, FrameBytes
  <2>5. ({p} \X Nat) \cup {Zero} \subseteq Nat \X Nat
    BY <2>2 DEF Zero
  <2>6. Frame(got[n]).data \in Seq(Nat \X Nat)
    BY <2>4, <2>5, SeqMonotonic
  <2> QED
    BY <2>1, <2>2, <2>3, <2>4, <2>6 DEF p
<1> QED
  BY <1>1, <1>2, <1>3, <1>4

\* The list sorted.
LEMMA SortedFrames ==
    ASSUME IInv
    PROVE  /\ DOMAIN Ordered(Collected) = 1..Len(got)
           /\ \E perm :
                /\ Rearrangement(perm, Len(got))
                /\ \A k \in 1..Len(got) :
                     LET f == got[perm[k]]
                         o == Ordered(Collected)[k]
                     IN  /\ perm[k] \in 1..Len(got) /\ o = Frame(f)
                         /\ f[1] \in Nat /\ f[1] > 0 /\ f[1] \in DOMAIN payloads
                         /\ payloads[f[1]].len \in Nat /\ f \in FramesOf(f[1])
                         /\ o.byte0 \in Nat /\ o.total = payloads[f[1]].len
                         /\ o.data \in Seq(Nat \X Nat)
<1>1. /\ Len(got) \in Nat /\ DOMAIN Collected = 1..Len(got)
      /\ \A n \in 1..Len(got) : /\ Collected[n] = Frame(got[n])
                                /\ Collected[n].byte0 \in Int
  BY EachFrame
<1>2. PICK perm : /\ Rearrangement(perm, Len(got))
                  /\ Ordered(Collected) = [k \in 1..Len(got) |-> Collected[perm[k]]]
  BY <1>1, SortedList
<1>3. ASSUME NEW k \in 1..Len(got)
      PROVE  LET f == got[perm[k]]
                 o == Ordered(Collected)[k]
             IN  /\ perm[k] \in 1..Len(got) /\ o = Frame(f)
                 /\ f[1] \in Nat /\ f[1] > 0 /\ f[1] \in DOMAIN payloads
                 /\ payloads[f[1]].len \in Nat /\ f \in FramesOf(f[1])
                 /\ o.byte0 \in Nat /\ o.total = payloads[f[1]].len
                 /\ o.data \in Seq(Nat \X Nat)
  <2> DEFINE n == perm[k]
  <2>1. n \in 1..Len(got) /\ Ordered(Collected)[k] = Collected[n]
    BY <1>2 DEF Rearrangement
  <2> HIDE DEF n
  <2>2. LET p == got[n][1]
        IN  /\ Collected[n] = Frame(got[n])
            /\ p \in Nat /\ p > 0 /\ p \in DOMAIN payloads
            /\ payloads[p].len \in Nat /\ got[n] \in FramesOf(p)
            /\ Collected[n].byte0 \in Nat /\ Collected[n].total = payloads[p].len
            /\ Collected[n].data \in Seq(Nat \X Nat)
    BY <2>1, EachFrame
  <2> QED
    BY <2>1, <2>2 DEF n
<1> QED
  BY <1>2, <1>3

\* reassemble() has something to make a payload of.
Acceptable ==
    /\ got # << >>
    /\ \A n \in 1..Len(got) : Collected[n].id = Collected[1].id
    /\ \A k \in 1..Len(got) : Ordered(Collected)[k].byte0 = k - 1
    /\ Len(Joined(Ordered(Collected))) >= Ordered(Collected)[1].total

\* Nothing is joined but what is in the frames.
LEMMA JoinedFrom ==
    ASSUME NEW frames, NEW count \in Nat, count > 0, DOMAIN frames = 1..count,
           NEW B, \A k \in 1..count : frames[k].data \in Seq(B)
    PROVE  Joined(frames) \in Seq(B)
<1>1. PICK t : /\ t[1] = frames[1].data
               /\ \A i \in 2..count : t[i] = t[i - 1] \o frames[i].data
               /\ Joined(frames) = t[count]
  BY OneByOne
<1> DEFINE S == {i \in 1..count : t[i] \notin Seq(B)}
<1>2. S = {}
  <2>1. SUFFICES ASSUME S # {} PROVE FALSE
    OBVIOUS
  <2>2. PICK n \in S : \A i \in S : n <= i
    <3>1. S \subseteq Nat
      OBVIOUS
    <3> HIDE DEF S
    <3> QED
      BY <2>1, <3>1, LeastElement
  <2>3. n # 1
    BY <1>1, <2>2
  <2>4. n \in 2..count /\ n - 1 \in 1..count /\ n - 1 \notin S
    BY <2>2, <2>3
  <2>5. t[n - 1] \o frames[n].data \in Seq(B)
    <3>1. t[n - 1] \in Seq(B) /\ frames[n].data \in Seq(B)
      BY <2>4
    <3> QED
      BY <3>1, ConcatProperties
  <2> QED
    BY <1>1, <2>2, <2>4, <2>5
<1> QED
  BY <1>1, <1>2

LEMMA JoinedIsSeq ==
    ASSUME IInv, got # << >>
    PROVE  Joined(Ordered(Collected)) \in Seq(Nat \X Nat)
           /\ Len(Joined(Ordered(Collected))) \in Nat
<1> DEFINE o == Ordered(Collected)
<1>1. DOMAIN o = 1..Len(got) /\ \A k \in 1..Len(got) : o[k].data \in Seq(Nat \X Nat)
  BY SortedFrames
<1>2. Len(got) \in Nat /\ Len(got) > 0
  BY EachFrame
<1> HIDE DEF o
<1>3. Joined(o) \in Seq(Nat \X Nat)
  BY <1>1, <1>2, JoinedFrom
<1> QED
  BY <1>3, LenProperties DEF o

LEMMA ResultCases ==
    ASSUME IInv
    PROVE  Result = IF Acceptable
                    THEN SubSeq(Joined(Ordered(Collected)), 1, Ordered(Collected)[1].total)
                    ELSE Refused
<1> DEFINE o == Ordered(Collected)
<1>1. /\ DOMAIN Collected = 1..Len(got) /\ (Collected = << >> <=> got = << >>)
      /\ Range(Collected) = {Collected[n] : n \in 1..Len(got)}
  BY EachFrame DEF Range
<1>2. DOMAIN o = 1..Len(got)
  BY SortedFrames
<1>3. got # << >> => (Len(Joined(o)) < o[1].total <=> ~ (Len(Joined(o)) >= o[1].total))
  <2>1. SUFFICES ASSUME got # << >>
                 PROVE  Len(Joined(o)) < o[1].total <=> ~ (Len(Joined(o)) >= o[1].total)
    OBVIOUS
  <2>2. Len(Joined(o)) \in Nat
    BY <2>1, JoinedIsSeq
  <2>3. 1 \in 1..Len(got)
    BY <2>1, EachFrame
  <2>4. o[1].total \in Nat
    BY <2>3, SortedFrames
  <2> HIDE DEF o
  <2> QED
    BY <2>2, <2>4
<1> QED
  BY <1>1, <1>2, <1>3 DEF Result, Reassemble, Acceptable

\* Of the list sorted, the first m frames have their own numbers, one after the
\* other, and are of payloads of P, all of len bytes;
Numbered(m, len, P) ==
    \A k \in 1..m :
        LET o == Ordered(Collected)[k]
        IN  /\ o.byte0 = k - 1
            /\ \E p \in P : \E f \in FramesOf(p) :
                 p \in Nat /\ payloads[p].len = len /\ Plain(f) /\ o = Frame(f)

\* then the bytes up to there are in their places.
LEMMA PlainJoined ==
    ASSUME IInv, NEW len \in Nat, NEW m \in 1..Len(got), NEW P, Numbered(m, len, P)
    PROVE  LET joined == Joined(Ordered(Collected))
           IN  /\ Len(joined) >= Reach(m, len)
               /\ m = Len(got) => Len(joined) = Reach(m, len)
               /\ \A k \in 1..Reach(m, len) : joined[k] \in P \X {k}
<1> DEFINE o == Ordered(Collected)
<1>1. /\ Len(got) \in Nat /\ DOMAIN o = 1..Len(got)
      /\ \A k \in 1..Len(got) : o[k].data \in Seq(Named)
  BY SortedFrames, EachFrame DEF Named
<1>2. ASSUME NEW k \in 1..m
      PROVE  /\ Len(o[k].data) = Reach(k, len) - Reach(k - 1, len)
             /\ \A j \in 1..Len(o[k].data) :
                  o[k].data[j] \in P \X {Reach(k - 1, len) + j}
  <2>1. PICK p \in P : \E f \in FramesOf(p) :
          p \in Nat /\ payloads[p].len = len /\ Plain(f) /\ o[k] = Frame(f)
    BY DEF Numbered
  <2>2. PICK f \in FramesOf(p) :
          p \in Nat /\ payloads[p].len = len /\ Plain(f) /\ o[k] = Frame(f)
    BY <2>1
  <2>3. Frame(f).byte0 + 1 = k
    BY <2>2 DEF Numbered
  <2>4. /\ Len(Frame(f).data) = Reach(k, len) - Reach(k - 1, len)
        /\ \A j \in 1..Len(Frame(f).data) :
             Frame(f).data[j] \in {p} \X {Reach(k - 1, len) + j}
    BY <2>2, <2>3, PlainBytes
  <2> HIDE DEF o
  <2> QED
    BY <2>2, <2>4
<1> HIDE DEF o
<1>3. Tiles(o, m, len, P)
  BY <1>2 DEF Tiles
<1>4. /\ Len(Joined(o)) >= Reach(m, len)
      /\ m = Len(got) => Len(Joined(o)) = Reach(m, len)
      /\ \A k \in 1..Reach(m, len) : Joined(o)[k] \in P \X {k}
  BY <1>1, <1>3, JoinedBytes
<1> QED
  BY <1>4 DEF o

\* The frames of one payload that a list has.
LEMMA OneOfPayload ==
    ASSUME IInv, NEW p \in DOMAIN payloads, Range(got) \subseteq FramesOf(p),
           NEW k \in 1..Len(got)
    PROVE  LET o == Ordered(Collected)[k]
               last == FrameCount(payloads[p].len) - 1
           IN  \E f \in FramesOf(p) :
                 /\ o = Frame(f) /\ f \in Range(got) /\ f = <<p, f[2]>> /\ f[2] \in 0..last
                 /\ \/ Plain(f) /\ o.byte0 = f[2]
                    \/ payloads[p].by # "python" /\ f[2] = last /\ o.byte0 = FRAG_LAST_FLAG + last
                 /\ payloads[p].by = "python" => Plain(f)
                 /\ payloads[p].by # "python" /\ f[2] = last => o.byte0 = FRAG_LAST_FLAG + last
                 /\ o.total = payloads[p].len
<1>1. PICK n \in 1..Len(got) : Ordered(Collected)[k] = Frame(got[n])
  BY SortedFrames
<1>2. DOMAIN got = 1..Len(got) /\ got[n] \in Range(got)
  BY EachFrame DEF Range
<1>3. got[n] \in FramesOf(p) /\ payloads[p].len \in Nat
  BY <1>2, EachPayload DEF IInv
<1> DEFINE f == got[n]
<1>4. /\ f = <<p, f[2]>> /\ f[1] = p /\ f[2] \in 0..(FrameCount(payloads[p].len) - 1)
      /\ Frame(f).total = payloads[p].len
      /\ Plain(f) \/ Flagged(f)
      /\ payloads[p].by = "python" => Plain(f)
      /\ payloads[p].by # "python" /\ f[2] = FrameCount(payloads[p].len) - 1 => Flagged(f)
  BY <1>3, FrameBytes
<1>5. Plain(f) => Frame(f).byte0 = f[2]
  BY DEF Plain
<1>6. Flagged(f) => /\ payloads[p].by # "python"
                    /\ f[2] = FrameCount(payloads[p].len) - 1
                    /\ Frame(f).byte0 = FRAG_LAST_FLAG + f[2]
  BY <1>4 DEF Flagged
<1> HIDE DEF f
<1>7. f \in FramesOf(p) /\ f \in Range(got) /\ Ordered(Collected)[k] = Frame(f)
  BY <1>1, <1>2, <1>3 DEF f
<1> QED
  BY <1>4, <1>5, <1>6, <1>7

\* Frames of one payload that are accepted are its frames, each once, and of
\* a Python sender.
LEMMA AcceptedIsWhole ==
    ASSUME IInv, NEW p \in DOMAIN payloads, Range(got) \subseteq FramesOf(p), Acceptable
    PROVE  /\ payloads[p].by = "python" /\ Range(got) = FramesOf(p)
           /\ Len(got) = FrameCount(payloads[p].len)
<1> DEFINE o == Ordered(Collected)
           len == payloads[p].len
           last == FrameCount(len) - 1
<1>1. /\ len \in Nat /\ FrameCount(len) \in Nat /\ FrameCount(len) >= 1 /\ last \in Nat
      /\ Len(got) \in Nat /\ Len(got) >= 1 /\ p \in Nat
      /\ FRAG_LAST_FLAG \in Nat /\ FRAG_LAST_FLAG > 0
  <2>1. len \in Nat /\ p \in Nat
    BY EachPayload DEF IInv
  <2>2. Len(got) \in Nat /\ Len(got) >= 1
    BY EachFrame DEF Acceptable
  <2>3. FrameCount(len) \in Nat /\ FrameCount(len) >= 1
    BY <2>1, FramesCover
  <2> HIDE DEF len
  <2> QED
    BY <2>1, <2>2, <2>3, SizeTypes
<1>2. \A k \in 1..Len(got) : o[k].byte0 = k - 1
  BY DEF Acceptable
<1>3. \A k \in 1..Len(got) : o[k].byte0 # FRAG_LAST_FLAG + last
  <2>1. SUFFICES ASSUME NEW k \in 1..Len(got), o[k].byte0 = FRAG_LAST_FLAG + last
                 PROVE  FALSE
    OBVIOUS
  <2>2. k - 1 = FRAG_LAST_FLAG + last
    BY <1>2, <2>1
  <2>3. last + 1 \in 1..Len(got) /\ (last + 1) - 1 = last
    BY <1>1, <2>1, <2>2
  <2>4. o[last + 1].byte0 = last
    BY <1>2, <2>3
  <2>5. PICK f \in FramesOf(p) : \/ Plain(f) /\ o[last + 1].byte0 = f[2]
                                 \/ o[last + 1].byte0 = FRAG_LAST_FLAG + last
    BY <2>3, OneOfPayload
  <2>6. payloads[p].by # "python"
    <3>1. PICK g \in FramesOf(p) : /\ \/ Plain(g) /\ o[k].byte0 = g[2]
                                      \/ payloads[p].by # "python"
                                   /\ g[2] \in 0..last
      BY <2>1, OneOfPayload
    <3>2. o[k].byte0 # g[2]
      BY <1>1, <2>1, <3>1
    <3> QED
      BY <3>1, <3>2
  <2>7. PICK g \in FramesOf(p) :
          /\ \/ o[last + 1].byte0 = g[2]
             \/ o[last + 1].byte0 = FRAG_LAST_FLAG + last
          /\ g[2] = last => o[last + 1].byte0 = FRAG_LAST_FLAG + last
    BY <2>3, <2>6, OneOfPayload
  <2> HIDE DEF o, last
  <2> QED
    BY <1>1, <2>4, <2>7
<1>4. ASSUME NEW k \in 1..Len(got)
      PROVE  /\ \E f \in FramesOf(p) : /\ Plain(f) /\ o[k] = Frame(f)
                                       /\ f \in Range(got) /\ f = <<p, k - 1>>
                                       /\ o[k].total = len
             /\ k - 1 <= last
             /\ payloads[p].by # "python" => k - 1 < last
  <2>1. PICK f \in FramesOf(p) :
          /\ o[k] = Frame(f) /\ f \in Range(got) /\ f = <<p, f[2]>> /\ f[2] \in 0..last
          /\ \/ Plain(f) /\ o[k].byte0 = f[2]
             \/ o[k].byte0 = FRAG_LAST_FLAG + last
          /\ payloads[p].by # "python" /\ f[2] = last => o[k].byte0 = FRAG_LAST_FLAG + last
          /\ o[k].total = len
    BY OneOfPayload
  <2>2. o[k].byte0 = k - 1 /\ o[k].byte0 # FRAG_LAST_FLAG + last
    BY <1>2, <1>3
  <2>3. Plain(f) /\ f[2] = k - 1
    BY <2>1, <2>2
  <2>4. f = <<p, k - 1>>
    BY <2>1, <2>3
  <2>5. k - 1 <= last /\ (payloads[p].by # "python" => k - 1 < last)
    BY <1>1, <2>1, <2>2, <2>3
  <2> HIDE DEF o, last, len
  <2> QED
    BY <2>1, <2>3, <2>4, <2>5
<1>5. ~ (Len(got) < FrameCount(len))
  <2>1. SUFFICES ASSUME Len(got) < FrameCount(len) PROVE FALSE
    OBVIOUS
  <2>2. Len(Joined(o)) = Reach(Len(got), len)
    <3>1. Len(got) \in 1..Len(got)
      BY <1>1
    <3>2. ASSUME NEW k \in 1..Len(got)
          PROVE  /\ o[k].byte0 = k - 1
                 /\ \E q \in {p} : \E f \in FramesOf(q) :
                      q \in Nat /\ payloads[q].len = len /\ Plain(f) /\ o[k] = Frame(f)
      <4>1. PICK f \in FramesOf(p) : Plain(f) /\ o[k] = Frame(f)
        BY <1>4
      <4> QED
        BY <1>1, <1>2, <4>1
    <3>3. Numbered(Len(got), len, {p}) /\ len \in Nat
      BY <1>1, <3>2 DEF Numbered
    <3> HIDE DEF len
    <3> QED
      BY <3>1, <3>3, PlainJoined
  <2>3. Reach(Len(got), len) < len /\ Reach(Len(got), len) \in 0..len
    <3>1. len \in Nat /\ Len(got) \in Nat /\ Len(got) > 0 /\ Len(got) < FrameCount(len)
      BY <1>1, <2>1
    <3> HIDE DEF len
    <3> QED
      BY <3>1, ReachGrows
  <2>4. 1 \in 1..Len(got) /\ o[1].total = len
    BY <1>1, <1>4
  <2>5. Len(Joined(o)) >= o[1].total
    BY DEF Acceptable
  <2> HIDE DEF o, len
  <2> QED
    BY <1>1, <2>2, <2>3, <2>4, <2>5
<1>6. Len(got) = FrameCount(len) /\ payloads[p].by = "python"
  <2>1. Len(got) \in 1..Len(got)
    BY <1>1
  <2>2. Len(got) - 1 <= last /\ (payloads[p].by # "python" => Len(got) - 1 < last)
    BY <1>4, <2>1
  <2> QED
    BY <1>1, <1>5, <2>2
<1>7. FramesOf(p) \subseteq Range(got)
  <2>1. SUFFICES ASSUME NEW i \in 0..last PROVE <<p, i>> \in Range(got)
    BY DEF FramesOf
  <2>2. i + 1 \in 1..Len(got) /\ (i + 1) - 1 = i
    BY <1>1, <1>6
  <2>3. PICK f \in FramesOf(p) : f \in Range(got) /\ f = <<p, (i + 1) - 1>>
    BY <1>4, <2>2
  <2> QED
    BY <2>2, <2>3
<1> QED
  BY <1>6, <1>7

\* All frames of a payload, in as many places, have different numbers.
LEMMA EachFrameOnce ==
    ASSUME IInv, NEW p \in DOMAIN payloads, payloads[p].by = "python",
           Range(got) = FramesOf(p), Len(got) = FrameCount(payloads[p].len)
    PROVE  /\ \A n \in 1..Len(got) : /\ Collected[n].byte0 \in 0..(Len(got) - 1)
                                     /\ Collected[n].id = payloads[p].id
           /\ \A m, n \in 1..Len(got) : Collected[m].byte0 = Collected[n].byte0 => m = n
<1> DEFINE count == Len(got)
           number == [n \in 1..count |-> got[n][2]]
<1>1. /\ count \in Nat /\ count >= 1 /\ DOMAIN got = 1..count /\ payloads[p].len \in Nat
      /\ \A n \in 1..count : Collected[n] = Frame(got[n])
  <2>1. payloads[p].len \in Nat
    BY EachPayload DEF IInv
  <2>2. count >= 1
    BY <2>1, FramesCover
  <2> QED
    BY <2>1, <2>2, EachFrame
<1>2. \A n \in 1..count : got[n] \in FramesOf(p)
  BY <1>1 DEF Range
<1>3. ASSUME NEW n \in 1..count
      PROVE  /\ got[n][2] \in 0..(count - 1) /\ Collected[n].byte0 = got[n][2]
             /\ Collected[n].id = payloads[p].id
  <2>1. /\ got[n][2] \in 0..(FrameCount(payloads[p].len) - 1)
        /\ Frame(got[n]).id = payloads[p].id /\ Plain(got[n])
    BY <1>1, <1>2, FrameBytes
  <2> QED
    BY <1>1, <2>1 DEF Plain
<1>4. \A i \in 0..(count - 1) : \E n \in 1..count : number[n] = i
  <2>1. SUFFICES ASSUME NEW i \in 0..(count - 1) PROVE \E n \in 1..count : number[n] = i
    OBVIOUS
  <2>2. <<p, i>> \in Range(got)
    BY DEF FramesOf
  <2>3. PICK n \in 1..count : got[n] = <<p, i>>
    BY <1>1, <2>2 DEF Range
  <2> QED
    BY <2>3
<1>5. number \in [1..count -> 0..(count - 1)]
  BY <1>3
<1>6. /\ IsFiniteSet(1..count) /\ Cardinality(1..count) = count
      /\ Cardinality(0..(count - 1)) = count
  <2>1. /\ IsFiniteSet(1..count)
        /\ Cardinality(1..count) = IF 1 > count THEN 0 ELSE count - 1 + 1
        /\ Cardinality(0..(count - 1)) = IF 0 > count - 1 THEN 0 ELSE (count - 1) - 0 + 1
    <3>1. 1 \in Int /\ 0 \in Int /\ count \in Int /\ count - 1 \in Int
      BY <1>1
    <3> HIDE DEF count
    <3> QED
      BY <3>1, FS_Interval
  <2> QED
    BY <1>1, <2>1
<1> HIDE DEF number
<1>7. number \in Surjection(1..count, 0..(count - 1))
  BY <1>4, <1>5, Zenon DEF Surjection
<1>8. number \in Injection(1..count, 0..(count - 1))
  BY <1>6, <1>7, FS_Surjection, Zenon
<1>9. \A m, n \in 1..count : number[m] = number[n] => m = n
  <2>1. IsInjective(number) /\ DOMAIN number = 1..count
    BY <1>5, <1>8, Zenon DEF Injection
  <2> QED
    BY <2>1, Zenon DEF IsInjective
<1>10. \A n \in 1..count : number[n] = Collected[n].byte0
  BY <1>3 DEF number
<1>11. \A n \in 1..count : /\ Collected[n].byte0 \in 0..(count - 1)
                           /\ Collected[n].id = payloads[p].id
  BY <1>3
<1>12. \A m, n \in 1..count : Collected[m].byte0 = Collected[n].byte0 => m = n
  BY <1>9, <1>10
<1> QED
  BY <1>11, <1>12

\* They are accepted, and are the payload.
LEMMA WholeIsAccepted ==
    ASSUME IInv, NEW p \in DOMAIN payloads, payloads[p].by = "python", got # << >>,
           Range(got) = FramesOf(p), Len(got) = FrameCount(payloads[p].len)
    PROVE  Acceptable /\ SubSeq(Joined(Ordered(Collected)), 1, Ordered(Collected)[1].total)
                         = Bytes(p)
<1> DEFINE o == Ordered(Collected)
           len == payloads[p].len
           count == Len(got)
<1>1. /\ count \in Nat /\ count >= 1 /\ len \in Nat /\ p \in Nat
      /\ DOMAIN got = 1..count /\ DOMAIN Collected = 1..count
  <2>1. len \in Nat /\ p \in Nat
    BY EachPayload DEF IInv
  <2>2. count \in Nat /\ count >= 1 /\ DOMAIN got = 1..count /\ DOMAIN Collected = 1..count
    BY EachFrame
  <2> QED
    BY <2>1, <2>2
<1>2. \A k \in 1..count : o[k].byte0 = k - 1
  <2>1. /\ \A n \in 1..count : Collected[n].byte0 \in 0..(count - 1)
        /\ \A m, n \in 1..count : Collected[m].byte0 = Collected[n].byte0 => m = n
    BY EachFrameOnce
  <2> HIDE DEF count
  <2> QED
    BY <1>1, <2>1, NumberedList
<1>3. \A n \in 1..count : Collected[n].id = Collected[1].id
  BY <1>1, EachFrameOnce
<1>4. ASSUME NEW k \in 1..count
      PROVE  o[k].total = len /\ \E f \in FramesOf(p) : Plain(f) /\ o[k] = Frame(f)
  <2>1. Range(got) \subseteq FramesOf(p)
    OBVIOUS
  <2>2. PICK f \in FramesOf(p) : o[k] = Frame(f) /\ Plain(f) /\ o[k].total = len
    BY <2>1, OneOfPayload
  <2> QED
    BY <2>2
<1>5. Numbered(count, len, {p})
  BY <1>1, <1>2, <1>4 DEF Numbered
<1>6. /\ Len(Joined(o)) = len
      /\ \A k \in 1..len : Joined(o)[k] \in {p} \X {k}
  <2>1. Reach(count, len) = len
    BY <1>1, ReachGrows
  <2>2. /\ Len(Joined(o)) = Reach(count, len)
        /\ \A k \in 1..Reach(count, len) : Joined(o)[k] \in {p} \X {k}
    <3>1. count \in 1..Len(got)
      BY <1>1
    <3> HIDE DEF len
    <3> QED
      BY <1>1, <1>5, <3>1, PlainJoined
  <2> QED
    BY <2>1, <2>2
<1>7. Joined(o) \in Seq(Nat \X Nat)
  BY JoinedIsSeq
<1> HIDE DEF o
<1>8. Joined(o) = Bytes(p)
  <2>1. Joined(o) = [k \in 1..len |-> Joined(o)[k]]
    BY <1>6, <1>7
  <2>2. \A k \in 1..len : Joined(o)[k] = <<p, k>>
    BY <1>6
  <2>3. Bytes(p) = [k \in 1..len |-> <<p, k>>]
    BY DEF Bytes
  <2> HIDE DEF len
  <2> QED
    BY <2>1, <2>2, <2>3
<1>9. o[1].total = len
  BY <1>1, <1>4
<1>10. SubSeq(Joined(o), 1, o[1].total) = Bytes(p)
  BY <1>6, <1>7, <1>8, <1>9, SubSeqFull
<1>11. Len(Joined(o)) >= o[1].total
  BY <1>1, <1>6, <1>9
<1> QED
  BY <1>2, <1>3, <1>10, <1>11 DEF Acceptable, o

\* Of the frames of one payload, reassemble() makes that payload if they are
\* all of it, each once, and a Python sender's; and nothing at all otherwise.
THEOREM PayloadWholeOrRefused == Spec => []WholeOrRefused
<1>1. IInv => WholeOrRefused
  <2> SUFFICES ASSUME IInv, NEW p \in DOMAIN payloads,
                      got # << >>, Range(got) \subseteq FramesOf(p)
               PROVE  Result = IF /\ payloads[p].by = "python"
                                  /\ Range(got) = FramesOf(p)
                                  /\ Len(got) = FrameCount(payloads[p].len)
                               THEN Bytes(p) ELSE Refused
    BY DEF WholeOrRefused
  <2> DEFINE Whole == /\ payloads[p].by = "python"
                      /\ Range(got) = FramesOf(p)
                      /\ Len(got) = FrameCount(payloads[p].len)
  <2>1. Result = IF Acceptable
                 THEN SubSeq(Joined(Ordered(Collected)), 1, Ordered(Collected)[1].total)
                 ELSE Refused
    BY ResultCases
  <2>2. CASE Whole
    BY <2>1, <2>2, WholeIsAccepted
  <2>3. CASE ~ Whole
    <3>1. ~ Acceptable
      BY <2>3, AcceptedIsWhole
    <3> QED
      BY <2>1, <2>3, <3>1
  <2> QED
    BY <2>2, <2>3
<1> QED
  BY <1>1, Invariance, PTL

-----------------------------------------------------------------------------
\* Frames of several payloads

\* The frames of a list that is accepted.
LEMMA AcceptedFrames ==
    ASSUME IInv, Acceptable, NEW k \in 1..Len(got)
    PROVE  LET o == Ordered(Collected)[k]
           IN  /\ o.byte0 = k - 1 /\ o.data \in Seq(Nat \X Nat)
               /\ \E n \in 1..Len(got) :
                    LET p == got[n][1]
                        last == FrameCount(payloads[p].len) - 1
                    IN  /\ o = Frame(got[n]) /\ got[n] \in FramesOf(p)
                        /\ p \in Nat /\ p > 0 /\ payloads[p].len \in Nat
                        /\ o.total = payloads[p].len
                        /\ got[n][2] \in 0..last /\ got[n][2] \in Nat
                        /\ \/ Plain(got[n])
                           \/ got[n][2] = last /\ o.byte0 = FRAG_LAST_FLAG + got[n][2]
<1>1. PICK n \in 1..Len(got) :
        LET o == Ordered(Collected)[k]
            p == got[n][1]
        IN  /\ o = Frame(got[n]) /\ p \in Nat /\ p > 0
            /\ payloads[p].len \in Nat /\ got[n] \in FramesOf(p)
            /\ o.total = payloads[p].len /\ o.data \in Seq(Nat \X Nat)
  BY SortedFrames
<1> DEFINE p == got[n][1]
<1>2. /\ got[n][2] \in 0..(FrameCount(payloads[p].len) - 1) /\ got[n][2] \in Nat
      /\ Plain(got[n]) \/ Flagged(got[n])
  BY <1>1, FrameBytes
<1>3. Flagged(got[n]) => /\ got[n][2] = FrameCount(payloads[p].len) - 1
                         /\ Frame(got[n]).byte0 = FRAG_LAST_FLAG + got[n][2]
  BY DEF Flagged
<1>4. Ordered(Collected)[k].byte0 = k - 1
  BY DEF Acceptable
<1> QED
  BY <1>1, <1>2, <1>3, <1>4

\* In a list no longer than the flag all frames have their own numbers, and
\* none is padded.
LEMMA ShortListPlain ==
    ASSUME IInv, Acceptable, Len(got) <= FRAG_LAST_FLAG
    PROVE  Joined(Ordered(Collected)) \in Seq((Nat \ {0}) \X Nat)
<1> DEFINE o == Ordered(Collected)
           B == (Nat \ {0}) \X Nat
<1>1. /\ Len(got) \in Nat /\ Len(got) > 0 /\ DOMAIN o = 1..Len(got)
      /\ FRAG_LAST_FLAG \in Nat
  BY EachFrame, SortedFrames, SizeTypes DEF Acceptable
<1>2. ASSUME NEW k \in 1..Len(got) PROVE o[k].data \in Seq(B)
  <2>1. PICK n \in 1..Len(got) :
          LET p == got[n][1]
          IN  /\ o[k] = Frame(got[n]) /\ got[n] \in FramesOf(p)
              /\ p \in Nat /\ p > 0 /\ payloads[p].len \in Nat /\ got[n][2] \in Nat
              /\ \/ Plain(got[n])
                 \/ o[k].byte0 = FRAG_LAST_FLAG + got[n][2]
    BY AcceptedFrames
  <2>2. o[k].byte0 = k - 1
    BY AcceptedFrames
  <2>3. Plain(got[n])
    <3>1. o[k].byte0 # FRAG_LAST_FLAG + got[n][2]
      <4>1. k \in Nat /\ k - 1 < FRAG_LAST_FLAG
        BY <1>1
      <4>2. got[n][2] \in Nat
        BY <2>1
      <4> HIDE DEF o
      <4> QED
        BY <1>1, <2>2, <4>1, <4>2
    <3> QED
      BY <2>1, <3>1
  <2> DEFINE p == got[n][1]
  <2>4. Frame(got[n]).data \in Seq({p} \X Nat)
    BY <2>1, <2>3, PlainBytes
  <2>5. {p} \X Nat \subseteq B
    BY <2>1
  <2> HIDE DEF B, p
  <2>6. Frame(got[n]).data \in Seq(B)
    BY <2>4, <2>5, SeqMonotonic
  <2> QED
    BY <2>1, <2>6
<1> HIDE DEF o, B
<1>3. Joined(o) \in Seq(B)
  BY <1>1, <1>2, JoinedFrom
<1> QED
  BY <1>3 DEF o, B

\* Among payloads of one length, a list that is accepted reaches their end,
\* and has every byte up to there in its place.
LEMMA OneLengthInPlace ==
    ASSUME IInv, Acceptable, NEW len \in Nat,
           \A n \in 1..Len(got) : payloads[got[n][1]].len = len
    PROVE  LET o == Ordered(Collected)
           IN  /\ o[1].total = len /\ Len(Joined(o)) >= len
               /\ \A k \in 1..len : Joined(o)[k] \in Nat \X {k}
<1> DEFINE o == Ordered(Collected)
           frames == FrameCount(len)
           count == Len(got)
<1>1. /\ count \in Nat /\ count > 0 /\ frames \in Nat /\ frames >= 1
      /\ FRAG_LAST_FLAG \in Nat /\ FRAG_LAST_FLAG > 0
  <2>1. frames \in Nat /\ frames >= 1
    BY FramesCover
  <2>2. count \in Nat /\ count > 0
    BY EachFrame DEF Acceptable
  <2> QED
    BY <2>1, <2>2, SizeTypes
<1>2. ASSUME NEW k \in 1..count
      PROVE  o[k].total = len
  BY AcceptedFrames
<1>3. ASSUME NEW k \in 1..count, k <= frames
      PROVE  /\ o[k].byte0 = k - 1
             /\ \E p \in Nat : \E f \in FramesOf(p) :
                  p \in Nat /\ payloads[p].len = len /\ Plain(f) /\ o[k] = Frame(f)
  <2>1. PICK n \in 1..count :
          LET p == got[n][1]
          IN  /\ o[k] = Frame(got[n]) /\ got[n] \in FramesOf(p) /\ p \in Nat
              /\ \/ Plain(got[n])
                 \/ /\ got[n][2] = FrameCount(payloads[p].len) - 1
                    /\ o[k].byte0 = FRAG_LAST_FLAG + got[n][2]
    BY AcceptedFrames
  <2>2. o[k].byte0 = k - 1
    BY AcceptedFrames
  <2>3. payloads[got[n][1]].len = len
    BY <2>1
  <2>4. Plain(got[n])
    <3>1. ~ (got[n][2] = frames - 1 /\ o[k].byte0 = FRAG_LAST_FLAG + got[n][2])
      <4>1. k - 1 <= frames - 1 /\ k \in Nat
        BY <1>1, <1>3
      <4> HIDE DEF o, frames
      <4> QED
        BY <1>1, <2>2, <4>1
    <3> QED
      BY <2>1, <2>3, <3>1
  <2> QED
    BY <2>1, <2>2, <2>3, <2>4
<1>4. ASSUME NEW m \in 1..count, m <= frames
      PROVE  /\ Len(Joined(o)) >= Reach(m, len)
             /\ m = count => Len(Joined(o)) = Reach(m, len)
             /\ \A k \in 1..Reach(m, len) : Joined(o)[k] \in Nat \X {k}
  <2>1. \A k \in 1..m : k \in 1..count /\ k <= frames
    BY <1>1, <1>4
  <2>2. Numbered(m, len, Nat)
    BY <1>3, <2>1 DEF Numbered
  <2> QED
    BY <2>2, PlainJoined
<1>5. o[1].total = len /\ Len(Joined(o)) >= o[1].total
  BY <1>1, <1>2 DEF Acceptable
<1>6. frames <= count
  <2>1. SUFFICES ASSUME count < frames PROVE FALSE
    BY <1>1
  <2>2. count \in 1..count /\ count <= frames
    BY <1>1, <2>1
  <2>3. Len(Joined(o)) = Reach(count, len)
    BY <1>4, <2>2
  <2>4. Reach(count, len) < len /\ Reach(count, len) \in 0..len
    BY <1>1, <2>1, ReachGrows
  <2> HIDE DEF o
  <2> QED
    BY <1>5, <2>3, <2>4
<1>7. Reach(frames, len) = len
  BY <1>1, ReachGrows
<1>8. frames \in 1..count /\ frames <= frames
  BY <1>1, <1>6
<1> HIDE DEF o, frames
<1> QED
  BY <1>4, <1>5, <1>7, <1>8 DEF o

\* Whatever list is accepted: all of it is of one arbitration id, a short one
\* has no padding in it, and among payloads of one length every byte is in its
\* place.
THEOREM MixedListsInPlace == Spec => []MixedInPlace
<1>1. IInv => MixedInPlace
  <2> SUFFICES ASSUME IInv, Result # Refused PROVE MixedInPlace
    BY DEF MixedInPlace
  <2> DEFINE o == Ordered(Collected)
             total == o[1].total
  <2>1. Acceptable /\ Result = SubSeq(Joined(o), 1, total)
    BY ResultCases
  <2>2. /\ Len(got) \in Nat /\ 1 \in 1..Len(got) /\ DOMAIN got = 1..Len(got)
        /\ Range(got) = {got[n] : n \in 1..Len(got)}
    <3>1. Len(got) \in Nat /\ Len(got) > 0 /\ DOMAIN got = 1..Len(got)
      BY <2>1, EachFrame DEF Acceptable
    <3> QED
      BY <3>1 DEF Range
  <2>3. total \in Nat /\ Len(Joined(o)) \in Nat /\ Len(Joined(o)) >= total
        /\ Joined(o) \in Seq(Nat \X Nat)
    <3>1. total \in Nat
      BY <2>2, SortedFrames
    <3> QED
      BY <2>1, <3>1, JoinedIsSeq DEF Acceptable
  <2>4. ASSUME NEW f \in Range(got), NEW g \in Range(got)
        PROVE  payloads[f[1]].id = payloads[g[1]].id
    <3>1. ASSUME NEW n \in 1..Len(got) PROVE payloads[got[n][1]].id = Collected[1].id
      <4>1. /\ Collected[n] = Frame(got[n]) /\ got[n] \in FramesOf(got[n][1])
            /\ payloads[got[n][1]].len \in Nat
        BY EachFrame
      <4>2. Frame(got[n]).id = payloads[got[n][1]].id
        BY <4>1, FrameBytes
      <4> QED
        BY <2>1, <4>1, <4>2 DEF Acceptable
    <3> QED
      BY <2>2, <3>1
  <2>5. ASSUME Len(got) <= FRAG_LAST_FLAG PROVE Zero \notin Range(Result)
    <3> DEFINE B == (Nat \ {0}) \X Nat
    <3>1. Joined(o) \in Seq(B)
      BY <2>1, <2>5, ShortListPlain
    <3> HIDE DEF o, total, B
    <3>2. Result \in Seq(B)
      <4>1. \A i \in 1..total : Joined(o)[i] \in B
        BY <2>3, <3>1
      <4> QED
        BY <2>1, <2>3, <4>1, SubSeqProperties
    <3>3. \A k \in DOMAIN Result : Result[k] \in B
      BY <3>2
    <3>4. Zero \notin B
      BY DEF Zero, B
    <3> QED
      BY <3>3, <3>4 DEF Range
  <2>6. ASSUME NEW len \in Lengths, \A n \in DOMAIN got : payloads[got[n][1]].len = len
        PROVE  Len(Result) = len /\ \A k \in DOMAIN Result : Result[k][2] = k
    <3>1. len \in Nat
      BY BoundsAssumption
    <3>2. total = len /\ \A k \in 1..len : Joined(o)[k] \in Nat \X {k}
      BY <2>1, <2>2, <2>6, <3>1, OneLengthInPlace
    <3> HIDE DEF o, total
    <3>3. /\ Result \in Seq(Nat \X Nat) /\ Len(Result) = IF 1 <= len THEN len - 1 + 1 ELSE 0
          /\ \A i \in 1..(len - 1 + 1) : Result[i] = Joined(o)[1 + i - 1]
      <4>1. \A i \in 1..len : Joined(o)[i] \in Nat \X Nat
        BY <2>3, <3>1, <3>2
      <4> QED
        BY <2>1, <3>1, <3>2, <4>1, SubSeqProperties
    <3>4. Len(Result) = len /\ DOMAIN Result = 1..len
      BY <3>1, <3>3
    <3>5. \A k \in 1..len : Result[k] = Joined(o)[k]
      BY <3>1, <3>3
    <3> QED
      BY <3>2, <3>4, <3>5
  <2> QED
    BY <2>4, <2>5, <2>6 DEF MixedInPlace
<1> QED
  BY <1>1, Invariance, PTL
=============================================================================
