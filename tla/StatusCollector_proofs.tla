------------------------ MODULE StatusCollector_proofs ------------------------
(***************************************************************************)
(* What the collector emits, for any number of samples and whatever the    *)
(* bus loses or repeats.  The properties speak of what was emitted; the    *)
(* invariant carries the same facts for the round that is still open, and  *)
(* ties it to the sample being sent.                                       *)
(***************************************************************************)
EXTENDS StatusCollector, SequenceTheorems, TLAPS

\* One frame of sample n.
Part(part, n) == [part |-> part, sample |-> n]

\* How many frames of the current sample are left to send.
Left == Len(toSend)

\* The kind of the frame with which k frames of a sample are left to send.
Remaining(k) == IF k = 3 THEN "A" ELSE IF k = 2 THEN "B" ELSE "C"

\* Sample n was emitted as it was taken.
Was(n) == \E i \in 1..Len(emitted) : emitted[i] = <<n, n, n>>

\* What is still to be sent are the last frames of the current sample; those
\* behind the first have not arrived.
Sending ==
    /\ Left \in 0..3
    /\ Left > 0 => counter \in Samples
    /\ \A i \in 1..Left :
         toSend[i] = Part(Remaining(Left + 1 - i), counter)
    /\ \A i \in 2..Left : toSend[i] \notin arrived
    /\ \A f \in arrived : f.sample <= counter

\* The open round: its values are not older than its STATUS_A, and that is
\* newer than everything emitted so far.
OpenRound(na, nb, nc) ==
    /\ na <= counter /\ nb <= counter /\ nc <= counter
    /\ nb # None => na # None /\ na <= nb
    /\ nc # None => na # None /\ na <= nc
    /\ na # None => last_counter < na

\* The open round belongs to the newest STATUS_A that arrived, and values of
\* another sample are in it only when the STATUS_A of that one did not.
NewestRound(na, nb, nc, fed) ==
    /\ Part("A", counter) \in fed /\ na # None => na = counter
    /\ \A v \in {nb, nc} : v # None /\ v # na => Part("A", v) \notin fed

\* While the current sample is being sent undisturbed, the collector holds what
\* arrived of it, or has emitted it.
CurrentSample(na, nb, nc, nbad, fed, lost) ==
    counter \notin lost /\ Part("A", counter) \in fed =>
        \/ Was(counter)
        \/ /\ na = counter /\ nbad = {}
           /\ Part("B", counter) \in fed => nb = counter
           /\ Part("C", counter) \in fed => nc = counter

\* Before its STATUS_A was sent, nothing of the current sample was emitted.
History ==
    /\ last_counter <= counter
    /\ Left = 3 => last_counter < counter
    /\ \A i \in 1..Len(emitted) : \A p \in {2, 3} :
         /\ emitted[i][p] <= counter
         /\ Left = 3 => emitted[i][p] < counter

IInv ==
    /\ TypeOK
    /\ NeverStaleValues
    /\ NoFalseReplay
    /\ WholeRoundEmitted
    /\ MixedOnlyIfStartLost
    /\ Sending
    /\ OpenRound(a, b, c)
    /\ NewestRound(a, b, c, arrived)
    /\ toSend # << >> => CurrentSample(a, b, c, bad, arrived, disturbed)
    /\ History

-----------------------------------------------------------------------------

\* The fields of a frame.
LEMMA PartFields ==
    \A q, n : Part(q, n).part = q /\ Part(q, n).sample = n
BY DEF Part

\* The samples a status is made of are numbers.
LEMMA EmittedSamples ==
    ASSUME TypeOK
    PROVE  \A i \in 1..Len(emitted) : \A p \in {1, 2, 3} : emitted[i][p] \in Nat
<1> SUFFICES ASSUME NEW i \in 1..Len(emitted)
             PROVE  \A p \in {1, 2, 3} : emitted[i][p] \in Nat
  OBVIOUS
<1>1. emitted[i] \in Samples \X Samples \X Samples
  BY ElementOfSeq DEF TypeOK
<1> QED
  BY <1>1 DEF Samples

\* One, two or three frames are left in a queue that is not empty.
LEMMA QueueLength ==
    ASSUME TypeOK, Sending, toSend # << >>
    PROVE  /\ Left \in {1, 2, 3} /\ Head(toSend) = toSend[1]
           /\ Head(toSend) \in Frames
<1>1. toSend \in Seq(Frames)
  BY DEF TypeOK
<1>2. Left # 0
  BY <1>1, EmptySeq DEF Left
<1>3. Left \in {1, 2, 3}
  BY <1>2 DEF Sending
<1> QED
  BY <1>1, <1>3, HeadTailProperties

\* The first frame still to be sent is one of the current sample, a STATUS_A
\* exactly when all three are left, and taking it away leaves the others.
LEMMA NextFrame ==
    ASSUME TypeOK, Sending, toSend # << >>
    PROVE  /\ counter \in Samples /\ counter # None
           /\ Head(toSend) = Part(Head(toSend).part, counter)
           /\ Head(toSend) \in Frames
           /\ Head(toSend).part = "A" <=> Left = 3
           /\ Head(toSend).part = "B" <=> Left = 2
           /\ Head(toSend).part = "C" <=> Left = 1
<1>1. Left \in {1, 2, 3} /\ Head(toSend) = toSend[1] /\ Head(toSend) \in Frames
  BY QueueLength
<1>2. toSend[1] = Part(Remaining(Left), counter)
  BY <1>1 DEF Sending
<1> QED
  BY <1>1, <1>2 DEF Part, Remaining, Sending, Samples, None

\* Dropping the first frame, or keeping it for another delivery.
LEMMA QueueAdvances ==
    ASSUME TypeOK, Sending, toSend # << >>, UNCHANGED counter,
           toSend' \in {toSend, Tail(toSend)},
           arrived' \in {arrived, arrived \cup {Head(toSend)}}
    PROVE  /\ toSend' \in Seq(Frames) /\ Sending'
           /\ Left' <= Left
           /\ arrived' \subseteq Frames
<1>1. Left \in {1, 2, 3} /\ Head(toSend) = toSend[1] /\ Head(toSend) \in Frames
  BY QueueLength
<1>2. /\ Tail(toSend) \in Seq(Frames) /\ Len(Tail(toSend)) = Left - 1
      /\ \A i \in 1..(Left - 1) : Tail(toSend)[i] = toSend[i + 1]
  BY HeadTailProperties DEF TypeOK, Left
<1>3. \A i \in 2..Left : toSend[i] # toSend[1]
  <2>1. \A i \in 1..Left : toSend[i].part = Remaining(Left + 1 - i)
    BY PartFields DEF Sending
  <2> QED
    BY <1>1, <2>1 DEF Remaining
<1>4. Head(toSend).sample = counter
  BY NextFrame DEF Part
<1>5. arrived' \subseteq Frames /\ \A f \in arrived' : f.sample <= counter'
  BY <1>1, <1>4 DEF TypeOK, Sending, Samples
<1>6. CASE toSend' = toSend
  <2>1. Left' = Left
    BY <1>6 DEF Left
  <2> QED
    BY <1>1, <1>3, <1>5, <1>6, <2>1 DEF Sending, TypeOK
<1>7. CASE toSend' = Tail(toSend)
  <2>0. Left' = Left - 1
    BY <1>2, <1>7 DEF Left
  <2>1. \A i \in 1..Left' :
          /\ toSend'[i] = toSend[i + 1]
          /\ Left' + 1 - i = Left + 1 - (i + 1)
          /\ i + 1 \in 1..Left
    BY <1>1, <1>2, <1>7, <2>0
  <2>2. \A i \in 1..Left' :
          toSend'[i] = Part(Remaining(Left' + 1 - i), counter)
    BY <2>1 DEF Sending
  <2>3. \A i \in 2..Left' : toSend'[i] \notin arrived'
    BY <1>1, <1>2, <1>3, <1>7, <2>0, <2>1 DEF Sending
  <2> QED
    BY <1>1, <1>2, <1>5, <1>7, <2>0, <2>2, <2>3 DEF Sending
<1> QED
  BY <1>6, <1>7

\* Before any sample is taken the invariant holds.
LEMMA InitEstablishes == Init => IInv
<1> SUFFICES ASSUME Init PROVE IInv
  OBVIOUS
<1>1. /\ << >> \in Seq(Frames) /\ << >> \in Seq(Samples \X Samples \X Samples)
      /\ Len(<< >>) = 0
  BY EmptySeq
<1>2. TypeOK
  BY <1>1, SampleAssumption DEF Init, TypeOK, Held, None
<1> QED
  BY <1>1, <1>2
     DEF Init, IInv, Left, NeverStaleValues, NoFalseReplay, WholeRoundEmitted,
         MixedOnlyIfStartLost, Sending, OpenRound, NewestRound, History, None, Parts

\* A new sample begins with nothing of it sent or held.
LEMMA SampleStep == IInv /\ Sample => IInv'
<1> SUFFICES ASSUME IInv, Sample PROVE IInv'
  OBVIOUS
<1> USE DEF IInv, Sample, collector, history
<1>1. counter \in Nat /\ counter' = counter + 1 /\ counter' \in Samples
  BY SampleAssumption DEF TypeOK, Samples
<1>2. /\ Left' = 3 /\ toSend' \in Seq(Frames)
      /\ \A i \in 1..3 : toSend'[i] = Part(Remaining(4 - i), counter')
  BY <1>1 DEF Encoded, Frames, Parts, Part, Remaining, Left
<1>3. \A part \in {"A", "B", "C"} : Part(part, counter') \notin arrived
  BY <1>1 DEF Sending, Part
<1>4. TypeOK'
  BY <1>1, <1>2, SampleAssumption DEF TypeOK, Samples
<1>5. Sending'
  <2>1. \A f \in arrived' : f.sample <= counter'
    BY <1>1 DEF Sending, TypeOK, Frames, Samples
  <2>2. \A i \in 1..Left' : toSend'[i] = Part(Remaining(Left' + 1 - i), counter')
    BY <1>2
  <2>3. \A i \in 2..Left' : toSend'[i] \notin arrived'
    BY <1>2, <1>3 DEF Remaining
  <2> QED
    BY <1>1, <1>2, <2>1, <2>2, <2>3 DEF Sending
<1>6. OpenRound(a, b, c)' /\ NewestRound(a, b, c, arrived)'
  BY <1>1, <1>3 DEF OpenRound, NewestRound, TypeOK, Held, None, Samples
<1>7. CurrentSample(a, b, c, bad, arrived, disturbed)'
  BY <1>3 DEF CurrentSample
<1>8. History'
  BY <1>1, EmittedSamples DEF History, TypeOK
<1>9. NeverStaleValues' /\ NoFalseReplay' /\ WholeRoundEmitted' /\ MixedOnlyIfStartLost'
  BY DEF NeverStaleValues, NoFalseReplay, WholeRoundEmitted, MixedOnlyIfStartLost
<1> QED
  BY <1>4, <1>5, <1>6, <1>7, <1>8, <1>9

\* A frame that is lost changes nothing in the collector.
LEMMA LoseStep == IInv /\ Lose => IInv'
<1> SUFFICES ASSUME IInv, Lose PROVE IInv'
  OBVIOUS
<1> USE DEF IInv, Lose, collector, history
<1>1. toSend' \in Seq(Frames) /\ Sending' /\ Left' <= Left
  BY QueueAdvances
<1>2. Left' = Left - 1
  BY HeadTailProperties DEF TypeOK, Left
<1>3. TypeOK'
  BY <1>1 DEF TypeOK
<1>4. History'
  BY <1>2, QueueLength DEF History
<1>5. OpenRound(a, b, c)' /\ NewestRound(a, b, c, arrived)'
      /\ CurrentSample(a, b, c, bad, arrived, disturbed)'
  BY DEF OpenRound, NewestRound, CurrentSample, Was
<1>6. NeverStaleValues' /\ NoFalseReplay' /\ WholeRoundEmitted' /\ MixedOnlyIfStartLost'
  BY DEF NeverStaleValues, NoFalseReplay, WholeRoundEmitted, MixedOnlyIfStartLost
<1> QED
  BY <1>1, <1>3, <1>4, <1>5, <1>6

\* reset() closes the round; the sample it interrupts is recorded.
LEMMA ResetStep == IInv /\ Reset => IInv'
<1> SUFFICES ASSUME IInv, Reset PROVE IInv'
  OBVIOUS
<1> USE DEF IInv, Reset
<1>1. TypeOK'
  BY DEF TypeOK, Held, Frames, Parts
<1>2. Sending' /\ History' /\ OpenRound(a, b, c)' /\ NewestRound(a, b, c, arrived)'
  BY DEF Sending, Left, History, OpenRound, NewestRound, None, TypeOK
<1>3. disturbed \subseteq disturbed'
  OBVIOUS
<1>4. toSend' # << >> => CurrentSample(a, b, c, bad, arrived, disturbed)'
  BY DEF CurrentSample, Part
<1>5. NeverStaleValues' /\ NoFalseReplay' /\ WholeRoundEmitted' /\ MixedOnlyIfStartLost'
  BY <1>3 DEF NeverStaleValues, NoFalseReplay, WholeRoundEmitted, MixedOnlyIfStartLost
<1> QED
  BY <1>1, <1>2, <1>4, <1>5

\* A round that a frame completes is emitted and closed, any other is kept.
LEMMA BufferStep ==
    ASSUME IInv, NEW part \in Parts, NEW now \in {{}, {part}}, Arrive(part, now),
           NEW na \in Held, NEW nb \in Held, NEW nc \in Held,
           NEW nbad \in SUBSET Parts, Buffer(na, nb, nc, nbad),
           OpenRound(na, nb, nc), NewestRound(na, nb, nc, arrived'),
           CurrentSample(na, nb, nc, nbad, arrived', disturbed'),
           part = "A" => nb = None,
           \A i \in 1..Len(emitted) : \A p \in {2, 3} :
             emitted[i][p] # emitted[i][1] => Part("A", emitted[i][p]) \notin arrived'
    PROVE  IInv'
<1> USE DEF IInv, Arrive
<1>1. /\ toSend' \in Seq(Frames) /\ Sending' /\ Left' <= Left
      /\ arrived' \subseteq Frames
  BY QueueAdvances
<1>2. /\ counter \in Samples /\ counter # None /\ counter \in Nat
      /\ counter' = counter /\ arrived' \subseteq arrived \cup {Part(part, counter)}
      /\ Head(toSend) = Part(part, counter) /\ (part = "A" <=> Left = 3)
      /\ Left \in 1..3 /\ Left' \in 0..3
      /\ disturbed \subseteq disturbed' /\ disturbed' \subseteq Samples
  BY <1>1, NextFrame, QueueLength DEF Sending, Samples, TypeOK
<1>3. \A n \in Samples : n # counter =>
        \A q \in Parts : Part(q, n) \in arrived' => Part(q, n) \in arrived
  BY <1>2 DEF Part
<1>4. CASE ~(na # None /\ nb # None /\ nc # None /\ nbad = {})
  <2>1. /\ a' = na /\ b' = nb /\ c' = nc /\ bad' = nbad
        /\ emitted' = emitted /\ last_counter' = last_counter /\ flagged' = flagged
    BY <1>4 DEF Buffer
  <2>2. TypeOK'
    BY <1>1, <1>2, <2>1 DEF TypeOK
  <2>3. OpenRound(a, b, c)' /\ NewestRound(a, b, c, arrived)'
        /\ CurrentSample(a, b, c, bad, arrived, disturbed)'
    BY <1>2, <2>1 DEF OpenRound, NewestRound, CurrentSample, Was
  <2>4. History'
    BY <1>1, <1>2, <2>1 DEF History
  <2>5. WholeRoundEmitted'
    <3>1. SUFFICES ASSUME NEW n \in Samples, n \notin disturbed',
                          \A q \in Parts : Part(q, n) \in arrived'
                   PROVE  Was(n)
      BY <2>1 DEF WholeRoundEmitted, Was, Part
    <3>2. CASE n = counter
      BY <1>2, <1>4, <3>1, <3>2 DEF CurrentSample, Parts
    <3>3. CASE n # counter
      BY <1>2, <1>3, <3>1, <3>3 DEF WholeRoundEmitted, Was, Part
    <3> QED
      BY <3>2, <3>3
  <2>6. NeverStaleValues' /\ NoFalseReplay' /\ MixedOnlyIfStartLost'
    BY <2>1 DEF NeverStaleValues, NoFalseReplay, MixedOnlyIfStartLost, Part
  <2> QED
    BY <1>1, <2>1, <2>2, <2>3, <2>4, <2>5, <2>6
<1>5. CASE na # None /\ nb # None /\ nc # None /\ nbad = {}
  <2> DEFINE e == <<na, nb, nc>>
  <2>1. na \in Samples /\ nb \in Samples /\ nc \in Samples
    BY <1>5 DEF Held
  <2>2. last_counter < na /\ last_counter \in Nat /\ na \in Nat /\ nb \in Nat /\ nc \in Nat
    BY <1>5, <2>1 DEF OpenRound, TypeOK, Samples
  <2>3. /\ a' = None /\ b' = None /\ c' = None /\ bad' = {}
        /\ emitted' = Append(emitted, e) /\ last_counter' = na /\ flagged' = flagged
    BY <1>5, <2>2 DEF Buffer, Aggregated, Validate
  <2>4. emitted \in Seq(Samples \X Samples \X Samples) /\ e \in Samples \X Samples \X Samples
    BY <2>1 DEF TypeOK
  <2>5. /\ emitted' \in Seq(Samples \X Samples \X Samples)
        /\ Len(emitted') = Len(emitted) + 1 /\ Len(emitted) \in Nat
        /\ \A i \in 1..Len(emitted) : emitted'[i] = emitted[i]
        /\ emitted'[Len(emitted) + 1] = e
    BY <2>3, <2>4, AppendProperties, LenProperties
  <2> HIDE DEF e
  <2>6. \A i \in 1..Len(emitted') : i \in 1..Len(emitted) \/ emitted'[i] = e
    BY <2>5
  <2>7. e[1] = na /\ e[2] = nb /\ e[3] = nc
    BY DEF e
  <2>8. Left' < 3
    BY <1>1, <1>2, <1>5
  <2>9. TypeOK'
    <3>1. na \in 0..MaxSample /\ None \in Held
      BY <2>1, SampleAssumption DEF Samples, Held
    <3> QED
      BY <1>1, <1>2, <2>3, <2>5, <3>1 DEF TypeOK
  <2>10. OpenRound(a, b, c)' /\ NewestRound(a, b, c, arrived)'
    BY <1>2, <2>3 DEF OpenRound, NewestRound, None
  <2>11. \A n \in Samples : Was(n) => Was(n)'
    BY <2>5 DEF Was
  <2>12. counter \notin disturbed' /\ Part("A", counter) \in arrived' => Was(counter)'
    <3>1. SUFFICES ASSUME counter \notin disturbed', Part("A", counter) \in arrived', ~Was(counter)
                   PROVE  Was(counter)'
      BY <1>2, <2>11
    <3>2. na = counter /\ nb = counter /\ nc = counter
      BY <1>2, <1>5, <2>2, <3>1 DEF CurrentSample, OpenRound
    <3>3. emitted'[Len(emitted) + 1] = <<counter, counter, counter>>
      BY <2>5, <3>2 DEF e
    <3> QED
      BY <2>5, <3>3 DEF Was
  <2>13. CurrentSample(a, b, c, bad, arrived, disturbed)'
    BY <1>2, <2>12 DEF CurrentSample
  <2>14. History'
    BY <1>2, <2>2, <2>3, <2>5, <2>6, <2>7, <2>8 DEF History, OpenRound
  <2>15. WholeRoundEmitted'
    <3>1. SUFFICES ASSUME NEW n \in Samples, n \notin disturbed',
                          \A q \in Parts : Part(q, n) \in arrived'
                   PROVE  Was(n)'
      BY DEF WholeRoundEmitted, Was, Part
    <3>2. CASE n = counter
      BY <2>12, <3>1, <3>2 DEF Parts
    <3>3. CASE n # counter
      BY <1>2, <1>3, <2>11, <3>1, <3>3 DEF WholeRoundEmitted, Was, Part
    <3> QED
      BY <3>2, <3>3
  <2>16. NeverStaleValues'
    BY <1>5, <2>5, <2>6, <2>7 DEF NeverStaleValues, OpenRound
  <2>17. MixedOnlyIfStartLost'
    BY <1>5, <2>5, <2>6, <2>7 DEF MixedOnlyIfStartLost, NewestRound, Part
  <2> QED
    BY <1>1, <2>3, <2>9, <2>10, <2>13, <2>14, <2>15, <2>16, <2>17
       DEF NoFalseReplay
<1> QED
  BY <1>4, <1>5

\* A STATUS_A forgets the open round and begins that of the current sample.
LEMMA FeedAStep == IInv /\ FeedA => IInv'
<1> SUFFICES ASSUME IInv, FeedA PROVE IInv'
  OBVIOUS
<1> USE DEF IInv
<1>1. PICK now \in {{}, {"A"}} :
        Arrive("A", now) /\ Buffer(Head(toSend).sample, None, None, now)
  BY DEF FeedA
<1>2. /\ counter \in Samples /\ counter # None /\ counter \in Nat
      /\ Head(toSend) = Part("A", counter) /\ Left = 3 /\ counter' = counter
      /\ arrived' \subseteq arrived \cup {Part("A", counter)}
      /\ now # {} => counter \in disturbed'
  BY <1>1, NextFrame DEF Arrive, Samples
<1>3. Head(toSend).sample = counter
  BY <1>2 DEF Part
<1>4. toSend[2] = Part("B", counter) /\ toSend[3] = Part("C", counter)
  BY <1>2 DEF Sending, Remaining
<1>5. Part("B", counter) \notin arrived' /\ Part("C", counter) \notin arrived'
  BY <1>2, <1>4 DEF Sending, Part
<1>6. OpenRound(counter, None, None)
  BY <1>2 DEF OpenRound, History, None
<1>7. NewestRound(counter, None, None, arrived')
      /\ CurrentSample(counter, None, None, now, arrived', disturbed')
  BY <1>2, <1>5 DEF NewestRound, CurrentSample
<1>8. \A i \in 1..Len(emitted) : \A p \in {2, 3} :
        emitted[i][p] # emitted[i][1] => Part("A", emitted[i][p]) \notin arrived'
  <2>1. \A i \in 1..Len(emitted) : \A p \in {2, 3} : emitted[i][p] # counter
    BY <1>2 DEF History
  <2> QED
    BY <1>2, <2>1 DEF MixedOnlyIfStartLost, Part
<1>9. counter \in Held /\ None \in Held /\ "A" \in Parts /\ now \in SUBSET Parts
  BY <1>2 DEF Held, Parts
<1> QED
  BY <1>1, <1>3, <1>6, <1>7, <1>8, <1>9, BufferStep

\* A STATUS_B or STATUS_C adds the values of the current sample to an open
\* round, and is ignored while none is open.
LEMMA FeedValueStep ==
    ASSUME IInv, NEW part \in {"B", "C"}, NEW now \in {{}, {part}}, Arrive(part, now),
           NEW nb \in Held, NEW nc \in Held, NEW nbad \in SUBSET Parts,
           Buffer(a, nb, nc, nbad),
           nbad = IF a # None THEN (bad \ {part}) \cup now ELSE bad,
           part = "B" => nb = (IF a # None THEN counter ELSE b) /\ nc = c,
           part = "C" => nc = (IF a # None THEN counter ELSE c) /\ nb = b
    PROVE  IInv'
<1> USE DEF IInv
<1>1. /\ counter \in Samples /\ counter # None /\ counter \in Nat
      /\ arrived' \subseteq arrived \cup {Part(part, counter)}
      /\ now # {} => counter \in disturbed'
      /\ now = {} => disturbed' = disturbed
  BY NextFrame DEF Arrive, Samples
<1>2. a \in Held /\ b \in Held /\ c \in Held /\ a \in Nat /\ part \in Parts
  BY DEF TypeOK, Held, Samples, None, Parts
<1>3. \A n \in Held : Part("A", n) \in arrived' => Part("A", n) \in arrived
  BY <1>1 DEF Part
<1>4. OpenRound(a, nb, nc)
  BY <1>1, <1>2 DEF OpenRound
<1>5. NewestRound(a, nb, nc, arrived')
  BY <1>1, <1>2, <1>3 DEF NewestRound, Held
<1>6. CurrentSample(a, nb, nc, nbad, arrived', disturbed')
  <2>1. SUFFICES ASSUME counter \notin disturbed', Part("A", counter) \in arrived',
                        ~Was(counter)
                 PROVE  /\ a = counter /\ nbad = {}
                        /\ Part("B", counter) \in arrived' => nb = counter
                        /\ Part("C", counter) \in arrived' => nc = counter
    BY DEF CurrentSample
  <2>2. /\ a = counter /\ bad = {}
        /\ Part("B", counter) \in arrived => b = counter
        /\ Part("C", counter) \in arrived => c = counter
    BY <1>1, <1>3, <2>1 DEF CurrentSample, Held, Arrive
  <2>3. now = {} /\ nbad = {}
    BY <1>1, <2>1, <2>2
  <2> QED
    BY <1>1, <2>2, <2>3 DEF Part
<1>7. \A i \in 1..Len(emitted) : \A p \in {2, 3} :
        emitted[i][p] # emitted[i][1] => Part("A", emitted[i][p]) \notin arrived'
  BY <1>1 DEF MixedOnlyIfStartLost, Part
<1> QED
  BY <1>2, <1>4, <1>5, <1>6, <1>7, BufferStep

\* STATUS_B and STATUS_C are handled alike.
LEMMA FeedBCStep == IInv /\ (FeedB \/ FeedC) => IInv'
<1> SUFFICES ASSUME IInv, FeedB \/ FeedC PROVE IInv'
  OBVIOUS
<1>1. \A part, now : Arrive(part, now) =>
        Head(toSend).sample = counter /\ counter \in Held
  BY NextFrame DEF IInv, Arrive, Part, Held
<1>2. a \in Held /\ b \in Held /\ c \in Held /\ bad \in SUBSET Parts
  BY DEF IInv, TypeOK
<1>3. CASE FeedB
  <2>1. PICK now \in {{}, {"B"}} :
          /\ Arrive("B", now)
          /\ IF a # None
             THEN Buffer(a, Head(toSend).sample, c, (bad \ {"B"}) \cup now)
             ELSE Buffer(a, b, c, bad)
    BY <1>3 DEF FeedB
  <2>2. (bad \ {"B"}) \cup now \in SUBSET Parts
    BY <1>2 DEF Parts
  <2>3. CASE a # None
    BY <1>1, <1>2, <2>1, <2>2, <2>3, FeedValueStep
  <2>4. CASE a = None
    BY <1>1, <1>2, <2>1, <2>4, FeedValueStep
  <2> QED
    BY <2>3, <2>4
<1>4. CASE FeedC
  <2>1. PICK now \in {{}, {"C"}} :
          /\ Arrive("C", now)
          /\ IF a # None
             THEN Buffer(a, b, Head(toSend).sample, (bad \ {"C"}) \cup now)
             ELSE Buffer(a, b, c, bad)
    BY <1>4 DEF FeedC
  <2>2. (bad \ {"C"}) \cup now \in SUBSET Parts
    BY <1>2 DEF Parts
  <2>3. CASE a # None
    BY <1>1, <1>2, <2>1, <2>2, <2>3, FeedValueStep
  <2>4. CASE a = None
    BY <1>1, <1>2, <2>1, <2>4, FeedValueStep
  <2> QED
    BY <2>3, <2>4
<1> QED
  BY <1>3, <1>4

\* The invariant holds in every reachable state.
THEOREM Invariance == Spec => []IInv
<1>1. Init => IInv
  BY InitEstablishes
<1>2. IInv /\ [Next]_vars => IInv'
  <2> SUFFICES ASSUME IInv, [Next]_vars PROVE IInv'
    OBVIOUS
  <2>1. CASE Next
    BY <2>1, SampleStep, LoseStep, FeedAStep, FeedBCStep, ResetStep DEF Next
  <2>2. CASE UNCHANGED vars
    BY <2>2
       DEF vars, collector, history, IInv, TypeOK, NeverStaleValues, NoFalseReplay,
           WholeRoundEmitted, MixedOnlyIfStartLost, Sending, Left, OpenRound, NewestRound,
           CurrentSample, Was, History
  <2> QED
    BY <2>1, <2>2
<1> QED
  BY <1>1, <1>2, PTL DEF Spec

\* The collector and its environment keep to their types.
THEOREM TypeCorrect == Spec => []TypeOK
<1>1. IInv => TypeOK
  BY DEF IInv
<1> QED
  BY <1>1, Invariance, PTL

\* However many samples are sent and whatever is lost or repeated, no value is
\* emitted under the counter of a later sample.
THEOREM NothingStale == Spec => []NeverStaleValues
<1>1. IInv => NeverStaleValues
  BY DEF IInv
<1> QED
  BY <1>1, Invariance, PTL

\* The replay check of the consumer accepts whatever the collector makes of the
\* frames of an honest battery.
THEOREM ReplayCheckAccepts == Spec => []NoFalseReplay
<1>1. IInv => NoFalseReplay
  BY DEF IInv
<1> QED
  BY <1>1, Invariance, PTL

\* A sample that arrives whole is emitted as it was taken.
THEOREM WholeRoundsArrive == Spec => []WholeRoundEmitted
<1>1. IInv => WholeRoundEmitted
  BY DEF IInv
<1> QED
  BY <1>1, Invariance, PTL

\* Two samples are mixed only after the loss of a STATUS_A.
THEOREM MixingNeedsLoss == Spec => []MixedOnlyIfStartLost
<1>1. IInv => MixedOnlyIfStartLost
  BY DEF IInv
<1> QED
  BY <1>1, Invariance, PTL
=============================================================================
