----------------------- MODULE TelemetryBench_proofs -----------------------
(***************************************************************************)
(* What the vehicle accepts, for any number of samples, sessions, faults,  *)
(* restarts and modes.  The replay check keeps one number; the invariant   *)
(* says that it is the highest counter handled since it was last 0.  The   *)
(* rows recorded remember the vehicle's numbers, and the verifier, row by  *)
(* row, has the same.                                                      *)
(***************************************************************************)
EXTENDS TelemetryBench, SequenceTheorems, WellFoundedInduction, TLAPS

\* last_counter is the highest counter handled.
HighestHandled ==
    /\ \A i \in 1..Len(log) : log[i].frame.counter <= last_counter
    /\ last_counter > 0 =>
         \E i \in 1..Len(log) : log[i].frame.counter = last_counter

IInv ==
    /\ TypeOK
    /\ HighestHandled
    /\ HealthyUnlessOvertaken

-----------------------------------------------------------------------------

\* The frames of the battery are well-formed statuses.
LEMMA SentFrames ==
    ASSUME TypeOK
    PROVE  /\ sent \subseteq Statuses /\ Statuses \subseteq Frames
           /\ \A f \in sent : f.counter \in 1..MaxCounter
  BY TelemetryAssumption DEF TypeOK, Statuses, Status, Counters, Levels, Frames

\* Every step of a script puts frames on the bus and leaves the vehicle alone.
LEMMA StepTypes ==
    ASSUME TypeOK, Step
    PROVE  TypeOK' /\ UNCHANGED vehicle
<1> USE SentFrames, TelemetryAssumption
<1>1. /\ held \in Seq(sent) /\ \A f \in Frames : <<f>> \in Seq(Frames)
      /\ << >> \in Seq(sent)
  BY DEF TypeOK
<1>2. ASSUME Sample
      PROVE  /\ Encoded \in sent' /\ Encoded \in Frames /\ held \in Seq(sent')
             /\ sent' \subseteq {Status(n, "normal") : n \in 1..MaxCounter}
             /\ counter' \in 0..MaxCounter
             /\ UNCHANGED <<vehicle, budget>>
  <2>1. /\ counter + 1 \in 1..MaxCounter /\ counter' = counter + 1
        /\ sent' = sent \cup {Encoded}
    BY <1>2 DEF Sample, TypeOK
  <2>2. Encoded \in {Status(n, "normal") : n \in 1..MaxCounter} /\ Encoded \in Statuses
    BY <2>1 DEF Encoded, Statuses, Counters, Levels
  <2>3. held \in Seq(sent')
    BY <1>1, <2>1, SeqMonotonic
  <2> QED
    BY <1>2, <2>1, <2>2, <2>3 DEF Sample, TypeOK, Frames
<1>3. CASE SendStatus
  BY <1>1, <1>2, <1>3 DEF SendStatus, TypeOK, vehicle, budget
<1>4. CASE DelayStatus
  <2>1. Append(held, Encoded) \in Seq(sent')
    BY <1>2, <1>4, AppendProperties DEF DelayStatus
  <2> QED
    BY <1>2, <1>4, <2>1 DEF DelayStatus, TypeOK, vehicle, budget
<1>5. CASE BlockStatus
  BY <1>2, <1>5 DEF BlockStatus, TypeOK, vehicle, budget
<1>6. CASE ReleaseAll
  <2>1. held # << >> => Front(held) \in Seq(sent)
    BY <1>1, SubSeqProperties, LenProperties, EmptySeq DEF Front
  <2>2. \A s \in Seq(sent) : Reverse(s) \in Seq(sent)
    BY LenProperties, ElementOfSeq DEF Reverse
  <2>3. \A reverse, drop_last \in BOOLEAN :
          held # << >> => Released(reverse, drop_last) \in Seq(sent)
    BY <1>1, <2>1, <2>2 DEF Released
  <2>4. bus' \in Seq(Frames)
    BY <1>6, <2>3, SeqMonotonic DEF ReleaseAll
  <2> QED
    BY <1>1, <1>6, <2>4 DEF ReleaseAll, TypeOK, vehicle, battery, budget
<1>7. CASE ReleaseOne
  <2>1. Head(held) \in sent /\ Tail(held) \in Seq(sent)
    BY <1>1, <1>7, HeadTailProperties DEF ReleaseOne
  <2> QED
    BY <1>1, <1>7, <2>1 DEF ReleaseOne, TypeOK, vehicle, battery, budget
<1>8. CASE ClearHeld
  BY <1>1, <1>8 DEF ClearHeld, TypeOK, vehicle, battery, budget
<1>9. ASSUME NEW f \in Frames, Fault(f)
      PROVE  TypeOK' /\ UNCHANGED vehicle
  BY <1>1, <1>9 DEF Fault, TypeOK, vehicle, battery
<1>10. CASE Repeat
  BY <1>9, <1>10 DEF Repeat
<1>11. CASE Modify
  BY <1>9, <1>11 DEF Modify, Statuses, Counters, Levels
<1>12. CASE Inject
  BY <1>9, <1>12 DEF Inject, Statuses, Counters, Levels
<1>13. CASE Evade
  BY <1>9, <1>13 DEF Evade, Statuses, Levels
<1>14. CASE Corrupt
  BY <1>9, <1>14 DEF Corrupt, Statuses, Counters, Frames
<1>15. CASE Fuzz
  BY <1>9, <1>15 DEF Fuzz, Frames
<1>16. CASE SendSession
  BY <1>9, <1>16 DEF SendSession, Frames
<1>17. CASE RestartBattery
  BY <1>17 DEF RestartBattery, TypeOK, vehicle
<1> QED
  BY <1>3, <1>4, <1>5, <1>6, <1>7, <1>8, <1>10, <1>11, <1>12, <1>13, <1>14,
     <1>15, <1>16, <1>17 DEF Step

\* A status handled: the counter is recorded whatever the verdict, and a healthy
\* one is valid exactly if nothing handled before reached its counter.
LEMMA StatusHandled ==
    ASSUME IInv, NEW f \in Statuses, HandleStatus(f)
    PROVE  /\ last_counter' \in Counters
           /\ log' \in Seq([frame : Statuses, verdict : Verdicts])
           /\ HighestHandled' /\ HealthyUnlessOvertaken'
<1> DEFINE e == [frame |-> f, verdict |-> Verdict(f)]
<1>1. /\ log \in Seq([frame : Statuses, verdict : Verdicts])
      /\ last_counter \in Counters /\ last_counter \in Nat
  BY TelemetryAssumption DEF IInv, TypeOK, Counters
<1>2. f.counter \in Counters /\ f.counter \in Nat
  BY TelemetryAssumption DEF Statuses, Status, Counters
<1>3. e \in [frame : Statuses, verdict : Verdicts]
  BY DEF Verdict, Verdicts
<1>4. /\ log' \in Seq([frame : Statuses, verdict : Verdicts])
      /\ Len(log') = Len(log) + 1 /\ Len(log) \in Nat
      /\ \A i \in 1..Len(log) : log'[i] = log[i]
      /\ log'[Len(log) + 1].frame = f
      /\ log'[Len(log) + 1].verdict = Verdict(f)
  BY <1>1, <1>3, AppendProperties, LenProperties DEF HandleStatus
<1>5. last_counter' = IF f.counter > last_counter THEN f.counter ELSE last_counter
  BY DEF HandleStatus, Validated
<1>6. \A i \in 1..Len(log) : log[i].frame.counter \in Nat
  <2>1. \A i \in 1..Len(log) : log[i] \in [frame : Statuses, verdict : Verdicts]
    BY <1>1, ElementOfSeq
  <2> QED
    BY <2>1, TelemetryAssumption DEF Statuses, Status, Counters
<1>7. HighestHandled'
  <2>1. \A i \in 1..Len(log') : log'[i].frame.counter <= last_counter'
    BY <1>1, <1>2, <1>4, <1>5, <1>6 DEF IInv, HighestHandled
  <2>2. last_counter' > 0 =>
          \E i \in 1..Len(log') : log'[i].frame.counter = last_counter'
    <3>1. CASE f.counter > last_counter
      BY <1>4, <1>5, <3>1
    <3>2. CASE ~(f.counter > last_counter)
      BY <1>4, <1>5, <3>2 DEF IInv, HighestHandled
    <3> QED
      BY <3>1, <3>2
  <2> QED
    BY <2>1, <2>2 DEF HighestHandled
<1>8. HealthyUnlessOvertaken'
  <2>1. SUFFICES ASSUME NEW i \in 1..Len(log'), log'[i].frame.level = "normal"
                 PROVE  log'[i].verdict = "VALID" <=>
                          /\ log'[i].frame.counter > 0
                          /\ \A j \in 1..(i - 1) :
                               log'[j].frame.counter < log'[i].frame.counter
    BY DEF HealthyUnlessOvertaken
  <2>2. CASE i \in 1..Len(log)
    <3>1. \A j \in 1..(i - 1) : log'[j] = log[j]
      BY <1>4, <2>2
    <3> QED
      BY <1>4, <2>1, <2>2, <3>1 DEF IInv, HealthyUnlessOvertaken
  <2>3. CASE i = Len(log) + 1
    <3>1. Verdict(f) = "VALID" <=> f.counter > last_counter
      BY <1>4, <2>1, <2>3 DEF Verdict, Validated
    <3>2. f.counter > last_counter <=>
            /\ f.counter > 0
            /\ \A j \in 1..Len(log) : log[j].frame.counter < f.counter
      BY <1>1, <1>2, <1>6 DEF IInv, HighestHandled
    <3> QED
      BY <1>4, <2>3, <3>1, <3>2
  <2> QED
    BY <1>4, <2>2, <2>3
<1> QED
  BY <1>1, <1>2, <1>4, <1>5, <1>7, <1>8

\* receive() of the next frame.
LEMMA ReceiveStep == IInv /\ Receive => IInv'
<1> SUFFICES ASSUME IInv, Receive PROVE IInv'
  OBVIOUS
<1> DEFINE f == Head(bus)
<1>1. /\ bus' \in Seq(Frames) /\ f \in Frames /\ Handle(f)
      /\ UNCHANGED <<battery, held, budget>>
  BY HeadTailProperties DEF IInv, TypeOK, Receive
<1>2. /\ f.kind = "status" => f \in Statuses
      /\ f.kind = "session" => f.id \in SessionIds
  BY <1>1 DEF Frames, Statuses, Status, SessionFrame, Malformed, NoText, Unrelated
<1> HIDE DEF f
<1>3. CASE f.kind = "status"
  <2>1. HandleStatus(f)
    BY <1>1, <1>3 DEF Handle
  <2>2. /\ last_counter' \in Counters
        /\ log' \in Seq([frame : Statuses, verdict : Verdicts])
        /\ HighestHandled' /\ HealthyUnlessOvertaken'
    BY <1>2, <1>3, <2>1, StatusHandled
  <2>3. UNCHANGED <<session, stopped>>
    BY <2>1 DEF HandleStatus
  <2> QED
    BY <1>1, <2>2, <2>3
       DEF IInv, TypeOK, battery, budget
<1>4. CASE f.kind = "session"
  <2>1. HandleSessionId(f)
    BY <1>1, <1>4 DEF Handle
  <2>2. session' \in SessionIds \cup {None}
    BY <1>2, <1>4, <2>1 DEF HandleSessionId
  <2>3. UNCHANGED <<last_counter, stopped, log>>
    BY <2>1 DEF HandleSessionId
  <2> QED
    BY <1>1, <2>2, <2>3
       DEF IInv, TypeOK, HighestHandled, HealthyUnlessOvertaken, battery, budget
<1>5. CASE f.kind \notin {"status", "session"}
  <2>1. stopped' \in BOOLEAN /\ UNCHANGED <<last_counter, session, log>>
    BY <1>1, <1>5 DEF Handle, Raise, vehicle, IInv, TypeOK
  <2> QED
    BY <1>1, <2>1
       DEF IInv, TypeOK, HighestHandled, HealthyUnlessOvertaken, battery, budget
<1> QED
  BY <1>3, <1>4, <1>5

\* A fresh log: the beginning, a counter set back to 0, fresh nodes.
LEMMA NothingHandled ==
    last_counter = 0 /\ log = << >> => HighestHandled /\ HealthyUnlessOvertaken
  BY DEF HighestHandled, HealthyUnlessOvertaken

\* The invariant holds in every reachable state.
THEOREM Invariance == BenchSpec => []IInv
<1> USE TelemetryAssumption
<1>1. BenchInit => IInv
  <2> SUFFICES ASSUME BenchInit PROVE IInv
    OBVIOUS
  <2>1. /\ << >> \in Seq({}) /\ << >> \in Seq(Frames) /\ << >> \in Seq(SessionIds)
        /\ << >> \in Seq([frame : Statuses, verdict : Verdicts])
    BY EmptySeq
  <2>2. TypeOK
    <3>1. /\ 0 \in 0..MaxCounter /\ 0 \in 0..(MaxCounter + 1)
          /\ 0 \in 0..MaxRestarts /\ 0 \in 0..MaxFaults
      OBVIOUS
    <3> QED
      BY <2>1, <3>1 DEF BenchInit, Init, TypeOK, Counters
  <2> QED
    BY <2>2, NothingHandled DEF BenchInit, Init, IInv
<1>2. IInv /\ [BenchNext]_benchVars => IInv'
  <2> SUFFICES ASSUME IInv, [BenchNext]_benchVars PROVE IInv'
    OBVIOUS
  <2>1. CASE BenchStep
    <3>1. TypeOK' /\ UNCHANGED vehicle
      BY <2>1, StepTypes DEF BenchStep, IInv
    <3> QED
      BY <3>1 DEF IInv, HighestHandled, HealthyUnlessOvertaken, vehicle
  <2>2. CASE BenchReset
    <3>1. last_counter' = 0 /\ log' = << >> /\ << >> \in Seq([frame : Statuses, verdict : Verdicts])
      BY <2>2, EmptySeq DEF BenchReset, ResetReplay
    <3>2. TypeOK'
      BY <2>2, <3>1 DEF BenchReset, ResetReplay, IInv, TypeOK, Counters, battery
    <3>3. UNCHANGED session
      BY <2>2 DEF BenchReset, ResetReplay
    <3> QED
      BY <3>1, <3>2, <3>3
         DEF IInv, HighestHandled, HealthyUnlessOvertaken
  <2>3. CASE BenchReceive
    BY <2>3, ReceiveStep DEF BenchReceive
  <2>4. CASE NextMode
    <3>1. \A S : << >> \in Seq(S)
      BY EmptySeq
    <3>2. TypeOK'
      BY <2>4, <3>1 DEF NextMode, IInv, TypeOK, Counters
    <3> QED
      BY <2>4, <3>2
         DEF NextMode, IInv, HighestHandled, HealthyUnlessOvertaken
  <2>5. CASE RecordAltered \/ UNCHANGED benchVars
    BY <2>5 DEF RecordAltered, benchVars, vars, battery, vehicle, budget, IInv, TypeOK,
                HighestHandled, HealthyUnlessOvertaken
  <2> QED
    BY <2>1, <2>2, <2>3, <2>4, <2>5 DEF BenchNext
<1> QED
  BY <1>1, <1>2, PTL DEF BenchSpec

\* The nodes, the bus and the fault objects keep to their types.
THEOREM TypeCorrect == BenchSpec => []TypeOK
<1>1. IInv => TypeOK
  BY DEF IInv
<1> QED
  BY <1>1, Invariance, PTL

\* Whatever a script does to the frames, the vehicle refuses a healthy sample
\* only if a status with its counter or a higher one was handled before.
THEOREM OnlyOvertakenRefused == BenchSpec => []HealthyUnlessOvertaken
<1>1. IInv => HealthyUnlessOvertaken
  BY DEF IInv
<1> QED
  BY <1>1, Invariance, PTL

-----------------------------------------------------------------------------
\* The verifier.  Its verdicts are computed row by row: what holds of them is
\* shown for the first number of rows for which it might not.

\* A set of naturals that is not empty has a least element.
LEMMA LeastElement ==
    ASSUME NEW S, S \subseteq Nat, S # {}
    PROVE  \E n \in S : \A m \in S : n <= m
<1>1. IsWellFoundedOn(OpToRel(<, Nat), Nat)
  BY NatLessThanWellFounded
<1>2. PICK n \in S : \A m \in S : <<m, n>> \notin OpToRel(<, Nat)
  BY <1>1, WFMin
<1>3. \A m \in S : ~ (m < n)
  BY <1>2 DEF OpToRel
<1> QED
  BY <1>3

\* What a table of the loop after each of the first n rows is.
IsTable(t, rws, n) ==
    t = [i \in 0..n |-> IF i = 0 THEN NothingVerified ELSE Verified(t[i - 1], rws[i])]

LEMMA TableExists ==
    ASSUME NEW rws, NEW len \in Nat
    PROVE  \E t : IsTable(t, rws, len)
<1> DEFINE S == {n \in Nat : ~ \E t : IsTable(t, rws, n)}
<1>1. SUFFICES ASSUME S # {} PROVE FALSE
  OBVIOUS
<1>2. PICK n \in S : \A m \in S : n <= m
  BY <1>1, LeastElement
<1>3. CASE n = 0
  <2>1. IsTable([i \in 0..0 |-> NothingVerified], rws, 0)
    BY DEF IsTable
  <2> QED
    BY <1>2, <1>3, <2>1
<1>4. CASE n # 0
  <2>1. n - 1 \in Nat /\ n - 1 \notin S
    BY <1>2, <1>4
  <2>2. PICK t : IsTable(t, rws, n - 1)
    BY <2>1
  <2> DEFINE u == [i \in 0..n |-> IF i = n THEN Verified(t[n - 1], rws[n]) ELSE t[i]]
  <2>3. IsTable(u, rws, n)
    <3>1. ASSUME NEW i \in 0..n
          PROVE  u[i] = IF i = 0 THEN NothingVerified ELSE Verified(u[i - 1], rws[i])
      <4>1. CASE i = 0
        BY <1>4, <2>1, <2>2, <4>1 DEF IsTable
      <4>2. CASE i # 0 /\ i = n
        BY <1>4, <2>1, <2>2, <4>2 DEF IsTable
      <4>3. CASE i # 0 /\ i # n
        BY <1>4, <2>1, <2>2, <4>3 DEF IsTable
      <4> QED
        BY <4>1, <4>2, <4>3
    <3>2. u = [i \in 0..n |-> u[i]]
      OBVIOUS
    <3> HIDE DEF u
    <3> QED
      BY <3>1, <3>2 DEF IsTable
  <2> QED
    BY <1>2, <2>3
<1> QED
  BY <1>3, <1>4

\* The loop does one row after the other.
LEMMA RowByRow ==
    ASSUME NEW rws, Len(rws) \in Nat
    PROVE  /\ Verifying(rws)[0] = NothingVerified
           /\ \A i \in 1..Len(rws) :
                Verifying(rws)[i] = Verified(Verifying(rws)[i - 1], rws[i])
<1>1. \E t : IsTable(t, rws, Len(rws))
  BY TableExists
<1>2. Verifying(rws) = CHOOSE t : IsTable(t, rws, Len(rws))
  BY DEF Verifying, IsTable
<1>3. IsTable(Verifying(rws), rws, Len(rws))
  BY <1>1, <1>2
<1> HIDE <1>2
<1> QED
  BY <1>3 DEF IsTable

\* A row that repeats a counter, or falls behind one, of its mode.
Overtaken(rws, i) ==
    \E j \in 1..(i - 1) :
        /\ rws[j].mode = rws[i].mode
        /\ rws[j].counter >= rws[i].counter
        /\ rws[j].counter > 0

\* The rows of the file have their columns.
Readable(rws) ==
    /\ Len(rws) \in Nat
    /\ \A i \in 1..Len(rws) : rws[i].counter \in Nat /\ rws[i].over \in BOOLEAN

\* After n rows: each ReplayProtection has the highest counter of its mode, and
\* the verdicts so far are right.
Highest(acc, rws, n) ==
    /\ \A j \in 1..n : /\ rws[j].mode \in DOMAIN acc.results
                       /\ rws[j].counter <= acc.results[rws[j].mode]
    /\ \A k \in DOMAIN acc.results :
         /\ acc.results[k] \in Nat
         /\ \E j \in 1..n : rws[j].mode = k /\ rws[j].counter = acc.results[k]

Judged(acc, rws, n) ==
    /\ Len(acc.out) = n
    /\ acc.out \in Seq([mode : {rws[j].mode : j \in 1..Len(rws)},
                        py_replay : BOOLEAN, py_injection : BOOLEAN])
    /\ \A i \in 1..n : /\ acc.out[i].py_replay <=> Overtaken(rws, i)
                       /\ acc.out[i].py_injection <=> rws[i].over

\* One more row.
LEMMA RowVerified ==
    ASSUME NEW acc, NEW rws, Readable(rws), NEW n \in 1..Len(rws),
           Highest(acc, rws, n - 1), Judged(acc, rws, n - 1)
    PROVE  /\ Highest(Verified(acc, rws[n]), rws, n)
           /\ Judged(Verified(acc, rws[n]), rws, n)
<1> DEFINE key == rws[n].mode
           last == IF key \in DOMAIN acc.results THEN acc.results[key] ELSE 0
           new == Verified(acc, rws[n])
           c == rws[n].counter
           highest == IF c > Primed(last) THEN c ELSE Primed(last)
           o == [mode |-> key, py_replay |-> ~ (c > Primed(last)), py_injection |-> rws[n].over]
<1>1. /\ new.results = [k \in DOMAIN acc.results \cup {key} |->
                           IF k = key THEN highest ELSE acc.results[k]]
      /\ new.out = Append(acc.out, o)
  BY DEF Verified, KeyOf, NewProtection, Validated
<1>2. c \in Nat /\ last \in Nat /\ n \in Nat /\ n - 1 \in Nat
      /\ \A j \in 1..n : rws[j].counter \in Nat /\ j \in 1..Len(rws)
  BY DEF Readable, Highest
<1>3. /\ \A j \in 1..(n - 1) : rws[j].mode = key => rws[j].counter <= last
      /\ last > 0 => \E j \in 1..(n - 1) : rws[j].mode = key /\ rws[j].counter = last
  <2> HIDE DEF key
  <2>1. CASE key \in DOMAIN acc.results
    BY <2>1 DEF Highest
  <2>2. CASE key \notin DOMAIN acc.results
    <3>1. \A j \in 1..(n - 1) : rws[j].mode # key
      BY <2>2 DEF Highest
    <3>2. last = 0 /\ ~ (last > 0)
      BY <2>2
    <3> QED
      BY <3>1, <3>2
  <2> QED
    BY <2>1, <2>2
<1> HIDE DEF new, last, key
<1>4. /\ Primed(last) = IF last = 0 THEN -1 ELSE last
      /\ highest \in Nat /\ c <= highest /\ last <= highest
      /\ highest = c \/ (last > 0 /\ highest = last)
  BY <1>2 DEF Primed
<1> HIDE DEF highest
<1>5. Highest(new, rws, n)
  <2>1. ASSUME NEW j \in 1..n
        PROVE  rws[j].mode \in DOMAIN new.results
               /\ rws[j].counter <= new.results[rws[j].mode]
    <3>1. CASE rws[j].mode = key
      <4>1. rws[j].counter <= highest
        BY <1>2, <1>3, <1>4, <3>1
      <4> QED
        BY <1>1, <3>1, <4>1
    <3>2. CASE rws[j].mode # key
      <4>1. j \in 1..(n - 1)
        BY <1>2, <3>2 DEF key
      <4>2. /\ rws[j].mode \in DOMAIN acc.results
            /\ rws[j].counter <= acc.results[rws[j].mode]
        BY <4>1 DEF Highest
      <4> QED
        BY <1>1, <3>2, <4>2
    <3> QED
      BY <3>1, <3>2
  <2>2. ASSUME NEW k \in DOMAIN new.results
        PROVE  /\ new.results[k] \in Nat
               /\ \E j \in 1..n : rws[j].mode = k /\ rws[j].counter = new.results[k]
    <3>1. CASE k = key
      <4>1. \E j \in 1..n : rws[j].mode = key /\ rws[j].counter = highest
        BY <1>2, <1>3, <1>4 DEF key
      <4> QED
        BY <1>1, <1>4, <3>1, <4>1
    <3>2. CASE k # key
      <4>1. k \in DOMAIN acc.results /\ new.results[k] = acc.results[k]
        BY <1>1, <2>2, <3>2
      <4>2. PICK j \in 1..(n - 1) : rws[j].mode = k /\ rws[j].counter = acc.results[k]
        BY <4>1 DEF Highest
      <4>3. j \in 1..n
        BY <1>2
      <4> QED
        BY <4>1, <4>2, <4>3 DEF Highest
    <3> QED
      BY <3>1, <3>2
  <2> QED
    BY <2>1, <2>2 DEF Highest
<1>6. o.py_replay <=> Overtaken(rws, n)
  <2>1. CASE last = 0
    <3>1. c > Primed(last)
      BY <1>2, <1>4, <2>1
    <3>2. ~ Overtaken(rws, n)
      BY <1>2, <1>3, <2>1 DEF Overtaken, key
    <3> QED
      BY <3>1, <3>2
  <2>2. CASE last > 0
    <3>1. o.py_replay <=> c <= last
      <4>1. Primed(last) = last /\ (~ (c > last) <=> c <= last)
        BY <1>2, <1>4, <2>2
      <4>2. o.py_replay = ~ (c > Primed(last))
        OBVIOUS
      <4> HIDE DEF o
      <4> QED
        BY <4>1, <4>2, Zenon
    <3>2. c <= last => Overtaken(rws, n)
      BY <1>2, <1>3, <2>2 DEF Overtaken, key
    <3>3. Overtaken(rws, n) => c <= last
      BY <1>2, <1>3, <2>2 DEF Overtaken, key
    <3> QED
      BY <3>1, <3>2, <3>3
  <2> QED
    BY <1>2, <2>1, <2>2
<1>7. Judged(new, rws, n)
  <2> DEFINE O == [mode : {rws[j].mode : j \in 1..Len(rws)},
                   py_replay : BOOLEAN, py_injection : BOOLEAN]
  <2>1. o \in O
    BY DEF Readable, key
  <2>2. acc.out \in Seq(O) /\ Len(acc.out) = n - 1
    BY DEF Judged
  <2> HIDE DEF O, o
  <2>3. /\ new.out \in Seq(O) /\ Len(new.out) = n
        /\ \A i \in 1..(n - 1) : new.out[i] = acc.out[i]
        /\ new.out[n] = o
    BY <1>1, <1>2, <2>1, <2>2, AppendProperties
  <2>4. ASSUME NEW i \in 1..n
        PROVE  /\ new.out[i].py_replay <=> Overtaken(rws, i)
               /\ new.out[i].py_injection <=> rws[i].over
    <3>1. CASE i = n
      BY <1>6, <2>3, <3>1 DEF o
    <3>2. CASE i # n
      <4>1. i \in 1..(n - 1)
        BY <1>2, <3>2
      <4> QED
        BY <2>3, <4>1 DEF Judged
    <3> QED
      BY <3>1, <3>2
  <2> QED
    BY <2>3, <2>4 DEF Judged, O
<1> QED
  BY <1>5, <1>7 DEF new

\* The verdicts on any recording.
LEMMA VerdictsRight ==
    ASSUME NEW rws, Readable(rws)
    PROVE  \A i \in 1..Len(rws) : /\ VerifyAll(rws)[i].py_replay <=> Overtaken(rws, i)
                                  /\ VerifyAll(rws)[i].py_injection <=> rws[i].over
<1> DEFINE v == Verifying(rws)
           S == {n \in 0..Len(rws) : ~ (Highest(v[n], rws, n) /\ Judged(v[n], rws, n))}
<1>1. Len(rws) \in Nat /\ S \subseteq Nat
  BY DEF Readable
<1>2. /\ v[0] = NothingVerified
      /\ \A i \in 1..Len(rws) : v[i] = Verified(v[i - 1], rws[i])
  BY <1>1, RowByRow
<1>3. S = {}
  <2>1. SUFFICES ASSUME S # {} PROVE FALSE
    OBVIOUS
  <2>2. PICK n \in S : \A m \in S : n <= m
    BY <1>1, <2>1, LeastElement
  <2> HIDE DEF v
  <2>3. CASE n = 0
    <3>1. /\ DOMAIN NothingVerified.results = {}
          /\ NothingVerified.out = << >>
      BY DEF NothingVerified
    <3>2. << >> \in Seq([mode : {rws[j].mode : j \in 1..Len(rws)},
                         py_replay : BOOLEAN, py_injection : BOOLEAN])
          /\ Len(<< >>) = 0
      BY EmptySeq
    <3>3. Highest(v[0], rws, 0)
      BY <1>2, <3>1 DEF Highest
    <3>4. Judged(v[0], rws, 0)
      BY <1>2, <3>1, <3>2 DEF Judged
    <3> QED
      BY <2>2, <2>3, <3>3, <3>4
  <2>4. CASE n # 0
    <3>1. n \in 1..Len(rws) /\ n - 1 \in 0..Len(rws) /\ n - 1 \notin S
      BY <1>1, <2>2, <2>4
    <3>2. Highest(v[n - 1], rws, n - 1) /\ Judged(v[n - 1], rws, n - 1)
      BY <3>1
    <3>3. Highest(v[n], rws, n) /\ Judged(v[n], rws, n)
      BY <1>2, <3>1, <3>2, RowVerified
    <3> QED
      BY <2>2, <3>3
  <2> QED
    BY <2>3, <2>4
<1>4. Judged(v[Len(rws)], rws, Len(rws))
  BY <1>1, <1>3
<1> QED
  BY <1>1, <1>4 DEF Judged, VerifyAll
-----------------------------------------------------------------------------
\* The rows.  The vehicle's verdict on a row is not computed from the rows, but
\* its last_counter is the highest counter judged in the rows of the mode.

Rows == [mode : Nat, counter : Counters, over : BOOLEAN,
         judged : Counters \cup {NoCounter, NotJudged},
         verdict : Verdicts \cup {"IGNORED"}]

RowsTyped ==
    /\ mode \in Nat
    /\ rows \in Seq(Rows)

\* No row is of a mode to come.
ModesSoFar == \A i \in 1..Len(rows) : rows[i].mode <= mode

\* Setting last_counter back takes the verdicts of the mode out of the account.
HighestJudged ==
    /\ \A i \in 1..Len(rows) : rows[i].mode = mode => rows[i].judged <= last_counter
    /\ last_counter > 0 =>
         \E i \in 1..Len(rows) : rows[i].mode = mode /\ rows[i].judged = last_counter

\* The vehicle took a row for a replay if its counter, or a higher one, was
\* judged in an earlier row of the mode, or is 0.
ReplayByRows(i) ==
    rows[i].judged >= 0 =>
        (rows[i].verdict = "REPLAY" <=>
            \/ rows[i].judged = 0
            \/ \E j \in 1..(i - 1) : /\ rows[j].mode = rows[i].mode
                                     /\ rows[j].judged >= rows[i].judged)

\* A valid row has no voltage out of range; one without a counter has the 0.
ColumnsFit(row) ==
    /\ row.verdict = "VALID" => ~ row.over
    /\ row.judged = NoCounter => row.counter = 0

RowsInv ==
    /\ RowsTyped
    /\ ModesSoFar
    /\ HighestJudged
    /\ \A i \in 1..Len(rows) : ReplayByRows(i) /\ ColumnsFit(rows[i])

\* The rows, one by one.
LEMMA EachRow ==
    ASSUME RowsTyped
    PROVE  /\ Len(rows) \in Nat
           /\ \A i \in 1..Len(rows) :
                /\ rows[i] \in Rows
                /\ rows[i].mode \in Nat /\ rows[i].counter \in Nat
                /\ rows[i].over \in BOOLEAN /\ rows[i].judged \in Int
<1>1. Len(rows) \in Nat /\ \A i \in 1..Len(rows) : rows[i] \in Rows
  BY LenProperties, ElementOfSeq DEF RowsTyped
<1> QED
  BY <1>1, TelemetryAssumption DEF Rows, Counters, NoCounter, NotJudged

\* A row appended whose verdict fits the last_counter it was judged with.
LEMMA RowAppended ==
    ASSUME RowsInv, NEW row \in Rows, rows' = Append(rows, row), mode' = mode,
           row.mode = mode, ColumnsFit(row), last_counter \in Nat, last_counter' \in Nat,
           row.judged >= 0 =>
             /\ last_counter' = IF row.judged > last_counter THEN row.judged
                                ELSE last_counter
             /\ row.verdict = "REPLAY" <=> row.judged <= last_counter,
           row.judged < 0 => last_counter' = last_counter
    PROVE  RowsInv'
<1>1. /\ rows \in Seq(Rows) /\ mode \in Nat /\ Len(rows) \in Nat
      /\ \A i \in 1..Len(rows) : rows[i].mode \in Nat /\ rows[i].judged \in Int
  BY EachRow DEF RowsInv, RowsTyped
<1>2. /\ rows' \in Seq(Rows) /\ Len(rows') = Len(rows) + 1
      /\ \A i \in 1..Len(rows) : rows'[i] = rows[i]
      /\ rows'[Len(rows) + 1] = row
  BY <1>1, AppendProperties
<1>3. row.judged \in Int
  BY TelemetryAssumption DEF Rows, Counters, NoCounter, NotJudged
<1>4. \A i \in 1..Len(rows') : i \in 1..Len(rows) \/ i = Len(rows) + 1
  BY <1>1, <1>2
<1>5. /\ \A i \in 1..Len(rows) : rows[i].mode = mode => rows[i].judged <= last_counter
      /\ last_counter > 0 =>
           \E i \in 1..Len(rows) : rows[i].mode = mode /\ rows[i].judged = last_counter
  BY DEF RowsInv, HighestJudged
<1>6. RowsTyped'
  BY <1>1, <1>2 DEF RowsTyped
<1>7. ModesSoFar'
  BY <1>1, <1>2, <1>4 DEF RowsInv, ModesSoFar
<1>8. HighestJudged'
  <2>1. last_counter <= last_counter' /\ row.judged <= last_counter'
    BY <1>3
  <2>2. \A i \in 1..Len(rows') : rows'[i].mode = mode' => rows'[i].judged <= last_counter'
    <3>1. SUFFICES ASSUME NEW i \in 1..Len(rows'), rows'[i].mode = mode'
                   PROVE  rows'[i].judged <= last_counter'
      OBVIOUS
    <3>2. CASE i \in 1..Len(rows)
      <4>1. rows[i].judged <= last_counter /\ rows[i].judged \in Int
        BY <1>1, <1>2, <1>5, <3>1, <3>2
      <4> QED
        BY <1>2, <2>1, <3>2, <4>1
    <3>3. CASE i = Len(rows) + 1
      BY <1>2, <2>1, <3>3
    <3> QED
      BY <1>4, <3>2, <3>3
  <2>3. last_counter' > 0 =>
          \E i \in 1..Len(rows') : rows'[i].mode = mode' /\ rows'[i].judged = last_counter'
    <3>1. SUFFICES ASSUME last_counter' > 0
                   PROVE  \E i \in 1..Len(rows') :
                            rows'[i].mode = mode' /\ rows'[i].judged = last_counter'
      OBVIOUS
    <3>2. CASE last_counter' = last_counter
      <4>1. PICK i \in 1..Len(rows) : rows[i].mode = mode /\ rows[i].judged = last_counter
        BY <1>5, <3>1, <3>2
      <4>2. i \in 1..Len(rows') /\ rows'[i] = rows[i]
        BY <1>1, <1>2
      <4> QED
        BY <3>2, <4>1, <4>2
    <3>3. CASE last_counter' = row.judged
      <4>1. Len(rows) + 1 \in 1..Len(rows')
        BY <1>1, <1>2
      <4> QED
        BY <1>2, <3>3, <4>1
    <3> QED
      BY <1>3, <3>2, <3>3
  <2> QED
    BY <2>2, <2>3 DEF HighestJudged
<1>9. ASSUME NEW i \in 1..Len(rows') PROVE ReplayByRows(i)' /\ ColumnsFit(rows[i])'
  <2>1. CASE i \in 1..Len(rows)
    <3>1. rows'[i] = rows[i] /\ \A j \in 1..(i - 1) : rows'[j] = rows[j]
      BY <1>1, <1>2, <2>1
    <3>2. ReplayByRows(i) /\ ColumnsFit(rows[i])
      BY <2>1 DEF RowsInv
    <3>3. ReplayByRows(i)'
      BY <3>1, <3>2 DEF ReplayByRows
    <3> QED
      BY <3>1, <3>2, <3>3 DEF ColumnsFit
  <2>2. CASE i = Len(rows) + 1
    <3>1. rows'[i] = row /\ i - 1 = Len(rows)
          /\ \A j \in 1..(i - 1) : rows'[j] = rows[j]
      BY <1>1, <1>2, <2>2
    <3>2. SUFFICES ASSUME row.judged >= 0
                   PROVE  row.verdict = "REPLAY" <=>
                            \/ row.judged = 0
                            \/ \E j \in 1..Len(rows) : /\ rows[j].mode = mode
                                                       /\ rows[j].judged >= row.judged
      BY <3>1 DEF ReplayByRows, ColumnsFit
    <3>3. row.verdict = "REPLAY" <=> row.judged <= last_counter
      BY <3>2
    <3>4. ASSUME row.judged <= last_counter, row.judged # 0
          PROVE  \E j \in 1..Len(rows) : /\ rows[j].mode = mode
                                         /\ rows[j].judged >= row.judged
      BY <1>3, <1>5, <3>2, <3>4
    <3>5. ASSUME NEW j \in 1..Len(rows), rows[j].mode = mode, rows[j].judged >= row.judged
          PROVE  row.judged <= last_counter
      BY <1>1, <1>3, <1>5, <3>5
    <3>6. row.judged = 0 => row.judged <= last_counter
      OBVIOUS
    <3> QED
      BY <3>3, <3>4, <3>5, <3>6
  <2> QED
    BY <1>4, <2>1, <2>2
<1> QED
  BY <1>6, <1>7, <1>8, <1>9 DEF RowsInv

\* A frame the vehicle handled, and its row.
LEMMA FrameRow ==
    ASSUME IInv, RowsInv, BenchReceive
    PROVE  RowsInv'
<1> DEFINE f == Head(bus)
<1>1. f \in Frames /\ Handle(f) /\ last_counter \in Nat /\ mode' = mode
  BY HeadTailProperties, TelemetryAssumption DEF IInv, TypeOK, BenchReceive, Receive, Counters
<1>2. stopped' \/ WriteRow(f)
  BY DEF BenchReceive
<1>3. CASE stopped'
  <2>1. ~ stopped /\ UNCHANGED rows
    BY <1>3 DEF BenchReceive, Receive
  <2>2. UNCHANGED last_counter
    BY <1>1, <1>3, <2>1 DEF Handle, HandleStatus, HandleSessionId, Raise, vehicle
  <2> QED
    BY <1>1, <2>1, <2>2
       DEF RowsInv, RowsTyped, ModesSoFar, HighestJudged, ReplayByRows, ColumnsFit
<1>4. /\ f.kind = "status" => f \in Statuses
      /\ f.kind # "status" => f.kind \in {"session", "malformed", "notext", "unrelated"}
  BY <1>1 DEF Frames, Statuses, Status, SessionFrame, Malformed, NoText, Unrelated
<1> HIDE DEF f
<1>5. CASE WriteRow(f) /\ f.kind = "status"
  <2>1. /\ last_counter' = IF f.counter > last_counter THEN f.counter ELSE last_counter
        /\ f.counter \in Counters /\ f.counter \in Nat
        /\ f.level \in Levels
    BY <1>1, <1>4, <1>5, TelemetryAssumption
       DEF Handle, HandleStatus, Validated, Statuses, Status, Counters
  <2>2. /\ Verdict(f) \in Verdicts
        /\ Verdict(f) = "REPLAY" <=> f.counter <= last_counter
        /\ Verdict(f) = "VALID" => f.level = "normal"
    <3>1. ~ (f.counter > last_counter) <=> f.counter <= last_counter
      BY <1>1, <2>1
    <3> QED
      BY <2>1, <3>1 DEF Verdict, Verdicts, Validated, Levels
  <2>3. PICK row : /\ rows' = Append(rows, row)
                   /\ \/ \E over \in {FALSE, f.level = "out"} : row = StatusRow(f, over)
                      \/ row = ZeroRow(f)
    BY <1>5 DEF WriteRow
  <2>4. /\ row.mode = mode /\ row.judged = f.counter /\ row.verdict = Verdict(f)
        /\ row \in Rows /\ ColumnsFit(row)
    <3>1. RowsTyped /\ mode \in Nat /\ 0 \in Counters
      BY TelemetryAssumption DEF RowsInv, RowsTyped, Counters
    <3>2. CASE row = ZeroRow(f)
      BY <1>5, <2>1, <2>2, <3>1, <3>2 DEF ZeroRow, Rows, ColumnsFit, NoCounter
    <3>3. ASSUME NEW over \in {FALSE, f.level = "out"}, row = StatusRow(f, over)
          PROVE  <2>4
      <4>1. over \in BOOLEAN /\ (f.level = "normal" => ~ over)
        BY <3>3
      <4> QED
        BY <2>1, <2>2, <3>1, <3>3, <4>1 DEF StatusRow, Rows, ColumnsFit, NoCounter
    <3> QED
      BY <2>3, <3>2, <3>3
  <2>5. last_counter' \in Nat
    BY <1>1, <2>1
  <2> QED
    BY <1>1, <2>1, <2>2, <2>3, <2>4, <2>5, RowAppended
<1>6. CASE WriteRow(f) /\ f.kind # "status"
  <2>1. rows' = Append(rows, ZeroRow(f))
    BY <1>6 DEF WriteRow
  <2>2. UNCHANGED last_counter
    BY <1>1, <1>6 DEF Handle, HandleSessionId, Raise, vehicle
  <2>3. /\ ZeroRow(f) = [mode |-> mode, counter |-> 0, over |-> FALSE,
                         judged |-> NoCounter, verdict |-> "IGNORED"]
    BY <1>6 DEF ZeroRow
  <2>4. ZeroRow(f) \in Rows /\ ColumnsFit(ZeroRow(f))
        /\ ZeroRow(f).mode = mode /\ ZeroRow(f).judged = -1
    BY <2>3, TelemetryAssumption DEF Rows, ColumnsFit, Counters, NoCounter, RowsInv, RowsTyped
  <2> QED
    BY <1>1, <2>1, <2>2, <2>4, RowAppended
<1> QED
  BY <1>2, <1>3, <1>5, <1>6

\* last_counter set back.
LEMMA ResetRows ==
    ASSUME RowsInv, BenchReset
    PROVE  RowsInv'
<1>1. /\ rows \in Seq(Rows) /\ mode \in Nat /\ Len(rows) \in Nat
      /\ \A i \in 1..Len(rows) : /\ rows[i] \in Rows /\ rows[i].judged \in Int
                                 /\ rows[i].mode \in Nat
  BY EachRow DEF RowsInv, RowsTyped
<1>2. last_counter' = 0 /\ mode' = mode
  BY DEF BenchReset, ResetReplay
<1>3. /\ rows' = [i \in 1..Len(rows) |->
                    IF rows[i].mode = mode THEN [rows[i] EXCEPT !.judged = NotJudged]
                                           ELSE rows[i]]
  BY <1>1, LenProperties DEF BenchReset
<1>4. \A i \in 1..Len(rows) :
        /\ rows'[i] \in Rows
        /\ rows'[i].mode = rows[i].mode
        /\ rows'[i].counter = rows[i].counter
        /\ rows'[i].over = rows[i].over
        /\ rows'[i].verdict = rows[i].verdict
        /\ rows'[i].judged = IF rows[i].mode = mode THEN -2 ELSE rows[i].judged
  BY <1>1, <1>3 DEF Rows, NotJudged
<1>5. rows' \in Seq(Rows) /\ Len(rows') = Len(rows)
  <2>1. rows' = [i \in 1..Len(rows) |-> rows'[i]]
    BY <1>3
  <2> QED
    BY <1>1, <1>4, <2>1
<1>6. RowsTyped' /\ ModesSoFar'
  BY <1>1, <1>2, <1>4, <1>5 DEF RowsTyped, RowsInv, ModesSoFar
<1>7. HighestJudged'
  BY <1>1, <1>2, <1>4, <1>5 DEF HighestJudged
<1>8. ASSUME NEW i \in 1..Len(rows') PROVE ReplayByRows(i)' /\ ColumnsFit(rows[i])'
  <2>1. i \in 1..Len(rows) /\ \A j \in 1..(i - 1) : j \in 1..Len(rows)
    BY <1>1, <1>5
  <2>2. ReplayByRows(i) /\ ColumnsFit(rows[i])
    BY <2>1 DEF RowsInv
  <2>3. ColumnsFit(rows[i])'
    BY <1>4, <2>1, <2>2 DEF ColumnsFit, NoCounter
  <2>4. CASE rows[i].mode = mode
    <3>1. rows'[i].judged = -2
      BY <1>4, <2>1, <2>4
    <3> QED
      BY <2>3, <3>1 DEF ReplayByRows
  <2>5. CASE rows[i].mode # mode
    <3>1. /\ rows'[i].judged = rows[i].judged /\ rows'[i].verdict = rows[i].verdict
          /\ rows'[i].mode = rows[i].mode
          /\ \A j \in 1..(i - 1) :
               /\ rows'[j].mode = rows[j].mode
               /\ rows[j].mode = rows[i].mode => rows'[j].judged = rows[j].judged
      BY <1>4, <2>1, <2>5
    <3> QED
      BY <2>2, <2>3, <3>1 DEF ReplayByRows
  <2> QED
    BY <2>4, <2>5
<1> QED
  BY <1>6, <1>7, <1>8 DEF RowsInv

\* What is recorded fits what the vehicle made of it.
THEOREM RowsInvariance == BenchSpec => []RowsInv
<1>1. BenchInit => RowsInv
  <2> SUFFICES ASSUME BenchInit PROVE RowsInv
    OBVIOUS
  <2>1. rows = << >> /\ mode = 1 /\ last_counter = 0 /\ << >> \in Seq(Rows)
    BY EmptySeq DEF BenchInit, Init
  <2> QED
    BY <2>1 DEF RowsInv, RowsTyped, ModesSoFar, HighestJudged
<1>2. IInv /\ RowsInv /\ [BenchNext]_benchVars => RowsInv'
  <2> SUFFICES ASSUME IInv, RowsInv, [BenchNext]_benchVars PROVE RowsInv'
    OBVIOUS
  <2>1. CASE UNCHANGED <<last_counter, mode, rows>>
    BY <2>1 DEF RowsInv, RowsTyped, ModesSoFar, HighestJudged, ReplayByRows, ColumnsFit
  <2>2. CASE BenchStep
    <3>1. UNCHANGED vehicle
      BY <2>2, StepTypes DEF BenchStep, IInv
    <3> QED
      BY <2>1, <2>2, <3>1 DEF BenchStep, vehicle
  <2>3. CASE BenchReset
    BY <2>3, ResetRows
  <2>4. CASE BenchReceive
    BY <2>4, FrameRow
  <2>5. CASE RecordAltered
    <3>1. PICK f \in sent : rows' = Append(rows, AlteredRow(f))
      BY <2>5 DEF RecordAltered
    <3> DEFINE row == AlteredRow(f)
    <3>2. rows' = Append(rows, row)
      BY <3>1
    <3>3. f.counter \in Counters /\ last_counter \in Nat /\ mode \in Nat
      BY SentFrames, TelemetryAssumption
         DEF IInv, TypeOK, Counters, RowsInv, RowsTyped, Statuses, Status
    <3>4. row \in Rows /\ ColumnsFit(row)
      BY <3>3 DEF AlteredRow, Rows, NotJudged, ColumnsFit, NoCounter
    <3>5. UNCHANGED <<last_counter, mode>>
      BY <2>5 DEF RecordAltered, vars, vehicle
    <3> QED
      <4>1. row.mode = mode /\ row.judged = -2
        BY DEF AlteredRow, NotJudged
      <4> HIDE DEF row
      <4> QED
        BY <3>2, <3>3, <3>4, <3>5, <4>1, RowAppended
  <2>6. CASE NextMode
    <3>1. mode' = mode + 1 /\ last_counter' = 0 /\ rows' = rows
      BY <2>6 DEF NextMode
    <3>2. mode \in Nat /\ \A i \in 1..Len(rows) : rows[i].mode <= mode /\ rows[i].mode \in Nat
      BY EachRow DEF RowsInv, RowsTyped, ModesSoFar
    <3>3. \A i \in 1..Len(rows) : rows'[i].mode <= mode' /\ rows'[i].mode # mode'
      BY <3>1, <3>2
    <3> QED
      BY <3>1, <3>2, <3>3
         DEF RowsInv, RowsTyped, ModesSoFar, HighestJudged, ReplayByRows, ColumnsFit
  <2> QED
    BY <2>1, <2>2, <2>3, <2>4, <2>5, <2>6 DEF BenchNext, benchVars, vars, vehicle
<1> QED
  BY <1>1, <1>2, Invariance, PTL DEF BenchSpec

\* The verifier reports a row as a replay exactly if an earlier row of its mode
\* reached its counter; the ReplayProtection of one mode is not another's.
THEOREM VerifierReportsReplays == BenchSpec => []RowReplayExact
<1>1. RowsInv => RowReplayExact
  <2> SUFFICES ASSUME RowsInv PROVE RowReplayExact
    OBVIOUS
  <2>1. Readable(rows)
    BY EachRow DEF RowsInv, Readable
  <2> QED
    BY <2>1, VerdictsRight DEF RowReplayExact, Overtaken
<1> QED
  BY <1>1, RowsInvariance, PTL

\* On the rows the vehicle has judged, the verifier comes to its result.
THEOREM VerifierMatchesVehicle == BenchSpec => []VerifierAgrees
<1>1. RowsInv => VerifierAgrees
  <2> SUFFICES ASSUME RowsInv, NEW i \in 1..Len(rows), rows[i].counter > 0,
                      \A j \in 1..i : rows[j].mode = rows[i].mode =>
                         rows[j].judged = rows[j].counter \/ rows[j].judged = NoCounter
               PROVE  /\ VerifyAll(rows)[i].py_replay <=> rows[i].verdict = "REPLAY"
                      /\ rows[i].verdict = "VALID" => ~ VerifyAll(rows)[i].py_injection
    BY DEF VerifierAgrees
  <2>1. /\ Readable(rows) /\ i \in 1..i /\ ReplayByRows(i) /\ ColumnsFit(rows[i])
        /\ \A j \in 1..i : /\ ColumnsFit(rows[j]) /\ rows[j].counter \in Nat
                           /\ rows[j].judged \in Int
    BY EachRow DEF RowsInv, Readable
  <2>2. /\ VerifyAll(rows)[i].py_replay <=> Overtaken(rows, i)
        /\ VerifyAll(rows)[i].py_injection <=> rows[i].over
    BY <2>1, VerdictsRight
  <2>3. rows[i].judged = rows[i].counter
    BY <2>1 DEF ColumnsFit
  <2>4. ASSUME NEW j \in 1..(i - 1), rows[j].mode = rows[i].mode
        PROVE  rows[j].judged >= rows[i].judged <=>
                 rows[j].counter >= rows[i].counter /\ rows[j].counter > 0
    <3>1. j \in 1..i
      OBVIOUS
    <3>2. CASE rows[j].judged = rows[j].counter
      BY <2>1, <2>3, <3>1, <3>2
    <3>3. CASE rows[j].judged = -1 /\ rows[j].counter = 0
      BY <2>1, <2>3, <3>1, <3>3
    <3> QED
      BY <2>1, <2>4, <3>1, <3>2, <3>3 DEF ColumnsFit, NoCounter
  <2>5. Overtaken(rows, i) <=> rows[i].verdict = "REPLAY"
    BY <2>1, <2>3, <2>4 DEF Overtaken, ReplayByRows
  <2> QED
    BY <2>1, <2>2, <2>5 DEF ColumnsFit
<1> QED
  BY <1>1, RowsInvariance, PTL
=============================================================================
