--------------------------- MODULE StatusCollector ---------------------------
(***************************************************************************)
(* The telemetry path of the CAN software: a battery that splits every     *)
(* sample into the frames STATUS_A, STATUS_B and STATUS_C, a bus that      *)
(* keeps their order and may lose any of them, deliver it more than once   *)
(* or with a wrong size, the StatusCollector of can/status_collector.py,   *)
(* and the ReplayProtection its consumer runs on each emitted              *)
(* BatteryStatus.                                                          *)
(*                                                                         *)
(* A frame is [part, sample]: `sample` is the counter of the BatteryStatus *)
(* it was cut from.  It is what STATUS_A carries on the wire; in STATUS_B  *)
(* and STATUS_C it stands for the measured values.                         *)
(***************************************************************************)
EXTENDS Naturals, Sequences

CONSTANTS
    MaxSample     \* bound: the number of samples the battery sends

ASSUME SampleAssumption == MaxSample \in Nat \ {0}

VARIABLES
    counter,       \* MessageCounter.counter of the battery
    toSend,        \* the frames of the current sample still to be sent
    a, b, c,       \* the collector's _a, _b and _c: the sample held, None = 0
    bad,           \* which of the frames held have a size that raises
    last_counter,  \* ReplayProtection.last_counter of the consumer
    emitted,       \* every BatteryStatus feed() returned (history)
    flagged,       \* how many of them validate() refused (history)
    arrived,       \* the frames that were fed as they were sent (history)
    disturbed      \* the samples that a reset() interrupted, or of which a
                   \* frame arrived with a wrong size (history)

history == <<emitted, flagged, arrived, disturbed>>
collector == <<a, b, c, bad>>
vars == <<counter, toSend, collector, last_counter, history>>

None == 0
Samples == 1..MaxSample
Parts == {"A", "B", "C"}
Frames == [part : Parts, sample : Samples]
Held == Samples \cup {None}

Init ==
    /\ counter = 0
    /\ toSend = << >>
    /\ a = None /\ b = None /\ c = None /\ bad = {}
    /\ last_counter = 0
    /\ emitted = << >>
    /\ flagged = 0
    /\ arrived = {}
    /\ disturbed = {}

\* encode_status_a(), encode_status_b(), encode_status_c() of one sample.
Encoded(n) == [i \in 1..3 |-> [part |-> <<"A", "B", "C">>[i], sample |-> n]]

\* The battery takes a sample: MessageCounter.next(), then the three encoders.
Sample ==
    /\ toSend = << >>
    /\ counter < MaxSample
    /\ counter' = counter + 1
    /\ toSend' = Encoded(counter + 1)
    /\ UNCHANGED <<collector, last_counter, history>>

\* The bus loses the next frame.
Lose ==
    /\ toSend # << >>
    /\ toSend' = Tail(toSend)
    /\ UNCHANGED <<counter, collector, last_counter, history>>

\* ReplayProtection.validate().
Validate(received) ==
    IF received <= last_counter
    THEN UNCHANGED last_counter /\ flagged' = flagged + 1
    ELSE last_counter' = received /\ UNCHANGED flagged

\* status_from_frames(): the BatteryStatus of a round, by the samples its
\* counter, its voltage and current, and its temperature come from.
Aggregated(na, nb, nc) == <<na, nb, nc>>

\* Mutants of Buffer: a round without its frame B is returned; the frame A of
\* a returned round is kept.
Buffer_WithoutB(na, nb, nc, nbad) ==
    IF na # None /\ nc # None /\ nbad = {}
    THEN /\ a' = None /\ b' = None /\ c' = None /\ bad' = {}
         /\ emitted' = Append(emitted, Aggregated(na, nb, nc))
         /\ Validate(na)
    ELSE /\ a' = na /\ b' = nb /\ c' = nc /\ bad' = nbad
         /\ UNCHANGED <<emitted, last_counter, flagged>>

Buffer_KeepsA(na, nb, nc, nbad) ==
    IF na # None /\ nb # None /\ nc # None /\ nbad = {}
    THEN /\ a' = na /\ b' = None /\ c' = None /\ bad' = {}
         /\ emitted' = Append(emitted, Aggregated(na, nb, nc))
         /\ Validate(na)
    ELSE /\ a' = na /\ b' = nb /\ c' = nc /\ bad' = nbad
         /\ UNCHANGED <<emitted, last_counter, flagged>>

\* The end of feed(): a round with all three frames is returned and cleared.
\* If one of them has a wrong size, status_from_frames() raises, and the round
\* stays as it is.  (A STATUS_C only when it is too short: of a longer one the
\* first four bytes are read.)
Buffer(na, nb, nc, nbad) ==
    IF na # None /\ nb # None /\ nc # None /\ nbad = {}
    THEN /\ a' = None /\ b' = None /\ c' = None /\ bad' = {}
         /\ emitted' = Append(emitted, Aggregated(na, nb, nc))
         /\ Validate(na)
    ELSE /\ a' = na /\ b' = nb /\ c' = nc /\ bad' = nbad
         /\ UNCHANGED <<emitted, last_counter, flagged>>

\* A frame reaches feed(), as it was sent or with a wrong size (`now` is then
\* {part}); the bus may deliver it once more.
Arrive(part, now) ==
    /\ toSend # << >>
    /\ Head(toSend).part = part
    /\ toSend' \in {toSend, Tail(toSend)}
    /\ arrived' = IF now = {} THEN arrived \cup {Head(toSend)} ELSE arrived
    /\ disturbed' = IF now = {} THEN disturbed ELSE disturbed \cup {counter}
    /\ UNCHANGED counter

\* Mutants of FeedA: the values already buffered are kept; an open round is
\* not given up for a new one.
FeedA_KeepsValues ==
    \E now \in {{}, {"A"}} :
        Arrive("A", now) /\ Buffer(Head(toSend).sample, b, c, (bad \ {"A"}) \cup now)

FeedA_KeepsRound ==
    \E now \in {{}, {"A"}} :
        /\ Arrive("A", now)
        /\ IF a # None THEN Buffer(a, b, c, bad)
                       ELSE Buffer(Head(toSend).sample, None, None, now)

\* feed() of a STATUS_A: it always opens a fresh round.
FeedA ==
    \E now \in {{}, {"A"}} :
        Arrive("A", now) /\ Buffer(Head(toSend).sample, None, None, now)

\* feed() of a STATUS_B or STATUS_C: ignored while no round is open.
FeedB ==
    \E now \in {{}, {"B"}} :
        /\ Arrive("B", now)
        /\ IF a # None THEN Buffer(a, Head(toSend).sample, c, (bad \ {"B"}) \cup now)
                       ELSE Buffer(a, b, c, bad)

FeedC ==
    \E now \in {{}, {"C"}} :
        /\ Arrive("C", now)
        /\ IF a # None THEN Buffer(a, b, Head(toSend).sample, (bad \ {"C"}) \cup now)
                       ELSE Buffer(a, b, c, bad)

\* reset() called by the owner of the collector, at any moment.
Reset ==
    /\ a' = None /\ b' = None /\ c' = None /\ bad' = {}
    /\ disturbed' = IF toSend = << >> THEN disturbed
                    ELSE disturbed \cup {f.sample : f \in {f \in arrived : f.sample = counter}}
    /\ UNCHANGED <<counter, toSend, last_counter, emitted, flagged, arrived>>

Next == Sample \/ Lose \/ FeedA \/ FeedB \/ FeedC \/ Reset

Spec == Init /\ [][Next]_vars

-----------------------------------------------------------------------------
\* Properties

TypeOK ==
    /\ counter \in 0..MaxSample
    /\ toSend \in Seq(Frames)
    /\ a \in Held /\ b \in Held /\ c \in Held /\ bad \subseteq Parts
    /\ last_counter \in 0..MaxSample
    /\ emitted \in Seq(Samples \X Samples \X Samples)
    /\ flagged \in Nat
    /\ arrived \subseteq Frames
    /\ disturbed \subseteq Samples

\* Voltage, current and temperature are never older than the counter they
\* are emitted under: whatever is lost, a fresh STATUS_A forgets every value
\* that arrived before it.
NeverStaleValues ==
    \A i \in 1..Len(emitted) :
        emitted[i][1] <= emitted[i][2] /\ emitted[i][1] <= emitted[i][3]

\* The consumer's replay check never refuses a sample of an honest battery:
\* each STATUS_A is emitted at most once, and in the order of the counters.
NoFalseReplay == flagged = 0

\* A sample whose three frames all arrived is emitted, unmixed, whatever was
\* lost or raised before it; only a reset() between its frames, or one of them
\* with a wrong size, may drop it.
WholeRoundEmitted ==
    \A n \in Samples \ disturbed :
        (\A part \in Parts : [part |-> part, sample |-> n] \in arrived)
            => \E i \in 1..Len(emitted) : emitted[i] = <<n, n, n>>

\* A status mixes two samples only when the STATUS_A of the newer one never
\* arrived: the loss of STATUS_B and STATUS_C, a reset(), or a round that raised
\* never mixes any.
MixedOnlyIfStartLost ==
    \A i \in 1..Len(emitted) : \A p \in {2, 3} :
        emitted[i][p] # emitted[i][1] =>
            [part |-> "A", sample |-> emitted[i][p]] \notin arrived

\* Every emitted BatteryStatus is one sample of the battery.
OneSamplePerStatus ==
    \A i \in 1..Len(emitted) :
        emitted[i][1] = emitted[i][2] /\ emitted[i][2] = emitted[i][3]
=============================================================================
