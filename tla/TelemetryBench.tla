--------------------------- MODULE TelemetryBench ---------------------------
(***************************************************************************)
(* simulink/generate_extra_modes.py and the verifiers: modes are run one   *)
(* after the other, each with fresh nodes, a row is written for every      *)
(* frame the vehicle handled, and the rows of all modes are verified by    *)
(* FrameVerifier.  The verifier reads a file that is complete, so it is a  *)
(* function of `rows` here and not a process.                              *)
(***************************************************************************)
EXTENDS VehicleTelemetry, FrameVerifier

CONSTANT
    MaxMode,      \* bound: the number of modes
    MaxRows       \* bound: a script makes no further step after so many rows

ASSUME BenchAssumption == {MaxMode, MaxRows} \subseteq Nat \ {0}

VARIABLES
    mode,         \* the mode that is running
    rows          \* the rows of frames_extra.csv

benchVars == <<vars, mode, rows>>

BenchInit ==
    /\ Init
    /\ mode = 1
    /\ rows = << >>

\* _status_to_row() of a status, and the row of zeros that the modes on damaged
\* frames and on sessions write.  `judged` and `verdict` are what the vehicle
\* made of the frame (history): the counter it judged, NoCounter if the frame
\* was no well-formed status, NotJudged if the script did not pass it on or has
\* set last_counter back since, and its verdict.  A value out of range may be the
\* voltage, the only one a row has.
NoCounter == -1
NotJudged == -2

StatusRow(f, over) ==
    [mode |-> mode, counter |-> f.counter, over |-> over,
     judged |-> f.counter, verdict |-> Verdict(f)]

ZeroRow(f) ==
    [mode |-> mode, counter |-> 0, over |-> FALSE,
     judged |-> IF f.kind = "status" THEN f.counter ELSE NoCounter,
     verdict |-> IF f.kind = "status" THEN Verdict(f) ELSE "IGNORED"]

\* A script writes the row of a frame after the vehicle handled it, from the
\* status if it is one; what FuzzingAttack made gets a row of zeros.
WriteRow(f) ==
    \/ /\ f.kind = "status"
       /\ \E over \in {FALSE, f.level = "out"} : rows' = Append(rows, StatusRow(f, over))
    \/ f \notin sent /\ rows' = Append(rows, ZeroRow(f))

BenchReceive ==
    /\ Receive
    /\ IF stopped' THEN UNCHANGED rows ELSE WriteRow(Head(bus))
    /\ UNCHANGED mode

BenchStep ==
    /\ Len(rows) < MaxRows
    /\ Step
    /\ UNCHANGED <<mode, rows>>

BenchReset ==
    /\ ResetReplay
    /\ rows' = [i \in DOMAIN rows |->
                  IF rows[i].mode = mode THEN [rows[i] EXCEPT !.judged = NotJudged]
                                         ELSE rows[i]]
    /\ UNCHANGED mode

\* The mode on altered telemetry writes the row of an altered status, with a
\* voltage below the threshold, without giving it to the vehicle.
AlteredRow(f) ==
    [mode |-> mode, counter |-> f.counter, over |-> FALSE,
     judged |-> NotJudged, verdict |-> "IGNORED"]

RecordAltered ==
    /\ Ready
    /\ Len(rows) < MaxRows
    /\ \E f \in sent : rows' = Append(rows, AlteredRow(f))
    /\ UNCHANGED <<vars, mode>>

\* The next mode builds its own BatteryNode, VehicleNode, CANBus and faults.
NextMode ==
    /\ Ready
    /\ mode < MaxMode
    /\ mode' = mode + 1
    /\ counter' = 0 /\ sent' = {} /\ held' = << >>
    /\ last_counter' = 0 /\ session' = None
    /\ log' = << >>
    /\ UNCHANGED <<bus, stopped, restarts, faults, rows>>

BenchNext == BenchStep \/ BenchReset \/ BenchReceive \/ RecordAltered \/ NextMode

BenchSpec == BenchInit /\ [][BenchNext]_benchVars

-----------------------------------------------------------------------------
\* Properties

\* What the verifier reports of a row, against a definition without state: a
\* replay is a counter not above one that an earlier row of the same mode has,
\* where counters of 0 do not count; the rows of another mode, read from the
\* same file, make no difference.
RowReplayExact ==
    LET verified == VerifyAll(rows)
    IN  \A i \in 1..Len(rows) :
            verified[i].py_replay <=>
                \E j \in 1..(i - 1) :
                    /\ rows[j].mode = rows[i].mode
                    /\ rows[j].counter >= rows[i].counter
                    /\ rows[j].counter > 0

\* The verifier comes to the vehicle's result: while the rows of a mode carry
\* the counters the vehicle judged, a status with a counter from 1 is a replay
\* to both or to neither, and one that the vehicle found valid is no injection
\* to the verifier.  Rows of zeros in between do not disturb that.
VerifierAgrees ==
    LET verified == VerifyAll(rows)
    IN  \A i \in 1..Len(rows) :
            LET earlier == {j \in 1..i : rows[j].mode = rows[i].mode}
            IN  /\ rows[i].counter > 0
                /\ \A j \in earlier : rows[j].judged \in {rows[j].counter, NoCounter}
                => /\ verified[i].py_replay <=> rows[i].verdict = "REPLAY"
                   /\ rows[i].verdict = "VALID" => ~ verified[i].py_injection
=============================================================================
