---------------------------- MODULE FrameVerifier ----------------------------
(***************************************************************************)
(* integration/verify_frames.py and simulink/verify_all_modes.py: recorded *)
(* frames of several modes are read back row by row and judged with one    *)
(* ReplayProtection per mode, and summarised per mode.  A row is a record  *)
(* with at least `mode`, `counter` and `over`, whether the voltage is      *)
(* above VOLTAGE_THRESHOLD.  A recording has at least one row: without any *)
(* out_rows[0] raises when the columns are named.                          *)
(***************************************************************************)
EXTENDS Integers, Sequences, ReplayProtection

\* ReplayProtection(), found by setdefault() for the first row of a mode.
NewProtection == 0

\* Mutant of Primed: every row finds a fresh ReplayProtection.
Primed_Fresh(last) == -1

\* A last_counter of 0 is taken for a fresh one and lowered, so that the
\* counter 0 of a recording passes.
Primed(last) == IF last = 0 THEN -1 ELSE last

\* Mutant of KeyOf: all modes share one ReplayProtection.
KeyOf_Shared(row) == 0

\* The entry of mode_results a row is judged with.
KeyOf(row) == row.mode

\* One turn of the loop over the rows: the ReplayProtection of each mode, and
\* py_replay and py_injection of the rows so far.
NothingVerified == [results |-> << >>, out |-> << >>]

Verified(acc, row) ==
    LET key == KeyOf(row)
        last == IF key \in DOMAIN acc.results THEN acc.results[key] ELSE NewProtection
        check == Validated(Primed(last), row.counter)
    IN  [results |-> [k \in DOMAIN acc.results \cup {key} |->
                         IF k = key THEN check.last ELSE acc.results[k]],
         out |-> Append(acc.out, [mode |-> row.mode, py_replay |-> ~ check.ok,
                                  py_injection |-> row.over])]

\* The loop: what it has after each number of rows.
Verifying(rows) ==
    LET upTo[i \in 0..Len(rows)] ==
            IF i = 0 THEN NothingVerified ELSE Verified(upTo[i - 1], rows[i])
    IN  upTo

\* The rows of frames_verified.csv.
VerifyAll(rows) == Verifying(rows)[Len(rows)].out
=============================================================================
