-------------------------- MODULE ReplayProtection --------------------------
(***************************************************************************)
(* The counter check of crypto/counters/replay_protection.py, as a         *)
(* function of the last counter: the vehicle node keeps one such object,   *)
(* the verifier of recorded frames one per mode.                           *)
(***************************************************************************)
EXTENDS Integers

\* Mutant of Validated: the counter last accepted is accepted once more.
Validated_Again(last, received) ==
    [ok |-> received >= last, last |-> IF received >= last THEN received ELSE last]

\* validate(): its result, and last_counter after the call.
Validated(last, received) ==
    [ok |-> received > last, last |-> IF received > last THEN received ELSE last]
=============================================================================
