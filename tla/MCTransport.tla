---------------------------- MODULE MCTransport ----------------------------
(***************************************************************************)
(* Model checking Transport with frames of 1 and 2 payload bytes and       *)
(* sequence numbers up to 3.  A payload has at most 7 bytes in 4 frames;   *)
(* one of 8 bytes is refused.  Two payloads are enough for a mixed list.   *)
(***************************************************************************)
EXTENDS Transport, TLC

Symmetry == Permutations(Ids)
=============================================================================
