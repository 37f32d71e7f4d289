---------------------------- MODULE MCReassembly ----------------------------
(***************************************************************************)
(* Model checking Reassembly on the nonce (32 bytes, 5 fragments).  Three  *)
(* payloads allow the rests of two in the buffer when the third arrives.   *)
(***************************************************************************)
EXTENDS Reassembly
=============================================================================
