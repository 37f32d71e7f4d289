---------------------------- MODULE MCAteccLink ----------------------------
(***************************************************************************)
(* Model checking AteccLink: four queries leave room for a connect, a      *)
(* timeout and the calls that read the late answers.                       *)
(***************************************************************************)
EXTENDS AteccLink
=============================================================================
