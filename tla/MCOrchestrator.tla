--------------------------- MODULE MCOrchestrator ---------------------------
(***************************************************************************)
(* Model checking Orchestrator: the bound on the frames in the bus follows *)
(* from the five sends of a run, so no constraint is needed.               *)
(***************************************************************************)
EXTENDS Orchestrator

AllFates == {"delivered", "lost", "duplicated"}
EitherAnswer == BOOLEAN
=============================================================================
