-------------------------- MODULE MCStatusCollector --------------------------
(***************************************************************************)
(* Model checking StatusCollector: three samples are enough for a round    *)
(* left open by one sample, completed by a second, and the third after it; *)
(* the fourth one shows that the collector has recovered.                  *)
(***************************************************************************)
EXTENDS StatusCollector
=============================================================================
