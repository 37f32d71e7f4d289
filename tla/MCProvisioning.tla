--------------------------- MODULE MCProvisioning ---------------------------
(***************************************************************************)
(* Model checking Provisioning, and AteccLink with it.                     *)
(***************************************************************************)
EXTENDS Provisioning
=============================================================================
