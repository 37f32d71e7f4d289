----------------------------- MODULE MCFirmware -----------------------------
(***************************************************************************)
(* Model checking Firmware.  Two requests allow a second handshake over    *)
(* the first, or one after the faults; three samples a round begun in one  *)
(* session and completed in another.                                       *)
(***************************************************************************)
EXTENDS Firmware
=============================================================================
