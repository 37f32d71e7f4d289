---------------------------- MODULE StateMachine ----------------------------
(***************************************************************************)
(* The connection state machine of protocol/state_machine.py               *)
(* (BattLockStateMachine).  It is the abstract specification of one        *)
(* connection attempt: every component that drives a connection has to     *)
(* move through these states in this order.  Each operation of the class   *)
(* either moves from its one legal predecessor and returns True, or        *)
(* changes nothing and returns False.                                      *)
(***************************************************************************)

VARIABLE state

\* The members of the enum ConnectionState, in their order.
ConnectionState ==
    {"DISCONNECTED", "HELLO_RECEIVED", "CERT_VERIFIED",
     "CHALLENGE_SENT", "AUTHENTICATED", "ACTIVE_SESSION"}

Init == state = "DISCONNECTED"

HelloReceived       == state = "DISCONNECTED"   /\ state' = "HELLO_RECEIVED"
CertificateVerified == state = "HELLO_RECEIVED" /\ state' = "CERT_VERIFIED"
ChallengeSent       == state = "CERT_VERIFIED"  /\ state' = "CHALLENGE_SENT"
Authenticated       == state = "CHALLENGE_SENT" /\ state' = "AUTHENTICATED"
SessionEstablished  == state = "AUTHENTICATED"  /\ state' = "ACTIVE_SESSION"
Reset               == state' = "DISCONNECTED"

\* The calls that advance a connection.
Advance ==
    \/ HelloReceived
    \/ CertificateVerified
    \/ ChallengeSent
    \/ Authenticated
    \/ SessionEstablished

Next == Advance \/ Reset

\* What the class allows: advance one state at a time, or start over.
Spec == Init /\ [][Next]_state

\* What a driver that never calls reset() does: one connection, advanced one
\* state at a time and never taken back.
OneConnection == Init /\ [][Advance]_state

telemetry_allowed == state = "ACTIVE_SESSION"
=============================================================================
