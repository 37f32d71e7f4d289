---------------------------- MODULE Orchestrator ----------------------------
(***************************************************************************)
(* BattLockOrchestrator.run() of integration/orchestrator.py, called any   *)
(* number of times (up to MaxRuns) on one orchestrator object.             *)
(*                                                                         *)
(* One action per phase of run(), cut where the connection state machine   *)
(* moves or where an exception can leave the method.  Every run builds a   *)
(* new CA, battery, certificate, bus and pair of nodes; the state machine  *)
(* and the session manager belong to the object and survive the run.       *)
(*                                                                         *)
(* Data is abstracted to what tells runs and messages apart: a payload is  *)
(* the pair <<message kind, number of the run that made it>>, a key, a     *)
(* certificate and a session id are the number of the run that made them.  *)
(* CANBus.receive() hands over whatever frame is first in the queue, so    *)
(* the model keeps what every reader does with a frame of any kind.        *)
(***************************************************************************)
EXTENDS Naturals, Sequences, FiniteSets

CONSTANTS
    MaxRuns,       \* bound: how many times run() is called on the object
    Fates,         \* what may happen to a frame handed to CANBus.send()
    ExpiryChecks   \* the answers is_certificate_expired() may give

ASSUME RunsAssumption == MaxRuns \in Nat \ {0}
ASSUME FatesAssumption == Fates \subseteq {"delivered", "lost", "duplicated"}
ASSUME ExpiryAssumption == ExpiryChecks \subseteq BOOLEAN

VARIABLES
    pc,        \* the phase run() executes next; "idle" between two calls
    run,       \* number of the current call of run(), 0 before the first
    sm,        \* self.state_machine.state
    sessions,  \* the keys of self.session_manager.sessions
    bus,       \* CANBus.queue of this run
    rx,        \* received_cert_msg, between phase 7 and phase 8
    vehicle,   \* VehicleNode: [cert, challenge]
    battery,   \* BatteryNode: [challenge], and the session id it printed
    outcome    \* how each run ended (history, read by properties only)

vars == <<pc, run, sm, sessions, bus, rx, vehicle, battery, outcome>>

-----------------------------------------------------------------------------

Ids == {"AUTH_REQUEST", "NONCE", "SIGNATURE", "CERTIFICATE", "SESSION_ID"}
Runs == 1..MaxRuns
NoPayload == <<"NONE", 0>>
Payloads == (Ids \cup {"NONE"}) \X (0..MaxRuns)

\* A CANMessage: its arbitration id, the run that made it and, for a
\* signature, the payload that was signed (with the key of that run).
Frames == [id : Ids, run : Runs, over : Payloads]
Frame(id) == [id |-> id, run |-> run, over |-> NoPayload]
NoFrame == [id |-> "NONE", run |-> 0, over |-> NoPayload]
Payload(f) == <<f.id, f.run>>

Outcomes == {"none", "active", "denied", "aborted", "raised"}
Phases == {"idle", "auth_request", "certificate", "hello", "verify_cert",
           "challenge", "sign", "verify_sig", "session", "report_active",
           "report_denied"}

\* What CANBus.send() adds to the queue.
Copies(f, fate) ==
    CASE fate = "delivered"  -> <<f>>
      [] fate = "lost"       -> << >>
      [] fate = "duplicated" -> <<f, f>>

\* run() is left: by a return, or by an exception that reaches the caller.
Leave(how) ==
    /\ pc' = "idle"
    /\ outcome' = [outcome EXCEPT ![run] = how]

\* Mutants of Transition: the result of a transition is not looked at; the
\* predecessor is not checked.
Transition_Unchecked(from, to, next) ==
    /\ IF sm = from THEN sm' = to ELSE UNCHANGED sm
    /\ pc' = next /\ UNCHANGED outcome

Transition_Forced(from, to, next) == sm' = to /\ pc' = next /\ UNCHANGED outcome

\* _transition(): a refused transition aborts the run.
Transition(from, to, next) ==
    IF sm = from
    THEN sm' = to /\ pc' = next /\ UNCHANGED outcome
    ELSE UNCHANGED sm /\ Leave("aborted")

-----------------------------------------------------------------------------

Init ==
    /\ pc = "idle"
    /\ run = 0
    /\ sm = "DISCONNECTED"
    /\ sessions = {}
    /\ bus = << >>
    /\ rx = NoFrame
    /\ vehicle = [cert |-> 0, challenge |-> NoPayload]
    /\ battery = [challenge |-> NoPayload, session |-> NoPayload]
    /\ outcome = [r \in Runs |-> "none"]

\* Mutants of Startup: the bus is kept for the next run; the state machine is
\* reset by every run.
Startup_KeepsBus ==
    /\ pc = "idle" /\ run < MaxRuns /\ run' = run + 1
    /\ rx' = NoFrame
    /\ vehicle' = [cert |-> 0, challenge |-> NoPayload]
    /\ battery' = [challenge |-> NoPayload, session |-> NoPayload]
    /\ pc' = "auth_request"
    /\ UNCHANGED <<bus, sm, sessions, outcome>>

Startup_ResetsState ==
    /\ pc = "idle" /\ run < MaxRuns /\ run' = run + 1
    /\ bus' = << >> /\ rx' = NoFrame
    /\ vehicle' = [cert |-> 0, challenge |-> NoPayload]
    /\ battery' = [challenge |-> NoPayload, session |-> NoPayload]
    /\ pc' = "auth_request" /\ sm' = "DISCONNECTED"
    /\ UNCHANGED <<sessions, outcome>>

\* Phases 1-5: new CA, battery, certificate, bus and nodes.
Startup ==
    /\ pc = "idle"
    /\ run < MaxRuns
    /\ run' = run + 1
    /\ bus' = << >>
    /\ rx' = NoFrame
    /\ vehicle' = [cert |-> 0, challenge |-> NoPayload]
    /\ battery' = [challenge |-> NoPayload, session |-> NoPayload]
    /\ pc' = "auth_request"
    /\ UNCHANGED <<sm, sessions, outcome>>

\* Phase 6: the request is sent, and what bus.receive() returns is ignored,
\* None included.
AuthRequest ==
    /\ pc = "auth_request"
    /\ \E fate \in Fates :
         LET queue == bus \o Copies(Frame("AUTH_REQUEST"), fate)
         IN  bus' = IF queue = << >> THEN << >> ELSE Tail(queue)
    /\ pc' = "certificate"
    /\ UNCHANGED <<run, sm, sessions, rx, vehicle, battery, outcome>>

\* Phase 7: log_can_message(None) raises when nothing is in the queue.
CertificateExchange ==
    /\ pc = "certificate"
    /\ \E fate \in Fates :
         LET queue == bus \o Copies(Frame("CERTIFICATE"), fate)
         IN  IF queue = << >>
             THEN bus' = bus /\ rx' = rx /\ Leave("raised")
             ELSE /\ bus' = Tail(queue)
                  /\ rx' = Head(queue)
                  /\ pc' = "hello"
                  /\ UNCHANGED outcome
    /\ UNCHANGED <<run, sm, sessions, vehicle, battery>>

\* Mutant of Hello: a state that is no member of ConnectionState.
Hello_Misnamed ==
    /\ pc = "hello"
    /\ Transition("DISCONNECTED", "HELLO", "verify_cert")
    /\ UNCHANGED <<run, sessions, bus, rx, vehicle, battery>>

\* Phase 8, first half: an object that is not DISCONNECTED refuses the run.
Hello ==
    /\ pc = "hello"
    /\ Transition("DISCONNECTED", "HELLO_RECEIVED", "verify_cert")
    /\ UNCHANGED <<run, sessions, bus, rx, vehicle, battery>>

\* Phase 8, second half: decode_certificate() of any frame but a certificate
\* raises; the certificate is stored before it is verified.
UndecodableCertificate ==
    /\ pc = "verify_cert"
    /\ rx.id # "CERTIFICATE"
    /\ Leave("raised")
    /\ UNCHANGED <<run, sm, sessions, bus, rx, vehicle, battery>>

\* verify_certificate(): not expired, and signed by the CA of this run.
CertificateValid(f, expired) == ~expired /\ f.run = run

\* The decoded certificate is stored, verified, and the state moves.
CertificateVerification ==
    /\ pc = "verify_cert"
    /\ rx.id = "CERTIFICATE"
    /\ vehicle' = [vehicle EXCEPT !.cert = rx.run]
    /\ \E expired \in ExpiryChecks :
         IF CertificateValid(rx, expired)
         THEN Transition("HELLO_RECEIVED", "CERT_VERIFIED", "challenge")
         ELSE UNCHANGED sm /\ Leave("aborted")
    /\ UNCHANGED <<run, sessions, bus, rx, battery>>

\* send_nonce() stores the challenge it encodes.
SendNonce == [vehicle EXCEPT !.challenge = Payload(Frame("NONCE"))]

\* Phase 9: the challenge is stored and sent, then the state moves.
Challenge ==
    /\ pc = "challenge"
    /\ vehicle' = SendNonce
    /\ \E fate \in Fates : bus' = bus \o Copies(Frame("NONCE"), fate)
    /\ Transition("CERT_VERIFIED", "CHALLENGE_SENT", "sign")
    /\ UNCHANGED <<run, sessions, rx, battery>>

\* Mutant of NothingReceived: the queue is polled until a frame is there.
NothingReceived_Polls ==
    pc \in {"sign", "verify_sig", "session"} /\ bus = << >> /\ UNCHANGED vars

\* The first half of phases 10 and 11 and of the session step when the queue
\* is empty: log_can_message(None) raises.
NothingReceived ==
    /\ pc \in {"sign", "verify_sig", "session"}
    /\ bus = << >>
    /\ Leave("raised")
    /\ UNCHANGED <<run, sm, sessions, bus, rx, vehicle, battery>>

\* sign_and_respond(): the stored bytes, signed with the key of this run.
SignAndRespond(data) == [Frame("SIGNATURE") EXCEPT !.over = data]

\* Phase 10: the battery signs the bytes of whatever frame it received.
BatterySigns ==
    /\ pc = "sign"
    /\ bus # << >>
    /\ LET data == Payload(Head(bus))
       IN  /\ battery' = [battery EXCEPT !.challenge = data]
           /\ \E fate \in Fates :
                bus' = Tail(bus) \o Copies(SignAndRespond(data), fate)
    /\ pc' = "verify_sig"
    /\ UNCHANGED <<run, sm, sessions, rx, vehicle, outcome>>

\* Mutant of ValidSignature: a signature of anything by the right key.
ValidSignature_OfAnything(f) == f.id = "SIGNATURE" /\ f.run = vehicle.cert

\* verify_signature() with the key of the stored certificate.
ValidSignature(f) ==
    /\ f.id = "SIGNATURE"
    /\ f.run = vehicle.cert
    /\ f.over = vehicle.challenge

\* Phase 11, verification failed: the run goes on to its report.
AuthenticationDenied ==
    /\ pc = "verify_sig"
    /\ bus # << >>
    /\ ~ValidSignature(Head(bus))
    /\ bus' = Tail(bus)
    /\ pc' = "report_denied"
    /\ UNCHANGED <<run, sm, sessions, rx, vehicle, battery, outcome>>

\* Phase 11, verification passed: the session is registered, then sent.
SessionCreated ==
    /\ pc = "verify_sig"
    /\ bus # << >>
    /\ ValidSignature(Head(bus))
    /\ Transition("CHALLENGE_SENT", "AUTHENTICATED", "session")
    /\ sessions' = IF sm = "CHALLENGE_SENT" THEN sessions \cup {run}
                                            ELSE sessions
    /\ \E fate \in Fates :
         bus' = Tail(bus) \o Copies(Frame("SESSION_ID"), fate)
    /\ UNCHANGED <<run, rx, vehicle, battery>>

\* decode_session_id() decodes UTF-8 text: a request, a certificate or a
\* session id decode, the bytes of a nonce or a signature may or may not.
BinaryIds == {"NONCE", "SIGNATURE"}

UndecodableSession ==
    /\ pc = "session"
    /\ bus # << >>
    /\ Head(bus).id \in BinaryIds
    /\ bus' = Tail(bus)
    /\ Leave("raised")
    /\ UNCHANGED <<run, sm, sessions, rx, vehicle, battery>>

\* Mutant of SessionDelivery: a missing frame is passed over.
SessionDelivery_Optional ==
    /\ pc = "session"
    /\ IF bus = << >>
       THEN UNCHANGED <<battery, bus>>
       ELSE /\ battery' = [battery EXCEPT !.session = Payload(Head(bus))]
            /\ bus' = Tail(bus)
    /\ Transition("AUTHENTICATED", "ACTIVE_SESSION", "report_active")
    /\ UNCHANGED <<run, sessions, rx, vehicle>>

\* The battery prints what it decoded, and the connection becomes active.
SessionDelivery ==
    /\ pc = "session"
    /\ bus # << >>
    /\ battery' = [battery EXCEPT !.session = Payload(Head(bus))]
    /\ bus' = Tail(bus)
    /\ Transition("AUTHENTICATED", "ACTIVE_SESSION", "report_active")
    /\ UNCHANGED <<run, sessions, rx, vehicle>>

\* Phase 12: the report is written and run() returns, unless its files cannot
\* be written.
Report ==
    /\ pc \in {"report_active", "report_denied"}
    /\ \/ Leave(IF pc = "report_active" THEN "active" ELSE "denied")
       \/ Leave("raised")
    /\ UNCHANGED <<run, sm, sessions, bus, rx, vehicle, battery>>

Phase ==
    \/ AuthRequest
    \/ CertificateExchange
    \/ Hello
    \/ UndecodableCertificate
    \/ CertificateVerification
    \/ Challenge
    \/ NothingReceived
    \/ BatterySigns
    \/ AuthenticationDenied
    \/ SessionCreated
    \/ UndecodableSession
    \/ SessionDelivery
    \/ Report

Next == Startup \/ Phase

Spec == Init /\ [][Next]_vars

\* run() is straight-line code on one thread: once called, its next statement
\* is executed.  Nothing obliges the caller to call it again.
FairSpec == Spec /\ WF_vars(Phase)

-----------------------------------------------------------------------------
\* Properties

\* Every variable holds a value the program gives it.
TypeOK ==
    /\ pc \in Phases
    /\ run \in 0..MaxRuns
    /\ sm \in {"DISCONNECTED", "HELLO_RECEIVED", "CERT_VERIFIED",
               "CHALLENGE_SENT", "AUTHENTICATED", "ACTIVE_SESSION"}
    /\ sessions \subseteq Runs
    /\ bus \in Seq(Frames)
    /\ rx \in Frames \cup {NoFrame}
    /\ vehicle \in [cert : 0..MaxRuns, challenge : Payloads]
    /\ battery \in [challenge : Payloads, session : Payloads]
    /\ outcome \in [Runs -> Outcomes]

\* The phase run() has reached and the connection state never drift apart:
\* after hello_received() was accepted no later transition of the run is
\* refused, so the `return` after each of them (lines 348, 390, 460, 508) is
\* never taken and the assertion of line 523 holds.
PhaseMatchesState ==
    /\ pc = "verify_cert"   => sm = "HELLO_RECEIVED"
    /\ pc = "challenge"     => sm = "CERT_VERIFIED"
    /\ pc \in {"sign", "verify_sig", "report_denied"} => sm = "CHALLENGE_SENT"
    /\ pc = "session"       => sm = "AUTHENTICATED"
    /\ pc = "report_active" => sm = "ACTIVE_SESSION"

\* A session is registered exactly when the connection got past its
\* authentication, and however often run() is called again on the object and
\* whatever the bus did, there is never a second one.
OneSessionPerConnection ==
    /\ sessions # {} <=> sm \in {"AUTHENTICATED", "ACTIVE_SESSION"}
    /\ \A r, s \in sessions : r = s

\* A registered session rests on an agreement of the two nodes of its own
\* run: the vehicle verified against the certificate of this run, and the
\* challenge the battery signed is the one the vehicle made in this run.  A
\* duplicated frame, which shifts every later bus.receive() by one, may deny
\* an authentic battery but never produces an agreement that did not happen.
SessionRestsOnAgreement ==
    run \in sessions =>
        /\ vehicle.cert = run
        /\ vehicle.challenge = <<"NONCE", run>>
        /\ battery.challenge = vehicle.challenge

\* No frame, certificate, challenge or session id of an earlier run is ever
\* seen by the nodes of a later one.
NoDataFromEarlierRun ==
    /\ \A i \in 1..Len(bus) : bus[i].run = run
    /\ rx.run \in {0, run}
    /\ vehicle.cert \in {0, run}
    /\ \A p \in {vehicle.challenge, battery.challenge, battery.session} :
         p = NoPayload \/ p[2] = run

\* A run succeeds only while every run before it ended in an exception
\* before the hello, and after a successful, denied or aborted run no later
\* one succeeds: reset() is never called, so only an object that is still
\* DISCONNECTED can be used again.
OnlyFirstHelloCanSucceed ==
    \A r, s \in Runs :
        r < s /\ outcome[s] = "active" => outcome[r] = "raised"

\* A run that reports ACTIVE_SESSION has handed the battery a frame the vehicle
\* or the battery sent after the challenge was signed: its own session id or,
\* when the signature was duplicated and its bytes decode, the signature again;
\* never nothing, and nothing from before the authentication.
ActiveMeansDelivered ==
    run > 0 /\ outcome[run] = "active" =>
        battery.session \in {<<"SESSION_ID", run>>, <<"SIGNATURE", run>>}

\* The orchestrator drives the connection through the states of the class,
\* one operation at a time, and never resets it.
Connection == INSTANCE StateMachine WITH state <- sm
ImplementsConnection == Connection!OneConnection

\* Whatever is lost or duplicated, a call of run() ends: nothing in it waits.
EveryRunEnds == (pc # "idle") ~> (pc = "idle")
=============================================================================
