------------------------------ MODULE Firmware ------------------------------
(***************************************************************************)
(* The two ESP32 sketches hardware/battery.ino and hardware/vehicle.ino on *)
(* one CAN bus: handshake and telemetry, with lost and repeated frames,    *)
(* full receive buffers and reboots of either board.                       *)
(*                                                                         *)
(* The battery's loop() goes through four stages (advertise, receive,      *)
(* sign, stream); each is an action, and the vehicle may run between any   *)
(* two. The vehicle's loop() handles one frame, so one action per kind of  *)
(* frame. Where one handler sends two frames it is two actions, as frames  *)
(* of another node may come between them.                                  *)
(*                                                                         *)
(* A fragmented payload (certificate, nonce, signature) is one frame here, *)
(* that arrives or does not: the handlers change nothing but their         *)
(* reassembly buffer before its last fragment. It may always fail to       *)
(* arrive, as its 22, 5 or 10 frames are sent back to back to a controller *)
(* that holds two. What the reassembly buffer may then hold is the subject *)
(* of the module Reassembly.                                               *)
(*                                                                         *)
(* ECDSA is outside src/, and the keys and digests the sketches pass to it *)
(* are placeholders: that a check fails counts as a fault here.            *)
(***************************************************************************)
EXTENDS Naturals, Sequences

CONSTANTS
    MaxRequests,    \* bound: AUTH_REQUESTs sent by a third node of the bus
    MaxFaults,      \* bound: frames lost or repeated, failed checks, reboots
    MaxCounter,     \* bound: telemetry samples the battery sends per boot
    Depth           \* frames a receive buffer holds

ASSUME BoundsAssumption ==
    MaxRequests \in Nat /\ MaxFaults \in Nat /\ MaxCounter \in Nat /\ Depth \in Nat

VARIABLES
    \* battery.ino
    bState,         \* state
    stage,          \* the stage of loop() executed next
    has_challenge,
    counter,        \* the next telemetry counter
    \* vehicle.ino
    vState,         \* state
    vStage,         \* whether a verified signature's session is still to be sent
    last_counter,
    pending,        \* pending_counter, with the sample it came from
    have_frame_a,
    \* the bus: frames waiting in the receive buffers
    toBattery, toVehicle,
    \* the environment
    requests, faults,
    \* history
    boot,           \* boots of the battery
    done,           \* how often each step of the handshake was made
    accepted,       \* the samples reported VALID, in order
    lost,           \* the samples whose frame A did not arrive
    course          \* what became of the last request after the faults: "asked",
                    \* a session "opened", telemetry "heard"; or a frame "missed"

batteryVars == <<bState, stage, has_challenge, counter, boot>>
vehicleVars == <<vState, vStage, last_counter, pending, have_frame_a, accepted>>
vars == <<batteryVars, vehicleVars, toBattery, toVehicle, requests, faults, done, lost,
          course>>

States == {"DISCONNECTED", "HELLO_RECEIVED", "CERT_VERIFIED",
           "CHALLENGE_SENT", "AUTHENTICATED", "ACTIVE_SESSION"}
Stages == {"advertise", "receive", "sign", "stream", "stream_b"}

\* A telemetry sample: boot of the battery and value of its counter.  Boot 0
\* marks what pending_counter holds before any STATUS_A was handled.
Samples == (0..(MaxFaults + 1)) \X (0..MaxCounter)
NoSample == <<0, 0>>

\* The order in which the battery took two samples.
Earlier(s, t) == s[1] < t[1] \/ (s[1] = t[1] /\ s[2] < t[2])

Frame(id) == [id |-> id, ok |-> TRUE, sample |-> NoSample]
Result(ok) == [id |-> "AUTH_RESULT", ok |-> ok, sample |-> NoSample]
Status(id, s) == [id |-> id, ok |-> TRUE, sample |-> s]

Steps == {"certificates", "challenges", "signatures", "sessions", "repeats",
          "activations"}
Count(step) == done' = [done EXCEPT ![step] = @ + 1]

\* Whether more may go wrong, and that something does.
Faulty == faults < MaxFaults
Spent(fault) == faults' = IF fault THEN faults + 1 ELSE faults

\* The payloads sent as more frames than a controller holds.
Payloads == {"CERTIFICATE", "NONCE", "SIGNATURE"}

\* How many copies of a frame may arrive without a fault.  The sender never
\* waits for the receiver: what finds its buffer full is lost.
Plain(buf, frame) ==
    IF Len(buf) >= Depth THEN {0}
    ELSE IF frame.id \in Payloads THEN 0..1 ELSE {1}

\* With a fault a frame is lost, or repeated by its sender's controller.
Copies(buf, frame) ==
    { n \in 0..2 : \/ n \in Plain(buf, frame)
                  \/ /\ Faulty /\ frame.id \notin Payloads
                     /\ Len(buf) + n <= Depth }

\* Mutant of Arrive: the newest frame is read first.
Arrive_NewestFirst(buf, frame, n) == [i \in 1..n |-> frame] \o buf

\* The receive buffer after n copies of a frame arrived.
Arrive(buf, frame, n) == buf \o [i \in 1..n |-> frame]

\* A frame that does not arrive ends the course of a handshake.
Noted(arrived) ==
    course' = IF course \in {"asked", "opened"} /\ ~arrived THEN "missed" ELSE course

ToVehicle(frame) ==
    \E n \in Copies(toVehicle, frame) :
        /\ toVehicle' = Arrive(toVehicle, frame, n)
        /\ Spent(n \notin Plain(toVehicle, frame))
        /\ Noted(n > 0)

\* `fault`: what the frame tells is a fault already.
ToBattery(frame, fault) ==
    \E n \in Copies(toBattery, frame) :
        /\ toBattery' = Arrive(toBattery, frame, n)
        /\ Spent(fault \/ n \notin Plain(toBattery, frame))
        /\ Noted(n > 0)

Init ==
    /\ bState = "DISCONNECTED" /\ stage = "advertise"
    /\ has_challenge = FALSE /\ counter = 0
    /\ vState = "DISCONNECTED" /\ vStage = "receive" /\ last_counter = 0
    /\ pending = NoSample /\ have_frame_a = FALSE
    /\ toBattery = << >> /\ toVehicle = << >>
    /\ requests = 0 /\ faults = 0 /\ boot = 1
    /\ done = [s \in Steps |-> 0]
    /\ accepted = << >> /\ lost = {} /\ course = "none"

-----------------------------------------------------------------------------
\* battery.ino, loop()

\* 1) Advertise identity while DISCONNECTED.
Advertise ==
    /\ stage = "advertise"
    /\ IF bState = "DISCONNECTED" THEN ToVehicle(Frame("AUTH_REQUEST"))
                                  ELSE UNCHANGED <<toVehicle, faults, course>>
    /\ stage' = "receive"
    /\ UNCHANGED <<bState, has_challenge, counter, boot, vehicleVars, toBattery,
                   requests, done, lost>>

\* 2) Receive one frame, if there is one.
BatteryReads(id) ==
    /\ stage = "receive"
    /\ toBattery # << >>
    /\ Head(toBattery).id = id
    /\ toBattery' = Tail(toBattery)
    /\ stage' = "sign"
    /\ UNCHANGED <<counter, boot, vehicleVars, requests, lost>>

NoFrameForBattery ==
    /\ stage = "receive"
    /\ toBattery = << >>
    /\ stage' = "sign"
    /\ UNCHANGED <<bState, has_challenge, counter, boot, vehicleVars, toBattery,
                   toVehicle, requests, faults, done, lost, course>>

\* In any state: the certificate is sent again.
BatteryAuthRequest ==
    /\ BatteryReads("AUTH_REQUEST")
    /\ bState' = "HELLO_RECEIVED"
    /\ ToVehicle(Frame("CERTIFICATE"))
    /\ Count("certificates")
    /\ UNCHANGED has_challenge

BatteryNonce ==
    /\ BatteryReads("NONCE")
    /\ bState' = "CHALLENGE_SENT"
    /\ has_challenge' = TRUE
    /\ UNCHANGED <<toVehicle, faults, done, course>>

BatteryAuthResult ==
    /\ BatteryReads("AUTH_RESULT")
    /\ bState' = IF Head(toBattery).ok THEN "AUTHENTICATED" ELSE "DISCONNECTED"
    /\ UNCHANGED <<toVehicle, has_challenge, faults, done, course>>

BatterySession ==
    /\ BatteryReads("SESSION_ID")
    /\ bState' = "ACTIVE_SESSION"
    /\ Count("activations")
    /\ UNCHANGED <<toVehicle, has_challenge, faults, course>>

\* Mutant of SignChallenge: has_challenge stays set.
SignChallenge_Again ==
    /\ stage = "sign"
    /\ has_challenge /\ bState = "CHALLENGE_SENT"
    /\ ToVehicle(Frame("SIGNATURE"))
    /\ Count("signatures")
    /\ stage' = "stream"
    /\ UNCHANGED <<bState, has_challenge, counter, boot, vehicleVars, toBattery,
                   requests, lost>>

\* 3) Sign the challenge once received.  The chip may fail, and then is asked
\* again by the next loop(); whether the signature got out is not looked at.
SignChallenge ==
    /\ stage = "sign"
    /\ has_challenge /\ bState = "CHALLENGE_SENT"
    /\ ToVehicle(Frame("SIGNATURE"))
    /\ has_challenge' = FALSE
    /\ Count("signatures")
    /\ stage' = "stream"
    /\ UNCHANGED <<bState, counter, boot, vehicleVars, toBattery, requests, lost>>

NothingSigned ==
    /\ stage = "sign"
    /\ \/ ~(has_challenge /\ bState = "CHALLENGE_SENT") /\ Spent(FALSE)
       \/ (has_challenge /\ bState = "CHALLENGE_SENT") /\ Faulty /\ Spent(TRUE)
    /\ stage' = "stream"
    /\ UNCHANGED <<bState, has_challenge, counter, boot, vehicleVars, toBattery,
                   toVehicle, requests, done, lost, course>>

\* Mutant of SendStatusA: the counter is advanced twice.
SendStatusA_CountsTwice ==
    /\ stage = "stream"
    /\ bState = "ACTIVE_SESSION" /\ counter < MaxCounter
    /\ counter' = counter + 2
    /\ ToVehicle(Status("STATUS_A", <<boot, counter>>))
    /\ lost' = IF toVehicle' = toVehicle THEN lost \cup {<<boot, counter>>} ELSE lost
    /\ stage' = "stream_b"
    /\ UNCHANGED <<bState, has_challenge, boot, vehicleVars, toBattery, requests, done>>

\* 4) Stream telemetry in an active session: the counter is used up, then
\* frame A is sent.  A frame the controller refuses ends send_status().
SendStatusA ==
    /\ stage = "stream"
    /\ bState = "ACTIVE_SESSION" /\ counter < MaxCounter
    /\ counter' = counter + 1
    /\ \/ /\ ToVehicle(Status("STATUS_A", <<boot, counter>>))
          /\ stage' = "stream_b"
       \/ Faulty /\ Spent(TRUE) /\ UNCHANGED <<toVehicle, course>> /\ stage' = "advertise"
    /\ lost' = IF toVehicle' = toVehicle THEN lost \cup {<<boot, counter>>} ELSE lost
    /\ UNCHANGED <<bState, has_challenge, boot, vehicleVars, toBattery, requests, done>>

\* Frame B of the same sample.
SendStatusB ==
    /\ stage = "stream_b"
    /\ ToVehicle(Status("STATUS_B", <<boot, counter - 1>>))
    /\ stage' = "advertise"
    /\ UNCHANGED <<bState, has_challenge, counter, boot, vehicleVars, toBattery,
                   requests, done, lost>>

NoStatus ==
    /\ stage = "stream"
    /\ bState # "ACTIVE_SESSION" \/ counter = MaxCounter
    /\ stage' = "advertise"
    /\ UNCHANGED <<bState, has_challenge, counter, boot, vehicleVars, toBattery,
                   toVehicle, requests, faults, done, lost, course>>

-----------------------------------------------------------------------------
\* vehicle.ino, loop(): one received frame

VehicleReads(id) ==
    /\ vStage = "receive"
    /\ toVehicle # << >>
    /\ Head(toVehicle).id = id
    /\ toVehicle' = Tail(toVehicle)
    /\ UNCHANGED <<batteryVars, requests, lost>>

\* Mutant of VehicleStatusA: a pending frame A is not replaced.
VehicleStatusA_KeepsPending ==
    /\ vState = "ACTIVE_SESSION"
    /\ VehicleReads("STATUS_A")
    /\ pending' = IF have_frame_a THEN pending ELSE Head(toVehicle).sample
    /\ have_frame_a' = TRUE
    /\ UNCHANGED <<vState, vStage, last_counter, accepted, toBattery, faults,
                   done, course>>

\* handle_status_a()
VehicleStatusA ==
    /\ vState = "ACTIVE_SESSION"
    /\ VehicleReads("STATUS_A")
    /\ pending' = Head(toVehicle).sample
    /\ have_frame_a' = TRUE
    /\ UNCHANGED <<vState, vStage, last_counter, accepted, toBattery, faults,
                   done, course>>

\* Mutant of VehicleStatusB: have_frame_a stays set.
VehicleStatusB_KeepsFrameA ==
    /\ vState = "ACTIVE_SESSION"
    /\ have_frame_a
    /\ VehicleReads("STATUS_B")
    /\ \/ /\ pending[2] <= last_counter
          /\ UNCHANGED <<last_counter, accepted, faults, course>>
       \/ /\ pending[2] > last_counter
          /\ last_counter' = pending[2]
          /\ accepted' = Append(accepted, [session |-> done["sessions"],
                                  a |-> pending, b |-> Head(toVehicle).sample])
          /\ course' = IF course = "opened" THEN "heard" ELSE course
          /\ UNCHANGED faults
    /\ UNCHANGED <<vState, vStage, pending, have_frame_a, toBattery, done>>

\* handle_status_b(): the injection check comes first, and a sample it
\* refuses does not count for the replay check.  (battery.ino streams constants
\* that pass it; with faults a frame B may hold anything.)
VehicleStatusB ==
    /\ vState = "ACTIVE_SESSION"
    /\ have_frame_a
    /\ VehicleReads("STATUS_B")
    /\ have_frame_a' = FALSE
    /\ \/ Faulty /\ Spent(TRUE) /\ UNCHANGED <<last_counter, accepted, course>>
       \/ /\ pending[2] <= last_counter
          /\ UNCHANGED <<last_counter, accepted, faults, course>>
       \/ /\ pending[2] > last_counter
          /\ last_counter' = pending[2]
          /\ accepted' = Append(accepted, [session |-> done["sessions"],
                                  a |-> pending, b |-> Head(toVehicle).sample])
          /\ course' = IF course = "opened" THEN "heard" ELSE course
          /\ UNCHANGED faults
    /\ UNCHANGED <<vState, vStage, pending, toBattery, done>>

\* Telemetry outside a session, or a frame B without its frame A.
VehicleIgnoresStatus ==
    /\ \/ vState # "ACTIVE_SESSION" /\ VehicleReads("STATUS_A")
       \/ (vState # "ACTIVE_SESSION" \/ ~have_frame_a) /\ VehicleReads("STATUS_B")
    /\ UNCHANGED <<vehicleVars, toBattery, faults, done, course>>

\* In any state.
VehicleAuthRequest ==
    /\ VehicleReads("AUTH_REQUEST")
    /\ vState' = "HELLO_RECEIVED"
    /\ UNCHANGED <<vStage, last_counter, pending, have_frame_a, accepted,
                   toBattery, faults, done, course>>

\* In any state: a verified certificate is answered with a fresh nonce.
VehicleCertificate ==
    /\ VehicleReads("CERTIFICATE")
    /\ \/ /\ vState' = "CHALLENGE_SENT"
          /\ ToBattery(Frame("NONCE"), FALSE)
          /\ Count("challenges")
       \/ /\ Faulty /\ Spent(TRUE)
          /\ vState' = "DISCONNECTED"
          /\ UNCHANGED <<toBattery, done, course>>
    /\ UNCHANGED <<vStage, last_counter, pending, have_frame_a, accepted>>

\* In any state: the result of the verification is sent.
VehicleSignature ==
    /\ VehicleReads("SIGNATURE")
    /\ \E verdict \in IF Faulty THEN BOOLEAN ELSE {TRUE} :
         /\ vState' = IF verdict THEN "AUTHENTICATED" ELSE "DISCONNECTED"
         /\ vStage' = IF verdict THEN "session" ELSE "receive"
         /\ ToBattery(Result(verdict), ~verdict)
    /\ UNCHANGED <<last_counter, pending, have_frame_a, accepted, done>>

OpenSession ==
    /\ vStage = "session"
    /\ vStage' = "receive"
    /\ \E n \in Copies(toBattery, Frame("SESSION_ID")) :
         /\ toBattery' = Arrive(toBattery, Frame("SESSION_ID"), n)
         /\ Spent(n \notin Plain(toBattery, Frame("SESSION_ID")))
         /\ course' = IF course \notin {"asked", "opened"} THEN course
                      ELSE IF n > 0 THEN "opened" ELSE "missed"
         /\ done' = [s \in Steps |->
              IF s = "sessions" \/ (s = "repeats" /\ n = 2) THEN done[s] + 1 ELSE done[s]]
    /\ vState' = "ACTIVE_SESSION"
    /\ UNCHANGED <<batteryVars, requests, pending, have_frame_a, accepted, toVehicle,
                   lost>>

\* Mutant of VehicleSession: the counters of the old session stay refused.
VehicleSession_KeepsCounter == OpenSession /\ UNCHANGED last_counter

\* A verified signature opens a session, and with it a new range of counters;
\* pending_counter and have_frame_a are left as they are.
VehicleSession == OpenSession /\ last_counter' = 0

-----------------------------------------------------------------------------
\* The environment

\* A third node of the bus sends an AUTH_REQUEST, which both boards receive.
\* Neither sketch sends one to the battery.
ExternalRequest ==
    /\ requests < MaxRequests
    /\ requests' = requests + 1
    /\ \E m \in Copies(toBattery, Frame("AUTH_REQUEST")),
         n \in Copies(toVehicle, Frame("AUTH_REQUEST")) :
         /\ toBattery' = Arrive(toBattery, Frame("AUTH_REQUEST"), m)
         /\ toVehicle' = Arrive(toVehicle, Frame("AUTH_REQUEST"), n)
         /\ Spent(\/ m \notin Plain(toBattery, Frame("AUTH_REQUEST"))
                  \/ n \notin Plain(toVehicle, Frame("AUTH_REQUEST")))
         /\ course' = IF ~Faulty /\ m > 0 /\ n > 0 THEN "asked"
                      ELSE IF course \in {"asked", "opened"} THEN "missed"
                      ELSE course
    /\ UNCHANGED <<batteryVars, vehicleVars, done, lost>>

\* From some time on there are no more faults.
FaultsEnd ==
    /\ Faulty
    /\ faults' = MaxFaults
    /\ UNCHANGED <<batteryVars, vehicleVars, toBattery, toVehicle, requests, done, lost,
                   course>>

Reboot ==
    /\ Faulty /\ Spent(TRUE)
    /\ UNCHANGED <<requests, done, lost, course>>

\* setup() and the initial values of the statics; can.begin() clears the
\* receive buffers of the controller.
BatteryReboot ==
    /\ Reboot
    /\ bState' = "DISCONNECTED" /\ stage' = "advertise"
    /\ has_challenge' = FALSE /\ counter' = 0
    /\ boot' = boot + 1
    /\ toBattery' = << >>
    /\ UNCHANGED <<vehicleVars, toVehicle>>

VehicleReboot ==
    /\ Reboot
    /\ vState' = "DISCONNECTED" /\ vStage' = "receive" /\ last_counter' = 0
    /\ pending' = NoSample /\ have_frame_a' = FALSE
    /\ toVehicle' = << >>
    /\ UNCHANGED <<batteryVars, accepted, toBattery>>

-----------------------------------------------------------------------------

BatteryLoop ==
    \/ Advertise
    \/ NoFrameForBattery \/ BatteryAuthRequest \/ BatteryNonce
    \/ BatteryAuthResult \/ BatterySession
    \/ SignChallenge \/ NothingSigned
    \/ SendStatusA \/ SendStatusB \/ NoStatus

VehicleLoop ==
    \/ VehicleStatusA \/ VehicleStatusB \/ VehicleIgnoresStatus
    \/ VehicleAuthRequest \/ VehicleCertificate
    \/ VehicleSignature \/ VehicleSession

Next ==
    \/ BatteryLoop
    \/ VehicleLoop
    \/ ExternalRequest
    \/ FaultsEnd
    \/ BatteryReboot
    \/ VehicleReboot

Spec == Init /\ [][Next]_vars

\* Each board keeps running its loop(); a third node may or may not exist.
FairSpec == Spec /\ WF_vars(BatteryLoop) /\ WF_vars(VehicleLoop)

-----------------------------------------------------------------------------
\* Properties

Frames == [id : {"AUTH_REQUEST", "CERTIFICATE", "NONCE", "SIGNATURE", "AUTH_RESULT",
                 "SESSION_ID", "STATUS_A", "STATUS_B"},
           ok : BOOLEAN, sample : Samples]

TypeOK ==
    /\ bState \in States /\ vState \in States /\ stage \in Stages
    /\ vStage \in {"receive", "session"}
    /\ has_challenge \in BOOLEAN /\ have_frame_a \in BOOLEAN
    /\ counter \in 0..MaxCounter /\ last_counter \in 0..MaxCounter
    /\ pending \in Samples
    /\ toBattery \in Seq(Frames) /\ toVehicle \in Seq(Frames)
    /\ requests \in 0..MaxRequests /\ faults \in 0..MaxFaults
    /\ boot \in 1..(MaxFaults + 1)
    /\ done \in [Steps -> Nat]
    /\ accepted \in Seq([session : Nat, a : Samples, b : Samples])
    /\ lost \subseteq Samples
    /\ course \in {"none", "asked", "opened", "heard", "missed"}

\* The vehicle reports samples VALID in the order the battery took them, each
\* at most once: over the whole life of both boards, although every session
\* sets last_counter back to 0, every reboot the battery's counter, and a
\* frame A left over from one session may be completed in the next.
AcceptedInOrder ==
    \A i, j \in 1..Len(accepted) :
        i < j => Earlier(accepted[i].a, accepted[j].a)

\* The voltage and current of a VALID report are never older than the counter
\* they are reported under.
NeverStaleValues ==
    \A i \in 1..Len(accepted) : ~Earlier(accepted[i].b, accepted[i].a)

\* No step of the handshake is used twice: the battery is activated at most
\* once per session the vehicle opened, and once more for each SESSION_ID that
\* the bus repeated (battery.ino looks at no id), a session is opened at most once per
\* signature, a signature is made at most once per challenge, a challenge is
\* sent at most once per certificate.
EachStepUsedOnce ==
    /\ done["activations"] <= done["sessions"] + done["repeats"]
    /\ done["sessions"] <= done["signatures"]
    /\ done["signatures"] <= done["challenges"]
    /\ done["challenges"] <= done["certificates"]

\* The boards recover from any state that losses, repetitions, failing chips,
\* reboots and earlier handshakes left them in: a request made after the
\* faults leads to a session and to telemetry reported VALID in it, unless a
\* frame is dropped on the way, also when another request comes at any point.
\* (Or the bounded samples are used up before the vehicle opened the session.)
RecoversWhenAsked ==
    (course = "asked") ~> \/ course \in {"heard", "missed"}
                          \/ counter = MaxCounter /\ vState # "ACTIVE_SESSION"

\* The battery, advertising its identity, is eventually asked to authenticate.
BatteryIsAsked == (bState = "DISCONNECTED") ~> (bState = "HELLO_RECEIVED")

\* A VALID report mixes two samples (the counter of one, the voltage of another)
\* only if the frame A of the second did not arrive: nothing else makes one, no
\* lost frame B, repetition, reboot, or handshake between the two frames.
MixedOnlyIfFrameALost ==
    \A i \in 1..Len(accepted) :
        accepted[i].a # accepted[i].b => accepted[i].b \in lost

\* Only a sample that was accepted before, or is older than one that was, is
\* reported as a replay.
NoFalseReplay ==
    [][VehicleStatusB /\ pending[2] <= last_counter =>
        \E i \in 1..Len(accepted) :
            accepted[i].a = pending \/ Earlier(pending, accepted[i].a)]_vars
=============================================================================
