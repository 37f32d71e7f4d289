-------------------------- MODULE VehicleTelemetry --------------------------
(***************************************************************************)
(* The battery node, the vehicle node and the bus of can/simulation/ with  *)
(* whole telemetry frames (BATTERY_STATUS, 19 bytes), as the scripts       *)
(* run_simulation.py and generate_extra_modes.py drive them: every step of *)
(* a script puts frames on the bus, and the vehicle handles them before    *)
(* the next step.  Between the battery and the bus the scripts place the   *)
(* fault objects of attacks/: a frame is delayed, reordered, dropped,      *)
(* repeated, sent with other values, or damaged.                           *)
(*                                                                         *)
(* The measured values are kept as what the checks of the vehicle tell     *)
(* apart: "out" of range, "suspect" (close to a limit, or one of the six   *)
(* fault flags is set) or "normal".                                        *)
(***************************************************************************)
EXTENDS Integers, Sequences, SequencesExt, ReplayProtection

CONSTANTS
    MaxCounter,    \* bound: the samples a battery takes before it is restarted
    MaxSession,    \* bound: the session ids that reach the vehicle
    MaxRestarts,   \* bound: restarts of the battery or of the replay check
    MaxFaults      \* bound: frames repeated, altered, made up or damaged

ASSUME TelemetryAssumption ==
    /\ MaxCounter \in Nat \ {0}
    /\ {MaxSession, MaxRestarts, MaxFaults} \subseteq Nat

VARIABLES
    counter,       \* MessageCounter.counter of the battery
    sent,          \* the frames of the battery: what a fault object captured
    held,          \* DelayAttack.buffer
    bus,           \* CANBus.queue
    last_counter,  \* ReplayProtection.last_counter of the vehicle
    session,       \* _session_id; None while _session_active is False
    stopped,       \* receive() raised, which ends the script
    restarts,      \* how often the battery or the replay check was restarted
    faults,        \* how many faults there were
    log            \* every well-formed status handled since last_counter was
                   \* last set to 0, and its verdict (history)

battery == <<counter, sent>>
vehicle == <<last_counter, session, stopped, log>>
budget == <<restarts, faults>>
vars == <<battery, held, bus, vehicle, budget>>

Levels == {"normal", "suspect", "out"}
Status(n, level) == [kind |-> "status", counter |-> n, level |-> level]
Counters == 0..(MaxCounter + 1)
Statuses == {Status(n, l) : n \in Counters, l \in Levels}

None == 0             \* no session id yet
SessionIds == 1..MaxSession
SessionFrame(id) == [kind |-> "session", id |-> id]

\* A BATTERY_STATUS of another length than 19, an AUTH_REQUEST or SESSION_ID
\* whose data is no text, and a frame the vehicle has nothing to do with.
Malformed == [kind |-> "malformed"]
NoText == [kind |-> "notext"]
Unrelated == [kind |-> "unrelated"]
Frames == Statuses \cup {SessionFrame(id) : id \in SessionIds}
                   \cup {Malformed, NoText, Unrelated}

Verdicts == {"REPLAY", "INJECTION", "EVASION", "VALID"}

Init ==
    /\ counter = 0
    /\ sent = {}
    /\ held = << >>
    /\ bus = << >>
    /\ last_counter = 0
    /\ session = None
    /\ restarts = 0 /\ faults = 0
    /\ stopped = FALSE
    /\ log = << >>

\* The script makes its next step when the frames of the last were handled.
Ready == bus = << >> /\ ~ stopped

-----------------------------------------------------------------------------
\* The steps of a script: the frames it puts on the bus

\* Mutant of Encoded: the counter is read before it is advanced.
Encoded_Early == Status(counter, "normal")

\* send_status(): MessageCounter.next(), then the constant healthy sample.
Encoded == Status(counter + 1, "normal")

Sample ==
    /\ Ready
    /\ counter < MaxCounter
    /\ counter' = counter + 1
    /\ sent' = sent \cup {Encoded}
    /\ UNCHANGED <<vehicle, budget>>

\* A sample goes to the bus, is kept by a DelayAttack, or SuspensionAttack
\* returns None for it.
SendStatus == Sample /\ bus' = <<Encoded>> /\ UNCHANGED held
DelayStatus == Sample /\ held' = Append(held, Encoded) /\ UNCHANGED bus
BlockStatus == Sample /\ UNCHANGED <<held, bus>>

\* DelayAttack.release_all(): the frames kept, without the last if it is to be
\* dropped, in reverse order if asked.
Released(reverse, drop_last) ==
    LET kept == IF drop_last THEN Front(held) ELSE held
    IN  IF reverse THEN Reverse(kept) ELSE kept

ReleaseAll ==
    /\ Ready
    /\ held # << >>
    /\ \E reverse, drop_last \in BOOLEAN : bus' = Released(reverse, drop_last)
    /\ held' = << >>
    /\ UNCHANGED <<battery, vehicle, budget>>

\* DelayAttack.release_one() and clear().
ReleaseOne ==
    /\ Ready
    /\ held # << >>
    /\ bus' = <<Head(held)>>
    /\ held' = Tail(held)
    /\ UNCHANGED <<battery, vehicle, budget>>

ClearHeld ==
    /\ Ready
    /\ held # << >>
    /\ held' = << >>
    /\ UNCHANGED <<battery, bus, vehicle, budget>>

Fault(frame) ==
    /\ Ready
    /\ faults < MaxFaults
    /\ faults' = faults + 1
    /\ bus' = <<frame>>
    /\ UNCHANGED <<battery, held, vehicle, restarts>>

\* ReplayAttack: a captured frame is sent once more.
Repeat == \E f \in sent : Fault(f)

\* MitMAttack.modify(): other values under the counter of a captured frame.
\* (Other values that are normal make it a Repeat.)
Modify ==
    \E f \in sent, level \in Levels \ {"normal"} : Fault(Status(f.counter, level))

\* InjectionAttack: values far out of range under a counter, 999, that the
\* battery has not reached.
Inject == Fault(Status(MaxCounter + 1, "out"))

\* EvasionAttack: values close to a limit or a fault flag, under any counter.
Evade == \E n \in Counters : Fault(Status(n, "suspect"))

\* FuzzingAttack.corrupt_status_frame(): a status of another length, or with a
\* bit flipped, which may change the counter too: here to one below or one
\* beyond all those of the battery (Modify has the ones in between).
Corrupt ==
    \/ Fault(Malformed)
    \/ \E n \in {0, MaxCounter + 1}, level \in Levels : Fault(Status(n, level))

\* FuzzingAttack.flood(): frames with any id and up to 8 bytes of any data.
Fuzz == \E f \in {Malformed, NoText, Unrelated} : Fault(f)

\* The id of a session on the bus: one captured when the vehicle opened the
\* session, repeated, or text in a frame with that identifier.
SendSession == \E id \in SessionIds : Fault(SessionFrame(id))

\* The battery's program is started again: a new BatteryNode on the same bus.
RestartBattery ==
    /\ Ready
    /\ restarts < MaxRestarts
    /\ counter > 0
    /\ restarts' = restarts + 1
    /\ counter' = 0
    /\ UNCHANGED <<sent, held, bus, vehicle, faults>>

\* The script sets replay.last_counter of the vehicle back to 0.
ResetReplay ==
    /\ Ready
    /\ restarts < MaxRestarts
    /\ last_counter > 0
    /\ restarts' = restarts + 1
    /\ last_counter' = 0 /\ log' = << >>
    /\ UNCHANGED <<battery, held, bus, session, stopped, faults>>

-----------------------------------------------------------------------------
\* The vehicle: receive()

\* The checks of _handle_status(), in their order.
Verdict(f) ==
    IF ~ Validated(last_counter, f.counter).ok THEN "REPLAY"
    ELSE IF f.level = "out" THEN "INJECTION"
    ELSE IF f.level = "suspect" THEN "EVASION"
    ELSE "VALID"

\* Mutant of HandleStatus: only an accepted status counts for the replay check.
HandleStatus_LateCounter(f) ==
    /\ last_counter' = IF Verdict(f) = "VALID" THEN f.counter ELSE last_counter
    /\ log' = Append(log, [frame |-> f, verdict |-> Verdict(f)])
    /\ UNCHANGED <<session, stopped>>

\* _handle_status() of a frame of 19 bytes: validate() records the counter
\* whatever the later checks say.
HandleStatus(f) ==
    /\ last_counter' = Validated(last_counter, f.counter).last
    /\ log' = Append(log, [frame |-> f, verdict |-> Verdict(f)])
    /\ UNCHANGED <<session, stopped>>

\* _handle_session_id(): only the id that is active already is refused, so the
\* last one received is the active one; no result of an authentication is
\* looked at.
HandleSessionId(f) ==
    /\ session' = f.id
    /\ UNCHANGED <<last_counter, stopped, log>>

\* decode() of an id that is no text raises out of receive().
Raise == stopped' = TRUE /\ UNCHANGED <<last_counter, session, log>>

Handle(f) ==
    CASE f.kind = "status"  -> HandleStatus(f)
      [] f.kind = "session" -> HandleSessionId(f)
      [] f.kind = "notext"  -> Raise
      [] OTHER              -> UNCHANGED vehicle

\* bus.receive() and vehicle.receive() of the frame it returns.
Receive ==
    /\ bus # << >>
    /\ ~ stopped
    /\ Handle(Head(bus))
    /\ bus' = Tail(bus)
    /\ UNCHANGED <<battery, held, budget>>

Step ==
    \/ SendStatus \/ DelayStatus \/ BlockStatus
    \/ ReleaseAll \/ ReleaseOne \/ ClearHeld
    \/ Repeat \/ Modify \/ Inject \/ Evade \/ Corrupt \/ Fuzz
    \/ SendSession \/ RestartBattery

Next == Step \/ ResetReplay \/ Receive

Spec == Init /\ [][Next]_vars

-----------------------------------------------------------------------------
\* Properties

TypeOK ==
    /\ counter \in 0..MaxCounter
    /\ sent \subseteq {Status(n, "normal") : n \in 1..MaxCounter}
    /\ held \in Seq(sent)
    /\ bus \in Seq(Frames)
    /\ last_counter \in Counters
    /\ session \in SessionIds \cup {None}
    /\ stopped \in BOOLEAN
    /\ restarts \in 0..MaxRestarts /\ faults \in 0..MaxFaults
    /\ log \in Seq([frame : Statuses, verdict : Verdicts])

\* A healthy sample is refused for one reason only: a status with its counter
\* or a higher one was handled before, a valid one or one that a later check
\* refused.  So an altered copy costs the vehicle the sample it was made of and
\* no other, and a restarted battery is heard again with its first counter
\* beyond the highest handled.  In particular no sample is valid twice, and
\* none after a newer one, as long as nobody sets last_counter back.
HealthyUnlessOvertaken ==
    \A i \in 1..Len(log) :
        LET f == log[i].frame
        IN  f.level = "normal" =>
                (log[i].verdict = "VALID" <=>
                    /\ f.counter > 0
                    /\ \A j \in 1..(i - 1) : log[j].frame.counter < f.counter)
=============================================================================
