# BattLock in TLA+

BattLock authenticates a swappable battery to a vehicle over CAN and then
watches its telemetry for replayed, injected or implausible samples.  The
repository holds it twice: a Python implementation (`can/`, `crypto/`,
`protocol/`, driven by `integration/orchestrator.py`) and two ESP32 sketches
(`hardware/`).  This directory specifies both in TLA+, model-checks them on
small instances with TLC, and proves for all instances, with TLAPS, what
matters most.

    tlc -config MCOrchestrator.cfg MCOrchestrator      # one model-checking run
    tlapm Orchestrator_proofs.tla                      # one module of proofs

## 1. The system

### Components, their state and their operations

| Component | Source | State it keeps | Operations |
|---|---|---|---|
| Connection state machine | `protocol/state_machine.py` | `state` | six operations, each legal in one state, and `reset()` |
| Session manager | `protocol/session_manager.py` | `sessions` | create, look up |
| Authentication run | `integration/orchestrator.py` | the two above, kept across calls of `run()`; a CA, a bus and two nodes, new in every call | the twelve phases of `run()` |
| CAN nodes | `can/simulation/*_node.py` | vehicle: stored certificate, challenge, session, last counter; battery: challenge, counter | handshake handlers, telemetry checks |
| Python transport | `can/transport.py`, `can_message.py` | `CANBus.queue` | send, receive; `fragment`, `reassemble` (pure) |
| Status collector | `can/status_collector.py` | the open round `_a`, `_b`, `_c` | `feed()`, `reset()` |
| Counters | `crypto/counters/` | `counter`, `last_counter` | `next()`, `validate()` |
| Hardware key provider | `crypto/keys/atecc608.py` | port, `connected` | `connect`, `sign`, `get_public_key`, `genkey`, `close` |
| Serial bridge | `hardware/atecc_bridge.ino` | the chip's slot 0 | PING, SIGN, PUBKEY, GENKEY (and VERIFY) |
| Battery firmware | `hardware/battery.ino` | `state`, `has_challenge`, `counter`, reassembly buffer | the four stages of `loop()` |
| Vehicle firmware | `hardware/vehicle.ino` | `state`, `last_counter`, `pending_*`, `have_frame_a`, reassembly buffers | one handler per frame |
| Firmware fragmentation | `hardware/battlock_protocol.h` | `BattLockReassembly` | `send_payload`, `init`, `feed` |
| Crypto API | `crypto/crypto_api.py`, `crypto/keys/` | a key provider, in software or the chip | sign, read the key, verify |
| Provisioning | `provisioning/` | the files of an identity, the chip's key | `provision()`, the compatibility test |
| Fault objects | `attacks/` | `DelayAttack.buffer`, captured frames | delay, drop, repeat, alter or make up a frame |
| Simulation scripts | `can/simulation/run_simulation.py`, `simulink/generate_extra_modes.py` | their nodes; the rows of the recording | the sections and modes |
| Verification of recordings | `integration/verify_frames.py`, `simulink/verify_all_modes.py` | a `last_counter` per mode | a pass over the rows |
| First simulation, logging, metrics, plots, benchmarks | `simulation/`, `integration/logger.py`, `metrics.py`, `performance/` | none that anything reads | - |

### How they interact

* `run()` is sequential: the nodes are called in turn and exchange every message
  through one `CANBus` queue.  `receive()` does not look at the id of a frame,
  so a frame too many or too few shifts what every later phase reads.
* The orchestrator's state machine and session manager survive a call of
  `run()`; the rest is rebuilt.
* The battery cuts every sample into `STATUS_A`, `STATUS_B`, `STATUS_C`; the
  collector joins them; the vehicle checks the joined status.
* The simulation scripts send whole samples instead, one script step at a time: the
  battery or a fault object puts frames on the bus, the vehicle handles them all, and
  some scripts write a row for each, which the verifier reads when all are written.
* The two sketches run concurrently.  They share nothing but the bus; neither
  acknowledges, repeats or times out anything.
* The host and the serial bridge exchange one line per command, with nothing on
  the wire that ties an answer to its command, and a timeout on the host's side.
  The programs that use this link share the chip and a directory, one after the
  other; what one leaves unanswered on the board the next may read.

### What is hard

Loss, repetition and late arrival of frames and lines; handshakes that overlap;
reboots of one side; values kept from an earlier round, session, run or payload;
counters that start at a boundary; steps that fail half-way.  `PROJECT.json`
lists these as hazards, each at its line with the properties that watch it.

### What makes each component correct

* **Connection**: advanced one state at a time; one session per connection; a
  session only after the two nodes agreed on certificate and challenge.
* **Collector**: never a value older than the counter it is emitted under; no
  complete sample dropped; no honest sample taken for a replay.
* **Vehicle checks**: a healthy sample is refused only if it was overtaken; the
  verifier agrees with the vehicle.  (That a session id is taken over only once is
  claimed, and not so: see the findings.)
* **Serial link**: an answer belongs to the call that gets it; every call ends.
* **Provisioning**: what completes is a key that is in the chip, its certificate and
  the trust anchor that verifies it.
* **Transport**: a payload is put together exactly or refused.
* **Firmware**: telemetry only in a session; samples accepted in order and once;
  no step of the handshake used twice; a request whose frames all arrive leads to
  telemetry, whatever happened before.
* **Fragmentation**: no overrun of the buffer; whole payloads arrive as sent;
  damaged ones are not used (which holds within limits only).

## 2. The modules

| Module | Role |
|---|---|
| `StateMachine` | abstract specification of one connection (`protocol/state_machine.py`) |
| `Orchestrator` | `run()`, called repeatedly on one object; implements `StateMachine!OneConnection` |
| `Orchestrator_proofs` | its safety and the refinement, proved |
| `StatusCollector` | split telemetry, collector and replay check over a faulty bus |
| `StatusCollector_proofs` | its safety for any number of samples, proved |
| `ReplayProtection` | `validate()` as a function, for the vehicle and the verifier |
| `VehicleTelemetry` | battery node, bus, fault objects and the checks of the vehicle node |
| `FrameVerifier` | the verifiers of recordings, as a function of the rows |
| `TelemetryBench` | the modes one after the other: composes the two above |
| `TelemetryBench_proofs` | the checks of the vehicle and what the verifier says of them, for any number of samples and rows, proved |
| `Transport` | `fragment()` and `reassemble()`, with frames of the firmware's scheme |
| `Transport_proofs` | what is put together, for every size, length and list, proved |
| `AteccLink` | host and bridge over the serial line |
| `AteccLink_proofs` | the order and the pairing of the answers, proved |
| `Provisioning` | the programs that use the chip, over `AteccLink`, and their files |
| `Provisioning_proofs` | the same under every program; files and keys, proved |
| `Firmware` | both sketches on one bus |
| `Firmware_proofs` | its safety for any number of samples, reboots and requests, proved |
| `Reassembly` | firmware fragmentation, byte by byte |
| `Reassembly_proofs` | its safety for every payload length, proved |
| `MC*` | the values of the constants for TLC |

In every module one action stands for one operation, handler or phase of the
code, with its early returns as guards or as actions of their own (an exception
that leaves `run()` is `Leave("raised")`).  History variables are marked as such
and read by properties only.  Operators named `X_Something` next to an operator
`X` are variants of `X` with a plausible bug.  No specification uses them: each
is the evidence that some property notices such a bug, as listed under
`mutants` in `PROJECT.json`.

### Orchestrator

`pc` is the phase `run()` executes next.  A phase is one action, cut in two
where the state machine moves or an exception may leave the method in between.
`sm` and `sessions` survive a call, `Startup` rebuilds everything else.  A key, a
certificate or a session id is the number of the run that made it, a payload the
pair of its kind and that number, and a signature names the payload and the run
whose key signed it: equality of bytes becomes equality of these names.  A frame
handed to `CANBus.send()` is delivered, lost or duplicated.  The in-memory queue
does neither of the last two itself; tests replace `send` to drop frames
(`tests/test_can_required.py`), and a CAN controller may deliver a frame twice,
so the model checks what the phases make of both.  A frame of the wrong kind is
taken as far as the code takes it: `decode_certificate()` raises,
`receive_and_sign` signs the bytes whatever they are, a session id of binary
bytes may or may not decode.  The report writes files, which may raise: the run then
ends in an exception although the session is active.  The battery only prints the
session id; `battery.session` remembers what it printed.

### StatusCollector

A frame is its part and the counter of the sample it was cut from.  Sending is
in order; each frame is fed, fed again, or lost, as on a CAN bus.  `Buffer` is the end of
`feed()`, including the consumer's `ReplayProtection.validate()` of what it
returns.  `Reset` may happen at any moment.  A frame may arrive with a wrong size
(`bad`; for a `STATUS_C` one below 4 bytes, as longer ones are cut): it is buffered like any other, `status_from_frames()` raises when the round is
full, and the round stays open until the next `STATUS_A`.

### VehicleTelemetry and TelemetryBench

The scripts are sequential: `Ready` says that the frames of the last step were
handled, and every step is one of theirs, in any order and number.  The measured
values are kept as the class the vehicle's checks put them in; a counter of 999 is
`MaxCounter + 1`, beyond those of the battery.  `Verdict` is `_handle_status()` with
its checks in order; `Raise` is the one exception `receive()` lets out.
`ResetReplay` is the line of `run_simulation.py` that sets `last_counter` back.
`TelemetryBench` adds the recording: a script writes a row from the status or a row of
zeros, `RecordAltered` is the mode that records a frame it never gave to the vehicle,
and `NextMode` builds fresh nodes.  `judged` and `verdict` of a row are not in the file:
they remember what the vehicle did with the frame.  The verifier runs on a complete
file, so it is a function of the rows: `Verifying` is its loop, with what it has after
each number of rows, and `VerifyAll` the result.

### Transport

Payloads are sent by the Python `fragment()` or in the firmware's format (one flag on the
last sequence byte, a last frame padded to 8 bytes); a receiver collects frames in any
order, any of them again, and `Result` is `reassemble()` of what it has.  `sorted()` is
stable: `Place` counts the frames that come before a frame or are of its number and were
collected before it.  The five sizes of the format are constants, so that TLC can use
small ones.

### AteccLink

The host is single-threaded: `waiting` is the query whose answer `_query()` is
reading.  `Timeout` and `ReadLine` are its two ways to return.  The bridge
answers in order and arbitrarily late.  Opening the port may reset the board
(USB wiring decides); `fresh` remembers whether it did.  `q` in commands and
lines is a model-only label.  `Stop` is a program that is stopped while `readline()`
waits: the system closes the port, and the answer comes later.  That `readline()` may
also time out in the middle of a line, and the next call then get its rest, is not
modelled: a line arrives as a whole.

### Provisioning

`todo` holds the steps a program has left; each call and each file is an action.  A
program may end at any step, by an exception or because it is stopped (`Exit`), also in
the middle of a call (`Interrupt`, over the `Stop` of the link), and the system
then closes its port; a file being written is left torn.  The bridge goes on with the
commands it has, also between programs.  An application signs and reads the key as often
as it likes.  Signatures, certificates and keys are numbered by what made them.

### Firmware

`loop()` of the battery is cut at its four stages, as frames may arrive between
any two; `loop()` of the vehicle handles one frame.  Handlers that send two frames
(`STATUS_A`/`STATUS_B`, `AUTH_RESULT`/`SESSION_ID`) are cut between them: an
`AUTH_REQUEST` has the lower id and wins the bus.  Nobody waits
for the receiver: a frame that finds the buffer full is dropped.  Fragmented payloads
are one frame, which may always fail to arrive, as they are sent back to back to a
controller that holds two frames and is polled every 10 or 50 ms; what the
reassembly buffer then holds is covered by `Reassembly`.  Up to `MaxFaults` times
something else goes wrong: a frame lost or repeated, a chip that fails or refuses (the
keys and digests in the sketches are placeholders), a reboot.  `FaultsEnd` is the
moment after which nothing does.  `ExternalRequest` is a third node that sends
`AUTH_REQUEST`; without one the sketches do not start (see the findings).  The history
variable `lost` has the samples whose frame A did not arrive, and `course` what became
of the last request made after the faults.

### Reassembly

A byte is named by its payload and place.  One id is enough, since each handler
has a buffer and one expected length.  The clipping of the last fragment keeps
its cast to eight bits.  Each fragment arrives (`Receive`), arrives twice in a row, as a
CAN controller may send a frame again that was received (`ReceiveTwice`), or is lost;
`seen` says what became of the fragments of the payload in flight.

## 3. The runs

| Run | Question | Bounds | Distinct states |
|---|---|---|---|
| `orchestrator` | sessions, agreement, delivery, re-use of the object, refinement, termination | 3 calls of `run()`, any fate of each frame | 633 |
| `collector` | stale values, false replays, dropped and mixed samples | 4 samples, any fault | 1.5 million |
| `collector_any_lost` | is every emitted status one sample? **violated** | 3 samples | - |
| `telemetry` | which samples the vehicle accepts, what the verifier says | 2 modes, 2 samples each, 2 faults, 1 restart, 3 rows | 2.0 million |
| `transport` | what is put together, at every length | 2 payloads of 0 to 8 bytes, lists of 5 frames | 181 thousand |
| `atecc` | order, pairing and termination of calls; key and files of a provisioning | 5 queries, any programs | 574 thousand |
| `atecc_late` | is a returned signature that of the message? **violated** | 4 queries | - |
| `firmware` | order, freshness and unity of accepted samples, single use of steps, recovery | 2 external requests, 1 fault, 3 samples, buffers of 2 frames | 198 thousand |
| `firmware_alone` | does the handshake start? **violated** | no external request | - |
| `firmware_first_sample` | are only replays flagged? **violated** | 1 request, no faults | - |
| `reassembly` | overrun, whole and damaged payloads | 3 payloads of 32 bytes, 5 faults, 2 repeated fragments | 128 thousand |
| `reassembly_damaged` | is a used payload always as sent? **violated** | 1 payload, 1 repeated fragment | - |

### Why the bounds are enough

The proofs remove the bounds of the passing runs for all safety properties.  The runs
show them on the cases below, and the liveness properties on nothing else.

* *Three runs*: one that ends in any way, one on the object it leaves, and one
  more to see that a raised second run does not reopen it.
* *Four samples*: one that leaves its round open, one whose start is lost, one
  that completes the mixture and one that shows the recovery.
* *Five queries*: a connect and a call that times out, in any program, and a whole
  provisioning (three queries) that meets what they left on the board.
* *Telemetry*: two samples can be swapped, two faults can hit one sample, or its
  neighbour, and the sessions; a restart makes counters repeat; the second mode
  shows that nothing of the first is left but the rows.  The verifier judges a
  row by its own mode only, so three rows give it a mode with two and a foreign one
  between them.
* *Transport*: sizes of 1 and 2 bytes instead of 5 and 7, and a sequence of 3 instead of
  255, put the longest payload (7 bytes, 4 frames) at the end of the sequence and one
  (8) beyond it; 0 and 2 are an empty payload and one with a short last frame.  Five
  frames are a whole payload and one too many.
* *Firmware*: two requests let a second handshake overlap the first at any point; the
  fault can lose a frame A, repeat a `SESSION_ID` or reboot a board in any state, while
  full buffers lose further frames without counting as faults, and payloads need
  none to stay away; three samples allow one
  refused at counter 0, one accepted before and one after a second session.
  The buffers hold the two frames of the MCP2515.  (Without the liveness property
  the module was also run with two faults, 1.6 million states.)
* *Reassembly*: 32 bytes are the length of a nonce, 5 fragments, the last one
  clipped.  One repetition can make up for a cut, a second for its own remainder; five
  faults can lose as many fragments as a payload has.

### What the passing runs show

* However the frames are lost or repeated, a session is registered only when
  both nodes of the same run agree on certificate and challenge
  (`SessionRestsOnAgreement`), never a second one on an object
  (`OneSessionPerConnection`); a repeated frame can deny an honest battery.  An
  object is usable again only while every run raised before its hello
  (`OnlyFirstHelloCanSucceed`).  A run that reports `ACTIVE_SESSION` handed the
  battery its session id, or, with a repeated signature, that signature
  (`ActiveMeansDelivered`).
* The collector never emits values older than their counter, never drops a
  complete sample, never causes a false replay, recovers from a round that raised, and
  mixes two samples only if the `STATUS_A` of the newer is lost
  (`MixedOnlyIfStartLost`): its policy is right for the losses it is written for.
* Over the serial line answers are in order and never given twice; until a read
  ends without a line (it timed out, or its program was stopped) or a connect fails they
  are paired.  A reset on opening restores the
  pairing, but only `connect()` does.
* A completed provisioning leaves four files that belong together, whatever
  earlier runs were interrupted (`FilesBelongTogether`).  Its key is the chip's, and
  stays it, if its PING was answered by its own PONG (`DeployedKeyIsChipKey`); on a board
  that resets when opened that is always so (`CompletedInSync`).  On any other, a late
  PONG is taken for the one asked for.
* The vehicle refuses a healthy sample only if a status with its counter or a higher one
  was handled before - by a *refused* one too, since the replay check records the counter
  first: an altered copy that arrives early costs its original, and a counter made up far
  ahead costs all that follow.  A restarted battery is deaf to the vehicle until it
  passes its old counter (`HealthyUnlessOvertaken`).
* The verifier's verdict on a recording is the vehicle's, for counters from 1 and rows
  the vehicle has seen (`VerifierAgrees`).  Its counters of 0 always pass
  (`RowReplayExact`), which rows of damaged frames need.
* `reassemble()` makes exactly the payload of its frames or refuses; mixed lists of
  one id keep every byte in its place (`WholeOrRefused`, `MixedInPlace`).
* The sketches accept samples once and in order, over sessions and reboots, and
  never newer counters with older values; each step of the handshake is backed by
  a step before it, or by a `SESSION_ID` that the bus repeated.  A report mixes two
  samples only if the frame A of the second was lost (`MixedOnlyIfFrameALost`).
* Neither sketch sends anything again, so a handshake that lost a frame stays where it
  is; but the next request succeeds, from whatever state, if its frames arrive
  (`RecoversWhenAsked`).
* A reassembled payload whose first fragment arrived, with none between the first and the
  last repeated, is intact or refused (`FirstFragmentProtects`); so is any when only one
  thing went wrong and that was no repetition (`OneLossDetected`).

### Findings

Each is a run that TLC refutes; `PROJECT.json` quotes the text that the code
disagrees with.

1. `collector_any_lost`: `status_collector.py:69` accepts any `STATUS_B`/`STATUS_C` in an
   open round.  After A1 (B1, C1 and A2 lost) B2 C2 it emits counter 1 with the
   values of sample 2.  Nothing in those frames would let it notice.
2. `atecc_late`: after a timeout `sign()` returns the signature of the message
   before, without an error, until the next `connect()`.
3. `firmware_alone`: neither sketch sends the `AUTH_REQUEST` the battery waits for.
4. `firmware_first_sample`: counters start at 0, and so does the strict comparison of
   a new session: the first genuine sample is reported as a replay.
5. `reassembly_damaged`: fragments are appended whatever their number, although the contract
   has duplicates and gaps rejected.  A nonce received as fragments 0, 1, 2, 3, 3,
   last has the length of a whole one and is used, six of its bytes twice and its last
   six missing.

Met while modelling, without a run of their own:

* The same line lets a handler use bytes of two nonces when the end of one and the first
  fragment of the next are lost (`AcceptedIntact` with `MaxPayloads = 2`, `MaxFaults = 2`,
  `MaxRepeats = 0`).
* `_handle_session_id()` is to take a session id "only once and only after a successful
  authentication" (`vehicle_node.py:131-133`).  It compares with the active id only: when
  another id came in between, an earlier one is taken over again.  And it looks at no
  authentication.
* The last fragment of the firmware has `FRAG_LAST_FLAG` in its sequence byte
  (`battlock_protocol.h:88`), which the contract (`docs/can_transport_contract.md`) does
  not have: `reassemble()` refuses every payload of a board.  The other way, a
  Python frame 128 or higher looks like a last one.  In a list of more than 128 frames
  a flagged frame passes for the Python frame of its number, so `MixedInPlace` speaks of
  padding in shorter lists only.
* On a board that does not reset when opened, three reads that time out let a repeated
  provisioning complete one round late: it certifies a key that its own GENKEY, still
  pending, then replaces.  Hence the condition on the PONG in `DeployedKeyIsChipKey`.
* `run_simulation.py` injects counter 999 in section 3, so that the altered sample of
  section 5 and both delayed ones of section 6 are reported as replays; section 9 sets
  `last_counter` back.
* In mode 7 the script validates every counter once more after the vehicle did
  (`generate_extra_modes.py:135`): its column `model_replay` is 1 in every row.
* The replayed session id of mode 9 is the first one its vehicle receives, and is taken
  over; `simulink/README.md:147` calls it flagged.
* Every `provision()` makes a new root CA: a vehicle that has the trust anchor of an
  earlier one refuses the new battery.

## 4. Fairness

* `Orchestrator`: `WF(Phase)`.  `run()` is straight-line code, its next statement is
  executed; nothing obliges the caller to call again.
* `AteccLink`: `WF(ReadLine \/ Timeout)`, and `Provisioning`: `WF(Return)`, the same two
  steps.  `readline()` has a timeout.  Nothing is assumed of the board, nor that anybody
  runs a program.
* `Firmware`: `WF(BatteryLoop)` and `WF(VehicleLoop)`.  `loop()` is called for ever on
  both boards.  No fairness of the bus or the third node is assumed:
  `RecoversWhenAsked` is about requests that were made, after the last fault, and gives up
  when a frame of their handshake is dropped.

## 5. The proofs

Every invariant and the refinement that the passing runs check is a theorem, for all
values of the constants the assumptions allow: any number of runs, samples, reboots,
programs, faults, rows and payloads of any length.  Next to no property is inductive as
it stands; each module states what has to be carried along, in named parts that TLC
checked first, and has one lemma per action or one for those that share their end.

`Orchestrator_proofs`: type correctness, six safety invariants and the refinement
`Spec => Connection!OneConnection`.  A signature accepted by the vehicle is over the
battery's stored challenge only because every signature *in the queue* is
(`QueuedFrames`: frames of this run, signatures only after the signing phase and over
what the battery stored).  That data stay in their run needs what each node knows at
each phase (`NodesMatchPhase`).  That only a first hello succeeds needs, at every
moment before it, that all earlier runs raised (`EarlierRunsRaised`).  `IInv` is the
conjunction; `LeavingStep` is shared by all ways a run is left early.  What the battery
is handed at the end is settled by what can stand behind a signature in the queue:
only signatures (`DeliveryInv`).  The refinement follows from `PhaseMatchesState`: a
phase that moves the state machine meets it in the one state the move is legal in.

`Reassembly_proofs`: for every payload length up to the buffer.  `IInv` says where the
payload in flight stands: while all its fragments arrived the buffer holds its first
bytes; once one behind the first is missing, the length stays at least one fragment
behind (`Progress`).  The arithmetic of `battlock_fragment_count()` is the lemma
`FragmentBounds`.  A fragment that comes twice leaves the buffer as it was if it is the
first or the last one; between them it fills a place too many, and from then on nothing
is claimed of the payload.  A single loss is always noticed because, until it happens
and with nothing repeated, the buffer is empty before every payload (`FaultInv`): what
loses its first fragment finds a total of 0, and nothing fits.

`StatusCollector_proofs`: type correctness and the four safety invariants.  They speak
of what was emitted, so the invariant says the same of the round still open
(`OpenRound`, `NewestRound`) and ties it to the sample on the bus: while it is being sent
undisturbed, the collector holds exactly what arrived of it, none of it with a wrong
size, or has emitted it (`CurrentSample`), and before its `STATUS_A` nothing of it was
emitted (`History`).  `BufferStep` carries the end of `feed()` for all three kinds of frame.

`TelemetryBench_proofs`: `HealthyUnlessOvertaken` speaks of
the log of what was handled, so the invariant ties the vehicle to it: `last_counter` is
the highest counter handled in this mode (`HighestHandled`).  `ReceiveStep` carries the handling of a frame, whoever put it on the bus.
What the verifier says of a recording is about its whole loop: after n rows each of its
`ReplayProtection`s has the highest counter of its mode, and its verdicts are right
(`VerdictsRight`).  That it comes to the vehicle's verdicts (`VerifierAgrees`) joins this
to what the rows remember of the vehicle (`RowsInv`).

`AteccLink_proofs`: `AnswersInOrder` needs to know what is still on its way: the answers
given, the lines not yet read and the commands not yet processed are, in this order, one
increasing sequence (`GivenInOrder`, `HostInOrder`, `BridgeInOrder`); the only line
without a number is the error of a setup, which no call returns.  `InSyncWhileAnswered`
needs `InStep`: until a read ends without a line or a connect fails, the query waited for,
or the line that answers it, is alone on its way.

`Provisioning_proofs`: a program is to the link nothing but its calls
(`ProgramsUseLink`), which carries both results over to every sequence of programs.
`FilesBelongTogether`: only `provision()` has files to write, none while a call is under
way (`StepsLeft`), and those behind its step are of its own CA (`WrittenSoFar`).
`CompletedInSync`: a script whose board was reset, or whose PING got its own PONG, stays
in step from there (`ScriptInStep`), since a call that times out or is interrupted ends it.
`DeployedKeyIsChipKey`: in step, the key it read is the one of the slot (`KeyWritten`),
and when it completed no GENKEY was left on the way (`KeyStays`).

`Firmware_proofs`: `AcceptedInOrder` and `NeverStaleValues` from placing all samples on
one line: accepted, pending, waiting on the bus, not yet taken (`SamplesInOrder`).  The
line goes on over a reboot, since samples are ordered by boot first.  `EachStepUsedOnce`
is an inequality between the steps made; it is kept by an account that also has the
frames waiting, repeated ones included, and the boards half-way through a step
(`StepsPaidFor`).
`MixedOnlyIfFrameALost`: a frame B on its way has its frame A before it with nothing but
requests between, or finds it pending, or a vehicle that will ignore it, unless that
frame A was lost or the frame B repeats the one before it (`Pairs`).

`Transport_proofs`: the state only has to keep that frames collected are frames sent;
the rest is about the operators.  The frames of `fragment()` tile the payload, none
beyond it and the last up to its end (`FramesCover`, `ChunkBytes`); the list sorted is a
rearrangement of the list collected, with growing numbers (`SortedList`), and numbers 0 to
n-1 each once put each frame at its own (`NumberedList`); the first m frames joined have
each byte up to there in its place (`JoinedBytes`).  An accepted list of one payload then
has no flagged frame, since the number before the flagged one would be missing, and as
many frames as the payload, since fewer fall short of its length (`AcceptedIsWhole`).

Three of these results are about loops over data of any length (the rows of a recording,
the frames sorted and joined).  Induction is by least counterexample: the numbers of
steps at which a claim fails are a set of naturals, which has a least element
(`LeastElement`) unless it is empty.

Assumptions are those named in the modules: bounds are naturals, sets of fates and
answers are subsets of the ones the code can meet, a payload fits the buffer, the sequence
byte of a fragment has one bit for the flag.

Model-checked only: liveness (`EveryRunEnds`, `EveryCallReturns`, `RecoversWhenAsked`),
which is out of the prover's reach here.

## 6. Not modelled, and why

* Cryptography is outside the sources and ideal in the Python models: a
  signature verifies exactly with the key and the bytes it was made with.
* The order in which the MCP2515 hands over its two buffers: decided by the CAN
  library, assumed to be the order of the bus.
* The copy of 150 into 148 bytes at `battery.ino:157`: what it leads to is one of
  the arbitrary verdicts on the certificate.
* Lines of which `readline()` returns a part, because its timeout falls in the middle of
  one.
* An empty recording: both verifiers then raise an `IndexError` when they name the columns
  of their output.
* The software key provider has no state but its key pair.  Of the verifier, the columns
  about signatures compare two constants of a row, and the report only prints maxima;
  the mode and the section on an altered certificate are `verify_certificate()` of ideal
  cryptography, whose two outcomes are in `Orchestrator`.
* The guards of `reassemble()` against frames that are empty, too long or without a header:
  no sender of the repository makes one.
* `DoSAttack` floods a bus whose queue has no limit; its frames are `Unrelated` ones.
* Logging, metrics, plots, benchmarks, demonstrations: no state that the protocol
  reads.  The first simulation (`simulation/`) was replaced by the modules above.

## 7. Plan

Done: the connection, the run, the telemetry path split and whole, the serial link and
its programs, the firmware and its fragmentation, the Python transport, the recordings,
and the proofs of all their safety properties.  Next:

1. An abstract specification of delivery, whole and at most once, that the collector and
   the sketches are shown to implement, with the refinement proved.
2. Lemmas that join `Reassembly` to `Firmware`: a fragmented payload as one frame that is
   delivered as sent, damaged, or not at all.
