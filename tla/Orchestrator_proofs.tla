------------------------- MODULE Orchestrator_proofs -------------------------
(***************************************************************************)
(* Safety of the orchestrator, for any number of runs and whatever the bus *)
(* does to the frames.  The properties are not inductive: which run a      *)
(* frame comes from and how earlier runs ended has to be carried along,    *)
(* and for what the battery is handed last, how far the queue has got.     *)
(***************************************************************************)
EXTENDS Orchestrator, SequenceTheorems, TLAPS

\* The phases between hello_received() being accepted and the end of run().
AfterHello == {"verify_cert", "challenge", "sign", "verify_sig", "session",
               "report_active", "report_denied"}

\* The phases from which a signature can be in the queue.
AfterSigning == {"verify_sig", "session", "report_active", "report_denied", "idle"}

\* What can be in the queue: frames of this run, and signatures over the
\* challenge the battery has stored.
QueuedFrames ==
    {f \in Frames : /\ f.run = run
                    /\ f.id = "SIGNATURE" =>
                         pc \in AfterSigning /\ f.over = battery.challenge}

\* run() is only inside a phase of a run that was started; later runs have
\* not ended, this one has ended exactly when the object is idle.
RunsInOrder ==
    /\ pc # "idle" => run \in Runs /\ outcome[run] = "none"
    /\ \A r \in Runs : r > run => outcome[r] = "none"
    /\ \A r \in sessions : r <= run
    /\ pc \in {"auth_request", "certificate", "hello"} => run \notin sessions

\* What the nodes know at each phase.
NodesMatchPhase ==
    /\ rx.run \in {0, run}
    /\ rx \in Frames => rx.run = run
    /\ pc \in {"hello", "verify_cert"} => rx \in Frames
    /\ vehicle.cert \in {0, run}
    /\ \A p \in {vehicle.challenge, battery.challenge, battery.session} :
         p = NoPayload \/ p[2] = run
    /\ pc \in {"challenge", "sign", "verify_sig", "session"} => vehicle.cert = run
    /\ pc \in {"sign", "verify_sig", "session"} =>
         vehicle.challenge = <<"NONCE", run>>

\* As long as a run can still succeed, every run before it ended by an
\* exception.
EarlierRunsRaised ==
    /\ sm = "DISCONNECTED" \/ pc \in AfterHello =>
         \A r \in Runs : r < run => outcome[r] = "raised"
    /\ sm = "DISCONNECTED" /\ pc = "idle" =>
         \A r \in Runs : r = run => outcome[r] = "raised"

IInv ==
    /\ TypeOK
    /\ PhaseMatchesState
    /\ OneSessionPerConnection
    /\ SessionRestsOnAgreement
    /\ OnlyFirstHelloCanSucceed
    /\ bus \in Seq(QueuedFrames)
    /\ RunsInOrder
    /\ NodesMatchPhase
    /\ EarlierRunsRaised

-----------------------------------------------------------------------------

\* CANBus.send() adds nothing but copies of the frame it is given.
LEMMA CopiesAreFrames ==
    ASSUME NEW S, NEW f \in S, NEW fate \in Fates
    PROVE  Copies(f, fate) \in Seq(S)
BY FatesAssumption DEF Copies

\* A frame other than a signature, made in this run, may be in the queue.
LEMMA PlainFrameIsQueued ==
    ASSUME run \in Runs, NEW id \in Ids, id # "SIGNATURE"
    PROVE  Frame(id) \in QueuedFrames /\ Frame(id) \in Frames
BY RunsAssumption DEF Frame, QueuedFrames, Frames, NoPayload, Payloads

\* The initial state, before any call of run(), satisfies the invariant.
THEOREM InitEstablishes == Init => IInv
<1> SUFFICES ASSUME Init PROVE IInv
  OBVIOUS
<1>1. << >> \in Seq(Frames) /\ << >> \in Seq(QueuedFrames)
  BY EmptySeq
<1>2. NoPayload \in Payloads
  BY RunsAssumption DEF NoPayload, Payloads
<1>3. TypeOK
  BY <1>1, <1>2, RunsAssumption DEF Init, TypeOK, Phases, Outcomes
<1>4. RunsInOrder /\ NodesMatchPhase /\ EarlierRunsRaised
  BY RunsAssumption DEF Init, RunsInOrder, NodesMatchPhase, EarlierRunsRaised, Runs,
     NoFrame, Frames, Ids, NoPayload, AfterHello
<1> QED
  BY <1>1, <1>3, <1>4 DEF Init, IInv, PhaseMatchesState, OneSessionPerConnection,
     SessionRestsOnAgreement, OnlyFirstHelloCanSucceed, Runs

\* A new run starts with a fresh bus and fresh nodes: nothing is left to agree on.
LEMMA StartupStep == IInv /\ Startup => IInv'
<1> SUFFICES ASSUME IInv, Startup PROVE IInv'
  OBVIOUS
<1> USE DEF IInv, Startup
<1>1. << >> \in Seq(Frames) /\ << >> \in Seq(QueuedFrames')
  BY EmptySeq
<1>2. NoPayload \in Payloads /\ run' \in Runs /\ run \in Nat /\ run' = run + 1
  BY RunsAssumption DEF NoPayload, Payloads, TypeOK, Runs
<1>3. TypeOK'
  BY <1>1, <1>2, RunsAssumption DEF TypeOK, Phases, Runs
<1>4. NodesMatchPhase'
  BY <1>2 DEF NodesMatchPhase, NoFrame, Frames, Ids, NoPayload, Runs
<1>5. RunsInOrder'
  BY <1>2 DEF RunsInOrder, TypeOK, Runs
<1>6. EarlierRunsRaised'
  BY <1>2 DEF EarlierRunsRaised, AfterHello, Runs
<1>7. SessionRestsOnAgreement'
  BY <1>2 DEF SessionRestsOnAgreement, RunsInOrder, TypeOK, Runs
<1> QED
  BY <1>1, <1>3, <1>4, <1>5, <1>6, <1>7
     DEF PhaseMatchesState, OneSessionPerConnection, OnlyFirstHelloCanSucceed

\* After phase 6 the queue holds at most one more frame of this run.
LEMMA AuthRequestStep == IInv /\ AuthRequest => IInv'
<1> SUFFICES ASSUME IInv, AuthRequest PROVE IInv'
  OBVIOUS
<1> USE DEF IInv, AuthRequest
<1>1. PICK fate \in Fates :
        LET queue == bus \o Copies(Frame("AUTH_REQUEST"), fate)
        IN  bus' = IF queue = << >> THEN << >> ELSE Tail(queue)
  OBVIOUS
<1> DEFINE queue == bus \o Copies(Frame("AUTH_REQUEST"), fate)
<1>2. run \in Runs
  BY DEF RunsInOrder
<1>3. queue \in Seq(Frames) /\ queue \in Seq(QueuedFrames)
  BY <1>2, PlainFrameIsQueued, CopiesAreFrames, ConcatProperties DEF TypeOK, Ids
<1>4. bus' \in Seq(Frames) /\ bus' \in Seq(QueuedFrames)
  BY <1>1, <1>3, EmptySeq, HeadTailProperties
<1>5. QueuedFrames \subseteq QueuedFrames'
  BY DEF QueuedFrames, AfterSigning
<1>6. bus' \in Seq(QueuedFrames')
  BY <1>4, <1>5, SeqMonotonic
<1>7. TypeOK'
  BY <1>4 DEF TypeOK, Phases
<1>8. RunsInOrder' /\ EarlierRunsRaised' /\ NodesMatchPhase'
  BY DEF RunsInOrder, EarlierRunsRaised, NodesMatchPhase, AfterHello
<1> QED
  BY <1>6, <1>7, <1>8
     DEF PhaseMatchesState, OneSessionPerConnection, SessionRestsOnAgreement,
         OnlyFirstHelloCanSucceed

\* Phase 7 hands a frame of this run to the verification, or raises.
LEMMA CertificateExchangeStep == IInv /\ CertificateExchange => IInv'
<1> SUFFICES ASSUME IInv, CertificateExchange PROVE IInv'
  OBVIOUS
<1> USE DEF IInv, CertificateExchange
<1>1. PICK fate \in Fates :
        LET queue == bus \o Copies(Frame("CERTIFICATE"), fate)
        IN  IF queue = << >>
            THEN bus' = bus /\ rx' = rx /\ Leave("raised")
            ELSE /\ bus' = Tail(queue)
                 /\ rx' = Head(queue)
                 /\ pc' = "hello"
                 /\ UNCHANGED outcome
  OBVIOUS
<1> DEFINE queue == bus \o Copies(Frame("CERTIFICATE"), fate)
<1>2. run \in Runs /\ run \in Nat /\ outcome[run] = "none"
  BY DEF RunsInOrder, Runs
<1>3. queue \in Seq(Frames) /\ queue \in Seq(QueuedFrames)
  BY <1>2, PlainFrameIsQueued, CopiesAreFrames, ConcatProperties DEF TypeOK, Ids
<1>4. CASE queue = << >>
  <2>1. bus' = bus /\ rx' = rx /\ pc' = "idle"
        /\ outcome' = [outcome EXCEPT ![run] = "raised"]
    BY <1>1, <1>4 DEF Leave
  <2>2. QueuedFrames \subseteq QueuedFrames'
    BY <2>1 DEF QueuedFrames, AfterSigning
  <2>3. bus' \in Seq(QueuedFrames')
    BY <2>1, <2>2, SeqMonotonic
  <2>4. TypeOK'
    BY <2>1, <1>2 DEF TypeOK, Phases, Outcomes
  <2>5. RunsInOrder' /\ EarlierRunsRaised' /\ NodesMatchPhase'
    BY <2>1, <1>2 DEF RunsInOrder, EarlierRunsRaised, NodesMatchPhase, AfterHello, TypeOK, Runs
  <2>6. OnlyFirstHelloCanSucceed'
    BY <2>1, <1>2 DEF OnlyFirstHelloCanSucceed, TypeOK
  <2> QED
    BY <2>1, <2>3, <2>4, <2>5, <2>6
       DEF PhaseMatchesState, OneSessionPerConnection, SessionRestsOnAgreement
<1>5. CASE queue # << >>
  <2>1. bus' = Tail(queue) /\ rx' = Head(queue) /\ pc' = "hello" /\ outcome' = outcome
    BY <1>1, <1>5
  <2>2. Head(queue) \in QueuedFrames /\ Head(queue) \in Frames
        /\ Tail(queue) \in Seq(QueuedFrames) /\ Tail(queue) \in Seq(Frames)
    BY <1>3, <1>5, HeadTailProperties
  <2>3. QueuedFrames \subseteq QueuedFrames'
    BY DEF QueuedFrames, AfterSigning
  <2>4. bus' \in Seq(QueuedFrames')
    BY <2>1, <2>2, <2>3, SeqMonotonic
  <2>5. TypeOK'
    BY <2>1, <2>2 DEF TypeOK, Phases
  <2>6. Head(queue).run = run
    BY <2>2 DEF QueuedFrames
  <2>7. RunsInOrder' /\ EarlierRunsRaised'
    BY <2>1 DEF RunsInOrder, EarlierRunsRaised, AfterHello
  <2>8. NodesMatchPhase'
    BY <2>1, <2>2, <2>6 DEF NodesMatchPhase
  <2> QED
    BY <2>1, <2>4, <2>5, <2>7, <2>8
       DEF PhaseMatchesState, OneSessionPerConnection, SessionRestsOnAgreement,
           OnlyFirstHelloCanSucceed
<1> QED
  BY <1>4, <1>5

\* A step that leaves run() by an exception or a return other than through
\* the report, and disturbs nothing that is recorded outside the run.
LEMMA LeavingStep ==
    ASSUME IInv, pc \in {"hello", "verify_cert", "sign", "verify_sig", "session"},
           NEW how \in {"aborted", "raised"}, Leave(how),
           sm # "DISCONNECTED", bus' \in Seq(Frames), bus' \in Seq(QueuedFrames),
           vehicle' \in [cert : {0, run}, challenge : {vehicle.challenge}],
           UNCHANGED <<run, sm, sessions, rx, battery>>,
           run \in sessions => vehicle' = vehicle
    PROVE  IInv'
<1> USE DEF IInv, Leave
<1>1. run \in Runs /\ run \in Nat
  BY DEF RunsInOrder, Runs
<1>2. QueuedFrames \subseteq QueuedFrames'
  BY DEF QueuedFrames, AfterSigning
<1>3. bus' \in Seq(QueuedFrames')
  BY <1>2, SeqMonotonic
<1>4. TypeOK'
  <2>1. vehicle' \in [cert : 0..MaxRuns, challenge : Payloads]
    BY <1>1, RunsAssumption DEF TypeOK, Runs
  <2> QED
    BY <1>1, <2>1 DEF TypeOK, Phases, Outcomes
<1>5. RunsInOrder'
  BY <1>1 DEF RunsInOrder, TypeOK
<1>6. NodesMatchPhase'
  BY DEF NodesMatchPhase
<1>7. EarlierRunsRaised'
  BY DEF EarlierRunsRaised, AfterHello
<1>8. OnlyFirstHelloCanSucceed'
  BY <1>1 DEF OnlyFirstHelloCanSucceed, RunsInOrder, TypeOK, Runs
<1>9. PhaseMatchesState' /\ OneSessionPerConnection'
  BY DEF PhaseMatchesState, OneSessionPerConnection
<1>10. SessionRestsOnAgreement'
  BY DEF SessionRestsOnAgreement
<1> QED
  BY <1>3, <1>4, <1>5, <1>6, <1>7, <1>8, <1>9, <1>10

\* vehicle is a record, so what LeavingStep asks of it holds when it stays.
LEMMA VehicleUnchanged ==
    ASSUME IInv, vehicle' = vehicle
    PROVE  vehicle' \in [cert : {0, run}, challenge : {vehicle.challenge}]
BY DEF IInv, TypeOK, NodesMatchPhase

\* The hello is refused unless the object is still DISCONNECTED.
LEMMA HelloStep == IInv /\ Hello => IInv'
<1> SUFFICES ASSUME IInv, Hello PROVE IInv'
  OBVIOUS
<1> USE DEF Hello
<1>1. CASE sm = "DISCONNECTED"
  <2> USE DEF IInv
  <2>1. sm' = "HELLO_RECEIVED" /\ pc' = "verify_cert" /\ outcome' = outcome
    BY <1>1 DEF Transition
  <2>2. QueuedFrames \subseteq QueuedFrames'
    BY DEF QueuedFrames, AfterSigning
  <2>3. bus' \in Seq(QueuedFrames')
    BY <2>2, SeqMonotonic
  <2>4. TypeOK'
    BY <2>1 DEF TypeOK, Phases
  <2>5. RunsInOrder' /\ NodesMatchPhase' /\ EarlierRunsRaised'
    BY <1>1, <2>1 DEF RunsInOrder, NodesMatchPhase, EarlierRunsRaised, AfterHello
  <2> QED
    BY <1>1, <2>1, <2>3, <2>4, <2>5
       DEF PhaseMatchesState, OneSessionPerConnection, SessionRestsOnAgreement,
           OnlyFirstHelloCanSucceed
<1>2. CASE sm # "DISCONNECTED"
  <2>1. Leave("aborted") /\ sm' = sm
    BY <1>2 DEF Transition
  <2> QED
    BY <1>2, <2>1, LeavingStep, VehicleUnchanged DEF IInv, TypeOK
<1> QED
  BY <1>1, <1>2

\* A frame that is no certificate ends the run before anything is stored.
LEMMA UndecodableCertificateStep == IInv /\ UndecodableCertificate => IInv'
BY LeavingStep, VehicleUnchanged
   DEF UndecodableCertificate, IInv, TypeOK, PhaseMatchesState

\* An empty queue ends the run wherever it is found.
LEMMA NothingReceivedStep == IInv /\ NothingReceived => IInv'
BY LeavingStep, VehicleUnchanged DEF NothingReceived, IInv, TypeOK, PhaseMatchesState

\* A session frame that does not decode ends the run; its session stays registered.
LEMMA UndecodableSessionStep == IInv /\ UndecodableSession => IInv'
<1> SUFFICES ASSUME IInv, UndecodableSession PROVE IInv'
  OBVIOUS
<1>1. bus' \in Seq(Frames) /\ bus' \in Seq(QueuedFrames)
  BY HeadTailProperties DEF IInv, TypeOK, UndecodableSession
<1> QED
  BY <1>1, LeavingStep, VehicleUnchanged DEF UndecodableSession, IInv, PhaseMatchesState

\* The stored certificate is the one of this run, verified or not.
LEMMA CertificateVerificationStep == IInv /\ CertificateVerification => IInv'
<1> SUFFICES ASSUME IInv, CertificateVerification PROVE IInv'
  OBVIOUS
<1> USE DEF CertificateVerification, CertificateValid
<1>1. run \in Runs /\ rx.run = run /\ sm = "HELLO_RECEIVED" /\ sessions = {}
  BY DEF IInv, RunsInOrder, NodesMatchPhase, PhaseMatchesState, OneSessionPerConnection
<1>2. vehicle' = [vehicle EXCEPT !.cert = run]
  BY <1>1
<1>3. vehicle' \in [cert : {0, run}, challenge : {vehicle.challenge}]
  BY <1>2 DEF IInv, TypeOK
<1>4. CASE Leave("aborted") /\ sm' = sm
  BY <1>1, <1>3, <1>4, LeavingStep DEF IInv, TypeOK
<1>5. CASE Transition("HELLO_RECEIVED", "CERT_VERIFIED", "challenge")
  <2> USE DEF IInv
  <2>1. sm' = "CERT_VERIFIED" /\ pc' = "challenge" /\ outcome' = outcome
    BY <1>1, <1>5 DEF Transition
  <2>2. QueuedFrames \subseteq QueuedFrames'
    BY DEF QueuedFrames, AfterSigning
  <2>3. bus' \in Seq(QueuedFrames')
    BY <2>2, SeqMonotonic
  <2>4. TypeOK'
    BY <1>1, <1>2, <2>1 DEF TypeOK, Phases, Runs
  <2>5. RunsInOrder' /\ EarlierRunsRaised'
    BY <2>1 DEF RunsInOrder, EarlierRunsRaised, AfterHello
  <2>6. vehicle'.cert = run /\ vehicle'.challenge = vehicle.challenge
    BY <1>2 DEF TypeOK
  <2>7. NodesMatchPhase'
    BY <1>1, <2>1, <2>6 DEF NodesMatchPhase
  <2> QED
    BY <1>1, <2>1, <2>3, <2>4, <2>5, <2>7
       DEF PhaseMatchesState, OneSessionPerConnection, SessionRestsOnAgreement,
           OnlyFirstHelloCanSucceed
<1> QED
  BY <1>4, <1>5

\* The challenge the vehicle stores is the one of this run.
LEMMA ChallengeStep == IInv /\ Challenge => IInv'
<1> SUFFICES ASSUME IInv, Challenge PROVE IInv'
  OBVIOUS
<1> USE DEF SendNonce
<1> USE DEF IInv, Challenge
<1>1. run \in Runs /\ sm = "CERT_VERIFIED" /\ sessions = {}
  BY DEF RunsInOrder, PhaseMatchesState, OneSessionPerConnection
<1>2. sm' = "CHALLENGE_SENT" /\ pc' = "sign" /\ outcome' = outcome
  BY <1>1 DEF Transition
<1>3. PICK fate \in Fates : bus' = bus \o Copies(Frame("NONCE"), fate)
  OBVIOUS
<1>4. bus' \in Seq(Frames) /\ bus' \in Seq(QueuedFrames)
  BY <1>1, <1>3, PlainFrameIsQueued, CopiesAreFrames, ConcatProperties DEF TypeOK, Ids
<1>5. QueuedFrames \subseteq QueuedFrames'
  BY DEF QueuedFrames, AfterSigning
<1>6. bus' \in Seq(QueuedFrames')
  BY <1>4, <1>5, SeqMonotonic
<1>7. vehicle' = [vehicle EXCEPT !.challenge = <<"NONCE", run>>]
  BY DEF Payload, Frame
<1>8. <<"NONCE", run>> \in Payloads
  BY <1>1, RunsAssumption DEF Payloads, Ids, Runs
<1>9. TypeOK'
  BY <1>2, <1>4, <1>7, <1>8 DEF TypeOK, Phases
<1>10. vehicle'.challenge = <<"NONCE", run>> /\ vehicle'.cert = vehicle.cert
  BY <1>7 DEF TypeOK
<1>11. NodesMatchPhase'
  BY <1>2, <1>10 DEF NodesMatchPhase
<1>12. RunsInOrder' /\ EarlierRunsRaised'
  BY <1>1, <1>2 DEF RunsInOrder, EarlierRunsRaised, AfterHello
<1> QED
  BY <1>1, <1>2, <1>6, <1>9, <1>11, <1>12
     DEF PhaseMatchesState, OneSessionPerConnection, SessionRestsOnAgreement,
         OnlyFirstHelloCanSucceed

\* The one signature in the queue is over what the battery stored.
LEMMA BatterySignsStep == IInv /\ BatterySigns => IInv'
<1> SUFFICES ASSUME IInv, BatterySigns PROVE IInv'
  OBVIOUS
<1> USE DEF SignAndRespond
<1> DEFINE data == Payload(Head(bus))
           sig == [Frame("SIGNATURE") EXCEPT !.over = data]
<1> USE DEF IInv
<1>1. run \in Runs /\ sm = "CHALLENGE_SENT" /\ sessions = {}
  BY DEF BatterySigns, RunsInOrder, PhaseMatchesState, OneSessionPerConnection
<1>2. PICK fate \in Fates : bus' = Tail(bus) \o Copies(sig, fate)
  BY DEF BatterySigns
<1>3. /\ Head(bus) \in QueuedFrames
      /\ Tail(bus) \in Seq(QueuedFrames) /\ Tail(bus) \in Seq(Frames)
  BY HeadTailProperties DEF BatterySigns, TypeOK
<1>4. data \in Payloads /\ data[2] = run
  BY <1>1, <1>3, RunsAssumption DEF QueuedFrames, Frames, Payload, Payloads, Runs
<1>5. battery' = [battery EXCEPT !.challenge = data] /\ battery'.challenge = data
      /\ battery'.session = battery.session
  BY DEF BatterySigns, TypeOK
<1>6. pc' = "verify_sig" /\ UNCHANGED <<run, sm, sessions, rx, vehicle, outcome>>
  BY DEF BatterySigns
<1>7. sig \in Frames /\ sig.run = run /\ sig.over = data
  BY <1>1, <1>4 DEF Frame, Frames, Ids
<1>8. sig \in QueuedFrames'
  BY <1>5, <1>6, <1>7 DEF QueuedFrames, AfterSigning
<1>9. QueuedFrames \subseteq QueuedFrames'
  BY <1>6 DEF QueuedFrames, AfterSigning, BatterySigns
<1>10. Tail(bus) \in Seq(QueuedFrames')
  BY <1>3, <1>9, SeqMonotonic
<1>11. bus' \in Seq(QueuedFrames') /\ bus' \in Seq(Frames)
  BY <1>2, <1>3, <1>7, <1>8, <1>10, CopiesAreFrames, ConcatProperties
<1>12. TypeOK'
  BY <1>4, <1>5, <1>6, <1>11 DEF TypeOK, Phases
<1>13. NodesMatchPhase'
  BY <1>4, <1>5, <1>6 DEF NodesMatchPhase, BatterySigns
<1>14. RunsInOrder' /\ EarlierRunsRaised'
  BY <1>1, <1>6 DEF RunsInOrder, EarlierRunsRaised, AfterHello, BatterySigns
<1> QED
  BY <1>1, <1>6, <1>11, <1>12, <1>13, <1>14
     DEF PhaseMatchesState, OneSessionPerConnection, SessionRestsOnAgreement,
         OnlyFirstHelloCanSucceed

\* A refused signature registers nothing.
LEMMA AuthenticationDeniedStep == IInv /\ AuthenticationDenied => IInv'
<1> SUFFICES ASSUME IInv, AuthenticationDenied PROVE IInv'
  OBVIOUS
<1> USE DEF IInv, AuthenticationDenied
<1>1. Tail(bus) \in Seq(QueuedFrames) /\ Tail(bus) \in Seq(Frames)
  BY HeadTailProperties DEF TypeOK
<1>2. QueuedFrames \subseteq QueuedFrames'
  BY DEF QueuedFrames, AfterSigning
<1>3. bus' \in Seq(QueuedFrames')
  BY <1>1, <1>2, SeqMonotonic
<1>4. TypeOK'
  BY <1>1 DEF TypeOK, Phases
<1>5. RunsInOrder' /\ EarlierRunsRaised' /\ NodesMatchPhase'
  BY DEF RunsInOrder, EarlierRunsRaised, NodesMatchPhase, AfterHello
<1> QED
  BY <1>3, <1>4, <1>5
     DEF PhaseMatchesState, OneSessionPerConnection, SessionRestsOnAgreement,
         OnlyFirstHelloCanSucceed

\* A verified signature is over the challenge of the vehicle, so the nodes agree.
LEMMA SessionCreatedStep == IInv /\ SessionCreated => IInv'
<1> SUFFICES ASSUME IInv, SessionCreated PROVE IInv'
  OBVIOUS
<1> USE DEF IInv
<1>1. run \in Runs /\ sm = "CHALLENGE_SENT" /\ sessions = {}
  BY DEF SessionCreated, RunsInOrder, PhaseMatchesState, OneSessionPerConnection
<1>2. sm' = "AUTHENTICATED" /\ pc' = "session" /\ outcome' = outcome
      /\ sessions' = {run} /\ UNCHANGED <<run, rx, vehicle, battery>>
  BY <1>1 DEF SessionCreated, Transition
<1>3. PICK fate \in Fates : bus' = Tail(bus) \o Copies(Frame("SESSION_ID"), fate)
  BY DEF SessionCreated
<1>4. /\ Head(bus) \in QueuedFrames
      /\ Tail(bus) \in Seq(QueuedFrames) /\ Tail(bus) \in Seq(Frames)
  BY HeadTailProperties DEF SessionCreated, TypeOK
<1>5. bus' \in Seq(Frames) /\ bus' \in Seq(QueuedFrames)
  BY <1>1, <1>3, <1>4, PlainFrameIsQueued, CopiesAreFrames, ConcatProperties DEF Ids
<1>6. QueuedFrames \subseteq QueuedFrames'
  BY <1>2 DEF QueuedFrames, AfterSigning
<1>7. bus' \in Seq(QueuedFrames')
  BY <1>5, <1>6, SeqMonotonic
<1>8. TypeOK'
  BY <1>1, <1>2, <1>5 DEF TypeOK, Phases
<1>9. /\ vehicle.cert = run
      /\ vehicle.challenge = <<"NONCE", run>>
      /\ battery.challenge = vehicle.challenge
  BY <1>4 DEF SessionCreated, ValidSignature, QueuedFrames, NodesMatchPhase
<1>10. NodesMatchPhase'
  BY <1>2, <1>9 DEF NodesMatchPhase
<1>11. RunsInOrder' /\ EarlierRunsRaised'
  BY <1>1, <1>2 DEF RunsInOrder, EarlierRunsRaised, AfterHello, SessionCreated, Runs
<1>12. PhaseMatchesState' /\ OneSessionPerConnection' /\ SessionRestsOnAgreement'
       /\ OnlyFirstHelloCanSucceed'
  BY <1>1, <1>2, <1>9
     DEF PhaseMatchesState, OneSessionPerConnection, SessionRestsOnAgreement,
         OnlyFirstHelloCanSucceed
<1> QED
  BY <1>7, <1>8, <1>10, <1>11, <1>12

\* The delivery of the session id completes the connection of this run.
LEMMA SessionDeliveryStep == IInv /\ SessionDelivery => IInv'
<1> SUFFICES ASSUME IInv, SessionDelivery PROVE IInv'
  OBVIOUS
<1> USE DEF IInv
<1> DEFINE data == Payload(Head(bus))
<1>1. run \in Runs /\ sm = "AUTHENTICATED"
  BY DEF SessionDelivery, RunsInOrder, PhaseMatchesState
<1>2. sm' = "ACTIVE_SESSION" /\ pc' = "report_active" /\ outcome' = outcome
      /\ bus' = Tail(bus) /\ UNCHANGED <<run, sessions, rx, vehicle>>
  BY <1>1 DEF SessionDelivery, Transition
<1>3. /\ Head(bus) \in QueuedFrames
      /\ Tail(bus) \in Seq(QueuedFrames) /\ Tail(bus) \in Seq(Frames)
  BY HeadTailProperties DEF SessionDelivery, TypeOK
<1>4. data \in Payloads /\ data[2] = run
  BY <1>1, <1>3, RunsAssumption DEF QueuedFrames, Frames, Payload, Payloads, Runs
<1>5. battery' = [battery EXCEPT !.session = data] /\ battery'.session = data
      /\ battery'.challenge = battery.challenge
  BY DEF SessionDelivery, TypeOK
<1>6. QueuedFrames \subseteq QueuedFrames'
  BY <1>2, <1>5 DEF QueuedFrames, AfterSigning
<1>7. bus' \in Seq(QueuedFrames')
  BY <1>2, <1>3, <1>6, SeqMonotonic
<1>8. TypeOK'
  BY <1>2, <1>3, <1>4, <1>5 DEF TypeOK, Phases
<1>9. NodesMatchPhase'
  BY <1>2, <1>4, <1>5 DEF NodesMatchPhase
<1>10. RunsInOrder' /\ EarlierRunsRaised'
  BY <1>1, <1>2 DEF RunsInOrder, EarlierRunsRaised, AfterHello, SessionDelivery
<1> QED
  BY <1>1, <1>2, <1>5, <1>7, <1>8, <1>9, <1>10
     DEF PhaseMatchesState, OneSessionPerConnection, SessionRestsOnAgreement,
         OnlyFirstHelloCanSucceed

\* The report records how the run ended.
LEMMA ReportStep == IInv /\ Report => IInv'
<1> SUFFICES ASSUME IInv, Report PROVE IInv'
  OBVIOUS
<1> USE DEF IInv
<1>1. PICK how \in {"active", "denied", "raised"} :
        pc' = "idle" /\ outcome' = [outcome EXCEPT ![run] = how]
  BY DEF Report, Leave
<1>2. UNCHANGED <<run, sm, sessions, bus, rx, vehicle, battery>>
      /\ pc \in AfterHello /\ sm # "DISCONNECTED"
  BY DEF Report, PhaseMatchesState, AfterHello
<1>3. run \in Runs /\ run \in Nat
  BY DEF Report, RunsInOrder, Runs
<1>4. QueuedFrames \subseteq QueuedFrames'
  BY <1>1, <1>2 DEF QueuedFrames, AfterSigning
<1>5. bus' \in Seq(QueuedFrames')
  BY <1>2, <1>4, SeqMonotonic
<1>6. TypeOK'
  BY <1>1, <1>2, <1>3 DEF TypeOK, Phases, Outcomes
<1>7. RunsInOrder' /\ NodesMatchPhase'
  BY <1>1, <1>2, <1>3 DEF RunsInOrder, NodesMatchPhase, TypeOK, Runs
<1>8. EarlierRunsRaised'
  BY <1>1, <1>2 DEF EarlierRunsRaised, AfterHello
<1>9. OnlyFirstHelloCanSucceed'
  <2> SUFFICES ASSUME NEW r \in Runs, NEW s \in Runs, r < s,
                      outcome'[s] = "active"
               PROVE  outcome'[r] = "raised"
    BY DEF OnlyFirstHelloCanSucceed
  <2>1. r \in Nat /\ s \in Nat
    BY DEF Runs
  <2>2. CASE s = run
    BY <1>1, <1>2, <2>1, <2>2 DEF EarlierRunsRaised, TypeOK
  <2>3. CASE s # run
    BY <1>1, <1>3, <2>1, <2>3
       DEF OnlyFirstHelloCanSucceed, RunsInOrder, TypeOK
  <2> QED
    BY <2>2, <2>3
<1> QED
  BY <1>1, <1>2, <1>5, <1>6, <1>7, <1>8, <1>9
     DEF PhaseMatchesState, OneSessionPerConnection, SessionRestsOnAgreement

\* Every step of the object preserves the invariant.
LEMMA NextPreserves == IInv /\ [Next]_vars => IInv'
<1> SUFFICES ASSUME IInv, [Next]_vars PROVE IInv'
  OBVIOUS
<1>1. CASE Startup               BY <1>1, StartupStep
<1>2. CASE AuthRequest           BY <1>2, AuthRequestStep
<1>3. CASE CertificateExchange   BY <1>3, CertificateExchangeStep
<1>4. CASE Hello                 BY <1>4, HelloStep
<1>5. CASE UndecodableCertificate BY <1>5, UndecodableCertificateStep
<1>6. CASE CertificateVerification BY <1>6, CertificateVerificationStep
<1>7. CASE Challenge             BY <1>7, ChallengeStep
<1>8. CASE NothingReceived       BY <1>8, NothingReceivedStep
<1>9. CASE BatterySigns          BY <1>9, BatterySignsStep
<1>10. CASE AuthenticationDenied BY <1>10, AuthenticationDeniedStep
<1>11. CASE SessionCreated       BY <1>11, SessionCreatedStep
<1>12. CASE UndecodableSession   BY <1>12, UndecodableSessionStep
<1>13. CASE SessionDelivery      BY <1>13, SessionDeliveryStep
<1>14. CASE Report               BY <1>14, ReportStep
<1>15. CASE UNCHANGED vars
  BY <1>15 DEF vars, IInv, TypeOK, PhaseMatchesState, OneSessionPerConnection,
     SessionRestsOnAgreement, OnlyFirstHelloCanSucceed, RunsInOrder,
     NodesMatchPhase, EarlierRunsRaised, QueuedFrames
<1> QED
  BY <1>1, <1>2, <1>3, <1>4, <1>5, <1>6, <1>7, <1>8, <1>9, <1>10, <1>11, <1>12,
     <1>13, <1>14, <1>15 DEF Next, Phase

-----------------------------------------------------------------------------

\* The invariant holds in every reachable state.
LEMMA Invariance == Spec => []IInv
BY InitEstablishes, NextPreserves, PTL DEF Spec

\* Every variable of the orchestrator always holds a value the program gives
\* it, whatever the number of runs and the fate of the frames.
THEOREM TypeCorrect == Spec => []TypeOK
BY Invariance, PTL DEF IInv

\* The phase of run() and the connection state never drift apart, so no
\* transition after the hello is refused and the assertion of run() holds.
THEOREM PhaseLockstep == Spec => []PhaseMatchesState
BY Invariance, PTL DEF IInv

\* At most one session is ever registered by one orchestrator object, and
\* one is registered exactly when the connection is past authentication.
THEOREM OneSession == Spec => []OneSessionPerConnection
BY Invariance, PTL DEF IInv

\* A session is only registered after vehicle and battery of the same run
\* agreed on certificate and challenge, however frames shift in the queue.
THEOREM Agreement == Spec => []SessionRestsOnAgreement
BY Invariance, PTL DEF IInv

\* Nothing of an earlier run reaches the nodes of a later one.
THEOREM RunsAreSeparate == Spec => []NoDataFromEarlierRun
<1>1. IInv => NoDataFromEarlierRun
  <2> SUFFICES ASSUME IInv PROVE NoDataFromEarlierRun
    OBVIOUS
  <2>1. \A i \in 1..Len(bus) : bus[i] \in QueuedFrames
    BY ElementOfSeq DEF IInv
  <2> QED
    BY <2>1 DEF IInv, NodesMatchPhase, QueuedFrames, NoDataFromEarlierRun
<1> QED
  BY <1>1, Invariance, PTL

\* A run reaches ACTIVE_SESSION only when every earlier run on the object
\* ended in an exception, and after it none does: the object is single-use.
THEOREM SingleUse == Spec => []OnlyFirstHelloCanSucceed
BY Invariance, PTL DEF IInv

\* Every step of the orchestrator is one operation of the connection state
\* machine of protocol/state_machine.py, or leaves the connection alone.
THEOREM Refinement == Spec => ImplementsConnection
<1>1. Init => Connection!Init
  BY DEF Init, Connection!Init
<1>2. [Next]_vars => [Connection!Advance]_sm
  BY DEF Next, Phase, vars, Startup, AuthRequest, CertificateExchange, Hello,
     UndecodableCertificate, CertificateVerification, Challenge, NothingReceived,
     BatterySigns, AuthenticationDenied, SessionCreated, UndecodableSession,
     SessionDelivery, Report, Transition, Connection!Advance,
     Connection!HelloReceived, Connection!CertificateVerified,
     Connection!ChallengeSent, Connection!Authenticated,
     Connection!SessionEstablished
<1> QED
  BY <1>1, <1>2, PTL DEF Spec, ImplementsConnection, Connection!OneConnection

-----------------------------------------------------------------------------
\* What a run that reports ACTIVE_SESSION has delivered

Late == {"SIGNATURE", "SESSION_ID"}

\* Behind a signature in the queue there are only signatures, so behind the one
\* that verified there is nothing older than it.
DeliveryInv ==
    /\ pc = "verify_sig" =>
         \A i, j \in 1..Len(bus) :
            i < j /\ bus[i].id = "SIGNATURE" => bus[j].id = "SIGNATURE"
    /\ pc = "session" => \A i \in 1..Len(bus) : bus[i].id \in Late
    /\ pc = "report_active" => battery.session \in Late \X {run}
    /\ ActiveMeansDelivered

\* The places of a queue to which copies of a frame are added.
LEMMA AfterSend ==
    ASSUME NEW queue \in Seq(Frames), NEW f \in Frames, NEW fate \in Fates,
           NEW i \in 1..Len(queue \o Copies(f, fate))
    PROVE  \/ i \in 1..Len(queue) /\ (queue \o Copies(f, fate))[i] = queue[i]
           \/ i > Len(queue) /\ (queue \o Copies(f, fate))[i] = f
<1>1. /\ Copies(f, fate) \in Seq(Frames)
      /\ \A j \in 1..Len(Copies(f, fate)) : Copies(f, fate)[j] = f
  BY FatesAssumption DEF Copies
<1> DEFINE copies == Copies(f, fate)
<1> HIDE DEF copies
<1>2. /\ copies \in Seq(Frames) /\ \A j \in 1..Len(copies) : copies[j] = f
      /\ i \in 1..Len(queue \o copies)
  BY <1>1 DEF copies
<1>3. /\ Len(queue) \in Nat /\ Len(copies) \in Nat
      /\ Len(queue \o copies) = Len(queue) + Len(copies)
      /\ \A j \in 1..(Len(queue) + Len(copies)) :
           (queue \o copies)[j] = IF j <= Len(queue) THEN queue[j]
                                                     ELSE copies[j - Len(queue)]
  BY <1>2, ConcatProperties, LenProperties
<1>4. CASE i <= Len(queue)
  BY <1>2, <1>3, <1>4 DEF copies
<1>5. CASE i > Len(queue)
  <2>1. i - Len(queue) \in 1..Len(copies)
    BY <1>2, <1>3, <1>5
  <2> QED
    BY <1>2, <1>3, <1>5, <2>1 DEF copies
<1> QED
  BY <1>2, <1>3, <1>4, <1>5

\* The places of a queue from which the first frame was taken.
LEMMA AfterReceive ==
    ASSUME NEW queue \in Seq(Frames), queue # << >>
    PROVE  /\ Tail(queue) \in Seq(Frames)
           /\ 1 \in 1..Len(queue) /\ Head(queue) = queue[1]
           /\ \A i \in 1..Len(Tail(queue)) :
                i + 1 \in 1..Len(queue) /\ i + 1 > 1 /\ Tail(queue)[i] = queue[i + 1]
  BY EmptySeq, HeadTailProperties

LEMMA BatterySignsDelivers == IInv /\ BatterySigns => DeliveryInv'
<1> SUFFICES ASSUME IInv, BatterySigns PROVE DeliveryInv'
  OBVIOUS
<1> DEFINE sig == SignAndRespond(Payload(Head(bus)))
<1>1. /\ pc = "sign" /\ bus \in Seq(Frames) /\ bus # << >> /\ bus \in Seq(QueuedFrames)
      /\ run \in Runs /\ outcome[run] = "none"
      /\ pc' = "verify_sig" /\ UNCHANGED <<run, outcome>>
  BY DEF BatterySigns, IInv, TypeOK, RunsInOrder
<1>2. PICK fate \in Fates : bus' = Tail(bus) \o Copies(sig, fate)
  BY DEF BatterySigns
<1>3. sig \in Frames /\ sig.id = "SIGNATURE"
  <2>1. Head(bus) \in Frames
    BY <1>1, AfterReceive, ElementOfSeq
  <2>2. Payload(Head(bus)) \in Payloads
    BY <2>1, RunsAssumption DEF Payload, Payloads, Frames, Runs
  <2> QED
    BY <1>1, <2>2, RunsAssumption DEF SignAndRespond, Frame, Frames, Ids
<1> HIDE DEF sig
<1>4. \A i \in 1..Len(bus) : bus[i].id # "SIGNATURE"
  <2>1. \A i \in 1..Len(bus) : bus[i] \in QueuedFrames
    BY <1>1, ElementOfSeq
  <2> QED
    BY <1>1, <2>1 DEF QueuedFrames, AfterSigning
<1>5. Tail(bus) \in Seq(Frames) /\ Len(Tail(bus)) \in Nat
      /\ \A i \in 1..Len(Tail(bus)) : Tail(bus)[i].id # "SIGNATURE"
  BY <1>1, <1>4, AfterReceive, LenProperties
<1>6. \A i \in 1..Len(bus') :
        \/ i <= Len(Tail(bus)) /\ bus'[i].id # "SIGNATURE"
        \/ i > Len(Tail(bus)) /\ bus'[i].id = "SIGNATURE"
  <2>1. \A i \in 1..Len(bus') :
          \/ i \in 1..Len(Tail(bus)) /\ bus'[i] = Tail(bus)[i]
          \/ i > Len(Tail(bus)) /\ bus'[i] = sig
    BY <1>2, <1>3, <1>5, AfterSend
  <2> QED
    BY <1>3, <1>5, <2>1
<1>7. \A i, j \in 1..Len(bus') :
        i < j /\ bus'[i].id = "SIGNATURE" => bus'[j].id = "SIGNATURE"
  BY <1>5, <1>6
<1> QED
  BY <1>1, <1>7 DEF DeliveryInv, ActiveMeansDelivered

\* The signature that verified was the first in the queue.
LEMMA SessionCreatedDelivers == IInv /\ DeliveryInv /\ SessionCreated => DeliveryInv'
<1> SUFFICES ASSUME IInv, DeliveryInv, SessionCreated PROVE DeliveryInv'
  OBVIOUS
<1>1. /\ pc = "verify_sig" /\ bus \in Seq(Frames) /\ bus # << >>
      /\ run \in Runs /\ outcome[run] = "none" /\ sm = "CHALLENGE_SENT"
      /\ Head(bus).id = "SIGNATURE"
  BY DEF SessionCreated, ValidSignature, IInv, TypeOK, RunsInOrder, PhaseMatchesState
<1>2. pc' = "session" /\ UNCHANGED <<run, outcome>>
  BY <1>1 DEF SessionCreated, Transition
<1>3. PICK fate \in Fates : bus' = Tail(bus) \o Copies(Frame("SESSION_ID"), fate)
  BY DEF SessionCreated
<1>4. Frame("SESSION_ID") \in Frames /\ Frame("SESSION_ID").id = "SESSION_ID"
  BY <1>1, PlainFrameIsQueued DEF Ids, Frame
<1>5. /\ Tail(bus) \in Seq(Frames)
      /\ \A i \in 1..Len(Tail(bus)) : Tail(bus)[i].id = "SIGNATURE"
  BY <1>1, AfterReceive DEF DeliveryInv
<1>6. \A i \in 1..Len(bus') : bus'[i].id \in Late
  <2>1. \A i \in 1..Len(bus') :
          \/ i \in 1..Len(Tail(bus)) /\ bus'[i] = Tail(bus)[i]
          \/ i > Len(Tail(bus)) /\ bus'[i] = Frame("SESSION_ID")
    BY <1>3, <1>4, <1>5, AfterSend
  <2> QED
    BY <1>4, <1>5, <2>1 DEF Late
<1> QED
  BY <1>1, <1>2, <1>6 DEF DeliveryInv, ActiveMeansDelivered

\* What the battery is handed comes from behind the signature.
LEMMA SessionDeliveryDelivers == IInv /\ DeliveryInv /\ SessionDelivery => DeliveryInv'
<1> SUFFICES ASSUME IInv, DeliveryInv, SessionDelivery PROVE DeliveryInv'
  OBVIOUS
<1>1. /\ pc = "session" /\ bus \in Seq(Frames) /\ bus # << >>
      /\ run \in Runs /\ outcome[run] = "none" /\ sm = "AUTHENTICATED"
  BY DEF SessionDelivery, IInv, TypeOK, RunsInOrder, PhaseMatchesState
<1>2. pc' = "report_active" /\ UNCHANGED <<run, outcome>>
  BY <1>1 DEF SessionDelivery, Transition
<1>3. battery'.session = Payload(Head(bus))
  BY DEF SessionDelivery, IInv, TypeOK
<1>4. Head(bus).id \in Late
  BY <1>1, AfterReceive DEF DeliveryInv
<1>5. Head(bus).run = run
  <2>1. Head(bus) \in QueuedFrames
    BY <1>1, HeadTailProperties DEF IInv
  <2> QED
    BY <2>1 DEF QueuedFrames
<1>6. battery'.session \in Late \X {run}
  BY <1>3, <1>4, <1>5 DEF Payload
<1> QED
  BY <1>1, <1>2, <1>6 DEF DeliveryInv, ActiveMeansDelivered

LEMMA DeliveryPreserved == IInv /\ DeliveryInv /\ [Next]_vars => DeliveryInv'
<1> SUFFICES ASSUME IInv, DeliveryInv, [Next]_vars PROVE DeliveryInv'
  OBVIOUS
<1>1. run \in Nat /\ outcome \in [Runs -> Outcomes]
  BY RunsAssumption DEF IInv, TypeOK, Runs
<1>2. pc # "idle" => run \in Runs /\ outcome[run] = "none"
  BY DEF IInv, RunsInOrder
<1>3. CASE Startup
  <2>1. pc' = "auth_request" /\ run' \in Runs /\ run' > run /\ outcome' = outcome
    BY <1>1, <1>3, RunsAssumption DEF Startup, Runs, IInv, TypeOK
  <2>2. outcome'[run'] = "none"
    BY <2>1 DEF IInv, RunsInOrder
  <2> QED
    BY <2>1, <2>2 DEF DeliveryInv, ActiveMeansDelivered
<1>4. CASE AuthRequest \/ AuthenticationDenied
  <2>1. pc' \in {"certificate", "report_denied"} /\ UNCHANGED <<run, outcome>> /\ pc # "idle"
    BY <1>4 DEF AuthRequest, AuthenticationDenied
  <2> QED
    BY <1>2, <2>1 DEF DeliveryInv, ActiveMeansDelivered
<1>5. CASE \/ CertificateExchange \/ Hello \/ CertificateVerification \/ Challenge
           \/ UndecodableCertificate \/ NothingReceived \/ UndecodableSession
  <2>1. pc # "idle" /\ UNCHANGED run
    BY <1>5 DEF CertificateExchange, Hello, CertificateVerification, Challenge,
                UndecodableCertificate, NothingReceived, UndecodableSession
  <2>2. \/ pc' \in {"hello", "verify_cert", "challenge", "sign"} /\ outcome' = outcome
        \/ \E how \in {"aborted", "raised"} : Leave(how)
    BY <1>5 DEF CertificateExchange, Hello, CertificateVerification, Challenge,
                UndecodableCertificate, NothingReceived, UndecodableSession, Transition
  <2>3. CASE \E how \in {"aborted", "raised"} : Leave(how)
    <3>1. pc' = "idle" /\ outcome'[run] \in {"aborted", "raised"}
      BY <1>1, <1>2, <2>1, <2>3 DEF Leave
    <3> QED
      BY <2>1, <3>1 DEF DeliveryInv, ActiveMeansDelivered
  <2> QED
    BY <1>2, <2>1, <2>2, <2>3 DEF DeliveryInv, ActiveMeansDelivered
<1>6. CASE Report
  <2>1. pc' = "idle" /\ UNCHANGED <<run, battery>>
    BY <1>6 DEF Report, Leave
  <2>2. outcome'[run] = "active" => pc = "report_active"
    BY <1>1, <1>2, <1>6 DEF Report, Leave
  <2>3. battery.session \in Late \X {run} =>
          battery.session \in {<<"SESSION_ID", run>>, <<"SIGNATURE", run>>}
    BY DEF Late
  <2> QED
    BY <2>1, <2>2, <2>3 DEF DeliveryInv, ActiveMeansDelivered
<1>7. CASE UNCHANGED vars
  BY <1>7 DEF vars, DeliveryInv, ActiveMeansDelivered
<1> QED
  BY <1>3, <1>4, <1>5, <1>6, <1>7, BatterySignsDelivers, SessionCreatedDelivers,
     SessionDeliveryDelivers DEF Next, Phase

\* A run that reports ACTIVE_SESSION has handed the battery its own session id
\* or a second copy of its signature, never nothing and nothing that was sent
\* before the battery signed (phases 10 to 12 of run()).
THEOREM ActiveRunsDelivered == Spec => []ActiveMeansDelivered
<1>1. Init => DeliveryInv
  BY DEF Init, DeliveryInv, ActiveMeansDelivered
<1>2. DeliveryInv => ActiveMeansDelivered
  BY DEF DeliveryInv
<1> QED
  BY <1>1, <1>2, DeliveryPreserved, Invariance, PTL DEF Spec
=============================================================================
