------------------------------ MODULE AteccLink ------------------------------
(***************************************************************************)
(* The serial link between the hardware key provider ATECC608 of           *)
(* crypto/keys/atecc608.py (the host) and the sketch                       *)
(* hardware/atecc_bridge.ino (the bridge) that drives the secure element.  *)
(*                                                                         *)
(* The host writes one command and reads one line; when no line came       *)
(* within the port's timeout, readline() returns an empty string; and the  *)
(* program may be stopped while it is in there.  The bridge answers the    *)
(* commands it receives, one line each, in order, and as late as it likes. *)
(* Nothing on the wire says which command a line answers: the field `q` of *)
(* a command or a line, the number of the query, exists only in the model. *)
(* The n-th query signs the n-th message.  (A line that the timeout cuts   *)
(* in two, which readline() returns in parts, is not modelled.)            *)
(***************************************************************************)
EXTENDS Naturals, Sequences

CONSTANTS
    MaxQueries     \* bound: the number of queries the host makes

ASSUME QueriesAssumption == MaxQueries \in Nat \ {0}

VARIABLES
    open,       \* self._ser is not None
    connected,  \* self.connected
    waiting,    \* the query readline() is blocked on, or NoQuery
    queries,    \* how many queries were written so far
    toBridge,   \* commands written, not yet processed by loop()
    toHost,     \* lines printed by the bridge, not yet read
    slotKey,    \* how often the key pair in slot 0 was created
    fresh,      \* whether the board was reset when the port was opened
    results,    \* what each call gave its caller (history)
    unanswered  \* how many reads ended without a line, because they timed
                \* out or the program was stopped in them (history)

vars == <<open, connected, waiting, queries, toBridge, toHost, slotKey, fresh,
          results, unanswered>>

\* VERIFYBAD is a VERIFY of a signature that is not one of its message.
Commands == {"PING", "SIGN", "PUBKEY", "GENKEY", "VERIFY", "VERIFYBAD"}
Queries == 1..MaxQueries
Command == [cmd : Commands, q : Queries]
NoQuery == [cmd |-> "NONE", q |-> 0]

\* A line printed by the bridge; `key` numbers the key pair a signature was
\* made with, whose public key was sent, or that was created.
Line == [tag : {"PONG", "SIG", "PUB", "OK", "VERIFY:1", "VERIFY:0", "ERR"},
         q : 0..MaxQueries, key : 0..MaxQueries]
EmptyLine == [tag |-> "EMPTY", q |-> 0, key |-> 0]

\* The answer each command is meant to get.
Expected == [PING |-> "PONG", SIGN |-> "SIG", PUBKEY |-> "PUB", GENKEY |-> "OK",
             VERIFY |-> "VERIFY:1", VERIFYBAD |-> "VERIFY:0"]

\* A finished call: the command, the query it wrote, and the query whose
\* answer it returned (with its key), 0 when it raised or was stopped; `fresh` as it
\* was for the connection the call was made on.
Result == [cmd : Commands, asked : Queries, answered : 0..MaxQueries,
           key : 0..MaxQueries, fresh : BOOLEAN]

Init ==
    /\ open = FALSE
    /\ connected = FALSE
    /\ waiting = NoQuery
    /\ queries = 0
    /\ toBridge = << >>
    /\ toHost = << >>
    /\ slotKey = 0
    /\ fresh = FALSE
    /\ results = << >>
    /\ unanswered = 0

-----------------------------------------------------------------------------
\* The host

\* _query(), first half: write the line and start reading.
Write(cmd) ==
    /\ queries < MaxQueries
    /\ queries' = queries + 1
    /\ waiting' = [cmd |-> cmd, q |-> queries + 1]

\* connect(): open the port, drop what the driver has buffered, send PING.
\* Opening the port may reset the board, as its wiring has it.  It then
\* forgets the commands it had, may miss the PING while it boots, and prints
\* an error when setup() does not find the chip.
Connect ==
    /\ ~open /\ waiting = NoQuery
    /\ open' = TRUE
    /\ Write("PING")
    /\ \E reset, heard, chipFound \in BOOLEAN :
         /\ ~reset => heard /\ chipFound
         /\ fresh' = reset
         /\ toBridge' = (IF reset THEN << >> ELSE toBridge)
                           \o (IF heard THEN <<waiting'>> ELSE << >>)
         /\ toHost' = IF chipFound THEN << >>
                                   ELSE <<[tag |-> "ERR", q |-> 0, key |-> 0]>>
    /\ UNCHANGED <<connected, slotKey, results, unanswered>>

\* Mutant of Call: the command is written twice, in case it gets lost.
Call_Twice(cmd) ==
    /\ connected /\ waiting = NoQuery
    /\ Write(cmd)
    /\ toBridge' = toBridge \o <<waiting', waiting'>>
    /\ UNCHANGED <<open, connected, toHost, slotKey, fresh, results, unanswered>>

\* sign(), get_public_key() and genkey(): refused until connected.
Call(cmd) ==
    /\ connected /\ waiting = NoQuery
    /\ Write(cmd)
    /\ toBridge' = Append(toBridge, waiting')
    /\ UNCHANGED <<open, connected, toHost, slotKey, fresh, results, unanswered>>

Sign == Call("SIGN")
GetPublicKey == Call("PUBKEY")
GenKey == Call("GENKEY")

\* The queries of the compatibility test, which tests the answers itself.
Verify == Call("VERIFY") \/ Call("VERIFYBAD")

\* The call that waits is over, with this line.
AsExpected(line) == line.tag = Expected[waiting.cmd]
Ended(line) ==
    /\ waiting' = NoQuery
    /\ results' = Append(results,
         [cmd |-> waiting.cmd, asked |-> waiting.q,
          answered |-> IF AsExpected(line) THEN line.q ELSE 0, key |-> line.key,
          fresh |-> fresh])

\* _query(), second half, and the caller's test of the answer.  A failed PING
\* closes the port; any other unexpected line raises and leaves it open.
Finish(line) ==
    /\ Ended(line)
    /\ IF waiting.cmd = "PING"
       THEN connected' = AsExpected(line) /\ open' = AsExpected(line)
       ELSE UNCHANGED <<connected, open>>

\* Mutant of ReadLine: the newest line is read before the older ones.
ReadLine_Newest ==
    /\ waiting # NoQuery
    /\ toHost # << >>
    /\ Finish(toHost[Len(toHost)])
    /\ toHost' = IF open' THEN SubSeq(toHost, 1, Len(toHost) - 1) ELSE << >>
    /\ UNCHANGED <<queries, toBridge, slotKey, fresh, unanswered>>

\* readline() returns the oldest line that has arrived.
ReadLine ==
    /\ waiting # NoQuery
    /\ toHost # << >>
    /\ Finish(Head(toHost))
    /\ toHost' = IF open' THEN Tail(toHost) ELSE << >>
    /\ UNCHANGED <<queries, toBridge, slotKey, fresh, unanswered>>

\* Mutant of Timeout: the port is opened without a timeout.
Timeout_Never == FALSE

\* readline() gives up after self.timeout seconds without a line.
Timeout ==
    /\ waiting # NoQuery
    /\ toHost = << >>
    /\ Finish(EmptyLine)
    /\ unanswered' = unanswered + 1
    /\ UNCHANGED <<queries, toBridge, toHost, slotKey, fresh>>

\* The program is stopped while readline() waits; the system closes the port,
\* and the answer is still to come.
Stop ==
    /\ waiting # NoQuery
    /\ Ended(EmptyLine)
    /\ open' = FALSE
    /\ connected' = FALSE
    /\ toHost' = << >>
    /\ unanswered' = unanswered + 1
    /\ UNCHANGED <<queries, toBridge, slotKey, fresh>>

\* close()
Close ==
    /\ open /\ waiting = NoQuery
    /\ open' = FALSE
    /\ connected' = FALSE
    /\ toHost' = << >>
    /\ UNCHANGED <<waiting, queries, toBridge, slotKey, fresh, results, unanswered>>

-----------------------------------------------------------------------------
\* The bridge: one iteration of loop() for one command.  What it prints while
\* the port is closed reaches nobody.

Answer(cmd, tag, key) ==
    /\ toBridge # << >>
    /\ Head(toBridge).cmd = cmd
    /\ toBridge' = Tail(toBridge)
    /\ toHost' = IF open
                 THEN Append(toHost, [tag |-> tag, q |-> Head(toBridge).q, key |-> key])
                 ELSE toHost
    /\ UNCHANGED <<open, connected, waiting, queries, fresh, results, unanswered>>

BridgePing == Answer("PING", "PONG", 0) /\ UNCHANGED slotKey
BridgeSign == Answer("SIGN", "SIG", slotKey) /\ UNCHANGED slotKey
BridgePubKey == Answer("PUBKEY", "PUB", slotKey) /\ UNCHANGED slotKey
BridgeGenKey == Answer("GENKEY", "OK", slotKey + 1) /\ slotKey' = slotKey + 1

\* verifySignature() says no as well when the chip does not answer.
BridgeVerify ==
    /\ \/ Answer("VERIFY", "VERIFY:1", 0)
       \/ \E cmd \in {"VERIFY", "VERIFYBAD"} : Answer(cmd, "VERIFY:0", 0)
    /\ UNCHANGED slotKey

\* The library reports a failure of the chip.
BridgeChipError ==
    /\ \E cmd \in {"SIGN", "PUBKEY", "GENKEY"} : Answer(cmd, "ERR", 0)
    /\ UNCHANGED slotKey

-----------------------------------------------------------------------------

Host == Connect \/ Sign \/ GetPublicKey \/ GenKey \/ Verify
            \/ ReadLine \/ Timeout \/ Stop \/ Close
Bridge == BridgePing \/ BridgeSign \/ BridgePubKey \/ BridgeGenKey \/ BridgeVerify
              \/ BridgeChipError
Next == Host \/ Bridge

Spec == Init /\ [][Next]_vars

\* readline() returns, with a line or after the timeout of the port.  Nothing
\* is assumed of the bridge: the board may be unplugged.
FairSpec == Spec /\ WF_vars(ReadLine \/ Timeout)

-----------------------------------------------------------------------------
\* Properties

TypeOK ==
    /\ open \in BOOLEAN /\ connected \in BOOLEAN
    /\ waiting \in Command \cup {NoQuery}
    /\ queries \in 0..MaxQueries
    /\ toBridge \in Seq(Command)
    /\ toHost \in Seq(Line)
    /\ slotKey \in 0..MaxQueries
    /\ fresh \in BOOLEAN
    /\ results \in Seq(Result)
    /\ unanswered \in Nat

Returned(i) == results[i].answered # 0

\* The answer a call returns was made for it or for an earlier call, and no
\* two calls are given the same answer: answers may be late, but they are
\* never repeated and never overtake each other.
AnswersInOrder ==
    \A i \in 1..Len(results) :
        Returned(i) =>
            /\ results[i].answered <= results[i].asked
            /\ \A j \in 1..(i - 1) :
                 results[j].answered < results[i].answered

\* As long as every read has ended with a line and no connect() has failed,
\* every call that returns got the answer to its own command, over any number
\* of connections and resets of the board.  (A board that prints a setup error
\* on opening leaves the answer to that PING behind, like a timeout does.)
InSyncWhileAnswered ==
    unanswered = 0 /\ (\A i \in 1..Len(results) : results[i].cmd = "PING" => Returned(i)) =>
        \A i \in 1..Len(results) :
            Returned(i) => results[i].answered = results[i].asked

\* What sign() returns is a signature of the message it was given.
SignsWhatWasAsked ==
    \A i \in 1..Len(results) :
        results[i].cmd = "SIGN" /\ Returned(i) =>
            results[i].answered = results[i].asked

\* Every call returns or raises, even when the board never answers.
EveryCallReturns == (waiting # NoQuery) ~> (waiting = NoQuery)
=============================================================================
