-------------------------- MODULE AteccLink_proofs --------------------------
(***************************************************************************)
(* Which answers the calls of the host get, for any number of queries and  *)
(* whatever the board does.  Nothing on the wire numbers the queries; the  *)
(* invariant says that they are in order all the same: the answers given,  *)
(* the lines on their way and the commands not yet processed are, in this  *)
(* order, one increasing sequence.  While every read ended with a line,    *)
(* the query the host waits for is the only one on its way.                *)
(***************************************************************************)
EXTENDS AteccLink, SequenceTheorems, TLAPS

\* The numbers of the queries in a sequence of commands or lines increase.
Increasing(s) == \A i, j \in 1..Len(s) : i < j => s[i].q < s[j].q

\* Commands not yet processed: each is newer than every key pair.
BridgeInOrder ==
    /\ Increasing(toBridge)
    /\ slotKey <= queries
    /\ \A j \in 1..Len(toBridge) :
         slotKey < toBridge[j].q /\ toBridge[j].q <= queries

\* Lines on their way: of no query is only the error of a setup.
HostInOrder ==
    /\ Increasing(toHost)
    /\ \A i \in 1..Len(toHost) :
         /\ toHost[i].q <= queries
         /\ toHost[i].q = 0 => toHost[i].tag = "ERR"
         /\ \A j \in 1..Len(toBridge) : toHost[i].q < toBridge[j].q

\* Answers given: before all those that are on their way or still to be made.
GivenInOrder ==
    \A n \in 1..Len(results) :
        /\ results[n].answered <= queries
        /\ \A i \in 1..Len(toHost) :
             toHost[i].q # 0 => results[n].answered < toHost[i].q
        /\ \A j \in 1..Len(toBridge) : results[n].answered < toBridge[j].q

IInv ==
    /\ TypeOK
    /\ BridgeInOrder
    /\ HostInOrder
    /\ GivenInOrder
    /\ waiting # NoQuery => waiting.q = queries
    /\ AnswersInOrder

\* The host and the bridge are in step: the command of the waited query, or the
\* line that answers it, is all that is on its way, but for the error of a
\* setup in front of it; and a public key on its way is the one of the slot.
InStep ==
    /\ waiting = NoQuery => toBridge = << >> /\ toHost = << >>
    /\ waiting # NoQuery =>
         /\ \A j \in 1..Len(toBridge) : toBridge[j] = waiting
         /\ \A i \in 1..Len(toHost) :
              \/ toHost[i].q = 0 /\ waiting.cmd = "PING"
              \/ /\ toHost[i].q = waiting.q
                 /\ toHost[i].tag = "PUB" => toHost[i].key = slotKey

\* Every read has ended with a line, and no connect() has failed.
Undisturbed ==
    /\ unanswered = 0
    /\ \A n \in 1..Len(results) : results[n].cmd = "PING" => Returned(n)

SyncInv ==
    Undisturbed =>
        /\ InStep
        /\ \A n \in 1..Len(results) : Returned(n) => results[n].answered = results[n].asked

\* What the programs do to the link: AteccLink's next-state relation, with
\* calls of any command.
LinkStep ==
    \/ Connect \/ \E cmd \in Commands : Call(cmd)
    \/ ReadLine \/ Timeout \/ Stop \/ Close \/ Bridge

-----------------------------------------------------------------------------

\* What is behind the first of an increasing sequence increases, and is above it.
LEMMA RestIncreases ==
    ASSUME NEW s, NEW t, Len(s) \in Nat, Len(t) \in Nat, Increasing(s),
           \A i \in 1..Len(t) : i + 1 \in 1..Len(s) /\ t[i] = s[i + 1]
    PROVE  Increasing(t) /\ \A i \in 1..Len(t) : s[1].q < t[i].q
<1>1. ASSUME NEW i \in 1..Len(t), NEW j \in 1..Len(t), i < j
      PROVE  t[i].q < t[j].q
  <2>1. /\ i + 1 \in 1..Len(s) /\ t[i] = s[i + 1]
        /\ j + 1 \in 1..Len(s) /\ t[j] = s[j + 1]
    OBVIOUS
  <2>2. i + 1 < j + 1
    BY <1>1
  <2>3. s[i + 1].q < s[j + 1].q
    BY <2>1, <2>2 DEF Increasing
  <2> QED
    BY <2>1, <2>3
<1>2. ASSUME NEW i \in 1..Len(t) PROVE s[1].q < t[i].q
  <2>1. i + 1 \in 1..Len(s) /\ t[i] = s[i + 1]
    OBVIOUS
  <2>2. 1 \in 1..Len(s) /\ 1 < i + 1
    BY <2>1
  <2>3. s[1].q < s[i + 1].q
    BY <2>1, <2>2 DEF Increasing
  <2> QED
    BY <2>1, <2>3
<1>3. Increasing(t)
  BY <1>1 DEF Increasing
<1> QED
  BY <1>2, <1>3

\* The types the steps below start from.
LEMMA Types ==
    ASSUME TypeOK
    PROVE  /\ MaxQueries \in Nat /\ queries \in Nat /\ slotKey \in Nat
           /\ toBridge \in Seq(Command) /\ Len(toBridge) \in Nat
           /\ toHost \in Seq(Line) /\ Len(toHost) \in Nat
           /\ results \in Seq(Result) /\ Len(results) \in Nat
           /\ \A j \in 1..Len(toBridge) : toBridge[j].q \in Nat
           /\ \A i \in 1..Len(toHost) : toHost[i].q \in Nat
           /\ \A n \in 1..Len(results) : results[n].answered \in Nat
<1>1. /\ MaxQueries \in Nat /\ queries \in Nat /\ slotKey \in Nat
      /\ toBridge \in Seq(Command) /\ toHost \in Seq(Line) /\ results \in Seq(Result)
  BY QueriesAssumption DEF TypeOK
<1>2. \A j \in 1..Len(toBridge) : toBridge[j] \in Command
  BY <1>1, ElementOfSeq
<1>3. \A i \in 1..Len(toHost) : toHost[i] \in Line
  BY <1>1, ElementOfSeq
<1>4. \A n \in 1..Len(results) : results[n] \in Result
  BY <1>1, ElementOfSeq
<1>5. \A j \in 1..Len(toBridge) : toBridge[j].q \in Nat
  BY <1>1, <1>2 DEF Command, Queries
<1>6. \A i \in 1..Len(toHost) : toHost[i].q \in Nat
  BY <1>1, <1>3 DEF Line
<1>7. \A n \in 1..Len(results) : results[n].answered \in Nat
  BY <1>1, <1>4 DEF Result
<1> QED
  BY <1>1, <1>5, <1>6, <1>7, LenProperties

\* A query written is newer than everything before it.
LEMMA NewCommand ==
    ASSUME TypeOK, NEW cmd \in Commands, Write(cmd)
    PROVE  /\ waiting' \in Command /\ waiting'.q = queries + 1 /\ waiting' # NoQuery
           /\ queries' = queries + 1 /\ queries' \in 0..MaxQueries
  BY Types DEF Write, Command, Queries, NoQuery, TypeOK

\* The commands on their way to the bridge, or none of them, with the new one or
\* without it.
LEMMA BridgeGrows ==
    ASSUME IInv, NEW cmd \in Commands, Write(cmd), UNCHANGED slotKey,
           toBridge' \in {<< >>, toBridge, <<waiting'>>, Append(toBridge, waiting')}
    PROVE  /\ toBridge' \in Seq(Command) /\ BridgeInOrder'
           /\ \A j \in 1..Len(toBridge') :
                \/ toBridge'[j].q = queries + 1
                \/ j \in 1..Len(toBridge) /\ toBridge'[j] = toBridge[j]
<1> USE DEF IInv
<1>1. /\ waiting' \in Command /\ waiting'.q = queries + 1 /\ queries' = queries + 1
      /\ queries \in Nat /\ slotKey \in Nat /\ toBridge \in Seq(Command)
      /\ Len(toBridge) \in Nat /\ \A j \in 1..Len(toBridge) : toBridge[j].q \in Nat
  BY NewCommand, Types
<1>2. CASE toBridge' = << >>
  BY <1>1, <1>2 DEF BridgeInOrder, Increasing
<1>3. CASE toBridge' = toBridge
  BY <1>1, <1>3 DEF BridgeInOrder, Increasing
<1>4. CASE toBridge' = <<waiting'>>
  <2>1. toBridge' \in Seq(Command) /\ Len(toBridge') = 1 /\ toBridge'[1] = waiting'
    BY <1>1, <1>4
  <2> QED
    BY <1>1, <2>1 DEF BridgeInOrder, Increasing
<1>5. CASE toBridge' = Append(toBridge, waiting')
  <2>1. /\ toBridge' \in Seq(Command) /\ Len(toBridge') = Len(toBridge) + 1
        /\ \A j \in 1..Len(toBridge) : toBridge'[j] = toBridge[j]
        /\ toBridge'[Len(toBridge) + 1] = waiting'
    BY <1>1, <1>5, AppendProperties
  <2>2. \A j \in 1..Len(toBridge') :
          j \in 1..Len(toBridge) \/ j = Len(toBridge) + 1
    BY <1>1, <2>1
  <2>3. Increasing(toBridge)'
    <3>1. SUFFICES ASSUME NEW i \in 1..Len(toBridge'), NEW j \in 1..Len(toBridge'), i < j
                   PROVE  toBridge'[i].q < toBridge'[j].q
      BY DEF Increasing
    <3>2. i \in 1..Len(toBridge) /\ toBridge'[i] = toBridge[i]
      BY <1>1, <2>1, <3>1
    <3>3. CASE j \in 1..Len(toBridge)
      BY <2>1, <3>1, <3>2, <3>3 DEF BridgeInOrder, Increasing
    <3>4. CASE j = Len(toBridge) + 1
      BY <1>1, <2>1, <3>2, <3>4 DEF BridgeInOrder
    <3> QED
      BY <2>2, <3>3, <3>4
  <2>4. \A j \in 1..Len(toBridge') :
          slotKey < toBridge'[j].q /\ toBridge'[j].q <= queries + 1
    BY <1>1, <2>1, <2>2 DEF BridgeInOrder
  <2> QED
    BY <1>1, <2>1, <2>2, <2>3, <2>4 DEF BridgeInOrder
<1> QED
  BY <1>2, <1>3, <1>4, <1>5

\* connect() opens the port and writes PING; what was in the driver is dropped.
LEMMA ConnectStep == IInv /\ Connect => IInv'
<1> SUFFICES ASSUME IInv, Connect PROVE IInv'
  OBVIOUS
<1> USE DEF IInv
<1>1. Write("PING") /\ "PING" \in Commands
      /\ UNCHANGED <<connected, slotKey, results, unanswered>>
  BY DEF Connect, Commands
<1>2. toBridge' \in {<< >>, toBridge, <<waiting'>>, Append(toBridge, waiting')}
  <2>1. toBridge \in Seq(Command) /\ waiting' \in Command
    BY <1>1, NewCommand, Types
  <2>2. /\ << >> \o << >> = << >> /\ << >> \o <<waiting'>> = <<waiting'>>
        /\ toBridge \o << >> = toBridge
        /\ toBridge \o <<waiting'>> = Append(toBridge, waiting')
    BY <2>1, AppendIsConcat, ConcatEmptySeq
  <2> QED
    BY <2>2 DEF Connect
<1>3. /\ toBridge' \in Seq(Command) /\ BridgeInOrder'
      /\ \A j \in 1..Len(toBridge') :
           \/ toBridge'[j].q = queries + 1
           \/ j \in 1..Len(toBridge) /\ toBridge'[j] = toBridge[j]
  BY <1>1, <1>2, BridgeGrows
<1>4. /\ waiting' \in Command /\ waiting'.q = queries + 1
      /\ queries' = queries + 1 /\ queries' \in 0..MaxQueries
      /\ queries \in Nat /\ slotKey \in Nat
      /\ \A n \in 1..Len(results) : results[n].answered \in Nat
      /\ \A j \in 1..Len(toBridge) : toBridge[j].q \in Nat
  BY <1>1, NewCommand, Types
<1>5. /\ toHost' \in Seq(Line)
      /\ \/ Len(toHost') = 0
         \/ Len(toHost') = 1 /\ toHost'[1].q = 0 /\ toHost'[1].tag = "ERR"
  <2>1. [tag |-> "ERR", q |-> 0, key |-> 0] \in Line
    BY Types DEF Line
  <2> QED
    BY <2>1 DEF Connect
<1>6. \A j \in 1..Len(toBridge') : toBridge'[j].q > 0
  BY <1>3, <1>4 DEF BridgeInOrder
<1>7. HostInOrder'
  BY <1>4, <1>5, <1>6 DEF HostInOrder, Increasing
<1>8. GivenInOrder'
  <2>1. \A i \in 1..Len(toHost') : toHost'[i].q = 0
    BY <1>5
  <2>2. \A n \in 1..Len(results) :
          /\ results[n].answered < queries + 1
          /\ \A j \in 1..Len(toBridge) : results[n].answered < toBridge[j].q
    BY <1>4 DEF GivenInOrder
  <2>3. \A n \in 1..Len(results) : \A j \in 1..Len(toBridge') :
          results[n].answered < toBridge'[j].q
    BY <1>3, <2>2
  <2> QED
    BY <1>1, <1>4, <2>1, <2>2, <2>3 DEF GivenInOrder
<1>9. TypeOK'
  BY <1>1, <1>3, <1>4, <1>5 DEF TypeOK, Connect
<1> QED
  BY <1>1, <1>3, <1>4, <1>7, <1>8, <1>9 DEF AnswersInOrder, Returned

\* A call writes its command behind those before it.
LEMMA CallStep == ASSUME IInv, NEW cmd \in Commands, Call(cmd) PROVE IInv'
<1> USE DEF IInv
<1>1. /\ Write(cmd) /\ toBridge' = Append(toBridge, waiting')
      /\ UNCHANGED <<open, connected, toHost, slotKey, fresh, results, unanswered>>
  BY DEF Call
<1>2. /\ toBridge' \in Seq(Command) /\ BridgeInOrder'
      /\ \A j \in 1..Len(toBridge') :
           \/ toBridge'[j].q = queries + 1
           \/ j \in 1..Len(toBridge) /\ toBridge'[j] = toBridge[j]
  BY <1>1, BridgeGrows
<1>3. /\ waiting' \in Command /\ waiting'.q = queries + 1
      /\ queries' = queries + 1 /\ queries' \in 0..MaxQueries /\ queries \in Nat
      /\ \A n \in 1..Len(results) : results[n].answered \in Nat
      /\ \A i \in 1..Len(toHost) : toHost[i].q \in Nat
      /\ \A j \in 1..Len(toBridge) : toBridge[j].q \in Nat
  BY <1>1, NewCommand, Types
<1>4. HostInOrder'
  <2>1. Increasing(toHost)'
    BY <1>1 DEF HostInOrder, Increasing
  <2>2. \A i \in 1..Len(toHost) :
          /\ toHost[i].q <= queries + 1
          /\ toHost[i].q = 0 => toHost[i].tag = "ERR"
          /\ \A j \in 1..Len(toBridge') : toHost[i].q < toBridge'[j].q
    BY <1>2, <1>3 DEF HostInOrder
  <2> QED
    BY <1>1, <1>3, <2>1, <2>2 DEF HostInOrder
<1>5. GivenInOrder'
  <2>1. \A n \in 1..Len(results) :
          /\ results[n].answered < queries + 1
          /\ \A j \in 1..Len(toBridge) : results[n].answered < toBridge[j].q
    BY <1>3 DEF GivenInOrder
  <2>2. \A n \in 1..Len(results) : \A j \in 1..Len(toBridge') :
          results[n].answered < toBridge'[j].q
    BY <1>2, <2>1
  <2> QED
    BY <1>1, <1>3, <2>1, <2>2 DEF GivenInOrder
<1>6. TypeOK'
  BY <1>1, <1>2, <1>3 DEF TypeOK
<1> QED
  BY <1>1, <1>2, <1>3, <1>4, <1>5, <1>6 DEF AnswersInOrder, Returned

\* A call gets a line that is newer than every answer given before, or raises.
LEMMA EndedStep ==
    ASSUME IInv, waiting # NoQuery, NEW line, Ended(line),
           line \in Line \/ line = EmptyLine,
           line.q <= queries,
           line.q = 0 => line.tag \in {"ERR", "EMPTY"},
           line.q # 0 => \A n \in 1..Len(results) : results[n].answered < line.q
    PROVE  /\ results' \in Seq(Result) /\ Len(results') = Len(results) + 1
           /\ \A n \in 1..Len(results) : results'[n] = results[n]
           /\ results'[Len(results) + 1].answered \in {0, line.q}
           /\ AnswersInOrder'
           /\ waiting' = NoQuery
<1> USE DEF IInv
<1> DEFINE asExpected == line.tag = Expected[waiting.cmd]
           given == IF asExpected THEN line.q ELSE 0
           r == [cmd |-> waiting.cmd, asked |-> waiting.q, answered |-> given,
                 key |-> line.key, fresh |-> fresh]
<1>1. /\ MaxQueries \in Nat /\ queries \in 0..MaxQueries
      /\ results \in Seq(Result) /\ Len(results) \in Nat
      /\ \A n \in 1..Len(results) : results[n].answered \in Nat
  BY Types DEF TypeOK
<1>2. waiting \in Command /\ waiting.q = queries /\ waiting.q \in Queries
      /\ waiting.cmd \in Commands
  BY DEF TypeOK, Command
<1>3. line.q \in 0..MaxQueries /\ line.key \in 0..MaxQueries
  BY <1>1 DEF Line, EmptyLine
<1>4. asExpected => line.q # 0
  BY <1>2 DEF Expected, Commands
<1>5. given \in 0..MaxQueries /\ given \in {0, line.q} /\ (given # 0 => given = line.q)
  BY <1>1, <1>3
<1>6. r \in Result
  BY <1>2, <1>3, <1>5 DEF Result, TypeOK
<1>7. results' = Append(results, r) /\ waiting' = NoQuery
  BY DEF Ended, AsExpected
<1>8. r.answered = given /\ r.asked = queries
  BY <1>2
<1> HIDE DEF r, given, asExpected
<1>9. /\ results' \in Seq(Result) /\ Len(results') = Len(results) + 1
      /\ \A n \in 1..Len(results) : results'[n] = results[n]
      /\ results'[Len(results) + 1] = r
  BY <1>1, <1>6, <1>7, AppendProperties
<1>10. AnswersInOrder'
  <2>1. SUFFICES ASSUME NEW i \in 1..Len(results'), results'[i].answered # 0
                 PROVE  /\ results'[i].answered <= results'[i].asked
                        /\ \A j \in 1..(i - 1) :
                             results'[j].answered < results'[i].answered
    BY DEF AnswersInOrder, Returned
  <2>2. CASE i \in 1..Len(results)
    <3>1. \A j \in 1..(i - 1) : results'[j] = results[j]
      BY <1>1, <1>9, <2>2
    <3> QED
      BY <1>9, <2>1, <2>2, <3>1 DEF AnswersInOrder, Returned
  <2>3. CASE i = Len(results) + 1
    <3>1. results'[i].answered = line.q /\ results'[i].asked = queries /\ line.q # 0
      BY <1>5, <1>8, <1>9, <2>1, <2>3
    <3>2. \A j \in 1..(i - 1) : results'[j].answered < line.q
      BY <1>1, <1>9, <2>3, <3>1
    <3> QED
      BY <3>1, <3>2
  <2> QED
    BY <1>1, <1>9, <2>2, <2>3
<1> QED
  BY <1>5, <1>7, <1>8, <1>9, <1>10

LEMMA FinishEnds ==
    ASSUME TypeOK, NEW line, Finish(line)
    PROVE  Ended(line) /\ open' \in BOOLEAN /\ connected' \in BOOLEAN
  BY DEF TypeOK, Finish, AsExpected

\* readline() takes the oldest line; behind it the order stays.
LEMMA ReadLineStep == IInv /\ ReadLine => IInv'
<1> SUFFICES ASSUME IInv, ReadLine PROVE IInv'
  OBVIOUS
<1> USE DEF IInv
<1> DEFINE line == Head(toHost)
<1>1. /\ queries \in Nat /\ Len(results) \in Nat /\ Len(toHost) \in Nat
      /\ toHost \in Seq(Line)
      /\ \A i \in 1..Len(toHost) : toHost[i].q \in Nat
      /\ \A j \in 1..Len(toBridge) : toBridge[j].q \in Nat
      /\ \A n \in 1..Len(results) : results[n].answered \in Nat
  BY Types
<1>2. /\ toHost # << >> /\ waiting # NoQuery /\ Finish(line)
      /\ toHost' \in {Tail(toHost), << >>}
      /\ UNCHANGED <<queries, toBridge, slotKey, fresh, unanswered>>
  BY DEF ReadLine
<1>3. Len(toHost) # 0 /\ line = toHost[1] /\ line \in Line
  BY <1>1, <1>2, EmptySeq, HeadTailProperties
<1>4. /\ toHost' \in Seq(Line) /\ Len(toHost') \in Nat
      /\ \A i \in 1..Len(toHost') : i + 1 \in 1..Len(toHost) /\ toHost'[i] = toHost[i + 1]
  <2>1. CASE toHost' = Tail(toHost)
    BY <1>1, <1>2, <1>3, <2>1, HeadTailProperties
  <2>2. CASE toHost' = << >>
    BY <2>2
  <2> QED
    BY <1>2, <2>1, <2>2
<1> HIDE DEF line
<1>5. /\ results' \in Seq(Result) /\ Len(results') = Len(results) + 1
      /\ \A n \in 1..Len(results) : results'[n] = results[n]
      /\ results'[Len(results) + 1].answered \in {0, line.q}
      /\ AnswersInOrder' /\ waiting' = NoQuery
      /\ open' \in BOOLEAN /\ connected' \in BOOLEAN
  <2>1. /\ line.q <= queries
        /\ line.q = 0 => line.tag \in {"ERR", "EMPTY"}
        /\ line.q # 0 => \A n \in 1..Len(results) : results[n].answered < line.q
    BY <1>1, <1>3 DEF HostInOrder, GivenInOrder
  <2> QED
    BY <1>2, <1>3, <2>1, EndedStep, FinishEnds
<1>6. BridgeInOrder'
  BY <1>2 DEF BridgeInOrder, Increasing
<1>7. HostInOrder'
  <2>1. Increasing(toHost)'
    <3>1. Increasing(toHost)
      BY DEF HostInOrder
    <3>2. Increasing(toHost')
      BY <1>1, <1>4, <3>1, RestIncreases, LenProperties
    <3> QED
      BY <3>2 DEF Increasing
  <2>2. \A i \in 1..Len(toHost') :
          /\ toHost'[i].q <= queries
          /\ toHost'[i].q = 0 => toHost'[i].tag = "ERR"
          /\ \A j \in 1..Len(toBridge) : toHost'[i].q < toBridge[j].q
    BY <1>4 DEF HostInOrder
  <2> QED
    BY <1>2, <2>1, <2>2 DEF HostInOrder
<1>8. GivenInOrder'
  <2>1. SUFFICES ASSUME NEW n \in 1..Len(results')
                 PROVE  /\ results'[n].answered <= queries
                        /\ \A i \in 1..Len(toHost') :
                             toHost'[i].q # 0 => results'[n].answered < toHost'[i].q
                        /\ \A j \in 1..Len(toBridge) :
                             results'[n].answered < toBridge[j].q
    BY <1>2 DEF GivenInOrder
  <2>2. CASE n \in 1..Len(results)
    BY <1>4, <1>5, <2>2 DEF GivenInOrder
  <2>3. CASE n = Len(results) + 1
    <3>1. results'[n].answered \in {0, line.q}
      BY <1>5, <2>3
    <3>2. line.q \in Nat /\ line.q <= queries
      BY <1>1, <1>3 DEF HostInOrder
    <3>3. \A i \in 1..Len(toHost') : toHost'[i].q \in Nat /\ line.q < toHost'[i].q
      <4>1. Increasing(toHost)
        BY DEF HostInOrder
      <4>2. \A i \in 1..Len(toHost') : toHost[1].q < toHost'[i].q
        BY <1>1, <1>4, <4>1, RestIncreases, LenProperties
      <4>3. \A i \in 1..Len(toHost') : toHost'[i].q \in Nat
        BY <1>1, <1>4
      <4> QED
        BY <1>3, <4>2, <4>3
    <3>4. \A j \in 1..Len(toBridge) : line.q < toBridge[j].q /\ toBridge[j].q \in Nat
      BY <1>1, <1>3 DEF HostInOrder
    <3> QED
      BY <1>1, <3>1, <3>2, <3>3, <3>4
  <2> QED
    BY <1>1, <1>5, <2>2, <2>3
<1>9. TypeOK'
  BY <1>2, <1>4, <1>5 DEF TypeOK
<1> QED
  BY <1>5, <1>6, <1>7, <1>8, <1>9

\* readline() gives up, or the program is stopped in it: the call raises, and
\* nothing is added to the link.
LEMMA UnansweredStep == IInv /\ (Timeout \/ Stop) => IInv'
<1> SUFFICES ASSUME IInv, Timeout \/ Stop PROVE IInv'
  OBVIOUS
<1> USE DEF IInv
<1>1. /\ waiting # NoQuery /\ Ended(EmptyLine) /\ unanswered' = unanswered + 1
      /\ open' \in BOOLEAN /\ connected' \in BOOLEAN
      /\ toHost' = toHost \/ toHost' = << >>
      /\ UNCHANGED <<queries, toBridge, slotKey, fresh>>
  BY FinishEnds DEF Timeout, Stop
<1>2. EmptyLine.q = 0 /\ EmptyLine.tag = "EMPTY" /\ queries \in Nat /\ Len(results) \in Nat
  BY Types DEF EmptyLine
<1>3. /\ results' \in Seq(Result) /\ Len(results') = Len(results) + 1
      /\ \A n \in 1..Len(results) : results'[n] = results[n]
      /\ results'[Len(results) + 1].answered = 0
      /\ AnswersInOrder' /\ waiting' = NoQuery
  BY <1>1, <1>2, EndedStep
<1>4. BridgeInOrder' /\ HostInOrder'
  BY <1>1 DEF BridgeInOrder, HostInOrder, Increasing
<1>5. GivenInOrder'
  <2>1. /\ \A i \in 1..Len(toHost) : toHost[i].q \in Nat
        /\ \A j \in 1..Len(toBridge) : toBridge[j].q \in Nat /\ 0 < toBridge[j].q
    BY Types DEF BridgeInOrder
  <2>2. \A n \in 1..Len(results') : n \in 1..Len(results) \/ results'[n].answered = 0
    BY <1>2, <1>3
  <2> QED
    BY <1>1, <1>2, <1>3, <2>1, <2>2 DEF GivenInOrder
<1>6. TypeOK'
  <2>1. toHost' \in Seq(Line)
    BY <1>1, EmptySeq DEF TypeOK
  <2> QED
    BY <1>1, <1>3, <2>1 DEF TypeOK
<1> QED
  BY <1>3, <1>4, <1>5, <1>6

\* close() drops what the driver has buffered.
LEMMA CloseStep == IInv /\ Close => IInv'
<1> SUFFICES ASSUME IInv, Close PROVE IInv'
  OBVIOUS
<1>1. /\ toHost' = << >> /\ open' = FALSE /\ connected' = FALSE
      /\ UNCHANGED <<waiting, queries, toBridge, slotKey, fresh, results, unanswered>>
  BY DEF Close
<1>2. TypeOK'
  <2>1. toHost' \in Seq(Line) /\ open' \in BOOLEAN /\ connected' \in BOOLEAN
    BY <1>1, EmptySeq
  <2> QED
    BY <1>1, <2>1 DEF IInv, TypeOK
<1>3. BridgeInOrder' /\ HostInOrder' /\ GivenInOrder'
  BY <1>1 DEF IInv, BridgeInOrder, HostInOrder, GivenInOrder, Increasing
<1> QED
  BY <1>1, <1>2, <1>3 DEF IInv, AnswersInOrder, Returned

\* The bridge processes its oldest command and prints a line under its number,
\* if anyone listens; a key pair it makes is not newer than the command.
LEMMA AnswerStep ==
    ASSUME IInv, NEW cmd \in Commands, NEW key \in 0..MaxQueries,
           NEW tag, tag \in {"PONG", "SIG", "PUB", "OK", "VERIFY:1", "VERIFY:0", "ERR"},
           Answer(cmd, tag, key),
           slotKey' \in {slotKey, slotKey + 1}
    PROVE  IInv'
<1> USE DEF IInv
<1> DEFINE line == [tag |-> tag, q |-> toBridge[1].q, key |-> key]
<1>1. /\ queries \in Nat /\ slotKey \in Nat /\ MaxQueries \in Nat /\ queries <= MaxQueries
      /\ toBridge \in Seq(Command) /\ Len(toBridge) \in Nat
      /\ toHost \in Seq(Line) /\ Len(toHost) \in Nat
      /\ \A i \in 1..Len(toHost) : toHost[i].q \in Nat
      /\ \A j \in 1..Len(toBridge) : toBridge[j].q \in Nat
      /\ \A n \in 1..Len(results) : results[n].answered \in Nat
  BY Types DEF TypeOK
<1>2. /\ toBridge # << >> /\ toBridge' = Tail(toBridge)
      /\ UNCHANGED <<open, connected, waiting, queries, fresh, results, unanswered>>
  BY DEF Answer
<1>3. Len(toBridge) # 0 /\ 1 \in 1..Len(toBridge) /\ Head(toBridge) = toBridge[1]
  BY <1>1, <1>2, EmptySeq, HeadTailProperties
<1>4. /\ toBridge' \in Seq(Command) /\ Len(toBridge') \in Nat
      /\ \A j \in 1..Len(toBridge') :
           j + 1 \in 1..Len(toBridge) /\ toBridge'[j] = toBridge[j + 1]
  BY <1>1, <1>2, <1>3, HeadTailProperties
<1>5. \A j \in 1..Len(toBridge') : toBridge'[j].q \in Nat /\ toBridge[1].q < toBridge'[j].q
  <2>1. Increasing(toBridge)
    BY DEF BridgeInOrder
  <2>2. \A j \in 1..Len(toBridge') : toBridge[1].q < toBridge'[j].q
    BY <1>1, <1>4, <2>1, RestIncreases
  <2> QED
    BY <1>1, <1>4, <2>2
<1>6. /\ slotKey < toBridge[1].q /\ toBridge[1].q <= queries /\ toBridge[1].q \in Nat
      /\ \A i \in 1..Len(toHost) : toHost[i].q < toBridge[1].q
      /\ \A n \in 1..Len(results) : results[n].answered < toBridge[1].q
  BY <1>1, <1>3 DEF BridgeInOrder, HostInOrder, GivenInOrder
<1>7. line \in Line /\ line.q = toBridge[1].q
  BY <1>1, <1>6 DEF Line
<1>8. toHost' = toHost \/ toHost' = Append(toHost, line)
  BY <1>3 DEF Answer
<1> HIDE DEF line
<1>9. /\ toHost' \in Seq(Line) /\ Len(toHost') \in Nat
      /\ \A i \in 1..Len(toHost') :
           \/ i \in 1..Len(toHost) /\ toHost'[i] = toHost[i]
           \/ i = Len(toHost) + 1 /\ toHost'[i] = line
  <2>1. CASE toHost' = toHost
    BY <1>1, <2>1
  <2>2. CASE toHost' = Append(toHost, line)
    BY <1>1, <1>7, <2>2, AppendProperties
  <2> QED
    BY <1>8, <2>1, <2>2
<1>10. BridgeInOrder'
  <2>1. Increasing(toBridge)'
    <3>1. Increasing(toBridge)
      BY DEF BridgeInOrder
    <3>2. Increasing(toBridge')
      BY <1>1, <1>4, <3>1, RestIncreases
    <3> QED
      BY <3>2 DEF Increasing
  <2>2. \A j \in 1..Len(toBridge') : slotKey' < toBridge'[j].q /\ toBridge'[j].q <= queries
    BY <1>1, <1>4, <1>5, <1>6 DEF BridgeInOrder
  <2>3. slotKey' <= queries
    BY <1>1, <1>6
  <2> QED
    BY <1>2, <2>1, <2>2, <2>3 DEF BridgeInOrder
<1>11. HostInOrder'
  <2>1. Increasing(toHost)'
    <3>1. SUFFICES ASSUME NEW i \in 1..Len(toHost'), NEW j \in 1..Len(toHost'), i < j
                   PROVE  toHost'[i].q < toHost'[j].q
      BY DEF Increasing
    <3>2. i \in 1..Len(toHost) /\ toHost'[i] = toHost[i]
      BY <1>1, <1>9, <3>1
    <3>3. CASE j \in 1..Len(toHost) /\ toHost'[j] = toHost[j]
      BY <3>1, <3>2, <3>3 DEF HostInOrder, Increasing
    <3>4. CASE toHost'[j] = line
      BY <1>6, <1>7, <3>2, <3>4
    <3> QED
      BY <1>9, <3>3, <3>4
  <2>2. \A i \in 1..Len(toHost') :
          /\ toHost'[i].q <= queries
          /\ toHost'[i].q = 0 => toHost'[i].tag = "ERR"
          /\ toHost'[i].q <= toBridge[1].q /\ toHost'[i].q \in Nat
    BY <1>1, <1>6, <1>7, <1>9 DEF HostInOrder
  <2>3. \A i \in 1..Len(toHost') : \A j \in 1..Len(toBridge') :
          toHost'[i].q < toBridge'[j].q
    BY <1>5, <1>6, <2>2
  <2> QED
    BY <1>2, <2>1, <2>2, <2>3 DEF HostInOrder
<1>12. GivenInOrder'
  <2>1. SUFFICES ASSUME NEW n \in 1..Len(results)
                 PROVE  /\ results[n].answered <= queries
                        /\ \A i \in 1..Len(toHost') :
                             toHost'[i].q # 0 => results[n].answered < toHost'[i].q
                        /\ \A j \in 1..Len(toBridge') :
                             results[n].answered < toBridge'[j].q
    BY <1>2 DEF GivenInOrder
  <2>2. \A i \in 1..Len(toHost') :
          toHost'[i].q # 0 => results[n].answered < toHost'[i].q
    BY <1>6, <1>7, <1>9 DEF GivenInOrder
  <2>3. \A j \in 1..Len(toBridge') : results[n].answered < toBridge'[j].q
    BY <1>1, <1>5, <1>6
  <2> QED
    BY <2>2, <2>3 DEF GivenInOrder
<1>13. TypeOK'
  <2>1. slotKey' \in 0..MaxQueries
    BY <1>1, <1>6
  <2> QED
    BY <1>2, <1>4, <1>9, <2>1 DEF TypeOK
<1> QED
  BY <1>2, <1>10, <1>11, <1>12, <1>13 DEF AnswersInOrder, Returned

\* Whatever the bridge does is one such answer.
LEMMA BridgeStep == IInv /\ Bridge => IInv'
<1> SUFFICES ASSUME IInv, Bridge PROVE IInv'
  OBVIOUS
<1>1. 0 \in 0..MaxQueries /\ slotKey \in 0..MaxQueries
  BY QueriesAssumption DEF IInv, TypeOK
<1>2. CASE BridgePing
  BY <1>1, <1>2, AnswerStep DEF BridgePing, Commands
<1>3. CASE BridgeSign
  BY <1>1, <1>3, AnswerStep DEF BridgeSign, Commands
<1>4. CASE BridgePubKey
  BY <1>1, <1>4, AnswerStep DEF BridgePubKey, Commands
<1>5. CASE BridgeGenKey
  <2>1. Answer("GENKEY", "OK", slotKey + 1) /\ slotKey' = slotKey + 1
    BY <1>5 DEF BridgeGenKey
  <2>2. toBridge # << >> /\ Len(toBridge) \in Nat /\ toBridge \in Seq(Command)
    BY <2>1, Types DEF Answer, IInv
  <2>3. slotKey + 1 \in 0..MaxQueries
    <3>1. 1 \in 1..Len(toBridge)
      BY <2>2, EmptySeq
    <3> QED
      BY <3>1, Types DEF IInv, BridgeInOrder, TypeOK
  <2> QED
    BY <2>1, <2>3, AnswerStep DEF Commands
<1>6. CASE BridgeVerify
  BY <1>1, <1>6, AnswerStep DEF BridgeVerify, Commands
<1>7. CASE BridgeChipError
  BY <1>1, <1>7, AnswerStep DEF BridgeChipError, Commands
<1> QED
  BY <1>2, <1>3, <1>4, <1>5, <1>6, <1>7 DEF Bridge

\* Each step of the link preserves the invariant, which holds at the beginning.
LEMMA LinkPreserves == IInv /\ (LinkStep \/ UNCHANGED vars) => IInv'
<1> SUFFICES ASSUME IInv, LinkStep \/ UNCHANGED vars PROVE IInv'
  OBVIOUS
<1>1. CASE LinkStep
  BY <1>1, ConnectStep, CallStep, ReadLineStep, UnansweredStep, CloseStep, BridgeStep
     DEF LinkStep
<1>2. CASE UNCHANGED vars
  BY <1>2 DEF vars, IInv, TypeOK, BridgeInOrder, HostInOrder, GivenInOrder, Increasing,
              AnswersInOrder, Returned
<1> QED
  BY <1>1, <1>2

LEMMA LinkBegins == Init => IInv
<1> SUFFICES ASSUME Init PROVE IInv
  OBVIOUS
<1>1. /\ << >> \in Seq(Command) /\ << >> \in Seq(Line) /\ << >> \in Seq(Result)
      /\ Len(<< >>) = 0 /\ 0 \in 0..MaxQueries
  BY EmptySeq, QueriesAssumption
<1>2. TypeOK
  BY <1>1 DEF Init, TypeOK
<1> QED
  BY <1>1, <1>2 DEF Init, IInv, BridgeInOrder, HostInOrder, GivenInOrder, Increasing,
                    AnswersInOrder, Returned

\* However many queries are made, and whatever is late, dropped or reset, no
\* answer is given twice, and none overtakes another.
THEOREM LinkAnswersInOrder == Spec => []AnswersInOrder
<1>1. Next => LinkStep
  BY DEF Next, Host, LinkStep, Sign, GetPublicKey, GenKey, Verify, Commands
<1>2. IInv /\ [Next]_vars => IInv'
  BY <1>1, LinkPreserves
<1>3. IInv => AnswersInOrder
  BY DEF IInv
<1> QED
  BY <1>2, <1>3, LinkBegins, PTL DEF Spec

-----------------------------------------------------------------------------
\* Answers in step with their calls

\* The call that returns, and what it gives its caller.
LEMMA CallReturns ==
    ASSUME IInv, ReadLine \/ Timeout
    PROVE  /\ waiting # NoQuery /\ waiting' = NoQuery /\ waiting.q = queries
           /\ Len(results) \in Nat /\ Len(results') = Len(results) + 1
           /\ \A n \in 1..Len(results) : results'[n] = results[n]
           /\ results'[Len(results) + 1].cmd = waiting.cmd
           /\ results'[Len(results) + 1].asked = queries
           /\ results'[Len(results) + 1].fresh = fresh
           /\ results'[Len(results) + 1].answered # 0 =>
                /\ ReadLine
                /\ results'[Len(results) + 1].answered = Head(toHost).q
                /\ results'[Len(results) + 1].key = Head(toHost).key
                /\ Head(toHost).tag = Expected[waiting.cmd]
<1>1. PICK line : /\ Finish(line)
                  /\ \/ ReadLine /\ line = Head(toHost)
                     \/ line = EmptyLine
  BY DEF ReadLine, Timeout
<1> DEFINE given == IF line.tag = Expected[waiting.cmd] THEN line.q ELSE 0
           r == [cmd |-> waiting.cmd, asked |-> waiting.q, answered |-> given,
                 key |-> line.key, fresh |-> fresh]
<1>2. /\ waiting # NoQuery /\ waiting' = NoQuery /\ waiting.q = queries
      /\ waiting.cmd \in Commands
  BY <1>1 DEF ReadLine, Timeout, Finish, Ended, IInv, TypeOK, Command
<1>3. results' = Append(results, r)
  BY <1>1 DEF Finish, Ended, AsExpected
<1>4. /\ Len(results') = Len(results) + 1 /\ Len(results) \in Nat
      /\ \A n \in 1..Len(results) : results'[n] = results[n]
      /\ results'[Len(results) + 1] = r
  <2>1. results \in Seq(Result)
    BY DEF IInv, TypeOK
  <2> HIDE DEF r
  <2> QED
    BY <1>3, <2>1, AppendProperties, LenProperties
<1>5. given # 0 => ReadLine /\ line = Head(toHost) /\ given = line.q
                     /\ line.tag = Expected[waiting.cmd]
  <2>1. CASE line = EmptyLine
    BY <1>2, <2>1 DEF EmptyLine
  <2> QED
    BY <1>1, <2>1
<1>6. r.cmd = waiting.cmd /\ r.asked = waiting.q /\ r.fresh = fresh
      /\ r.answered = given /\ r.key = line.key
  OBVIOUS
<1> QED
  BY <1>2, <1>4, <1>5, <1>6

\* The line that answers the waited query is the last one.
LEMMA LastLine ==
    ASSUME IInv, ReadLine, Head(toHost).q = queries
    PROVE  toBridge' = << >> /\ toHost' = << >>
<1> USE DEF IInv
<1>1. /\ queries \in Nat /\ toHost \in Seq(Line) /\ Len(toHost) \in Nat
      /\ toBridge \in Seq(Command) /\ Len(toBridge) \in Nat
      /\ \A j \in 1..Len(toBridge) : toBridge[j].q \in Nat
  BY Types
<1>2. /\ toHost # << >> /\ toHost' \in {Tail(toHost), << >>} /\ UNCHANGED toBridge
  BY DEF ReadLine
<1>3. 1 \in 1..Len(toHost) /\ toHost[1].q = queries
  BY <1>1, <1>2, EmptySeq, HeadTailProperties
<1>4. toBridge = << >>
  <2>1. ASSUME 1 \in 1..Len(toBridge) PROVE FALSE
    BY <1>1, <1>3, <2>1 DEF BridgeInOrder, HostInOrder
  <2> QED
    BY <1>1, <2>1, EmptySeq
<1>5. Tail(toHost) = << >>
  <2> DEFINE t == Tail(toHost)
  <2>1. /\ t \in Seq(Line) /\ Len(t) \in Nat /\ Len(t) = Len(toHost) - 1
        /\ \A i \in 1..Len(t) : i + 1 \in 1..Len(toHost) /\ t[i] = toHost[i + 1]
    BY <1>1, <1>2, <1>3, HeadTailProperties, LenProperties
  <2>2. ASSUME 2 \in 1..Len(toHost) PROVE FALSE
    <3>1. toHost[1].q < toHost[2].q /\ toHost[2].q <= queries
      BY <1>3, <2>2 DEF HostInOrder, Increasing
    <3>2. toHost[2].q \in Nat
      BY <2>2, Types
    <3> QED
      BY <1>1, <1>3, <3>1, <3>2
  <2>3. Len(t) = 0
    BY <1>1, <1>3, <2>1, <2>2
  <2> QED
    BY <2>1, <2>3, EmptySeq
<1> QED
  BY <1>2, <1>4, <1>5

\* A call that finds the link in step leaves it in step, whether it returns
\* its answer or raises, unless it was the PING that failed or got nothing.
LEMMA ReadInStep ==
    ASSUME IInv, InStep, ReadLine,
           waiting.cmd = "PING" => results'[Len(results) + 1].answered # 0
    PROVE  /\ InStep'
           /\ results'[Len(results) + 1].answered # 0 =>
                /\ results'[Len(results) + 1].answered = queries
                /\ Head(toHost).tag = "PUB" => Head(toHost).key = slotKey
<1>1. /\ waiting # NoQuery /\ waiting' = NoQuery /\ waiting.q = queries
      /\ results'[Len(results) + 1].answered # 0 =>
           results'[Len(results) + 1].answered = Head(toHost).q
  BY CallReturns
<1>2. 1 \in 1..Len(toHost) /\ Head(toHost) = toHost[1]
  <2>1. toHost # << >> /\ toHost \in Seq(Line) /\ Len(toHost) \in Nat
    BY Types DEF ReadLine, IInv
  <2> QED
    BY <2>1, EmptySeq, HeadTailProperties
<1>3. \/ Head(toHost).q = 0 /\ waiting.cmd = "PING"
      \/ /\ Head(toHost).q = queries
         /\ Head(toHost).tag = "PUB" => Head(toHost).key = slotKey
  BY <1>1, <1>2 DEF InStep
<1>4. /\ Head(toHost).q = queries
      /\ Head(toHost).tag = "PUB" => Head(toHost).key = slotKey
  BY <1>1, <1>3
<1> QED
  BY <1>1, <1>4, LastLine DEF InStep

\* A connection starts in step when nothing was left of the one before, or the
\* board was reset.
LEMMA ConnectInStep ==
    ASSUME IInv, Connect, toBridge = << >> \/ fresh'
    PROVE  InStep'
<1>1. waiting' \in Command /\ waiting' # NoQuery /\ waiting'.cmd = "PING"
  BY NewCommand DEF Connect, Write, IInv, Commands
<1>2. /\ << >> \o << >> = << >> /\ << >> \o <<waiting'>> = <<waiting'>>
  BY <1>1, AppendIsConcat, ConcatEmptySeq, EmptySeq
<1>3. toBridge' \in {<< >>, <<waiting'>>}
  <2>1. PICK reset \in BOOLEAN, heard \in BOOLEAN :
               /\ fresh' = reset
               /\ toBridge' = (IF reset THEN << >> ELSE toBridge)
                                 \o (IF heard THEN <<waiting'>> ELSE << >>)
    BY DEF Connect
  <2>2. (IF reset THEN << >> ELSE toBridge) = << >>
    BY <2>1
  <2>3. toBridge' = << >> \o (IF heard THEN <<waiting'>> ELSE << >>)
    BY <2>1, <2>2
  <2> QED
    BY <1>2, <2>3
<1>4. \A j \in 1..Len(toBridge') : toBridge'[j] = waiting'
  BY <1>3
<1>5. \A i \in 1..Len(toHost') : toHost'[i].q = 0
  BY DEF Connect
<1> QED
  BY <1>1, <1>4, <1>5 DEF InStep

LEMMA CallInStep ==
    ASSUME IInv, InStep, NEW cmd \in Commands, Call(cmd)
    PROVE  InStep'
<1>1. waiting' \in Command /\ waiting' # NoQuery
  BY NewCommand DEF Call, IInv
<1>2. toBridge' = <<waiting'>> /\ toHost' = << >>
  BY DEF Call, InStep
<1> QED
  BY <1>1, <1>2 DEF InStep

LEMMA CloseInStep ==
    ASSUME InStep, Close
    PROVE  InStep'
  BY DEF Close, InStep

\* The bridge turns the command into the line that answers it.
LEMMA AnswerInStep ==
    ASSUME IInv, InStep, NEW cmd, NEW tag, NEW key, Answer(cmd, tag, key),
           tag = "PUB" => key = slotKey'
    PROVE  InStep'
<1> DEFINE line == [tag |-> tag, q |-> Head(toBridge).q, key |-> key]
<1>1. /\ toBridge # << >> /\ toBridge' = Tail(toBridge) /\ UNCHANGED waiting
      /\ toHost' = toHost \/ toHost' = Append(toHost, line)
  BY DEF Answer
<1>2. /\ toBridge \in Seq(Command) /\ Len(toBridge) \in Nat
      /\ toHost \in Seq(Line) /\ Len(toHost) \in Nat
      /\ \A i \in 1..Len(toHost) : toHost[i].q \in Nat
      /\ \A j \in 1..Len(toBridge) : toBridge[j].q \in Nat
  BY Types DEF IInv
<1>3. /\ 1 \in 1..Len(toBridge) /\ Head(toBridge) = toBridge[1]
      /\ Tail(toBridge) \in Seq(Command) /\ Len(Tail(toBridge)) = Len(toBridge) - 1
      /\ \A j \in 1..Len(Tail(toBridge)) : Tail(toBridge)[j] = toBridge[j + 1]
  BY <1>1, <1>2, EmptySeq, HeadTailProperties
<1>4. waiting # NoQuery /\ Head(toBridge) = waiting
  BY <1>1, <1>3 DEF InStep
<1>5. \A j \in 1..Len(toBridge') : toBridge'[j] = waiting
  BY <1>1, <1>2, <1>3, <1>4 DEF InStep
<1>6. \A i \in 1..Len(toHost) : toHost[i].q = 0 /\ waiting.cmd = "PING"
  <2>1. \A i \in 1..Len(toHost) : toHost[i].q < waiting.q
    BY <1>3, <1>4 DEF IInv, HostInOrder
  <2>2. waiting.q \in Nat
    BY <1>2, <1>3, <1>4
  <2> QED
    BY <1>2, <1>4, <2>1, <2>2 DEF InStep
<1>7. line.q = waiting.q /\ (line.tag = "PUB" => line.key = slotKey')
  BY <1>4
<1> HIDE DEF line
<1>8. \A i \in 1..Len(toHost') :
        (i \in 1..Len(toHost) /\ toHost'[i] = toHost[i]) \/ toHost'[i] = line
  <2>1. CASE toHost' = toHost
    BY <2>1
  <2>2. CASE toHost' = Append(toHost, line)
    BY <1>2, <2>2
  <2> QED
    BY <1>1, <2>1, <2>2
<1>9. \A i \in 1..Len(toHost') :
        \/ toHost'[i].q = 0 /\ waiting.cmd = "PING"
        \/ /\ toHost'[i].q = waiting.q
           /\ toHost'[i].tag = "PUB" => toHost'[i].key = slotKey'
  BY <1>6, <1>7, <1>8
<1> QED
  BY <1>1, <1>4, <1>5, <1>9 DEF InStep

LEMMA BridgeInStep ==
    ASSUME IInv, InStep, Bridge
    PROVE  InStep'
<1>1. PICK cmd, tag, key : Answer(cmd, tag, key) /\ (tag = "PUB" => key = slotKey')
  <2>1. CASE BridgePing
    BY <2>1 DEF BridgePing
  <2>2. CASE BridgeSign
    BY <2>2 DEF BridgeSign
  <2>3. CASE BridgePubKey
    BY <2>3 DEF BridgePubKey
  <2>4. CASE BridgeGenKey
    BY <2>4 DEF BridgeGenKey
  <2>5. CASE BridgeVerify
    BY <2>5 DEF BridgeVerify
  <2>6. CASE BridgeChipError
    BY <2>6 DEF BridgeChipError
  <2> QED
    BY <2>1, <2>2, <2>3, <2>4, <2>5, <2>6 DEF Bridge
<1> QED
  BY <1>1, AnswerInStep

\* Every step of an undisturbed link keeps it in step.
LEMMA SyncPreserves == IInv /\ SyncInv /\ (LinkStep \/ UNCHANGED vars) => SyncInv'
<1> SUFFICES ASSUME IInv, SyncInv, LinkStep \/ UNCHANGED vars, Undisturbed'
             PROVE  /\ InStep'
                    /\ \A n \in 1..Len(results') : results'[n].answered # 0 =>
                         results'[n].answered = results'[n].asked
  BY DEF SyncInv, Returned
<1>1. CASE ReadLine \/ Timeout
  <2>1. /\ waiting # NoQuery /\ waiting' = NoQuery /\ waiting.q = queries
        /\ Len(results) \in Nat /\ Len(results') = Len(results) + 1
        /\ \A n \in 1..Len(results) : results'[n] = results[n]
        /\ results'[Len(results) + 1].cmd = waiting.cmd
        /\ results'[Len(results) + 1].asked = queries
    BY <1>1, CallReturns
  <2>2. ReadLine /\ UNCHANGED unanswered
    <3>1. Timeout => unanswered' = unanswered + 1 /\ unanswered \in Nat
      BY DEF Timeout, IInv, TypeOK
    <3> QED
      BY <1>1, <3>1 DEF Undisturbed, ReadLine
  <2>3. Undisturbed
    BY <2>1, <2>2 DEF Undisturbed, Returned
  <2>4. waiting.cmd = "PING" => results'[Len(results) + 1].answered # 0
    BY <2>1 DEF Undisturbed, Returned
  <2>5. /\ InStep'
        /\ results'[Len(results) + 1].answered # 0 =>
             results'[Len(results) + 1].answered = queries
    BY <2>2, <2>3, <2>4, ReadInStep DEF SyncInv
  <2>6. \A n \in 1..Len(results') : n \in 1..Len(results) \/ n = Len(results) + 1
    BY <2>1
  <2> QED
    BY <2>1, <2>3, <2>5, <2>6 DEF SyncInv, Returned
<1>2. ASSUME UNCHANGED <<results, unanswered>>, InStep => InStep'
      PROVE  /\ InStep'
             /\ \A n \in 1..Len(results') : results'[n].answered # 0 =>
                  results'[n].answered = results'[n].asked
  BY <1>2 DEF SyncInv, Undisturbed, Returned
<1>3. CASE Connect
  <2>1. UNCHANGED <<results, unanswered>> /\ waiting = NoQuery
    BY <1>3 DEF Connect
  <2>2. InStep => InStep'
    BY <1>3, <2>1, ConnectInStep DEF InStep
  <2> QED
    BY <1>2, <2>1, <2>2
<1>4. ASSUME NEW cmd \in Commands, Call(cmd)
      PROVE  UNCHANGED <<results, unanswered>> /\ (InStep => InStep')
  BY <1>4, CallInStep DEF Call
<1>5. CASE Close
  BY <1>2, <1>5, CloseInStep DEF Close
<1>8. ~Stop
  <2>1. Stop => unanswered' = unanswered + 1 /\ unanswered \in Nat
    BY DEF Stop, IInv, TypeOK
  <2> QED
    BY <2>1 DEF Undisturbed
<1>6. CASE Bridge
  <2>1. UNCHANGED <<results, unanswered>>
    BY <1>6 DEF Bridge, BridgePing, BridgeSign, BridgePubKey, BridgeGenKey, BridgeVerify,
                BridgeChipError, Answer
  <2> QED
    BY <1>2, <1>6, <2>1, BridgeInStep
<1>7. CASE UNCHANGED vars
  BY <1>2, <1>7 DEF vars, InStep
<1> QED
  BY <1>1, <1>2, <1>3, <1>4, <1>5, <1>6, <1>7, <1>8 DEF LinkStep

LEMMA SyncBegins == Init => SyncInv
  BY DEF Init, SyncInv, InStep

\* As long as every read ends with a line and no connect() fails, every call
\* returns the answer to its own command or raises, over any number of queries
\* and connections (crypto/keys/atecc608.py, _query()).
THEOREM LinkInSyncWhileAnswered == Spec => []InSyncWhileAnswered
<1>1. Next => LinkStep
  BY DEF Next, Host, LinkStep, Sign, GetPublicKey, GenKey, Verify, Commands
<1>2. IInv /\ [Next]_vars => IInv'
  BY <1>1, LinkPreserves
<1>3. IInv /\ SyncInv /\ [Next]_vars => SyncInv'
  BY <1>1, SyncPreserves
<1>4. SyncInv => InSyncWhileAnswered
  BY DEF SyncInv, Undisturbed, InSyncWhileAnswered
<1> QED
  BY <1>2, <1>3, <1>4, LinkBegins, SyncBegins, PTL DEF Spec
=============================================================================
