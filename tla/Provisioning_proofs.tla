------------------------- MODULE Provisioning_proofs -------------------------
(***************************************************************************)
(* The programs that use the secure element, any number of them, stopped   *)
(* anywhere or not: the order and the pairing of the answers, which        *)
(* AteccLink_proofs shows for every user of the link; that the files of a  *)
(* completed provisioning are of one run; that a program completes on its  *)
(* own answers if the board was reset; and that the key certified is the   *)
(* one in the chip.                                                        *)
(***************************************************************************)
EXTENDS Provisioning, AteccLink_proofs

\* The steps left of provision(), and those left of the other programs.
ProvisionLeft ==
    {<<"PING", "GENKEY", "PUBKEY", "pub", "cert", "rootPub", "rootPriv">>,
     <<"PING", "PUBKEY", "pub", "cert", "rootPub", "rootPriv">>,
     <<"GENKEY", "PUBKEY", "pub", "cert", "rootPub", "rootPriv">>,
     <<"PUBKEY", "pub", "cert", "rootPub", "rootPriv">>,
     <<"pub", "cert", "rootPub", "rootPriv">>,
     <<"cert", "rootPub", "rootPriv">>,
     <<"rootPub", "rootPriv">>,
     <<"rootPriv">>,
     << >>, <<"exit">>}
OtherLeft ==
    {<<"PING", "SIGN", "PUBKEY", "VERIFY", "VERIFYBAD">>,
     <<"SIGN", "PUBKEY", "VERIFY", "VERIFYBAD">>,
     <<"PUBKEY", "VERIFY", "VERIFYBAD">>,
     <<"VERIFY", "VERIFYBAD">>,
     <<"VERIFYBAD">>, <<"PING">>,
     << >>, <<"exit">>}

\* Only provision() has files to write, and none while a call is under way.
StepsLeft ==
    /\ prog = "provision" => todo \in ProvisionLeft /\ complete = 0
    /\ prog # "provision" => todo \in OtherLeft
    /\ prog = "provision" /\ waiting # NoQuery =>
         todo # << >> /\ Head(todo) \in Commands

\* The files that provision() has behind it are those of its own RootCA().
WrittenSoFar ==
    prog = "provision" =>
        /\ todo \in {<<"cert", "rootPub", "rootPriv">>, <<"rootPub", "rootPriv">>,
                     <<"rootPriv">>, << >>} =>
             files["pub"].is = "written"
        /\ todo \in {<<"rootPub", "rootPriv">>, <<"rootPriv">>, << >>} =>
             files["cert"].is = "written" /\ files["cert"].value.ca = ca
        /\ todo \in {<<"rootPriv">>, << >>} => files["rootPub"] = Holding(ca)
        /\ todo = << >> => files["rootPriv"] = Holding(ca)

FilesInv ==
    /\ DOMAIN files = FileNames
    /\ StepsLeft
    /\ WrittenSoFar
    /\ FilesBelongTogether

-----------------------------------------------------------------------------
\* The order of the answers

\* To the link, a program is nothing but its calls.
LEMMA ProgramsUseLink == [ProvisioningNext]_allVars => LinkStep \/ UNCHANGED vars
<1>1. ASSUME NEW name, NEW steps, Start(name, steps) PROVE Connect
  BY <1>1 DEF Start
<1>2. StartProvision \/ StartCompat \/ StartApp => Connect
  BY <1>1 DEF StartProvision, StartCompat, StartApp
<1>3. NextCall => \E cmd \in Commands : Call(cmd)
  BY DEF NextCall
<1>4. AppCall => \E cmd \in Commands : Call(cmd)
  BY DEF AppCall, Sign, GetPublicKey, Commands
<1>5. Return => ReadLine \/ Timeout
  BY DEF Return
<1>6. (Exit => Close) /\ (Interrupt => Stop)
  BY DEF Exit, Interrupt
<1>7. WritePub \/ WriteCert \/ WriteRootPub \/ WriteRootPriv => UNCHANGED vars
  BY DEF WritePub, WriteCert, WriteRootPub, WriteRootPriv, Write1
<1>8. UNCHANGED allVars => UNCHANGED vars
  BY DEF allVars
<1> QED
  BY <1>2, <1>3, <1>4, <1>5, <1>6, <1>7, <1>8 DEF ProvisioningNext, LinkStep

LEMMA LinkHolds == ProvisioningSpec => []IInv
<1>1. ProvisioningInit => IInv
  BY LinkBegins DEF ProvisioningInit
<1>2. IInv /\ [ProvisioningNext]_allVars => IInv'
  BY ProgramsUseLink, LinkPreserves
<1> QED
  BY <1>1, <1>2, PTL DEF ProvisioningSpec

\* Whatever programs run, one after the other, and wherever they are
\* interrupted, no answer is given twice and none overtakes another.
THEOREM ProgramsAnswersInOrder == ProvisioningSpec => []AnswersInOrder
<1>1. IInv => AnswersInOrder
  BY DEF IInv
<1> QED
  BY <1>1, LinkHolds, PTL

\* Also under the programs, a link on which every read ended with a line and
\* every connect() succeeded gives each call the answer to its own command,
\* wherever between its calls a program is stopped.  (One stopped inside a call
\* leaves a read without a line, and its answer to the next program.)
THEOREM ProgramsInSyncWhileAnswered == ProvisioningSpec => []InSyncWhileAnswered
<1>1. ProvisioningInit => SyncInv
  BY SyncBegins DEF ProvisioningInit
<1>2. IInv /\ SyncInv /\ [ProvisioningNext]_allVars => SyncInv'
  BY ProgramsUseLink, SyncPreserves
<1>3. SyncInv => InSyncWhileAnswered
  BY DEF SyncInv, Undisturbed, InSyncWhileAnswered
<1> QED
  BY <1>1, <1>2, <1>3, LinkHolds, PTL DEF ProvisioningSpec

-----------------------------------------------------------------------------
\* The files of an identity

\* What is left after a step of each sequence.
LEMMA Tails ==
    /\ Tail(<<"PING", "GENKEY", "PUBKEY", "pub", "cert", "rootPub", "rootPriv">>)
         = <<"GENKEY", "PUBKEY", "pub", "cert", "rootPub", "rootPriv">>
    /\ Tail(<<"PING", "PUBKEY", "pub", "cert", "rootPub", "rootPriv">>)
         = <<"PUBKEY", "pub", "cert", "rootPub", "rootPriv">>
    /\ Tail(<<"GENKEY", "PUBKEY", "pub", "cert", "rootPub", "rootPriv">>)
         = <<"PUBKEY", "pub", "cert", "rootPub", "rootPriv">>
    /\ Tail(<<"PUBKEY", "pub", "cert", "rootPub", "rootPriv">>)
         = <<"pub", "cert", "rootPub", "rootPriv">>
    /\ Tail(<<"pub", "cert", "rootPub", "rootPriv">>) = <<"cert", "rootPub", "rootPriv">>
    /\ Tail(<<"cert", "rootPub", "rootPriv">>) = <<"rootPub", "rootPriv">>
    /\ Tail(<<"rootPub", "rootPriv">>) = <<"rootPriv">>
    /\ Tail(<<"rootPriv">>) = << >>
    /\ Tail(<<"PING", "SIGN", "PUBKEY", "VERIFY", "VERIFYBAD">>)
         = <<"SIGN", "PUBKEY", "VERIFY", "VERIFYBAD">>
    /\ Tail(<<"SIGN", "PUBKEY", "VERIFY", "VERIFYBAD">>)
         = <<"PUBKEY", "VERIFY", "VERIFYBAD">>
    /\ Tail(<<"PUBKEY", "VERIFY", "VERIFYBAD">>) = <<"VERIFY", "VERIFYBAD">>
    /\ Tail(<<"VERIFY", "VERIFYBAD">>) = <<"VERIFYBAD">>
    /\ Tail(<<"VERIFYBAD">>) = << >>
    /\ Tail(<<"PING">>) = << >>
    /\ Tail(<<"exit">>) = << >>
  OBVIOUS

\* The next step of each sequence.
LEMMA Heads ==
    /\ Head(<<"PING", "GENKEY", "PUBKEY", "pub", "cert", "rootPub", "rootPriv">>) = "PING"
    /\ Head(<<"PING", "PUBKEY", "pub", "cert", "rootPub", "rootPriv">>) = "PING"
    /\ Head(<<"GENKEY", "PUBKEY", "pub", "cert", "rootPub", "rootPriv">>) = "GENKEY"
    /\ Head(<<"PUBKEY", "pub", "cert", "rootPub", "rootPriv">>) = "PUBKEY"
    /\ Head(<<"pub", "cert", "rootPub", "rootPriv">>) = "pub"
    /\ Head(<<"cert", "rootPub", "rootPriv">>) = "cert"
    /\ Head(<<"rootPub", "rootPriv">>) = "rootPub"
    /\ Head(<<"rootPriv">>) = "rootPriv"
    /\ Head(<<"PING", "SIGN", "PUBKEY", "VERIFY", "VERIFYBAD">>) = "PING"
    /\ Head(<<"SIGN", "PUBKEY", "VERIFY", "VERIFYBAD">>) = "SIGN"
    /\ Head(<<"PUBKEY", "VERIFY", "VERIFYBAD">>) = "PUBKEY"
    /\ Head(<<"VERIFY", "VERIFYBAD">>) = "VERIFY"
    /\ Head(<<"VERIFYBAD">>) = "VERIFYBAD"
    /\ Head(<<"PING">>) = "PING"
    /\ Head(<<"exit">>) = "exit"
  OBVIOUS

\* A program other than provision() has no file to write.
LEMMA OtherAfterStep ==
    ASSUME todo \in OtherLeft, todo # << >>
    PROVE  Tail(todo) \in OtherLeft /\ Head(todo) \notin FileNames
<1>1. Tail(todo) \in OtherLeft
  BY Tails DEF OtherLeft
<1>2. Head(todo) \in {"PING", "SIGN", "PUBKEY", "VERIFY", "VERIFYBAD", "exit"}
  BY Heads DEF OtherLeft
<1> QED
  BY <1>1, <1>2 DEF FileNames

\* Which sequence is left is known from the file that is next.
LEMMA FileAtHand ==
    ASSUME todo \in ProvisionLeft, todo # << >>
    PROVE  /\ Head(todo) = "pub" => todo = <<"pub", "cert", "rootPub", "rootPriv">>
           /\ Head(todo) = "cert" => todo = <<"cert", "rootPub", "rootPriv">>
           /\ Head(todo) = "rootPub" => todo = <<"rootPub", "rootPriv">>
           /\ Head(todo) = "rootPriv" => todo = <<"rootPriv">>
  BY Heads DEF ProvisionLeft

\* Which sequence is left is known from the call that is next, too.
LEMMA CallAtHand ==
    ASSUME todo \in ProvisionLeft, todo # << >>, Head(todo) \in Commands
    PROVE  todo \in
             {<<"PING", "GENKEY", "PUBKEY", "pub", "cert", "rootPub", "rootPriv">>,
              <<"PING", "PUBKEY", "pub", "cert", "rootPub", "rootPriv">>,
              <<"GENKEY", "PUBKEY", "pub", "cert", "rootPub", "rootPriv">>,
              <<"PUBKEY", "pub", "cert", "rootPub", "rootPriv">>}
<1>1. Head(todo) \in {"PING", "GENKEY", "PUBKEY"}
  BY Heads DEF ProvisionLeft, Commands
<1> QED
  BY <1>1, Heads DEF ProvisionLeft

\* After a call, provision() has all its files left to write.
LEMMA ProvisionAfterCall ==
    ASSUME todo \in ProvisionLeft, todo # << >>, Head(todo) \in Commands
    PROVE  Tail(todo) \in
             {<<"GENKEY", "PUBKEY", "pub", "cert", "rootPub", "rootPriv">>,
              <<"PUBKEY", "pub", "cert", "rootPub", "rootPriv">>,
              <<"pub", "cert", "rootPub", "rootPriv">>}
  BY CallAtHand, Tails

\* A program starts with all of its steps left.
LEMMA StartKeepsFiles ==
    ASSUME FilesInv, StartProvision \/ StartCompat \/ StartApp
    PROVE  FilesInv'
<1>1. CASE StartProvision
  <2>1. PICK skip_genkey \in BOOLEAN : Start("provision", ProvisionSteps(skip_genkey))
    BY <1>1 DEF StartProvision
  <2>2. /\ prog' = "provision" /\ todo' = ProvisionSteps(skip_genkey) /\ complete' = 0
        /\ UNCHANGED <<files, ca>>
    BY <2>1 DEF Start
  <2>3. todo' \in {<<"PING", "GENKEY", "PUBKEY", "pub", "cert", "rootPub", "rootPriv">>,
                   <<"PING", "PUBKEY", "pub", "cert", "rootPub", "rootPriv">>}
    BY <2>2 DEF ProvisionSteps
  <2>4. todo' \in ProvisionLeft /\ todo' # << >> /\ Head(todo') \in Commands
    BY <2>3, Heads DEF ProvisionLeft, Commands
  <2>5. todo' \notin {<<"cert", "rootPub", "rootPriv">>, <<"rootPub", "rootPriv">>,
                      <<"rootPriv">>, << >>}
    BY <2>3
  <2> QED
    BY <2>2, <2>4, <2>5
       DEF FilesInv, StepsLeft, WrittenSoFar, FilesBelongTogether
<1>2. CASE StartCompat \/ StartApp
  <2>1. /\ prog' \in {"compat", "app"} /\ todo' \in {CompatSteps, <<"PING">>}
        /\ UNCHANGED <<files, ca, complete>>
    BY <1>2 DEF StartCompat, StartApp, Start
  <2>2. todo' \in OtherLeft
    BY <2>1 DEF CompatSteps, OtherLeft
  <2> QED
    BY <2>1, <2>2 DEF FilesInv, StepsLeft, WrittenSoFar, FilesBelongTogether
<1> QED
  BY <1>1, <1>2

\* Between two calls nothing changes for the files; a call is made where the
\* next step is one.
LEMMA CallsKeepFiles ==
    ASSUME FilesInv,
           NextCall \/ AppCall \/ (Bridge /\ UNCHANGED programVars) \/ UNCHANGED allVars
    PROVE  FilesInv'
<1>1. UNCHANGED programVars
  BY DEF NextCall, AppCall, allVars
<1>2. prog = "provision" /\ waiting' # NoQuery => todo # << >> /\ Head(todo) \in Commands
  <2>1. CASE NextCall
    BY <2>1 DEF NextCall
  <2>2. CASE AppCall
    BY <2>2 DEF AppCall
  <2>3. Bridge => waiting' = waiting
    BY DEF Bridge, BridgePing, BridgeSign, BridgePubKey, BridgeGenKey, BridgeVerify,
           BridgeChipError, Answer
  <2>4. UNCHANGED allVars => waiting' = waiting
    BY DEF allVars, vars
  <2> QED
    BY <2>1, <2>2, <2>3, <2>4 DEF FilesInv, StepsLeft
<1> QED
  BY <1>1, <1>2
     DEF programVars, FilesInv, StepsLeft, WrittenSoFar, FilesBelongTogether

\* When a call returns, provision() has all its files left, or has failed.
LEMMA ReturnKeepsFiles ==
    ASSUME FilesInv, Return
    PROVE  FilesInv'
<1>1. /\ UNCHANGED <<ca, files, complete>>
      /\ prog' = IF open' THEN prog ELSE "none"
  BY DEF Return
<1>2. waiting # NoQuery /\ waiting' = NoQuery
  BY DEF Return, ReadLine, Timeout, Finish, Ended
<1>3. PICK ok \in BOOLEAN : todo' = After(ok)
  BY DEF Return, SameKey
<1>4. CASE ~ open'
  <2>1. prog' = "none" /\ todo' = << >>
    BY <1>1, <1>3, <1>4 DEF After
  <2>2. todo' \in OtherLeft
    BY <2>1 DEF OtherLeft
  <2> QED
    BY <1>1, <2>1, <2>2 DEF FilesInv, StepsLeft, WrittenSoFar, FilesBelongTogether
<1>5. CASE open' /\ prog = "provision"
  <2>1. todo \in ProvisionLeft /\ todo # << >> /\ Head(todo) \in Commands /\ complete = 0
    BY <1>2, <1>5 DEF FilesInv, StepsLeft
  <2>2. todo' = Tail(todo) \/ todo' = <<"exit">>
    BY <1>3, <1>5, <2>1 DEF After
  <2>3. todo' \in {<<"GENKEY", "PUBKEY", "pub", "cert", "rootPub", "rootPriv">>,
                   <<"PUBKEY", "pub", "cert", "rootPub", "rootPriv">>,
                   <<"pub", "cert", "rootPub", "rootPriv">>, <<"exit">>}
    BY <2>1, <2>2, ProvisionAfterCall
  <2>4. todo' \in ProvisionLeft
    BY <2>3 DEF ProvisionLeft
  <2>5. todo' \notin {<<"cert", "rootPub", "rootPriv">>, <<"rootPub", "rootPriv">>,
                      <<"rootPriv">>, << >>}
    BY <2>3
  <2> QED
    BY <1>1, <1>2, <1>5, <2>1, <2>4, <2>5
       DEF FilesInv, StepsLeft, WrittenSoFar, FilesBelongTogether
<1>6. CASE open' /\ prog # "provision"
  <2>1. todo' \in {<< >>, <<"exit">>} \/ (todo # << >> /\ todo' = Tail(todo))
    BY <1>3, <1>6 DEF After
  <2>2. todo' \in OtherLeft
    BY <1>6, <2>1, OtherAfterStep DEF FilesInv, StepsLeft, OtherLeft
  <2> QED
    BY <1>1, <1>6, <2>2 DEF FilesInv, StepsLeft, WrittenSoFar, FilesBelongTogether
<1> QED
  BY <1>4, <1>5, <1>6

-----------------------------------------------------------------------------
\* A file is written by provision() only, between its calls.
LEMMA WriteByProvision ==
    ASSUME FilesInv, NEW name \in FileNames, NEW value, Write1(name, value)
    PROVE  /\ prog = "provision" /\ prog' = "provision" /\ complete = 0 /\ complete' = 0
           /\ todo \in ProvisionLeft /\ todo # << >> /\ Head(todo) = name
           /\ waiting' = NoQuery
           /\ DOMAIN files' = FileNames
           /\ \A other \in FileNames : other # name => files'[other] = files[other]
           /\ \/ files'[name] = Holding(value) /\ todo' = Tail(todo)
              \/ todo' = <<"exit">>
<1>1. /\ todo # << >> /\ Head(todo) = name
      /\ UNCHANGED <<waiting, prog, complete>>
  BY DEF Write1, vars
<1>2. prog = "provision" /\ complete = 0 /\ todo \in ProvisionLeft
  BY <1>1, OtherAfterStep DEF FilesInv, StepsLeft
<1>3. waiting = NoQuery
  BY <1>1, <1>2 DEF FilesInv, StepsLeft, FileNames, Commands
<1>4. /\ DOMAIN files' = FileNames
      /\ \A other \in FileNames : other # name => files'[other] = files[other]
      /\ \/ files'[name] = Holding(value) /\ todo' = Tail(todo)
         \/ todo' = <<"exit">>
  BY DEF Write1, FilesInv
<1> QED
  BY <1>1, <1>2, <1>3, <1>4

\* An interrupted write leaves nothing to claim.
LEMMA TornKeepsFiles ==
    ASSUME prog' = "provision", complete' = 0, waiting' = NoQuery,
           DOMAIN files' = FileNames, todo' = <<"exit">>
    PROVE  FilesInv'
<1>1. todo' \in ProvisionLeft
  BY DEF ProvisionLeft
<1> QED
  BY <1>1 DEF FilesInv, StepsLeft, WrittenSoFar, FilesBelongTogether

LEMMA WritesKeepFiles ==
    ASSUME FilesInv, WritePub \/ WriteCert \/ WriteRootPub \/ WriteRootPriv
    PROVE  FilesInv'
<1> USE DEF FileNames
<1>1. CASE WritePub
  <2>1. Write1("pub", pub_pem) /\ ca' = ca
    BY <1>1 DEF WritePub
  <2>2. CASE todo' = <<"exit">>
    BY <2>1, <2>2, WriteByProvision, TornKeepsFiles
  <2>3. CASE todo' = Tail(todo) /\ files'["pub"] = Holding(pub_pem)
    <3>1. todo' = <<"cert", "rootPub", "rootPriv">>
      BY <2>1, <2>3, WriteByProvision, FileAtHand, Tails
    <3>2. files'["pub"].is = "written"
      BY <2>3 DEF Holding
    <3>3. todo' \in ProvisionLeft
      BY <3>1 DEF ProvisionLeft
    <3>4. todo' \notin {<<"rootPub", "rootPriv">>, <<"rootPriv">>, << >>}
      BY <3>1
    <3> QED
      BY <2>1, <3>2, <3>3, <3>4, WriteByProvision
         DEF FilesInv, StepsLeft, WrittenSoFar, FilesBelongTogether
  <2> QED
    BY <2>1, <2>2, <2>3, WriteByProvision
<1>2. CASE WriteCert
  <2> DEFINE cert == [key |-> pub_pem, ca |-> ca + 1]
  <2>1. Write1("cert", cert) /\ ca' = ca + 1
    BY <1>2 DEF WriteCert
  <2>2. CASE todo' = <<"exit">>
    BY <2>1, <2>2, WriteByProvision, TornKeepsFiles
  <2>3. CASE todo' = Tail(todo) /\ files'["cert"] = Holding(cert)
    <3>1. todo = <<"cert", "rootPub", "rootPriv">> /\ todo' = <<"rootPub", "rootPriv">>
      BY <2>1, <2>3, WriteByProvision, FileAtHand, Tails
    <3>2. files'["cert"].is = "written" /\ files'["cert"].value.ca = ca'
      BY <2>1, <2>3 DEF Holding
    <3>3. files'["pub"].is = "written"
      BY <2>1, <3>1, WriteByProvision DEF FilesInv, WrittenSoFar
    <3>4. todo' \in ProvisionLeft
      BY <3>1 DEF ProvisionLeft
    <3>5. todo' \notin {<<"rootPriv">>, << >>}
      BY <3>1
    <3> QED
      BY <2>1, <3>2, <3>3, <3>4, <3>5, WriteByProvision
         DEF FilesInv, StepsLeft, WrittenSoFar, FilesBelongTogether
  <2> QED
    BY <2>1, <2>2, <2>3, WriteByProvision
<1>3. CASE WriteRootPub
  <2>1. Write1("rootPub", ca) /\ ca' = ca
    BY <1>3 DEF WriteRootPub
  <2>2. CASE todo' = <<"exit">>
    BY <2>1, <2>2, WriteByProvision, TornKeepsFiles
  <2>3. CASE todo' = Tail(todo) /\ files'["rootPub"] = Holding(ca)
    <3>1. todo = <<"rootPub", "rootPriv">> /\ todo' = <<"rootPriv">>
      BY <2>1, <2>3, WriteByProvision, FileAtHand, Tails
    <3>2. /\ files'["pub"].is = "written"
          /\ files'["cert"].is = "written" /\ files'["cert"].value.ca = ca'
      BY <2>1, <3>1, WriteByProvision DEF FilesInv, WrittenSoFar
    <3>3. todo' \in ProvisionLeft
      BY <3>1 DEF ProvisionLeft
    <3>4. todo' # << >>
      BY <3>1
    <3>5. files'["rootPub"] = Holding(ca)'
      BY <2>1, <2>3 DEF Holding
    <3> QED
      BY <2>1, <3>2, <3>3, <3>4, <3>5, WriteByProvision
         DEF FilesInv, StepsLeft, WrittenSoFar, FilesBelongTogether
  <2> QED
    BY <2>1, <2>2, <2>3, WriteByProvision
<1>4. CASE WriteRootPriv
  <2>1. Write1("rootPriv", ca) /\ ca' = ca
    BY <1>4 DEF WriteRootPriv
  <2>2. CASE todo' = <<"exit">>
    BY <2>1, <2>2, WriteByProvision, TornKeepsFiles
  <2>3. CASE todo' = Tail(todo) /\ files'["rootPriv"] = Holding(ca)
    <3>1. todo = <<"rootPriv">>
      BY <2>1, <2>3, WriteByProvision, FileAtHand
    <3>2. /\ files'["pub"].is = "written"
          /\ files'["cert"].is = "written" /\ files'["cert"].value.ca = ca'
          /\ files'["rootPub"] = Holding(ca)'
      BY <2>1, <3>1, WriteByProvision DEF FilesInv, WrittenSoFar, Holding
    <3>3. todo' \in ProvisionLeft
      BY <2>3, <3>1, Tails DEF ProvisionLeft
    <3>4. files'["rootPriv"] = Holding(ca)'
      BY <2>1, <2>3 DEF Holding
    <3> QED
      BY <2>1, <3>2, <3>3, <3>4, WriteByProvision
         DEF FilesInv, StepsLeft, WrittenSoFar, FilesBelongTogether
  <2> QED
    BY <2>1, <2>2, <2>3, WriteByProvision
<1> QED
  BY <1>1, <1>2, <1>3, <1>4

\* A provision() that ends with no step left has written all four files.
LEMMA ExitKeepsFiles ==
    ASSUME FilesInv, Exit
    PROVE  FilesInv'
<1>1. prog' = "none" /\ todo' = << >> /\ UNCHANGED <<ca, files>>
  BY DEF Exit
<1>2. todo' \in OtherLeft
  BY <1>1 DEF OtherLeft
<1>3. FilesBelongTogether'
  <2>1. CASE prog = "provision" /\ todo = << >>
    <3>1. /\ files["pub"].is = "written" /\ files["cert"].is = "written"
          /\ files["cert"].value.ca = ca
          /\ files["rootPub"] = Holding(ca) /\ files["rootPriv"] = Holding(ca)
      BY <2>1 DEF FilesInv, WrittenSoFar
    <3>2. Holding(ca).is = "written" /\ Holding(ca).value = ca
      BY DEF Holding
    <3> QED
      BY <1>1, <3>1, <3>2 DEF FilesBelongTogether, FileNames
  <2>2. CASE ~ (prog = "provision" /\ todo = << >>)
    <3>1. complete' = complete
      BY <2>2 DEF Exit
    <3> QED
      BY <1>1, <3>1 DEF FilesInv, FilesBelongTogether
  <2> QED
    BY <2>1, <2>2
<1> QED
  BY <1>1, <1>2, <1>3 DEF FilesInv, StepsLeft, WrittenSoFar

\* A program stopped in a call leaves the files as they are.
LEMMA InterruptKeepsFiles ==
    ASSUME FilesInv, Interrupt
    PROVE  FilesInv'
<1>1. prog' = "none" /\ todo' = << >> /\ UNCHANGED <<ca, files, complete>>
  BY DEF Interrupt
<1>2. todo' \in OtherLeft
  BY <1>1 DEF OtherLeft
<1> QED
  BY <1>1, <1>2 DEF FilesInv, StepsLeft, WrittenSoFar, FilesBelongTogether

LEMMA FilesHold == ProvisioningSpec => []FilesInv
<1>1. ProvisioningInit => FilesInv
  <2>1. << >> \in OtherLeft
    BY DEF OtherLeft
  <2> QED
    BY <2>1 DEF ProvisioningInit, FilesInv, StepsLeft, WrittenSoFar, FilesBelongTogether
<1>2. FilesInv /\ [ProvisioningNext]_allVars => FilesInv'
  BY StartKeepsFiles, CallsKeepFiles, ReturnKeepsFiles, WritesKeepFiles, ExitKeepsFiles,
     InterruptKeepsFiles
     DEF ProvisioningNext
<1> QED
  BY <1>1, <1>2, PTL DEF ProvisioningSpec

\* After a provision() that completed, the certificate, the trust anchor and
\* the key of the CA belong together, whatever programs were interrupted
\* before, and wherever.
THEOREM ProvisionedFilesBelongTogether == ProvisioningSpec => []FilesBelongTogether
<1>1. FilesInv => FilesBelongTogether
  BY DEF FilesInv
<1> QED
  BY <1>1, FilesHold, PTL

-----------------------------------------------------------------------------
\* Scripts that complete

\* The programs that go through their steps and end.
Script == prog \in {"provision", "compat"}

\* The PING that a script begins with is under way.
AtPing == todo # << >> /\ Head(todo) = "PING"

\* The n-th call got the answer to its own command.
Own(n) == results[n].answered = results[n].asked

\* The calls of a script are its steps, the first of them made on connecting.
CallsMatch ==
    /\ prog \in {"none", "app", "provision", "compat"}
    /\ first \in 0..(Len(results) + 1)
    /\ Script =>
         /\ first # 0
         /\ waiting # NoQuery =>
              todo # << >> /\ Head(todo) \in Commands /\ waiting.cmd = Head(todo)
         /\ AtPing => first = Len(results) + 1 /\ waiting # NoQuery
         /\ ~AtPing => first <= Len(results) /\ results[first].fresh = fresh

\* A script that goes on is in step with the bridge, once the board was reset
\* for it or its PING got its own answer.
ScriptInStep ==
    Script /\ todo # <<"exit">> /\ (fresh \/ (first <= Len(results) /\ Own(first))) =>
        InStep /\ \A n \in first..Len(results) : Own(n)

CompletedInv ==
    /\ completed \subseteq [prog : {"provision", "compat"},
                            from : 1..Len(results), to : 1..Len(results)]
    /\ complete \in 0..Len(results)
    /\ CompletedInSync

ScriptInv == CallsMatch /\ ScriptInStep /\ CompletedInv

\* PING is the first step of a program only.
LEMMA NoSecondPing ==
    ASSUME todo \in ProvisionLeft \cup OtherLeft, todo # << >>
    PROVE  Tail(todo) # << >> => Head(Tail(todo)) # "PING"
<1>1. Tail(todo) \in
        {<<"GENKEY", "PUBKEY", "pub", "cert", "rootPub", "rootPriv">>,
         <<"PUBKEY", "pub", "cert", "rootPub", "rootPriv">>,
         <<"pub", "cert", "rootPub", "rootPriv">>,
         <<"cert", "rootPub", "rootPriv">>, <<"rootPub", "rootPriv">>,
         <<"rootPriv">>, << >>,
         <<"SIGN", "PUBKEY", "VERIFY", "VERIFYBAD">>,
         <<"PUBKEY", "VERIFY", "VERIFYBAD">>, <<"VERIFY", "VERIFYBAD">>, <<"VERIFYBAD">>}
  BY Tails DEF ProvisionLeft, OtherLeft
<1> QED
  BY <1>1, Heads

\* What is left of a program.
LEMMA LeftIs == FilesInv => todo \in ProvisionLeft \cup OtherLeft
  BY DEF FilesInv, StepsLeft

LEMMA ExitIsNoCall == Head(<<"exit">>) \notin Commands /\ Head(<<"exit">>) # "PING"
  BY Heads DEF Commands

\* What the return of a call leaves to the program.
LEMMA ReturnGives ==
    ASSUME IInv, Return
    PROVE  /\ waiting # NoQuery /\ waiting' = NoQuery /\ waiting.q = queries
           /\ Len(results) \in Nat /\ Len(results') = Len(results) + 1
           /\ \A n \in 1..Len(results) : results'[n] = results[n]
           /\ results'[Len(results) + 1].cmd = waiting.cmd
           /\ results'[Len(results) + 1].asked = queries
           /\ results'[Len(results) + 1].fresh = fresh
           /\ results'[Len(results) + 1].answered # 0 =>
                /\ ReadLine
                /\ results'[Len(results) + 1].answered = Head(toHost).q
                /\ results'[Len(results) + 1].key = Head(toHost).key
                /\ Head(toHost).tag = Expected[waiting.cmd]
           /\ prog' = IF open' THEN prog ELSE "none"
           /\ \/ todo' = After(TRUE) /\ results'[Len(results) + 1].answered # 0
              \/ todo' = After(FALSE)
           /\ pub_pem' = IF /\ results'[Len(results) + 1].answered # 0
                            /\ results'[Len(results) + 1].cmd = "PUBKEY"
                         THEN results'[Len(results) + 1].key ELSE pub_pem
           /\ UNCHANGED <<ca, files, first, completed, complete, queries, toBridge,
                          slotKey, fresh>>
<1>1. ReadLine \/ Timeout
  BY DEF Return
<1>2. Len(results) \in Nat /\ Len(results') = Len(results) + 1
  BY <1>1, CallReturns
<1>3. Last(results') = results'[Len(results) + 1]
  BY <1>2 DEF Last
<1>4. /\ prog' = IF open' THEN prog ELSE "none"
      /\ todo' = After(Last(results').answered # 0 /\ SameKey)
      /\ pub_pem' = IF Last(results').answered # 0 /\ Last(results').cmd = "PUBKEY"
                    THEN Last(results').key ELSE pub_pem
      /\ UNCHANGED <<ca, files, first, completed, complete>>
  BY DEF Return
<1>5. \/ todo' = After(TRUE) /\ results'[Len(results) + 1].answered # 0
      \/ todo' = After(FALSE)
  <2>1. CASE Last(results').answered # 0 /\ SameKey
    <3>1. (Last(results').answered # 0 /\ SameKey) = TRUE
      BY <2>1
    <3> QED
      BY <1>3, <1>4, <2>1, <3>1
  <2>2. CASE ~(Last(results').answered # 0 /\ SameKey)
    <3>1. (Last(results').answered # 0 /\ SameKey) = FALSE
      BY <2>2
    <3> QED
      BY <1>4, <3>1
  <2> QED
    BY <2>1, <2>2
<1>6. UNCHANGED <<queries, toBridge, slotKey, fresh>>
  BY <1>1 DEF ReadLine, Timeout
<1> QED
  BY <1>1, <1>3, <1>4, <1>5, <1>6, CallReturns

\* A script goes on to its next step only when its call got an answer.
LEMMA ReturnGoesOn ==
    ASSUME IInv, CallsMatch, Return, prog' \in {"provision", "compat"}
    PROVE  /\ prog' = prog /\ Script
           /\ todo # << >> /\ Head(todo) \in Commands /\ waiting.cmd = Head(todo)
           /\ \/ todo' = <<"exit">>
              \/ todo' = Tail(todo) /\ results'[Len(results) + 1].answered # 0
<1>1. prog' = prog /\ open' /\ Script
  BY ReturnGives DEF Script
<1>2. todo # << >> /\ Head(todo) \in Commands /\ waiting.cmd = Head(todo)
  BY <1>1, ReturnGives DEF CallsMatch
<1>3. After(TRUE) = Tail(todo) /\ After(FALSE) = <<"exit">>
  BY <1>1, <1>2 DEF After
<1> QED
  BY <1>1, <1>2, <1>3, ReturnGives

\* A program starts.
LEMMA StartGives ==
    ASSUME IInv, StartProvision \/ StartCompat \/ StartApp
    PROVE  /\ Connect /\ prog' \in {"provision", "compat", "app"}
           /\ todo' # << >> /\ Head(todo') = "PING"
           /\ first' = Len(results) + 1
           /\ complete' = IF prog' = "provision" THEN 0 ELSE complete
           /\ waiting'.cmd = "PING" /\ waiting' # NoQuery
           /\ UNCHANGED <<results, slotKey, unanswered, pub_pem, ca, files, completed>>
<1>1. PICK name \in {"provision", "compat", "app"},
           steps \in {ProvisionSteps(TRUE), ProvisionSteps(FALSE), CompatSteps, <<"PING">>} :
             Start(name, steps)
  BY DEF StartProvision, StartCompat, StartApp
<1>2. steps # << >> /\ Head(steps) = "PING"
  BY <1>1, Heads DEF ProvisionSteps, CompatSteps
<1>3. waiting'.cmd = "PING" /\ waiting' # NoQuery
  BY <1>1, NewCommand DEF Start, Connect, Write, IInv, Commands
<1> QED
  BY <1>1, <1>2, <1>3 DEF Start, Connect

LEMMA StartKeepsScript ==
    ASSUME IInv, ScriptInv, StartProvision \/ StartCompat \/ StartApp
    PROVE  ScriptInv'
<1>1. Len(results) \in Nat
  BY Types DEF IInv
<1>2. CallsMatch'
  BY <1>1, StartGives DEF CallsMatch, Script, AtPing, Commands
<1>3. ScriptInStep'
  <2>1. SUFFICES ASSUME fresh' PROVE InStep'
    BY <1>1, StartGives DEF ScriptInStep
  <2> QED
    BY <2>1, StartGives, ConnectInStep
<1>4. CompletedInv'
  BY <1>1, StartGives DEF ScriptInv, CompletedInv, CompletedInSync
<1> QED
  BY <1>2, <1>3, <1>4 DEF ScriptInv

\* A call is made, or the bridge answers one.
LEMMA CallGives ==
    ASSUME IInv,
           NextCall \/ AppCall \/ (Bridge /\ UNCHANGED programVars) \/ UNCHANGED allVars
    PROVE  /\ UNCHANGED <<programVars, results, fresh>>
           /\ InStep => InStep'
<1>1. CASE NextCall
  BY <1>1, CallInStep DEF NextCall, Call
<1>2. CASE AppCall
  <2>1. PICK cmd \in Commands : Call(cmd)
    BY <1>2 DEF AppCall, Sign, GetPublicKey, Commands
  <2> QED
    BY <1>2, <2>1, CallInStep DEF AppCall, Call
<1>3. CASE Bridge /\ UNCHANGED programVars
  <2>1. UNCHANGED <<results, fresh>>
    BY <1>3 DEF Bridge, BridgePing, BridgeSign, BridgePubKey, BridgeGenKey, BridgeVerify,
                BridgeChipError, Answer
  <2> QED
    BY <1>3, <2>1, BridgeInStep
<1>4. CASE UNCHANGED allVars
  BY <1>4 DEF allVars, vars, InStep
<1> QED
  BY <1>1, <1>2, <1>3, <1>4

LEMMA CallKeepsScript ==
    ASSUME IInv, ScriptInv,
           NextCall \/ AppCall \/ (Bridge /\ UNCHANGED programVars) \/ UNCHANGED allVars
    PROVE  ScriptInv'
<1>1. UNCHANGED <<programVars, results, fresh>> /\ (InStep => InStep')
  BY CallGives
<1>2. CallsMatch'
  <2>1. CASE NextCall
    <3>1. /\ todo # << >> /\ Head(todo) \in Commands
          /\ waiting' # NoQuery /\ waiting'.cmd = Head(todo)
      BY <2>1, NewCommand DEF NextCall, Call, Write, IInv
    <3> QED
      BY <1>1, <3>1 DEF ScriptInv, CallsMatch, Script, AtPing, programVars
  <2>2. CASE AppCall
    BY <1>1, <2>2 DEF AppCall, ScriptInv, CallsMatch, Script, programVars
  <2>3. Bridge => UNCHANGED waiting
    BY DEF Bridge, BridgePing, BridgeSign, BridgePubKey, BridgeGenKey, BridgeVerify,
           BridgeChipError, Answer
  <2>4. CASE UNCHANGED waiting
    BY <1>1, <2>4 DEF ScriptInv, CallsMatch, Script, AtPing, programVars
  <2>5. UNCHANGED allVars => UNCHANGED waiting
    BY DEF allVars, vars
  <2> QED
    BY <2>1, <2>2, <2>3, <2>4, <2>5
<1>3. ScriptInStep'
  BY <1>1 DEF ScriptInv, ScriptInStep, Script, Own, programVars
<1>4. CompletedInv'
  BY <1>1 DEF ScriptInv, CompletedInv, CompletedInSync, programVars
<1> QED
  BY <1>2, <1>3, <1>4 DEF ScriptInv

\* The answer that a script goes on with is the one to its call.
LEMMA ReturnKeepsScript ==
    ASSUME IInv, FilesInv, ScriptInv, Return
    PROVE  ScriptInv'
<1>1. /\ waiting' = NoQuery
      /\ Len(results) \in Nat /\ Len(results') = Len(results) + 1
      /\ \A n \in 1..Len(results) : results'[n] = results[n]
      /\ results'[Len(results) + 1].fresh = fresh
      /\ results'[Len(results) + 1].asked = queries
      /\ UNCHANGED <<first, completed, complete, fresh>>
  BY ReturnGives
<1>2. CallsMatch'
  <2>1. /\ first' \in 0..(Len(results') + 1)
        /\ prog' \in {"none", "app", "provision", "compat"}
    BY <1>1, ReturnGives DEF ScriptInv, CallsMatch
  <2>2. ASSUME prog' \in {"provision", "compat"}
        PROVE  /\ first' # 0 /\ ~AtPing'
               /\ first' <= Len(results') /\ results'[first'].fresh = fresh'
    <3>1. /\ Script /\ todo # << >>
          /\ todo' = <<"exit">> \/ todo' = Tail(todo)
      BY <2>2, ReturnGoesOn DEF ScriptInv
    <3>2. ~AtPing'
      BY <3>1, NoSecondPing, LeftIs, ExitIsNoCall DEF AtPing
    <3>3. first # 0
      BY <3>1 DEF ScriptInv, CallsMatch
    <3>4. CASE AtPing
      BY <1>1, <3>1, <3>2, <3>3, <3>4 DEF ScriptInv, CallsMatch
    <3>5. CASE ~AtPing
      BY <1>1, <3>1, <3>2, <3>3, <3>5 DEF ScriptInv, CallsMatch
    <3> QED
      BY <3>4, <3>5
  <2> QED
    BY <1>1, <2>1, <2>2 DEF CallsMatch, Script
<1>3. ScriptInStep'
  <2>1. SUFFICES ASSUME prog' \in {"provision", "compat"}, todo' # <<"exit">>,
                        fresh \/ results'[first].answered = results'[first].asked
                 PROVE  /\ InStep'
                        /\ \A n \in first..Len(results') :
                             results'[n].answered = results'[n].asked
    BY <1>1 DEF ScriptInStep, Script, Own
  <2>2. /\ Script /\ todo # << >> /\ Head(todo) \in Commands /\ waiting.cmd = Head(todo)
        /\ results'[Len(results) + 1].answered # 0
    BY <2>1, ReturnGoesOn DEF ScriptInv
  <2>3. ReadLine /\ results'[Len(results) + 1].answered = Head(toHost).q
    BY <2>2, ReturnGives
  <2>4. todo # <<"exit">> /\ first \in 1..(Len(results) + 1)
    BY <2>2, ExitIsNoCall DEF ScriptInv, CallsMatch
  <2>5. CASE first <= Len(results) \/ fresh
    <3>1. fresh \/ (first <= Len(results) /\ Own(first))
      BY <1>1, <2>1, <2>4, <2>5 DEF Own
    <3>2. InStep /\ \A n \in first..Len(results) : Own(n)
      BY <2>2, <2>4, <3>1 DEF ScriptInv, ScriptInStep
    <3>3. InStep' /\ results'[Len(results) + 1].answered = queries
      BY <2>2, <2>3, <3>2, ReadInStep
    <3>4. \A n \in first..Len(results') :
            (n \in first..Len(results) /\ results'[n] = results[n]) \/ n = Len(results) + 1
      BY <1>1, <2>4
    <3> QED
      BY <1>1, <3>2, <3>3, <3>4 DEF Own
  <2>6. CASE first = Len(results) + 1 /\ ~fresh
    <3>1. results'[Len(results) + 1].answered = queries
      BY <1>1, <2>1, <2>6
    <3>2. toBridge' = << >> /\ toHost' = << >>
      BY <2>3, <3>1, LastLine
    <3>3. \A n \in first..Len(results') : n = Len(results) + 1
      BY <1>1, <2>6
    <3> QED
      BY <1>1, <3>1, <3>2, <3>3 DEF InStep
  <2> QED
    BY <1>1, <2>4, <2>5, <2>6
<1>4. CompletedInv'
  BY <1>1 DEF ScriptInv, CompletedInv, CompletedInSync
<1> QED
  BY <1>2, <1>3, <1>4 DEF ScriptInv

\* The files are written between the calls.
LEMMA WriteKeepsScript ==
    ASSUME FilesInv, ScriptInv, NEW name \in FileNames, NEW value, Write1(name, value)
    PROVE  ScriptInv'
<1>1. /\ prog = "provision" /\ prog' = "provision"
      /\ todo # << >> /\ Head(todo) = name /\ waiting' = NoQuery
      /\ todo' = Tail(todo) \/ todo' = <<"exit">>
  BY WriteByProvision
<1>2. UNCHANGED <<vars, first, completed, complete>>
  BY DEF Write1
<1>3. Head(todo) \notin Commands /\ name # "exit" /\ Head(todo) # "PING"
  BY <1>1 DEF FileNames, Commands
<1>4. ~AtPing /\ ~AtPing' /\ todo # <<"exit">>
  <2>1. todo # <<"exit">>
    BY <1>1, <1>3, Heads
  <2> QED
    BY <1>1, <1>3, <2>1, NoSecondPing, LeftIs, ExitIsNoCall DEF AtPing
<1>5. UNCHANGED <<results, fresh, waiting, toBridge, toHost, slotKey>>
  BY <1>2 DEF vars
<1>6. CallsMatch'
  BY <1>1, <1>2, <1>4, <1>5 DEF ScriptInv, CallsMatch, Script
<1>7. ScriptInStep'
  BY <1>1, <1>2, <1>4, <1>5 DEF ScriptInv, ScriptInStep, Script, Own, InStep
<1>8. CompletedInv'
  BY <1>2, <1>5 DEF ScriptInv, CompletedInv, CompletedInSync
<1> QED
  BY <1>6, <1>7, <1>8 DEF ScriptInv

\* A script that ends with no step left has been in step from its PING on.
LEMMA ExitKeepsScript ==
    ASSUME IInv, ScriptInv, Exit
    PROVE  ScriptInv'
<1>1. /\ prog' = "none" /\ UNCHANGED <<results, first>> /\ Len(results) \in Nat
  BY Types DEF Exit, Close, IInv
<1>2. CallsMatch' /\ ScriptInStep'
  BY <1>1 DEF ScriptInv, CallsMatch, ScriptInStep, Script
<1>3. CASE UNCHANGED <<completed, complete>>
  BY <1>1, <1>2, <1>3 DEF ScriptInv, CompletedInv, CompletedInSync
<1>4. CASE /\ todo = << >> /\ prog # "app" /\ prog # "none"
           /\ completed' = completed \cup {[prog |-> prog, from |-> first, to |-> Len(results)]}
           /\ complete' \in {first, complete}
  <2>1. CASE Script
    <3>1. first \in 1..Len(results) /\ results[first].fresh = fresh /\ todo # <<"exit">>
      BY <1>1, <1>4, <2>1 DEF ScriptInv, CallsMatch, AtPing
    <3>2. fresh \/ Own(first) =>
            \A n \in first..Len(results) : results[n].answered = results[n].asked
      BY <2>1, <3>1 DEF ScriptInv, ScriptInStep, Own
    <3>3. CompletedInSync'
      BY <1>1, <1>4, <3>1, <3>2 DEF ScriptInv, CompletedInv, CompletedInSync, Own
    <3>4. /\ completed' \subseteq [prog : {"provision", "compat"},
                                   from : 1..Len(results), to : 1..Len(results)]
          /\ complete' \in 0..Len(results)
      BY <1>1, <1>4, <2>1, <3>1 DEF ScriptInv, CompletedInv, Script
    <3> QED
      BY <1>1, <1>2, <3>3, <3>4 DEF ScriptInv, CompletedInv
  <2> QED
    BY <1>4, <2>1 DEF ScriptInv, CallsMatch, Script
<1> QED
  BY <1>3, <1>4 DEF Exit

\* One that is stopped in a call does not complete; the call counts as one that
\* raised.
LEMMA StopGives ==
    ASSUME IInv, Stop
    PROVE  /\ Len(results) \in Nat /\ Len(results') = Len(results) + 1
           /\ \A n \in 1..Len(results) : results'[n] = results[n]
           /\ UNCHANGED <<queries, toBridge, slotKey, fresh>>
<1>1. results \in Seq(Result) /\ Len(results) \in Nat
  BY Types DEF IInv
<1>2. PICK call : results' = Append(results, call)
  BY DEF Stop, Ended
<1>3. UNCHANGED <<queries, toBridge, slotKey, fresh>>
  BY DEF Stop
<1> QED
  BY <1>1, <1>2, <1>3, AppendProperties, LenProperties

LEMMA InterruptKeepsScript ==
    ASSUME IInv, ScriptInv, Interrupt
    PROVE  ScriptInv'
<1>1. /\ prog' = "none" /\ UNCHANGED <<first, completed, complete>>
      /\ Len(results) \in Nat /\ Len(results') = Len(results) + 1
      /\ \A n \in 1..Len(results) : results'[n] = results[n]
  BY StopGives DEF Interrupt
<1>2. CallsMatch' /\ ScriptInStep'
  BY <1>1 DEF ScriptInv, CallsMatch, ScriptInStep, Script
<1>3. CompletedInv'
  BY <1>1 DEF ScriptInv, CompletedInv, CompletedInSync
<1> QED
  BY <1>2, <1>3 DEF ScriptInv

LEMMA ScriptsHold == ProvisioningSpec => []ScriptInv
<1>1. ProvisioningInit => ScriptInv
  BY DEF ProvisioningInit, Init, ScriptInv, CallsMatch, ScriptInStep, CompletedInv,
         CompletedInSync, Script
<1>2. IInv /\ FilesInv /\ ScriptInv /\ [ProvisioningNext]_allVars => ScriptInv'
  <2>1. SUFFICES ASSUME IInv, FilesInv, ScriptInv, [ProvisioningNext]_allVars
                 PROVE  ScriptInv'
    OBVIOUS
  <2>2. CASE WritePub \/ WriteCert \/ WriteRootPub \/ WriteRootPriv
    <3>1. PICK name \in FileNames : \E value : Write1(name, value)
      BY <2>2 DEF WritePub, WriteCert, WriteRootPub, WriteRootPriv, FileNames
    <3>2. PICK value : Write1(name, value)
      BY <3>1
    <3> QED
      BY <2>1, <3>2, WriteKeepsScript
  <2> QED
    BY <2>1, <2>2, StartKeepsScript, CallKeepsScript, ReturnKeepsScript, ExitKeepsScript,
       InterruptKeepsScript
       DEF ProvisioningNext
<1> QED
  BY <1>1, <1>2, LinkHolds, FilesHold, PTL DEF ProvisioningSpec

\* On a board that was reset when the port was opened, and on any other when
\* their PING got its own answer, provision() and the compatibility test
\* complete only on the answers to their own commands, whatever interrupted
\* programs left unanswered (provisioning/provision.py, cross_compat_test.py).
THEOREM ScriptsCompletedInSync == ProvisioningSpec => []CompletedInSync
<1>1. ScriptInv => CompletedInSync
  BY DEF ScriptInv, CompletedInv
<1> QED
  BY <1>1, ScriptsHold, PTL

-----------------------------------------------------------------------------
\* The key of a completed provisioning

\* What is left once the public key was read: all files, all but the first,
\* and all but the first two.
AfterKey == {<<"pub", "cert", "rootPub", "rootPriv">>} \cup
            {<<"cert", "rootPub", "rootPriv">>, <<"rootPub", "rootPriv">>,
             <<"rootPriv">>, << >>}
AfterPub == {<<"cert", "rootPub", "rootPriv">>, <<"rootPub", "rootPriv">>,
             <<"rootPriv">>, << >>}
AfterCert == {<<"rootPub", "rootPriv">>, <<"rootPriv">>, << >>}

\* A provision() whose PING got its own answer has read the key of the chip,
\* and that is the key it writes and certifies.
KeyWritten ==
    prog = "provision" /\ first <= Len(results) /\ Own(first) =>
        /\ todo \in AfterKey => pub_pem = slotKey
        /\ todo \in AfterPub => files["pub"] = Holding(pub_pem)
        /\ todo \in AfterCert => files["cert"].value.key = pub_pem

\* Nothing on its way makes a new key pair once such a provision() completed.
KeyStays ==
    complete # 0 /\ Own(complete) =>
        /\ files["pub"] = Holding(slotKey) /\ files["cert"].value.key = slotKey
        /\ \A j \in 1..Len(toBridge) : toBridge[j].cmd # "GENKEY"

KeyInv == KeyWritten /\ KeyStays

\* After its key, provision() has only files left, and waits for nothing.
LEMMA KeyIsRead ==
    ASSUME IInv, FilesInv, ScriptInv, prog = "provision",
           first <= Len(results), Own(first), todo \in AfterKey
    PROVE  waiting = NoQuery /\ toBridge = << >> /\ toHost = << >>
<1>1. todo = << >> \/ Head(todo) \notin Commands
  BY Heads DEF AfterKey, Commands
<1>2. waiting = NoQuery
  BY <1>1 DEF FilesInv, StepsLeft
<1>3. todo # <<"exit">>
  BY DEF AfterKey
<1>4. InStep
  BY <1>3 DEF ScriptInv, ScriptInStep, Script
<1> QED
  BY <1>2, <1>4 DEF InStep

LEMMA StartKeepsKey ==
    ASSUME IInv, ScriptInv, KeyInv, StartProvision \/ StartCompat \/ StartApp
    PROVE  KeyInv'
<1>1. Len(results) \in Nat
  BY Types DEF IInv
<1>2. KeyWritten'
  BY <1>1, StartGives DEF KeyWritten
<1>3. ASSUME NEW j \in 1..Len(toBridge')
      PROVE  \/ toBridge'[j].cmd = "PING"
             \/ j \in 1..Len(toBridge) /\ toBridge'[j] = toBridge[j]
  <2>1. waiting'.cmd = "PING" /\ waiting' \in Command /\ toBridge \in Seq(Command)
    BY StartGives, NewCommand, Types DEF Connect, IInv, Commands
  <2>2. PICK reset \in BOOLEAN, heard \in BOOLEAN :
               toBridge' = (IF reset THEN << >> ELSE toBridge)
                              \o (IF heard THEN <<waiting'>> ELSE << >>)
    BY StartGives DEF Connect
  <2>3. /\ << >> \o << >> = << >> /\ << >> \o <<waiting'>> = <<waiting'>>
        /\ toBridge \o << >> = toBridge
        /\ toBridge \o <<waiting'>> = Append(toBridge, waiting')
    BY <2>1, AppendIsConcat, ConcatEmptySeq
  <2>4. toBridge' \in {<< >>, toBridge, <<waiting'>>, Append(toBridge, waiting')}
    BY <2>2, <2>3
  <2>5. CASE toBridge' = Append(toBridge, waiting')
    BY <2>1, <2>5, AppendProperties, LenProperties
  <2>6. CASE toBridge' \in {<< >>, toBridge, <<waiting'>>}
    BY <2>1, <2>6
  <2> QED
    BY <2>4, <2>5, <2>6
<1>4. KeyStays'
  BY <1>1, <1>3, StartGives DEF KeyInv, KeyStays, ScriptInv, CompletedInv, Own
<1> QED
  BY <1>2, <1>4 DEF KeyInv

LEMMA CallKeepsKey ==
    ASSUME IInv, FilesInv, ScriptInv, KeyInv, NextCall \/ AppCall
    PROVE  KeyInv'
<1>1. PICK cmd \in Commands : Call(cmd) /\ (cmd = Head(todo) \/ cmd \in {"SIGN", "PUBKEY"})
  BY DEF NextCall, AppCall, Sign, GetPublicKey, Commands
<1>2. UNCHANGED <<programVars, results, slotKey>> /\ toBridge' = Append(toBridge, waiting')
  BY <1>1 DEF NextCall, AppCall, Call
<1>3. KeyWritten'
  BY <1>2 DEF KeyInv, KeyWritten, Own, programVars
<1>4. ASSUME complete # 0, Own(complete)
      PROVE  \A j \in 1..Len(toBridge') : toBridge'[j].cmd # "GENKEY"
  <2>1. prog # "provision"
    BY <1>4 DEF FilesInv, StepsLeft
  <2>2. NextCall => todo # << >> /\ cmd # "GENKEY"
    <3>1. ASSUME NextCall PROVE todo # << >> /\ Head(todo) # "GENKEY"
      BY <2>1, <3>1, Heads DEF NextCall, FilesInv, StepsLeft, OtherLeft
    <3> QED
      BY <1>1, <3>1
  <2>3. AppCall => cmd # "GENKEY"
    <3>1. ASSUME AppCall PROVE waiting'.cmd \in {"SIGN", "PUBKEY"}
      BY <3>1 DEF AppCall, Sign, GetPublicKey, Call, Write
    <3> QED
      BY <1>1, <3>1 DEF Call, Write
  <2>4. waiting'.cmd # "GENKEY" /\ waiting' \in Command /\ toBridge \in Seq(Command)
    BY <1>1, <2>2, <2>3, NewCommand, Types DEF Call, Write, IInv
  <2> QED
    BY <1>2, <1>4, <2>4, AppendProperties, LenProperties DEF KeyInv, KeyStays
<1>5. KeyStays'
  BY <1>2, <1>4 DEF KeyInv, KeyStays, Own, programVars
<1> QED
  BY <1>3, <1>5 DEF KeyInv

\* The bridge makes a key pair only when it was asked to.
LEMMA BridgeKeepsKey ==
    ASSUME IInv, FilesInv, ScriptInv, KeyInv, Bridge, UNCHANGED programVars
    PROVE  KeyInv'
<1>1. PICK cmd, tag, key :
             Answer(cmd, tag, key) /\ (cmd = "GENKEY" \/ UNCHANGED slotKey)
  BY DEF Bridge, BridgePing, BridgeSign, BridgePubKey, BridgeGenKey, BridgeVerify,
         BridgeChipError
<1>2. /\ toBridge # << >> /\ Head(toBridge).cmd = cmd /\ toBridge' = Tail(toBridge)
      /\ UNCHANGED results
  BY <1>1 DEF Answer
<1>3. KeyWritten'
  <2>1. SUFFICES ASSUME prog = "provision", first <= Len(results), Own(first)
                 PROVE  todo \notin AfterKey
    BY <1>2 DEF KeyWritten, Own, programVars, AfterKey, AfterPub, AfterCert
  <2> QED
    BY <1>2, <2>1, KeyIsRead
<1>4. /\ 1 \in 1..Len(toBridge) /\ Head(toBridge) = toBridge[1]
      /\ \A j \in 1..Len(toBridge') : j + 1 \in 1..Len(toBridge)
                                     /\ toBridge'[j] = toBridge[j + 1]
  <2>1. toBridge \in Seq(Command) /\ Len(toBridge) \in Nat
    BY Types DEF IInv
  <2> QED
    BY <1>2, <2>1, EmptySeq, HeadTailProperties
<1>5. KeyStays'
  <2>1. SUFFICES ASSUME complete # 0, Own(complete)
                 PROVE  /\ UNCHANGED slotKey
                        /\ \A j \in 1..Len(toBridge') : toBridge'[j].cmd # "GENKEY"
    BY <1>2 DEF KeyInv, KeyStays, Own, programVars
  <2>2. \A j \in 1..Len(toBridge) : toBridge[j].cmd # "GENKEY"
    BY <2>1 DEF KeyInv, KeyStays
  <2> QED
    BY <1>1, <1>2, <1>4, <2>2
<1> QED
  BY <1>3, <1>5 DEF KeyInv

\* Only the public key is read right before the files.
LEMMA KeyAtHand ==
    ASSUME todo \in ProvisionLeft, todo # << >>, Head(todo) \in Commands,
           Tail(todo) \in AfterKey
    PROVE  todo = <<"PUBKEY", "pub", "cert", "rootPub", "rootPriv">>
<1>1. todo \in
        {<<"PING", "GENKEY", "PUBKEY", "pub", "cert", "rootPub", "rootPriv">>,
         <<"PING", "PUBKEY", "pub", "cert", "rootPub", "rootPriv">>,
         <<"GENKEY", "PUBKEY", "pub", "cert", "rootPub", "rootPriv">>,
         <<"PUBKEY", "pub", "cert", "rootPub", "rootPriv">>}
  BY CallAtHand
<1>2. /\ <<"GENKEY", "PUBKEY", "pub", "cert", "rootPub", "rootPriv">> \notin AfterKey
      /\ <<"PUBKEY", "pub", "cert", "rootPub", "rootPriv">> \notin AfterKey
  BY DEF AfterKey
<1> QED
  BY <1>1, <1>2, Tails

\* provision() reads its public key in step with the bridge.
LEMMA ReturnKeepsKey ==
    ASSUME IInv, FilesInv, ScriptInv, KeyInv, Return
    PROVE  KeyInv'
<1>1. /\ Len(results) \in Nat /\ Len(results') = Len(results) + 1
      /\ \A n \in 1..Len(results) : results'[n] = results[n]
      /\ UNCHANGED <<files, first, complete, slotKey, toBridge, fresh>>
  BY ReturnGives
<1>2. KeyStays'
  <2>1. complete \in 0..Len(results)
    BY DEF ScriptInv, CompletedInv
  <2> QED
    BY <1>1, <2>1 DEF KeyInv, KeyStays, Own
<1>3. KeyWritten'
  <2>1. SUFFICES ASSUME prog' = "provision", results'[first].answered = results'[first].asked,
                        todo' \in AfterKey
                 PROVE  pub_pem' = slotKey /\ todo' \notin AfterPub
    BY <1>1 DEF KeyWritten, Own, AfterKey, AfterPub, AfterCert
  <2>2. /\ prog = "provision" /\ todo # << >> /\ Head(todo) \in Commands
        /\ waiting.cmd = Head(todo) /\ todo' = Tail(todo)
        /\ results'[Len(results) + 1].answered # 0
    <3>1. todo' # <<"exit">>
      BY <2>1 DEF AfterKey
    <3> QED
      BY <2>1, <3>1, ReturnGoesOn DEF ScriptInv
  <2>3. todo \in ProvisionLeft
    BY <2>2 DEF FilesInv, StepsLeft
  <2>4. todo = <<"PUBKEY", "pub", "cert", "rootPub", "rootPriv">>
    BY <2>1, <2>2, <2>3, KeyAtHand
  <2>5. todo' = <<"pub", "cert", "rootPub", "rootPriv">> /\ waiting.cmd = "PUBKEY"
    BY <2>2, <2>4, Tails, Heads
  <2>6. first \in 1..Len(results) /\ Own(first) /\ todo # <<"exit">>
    <3>1. first \in 1..Len(results)
      BY <1>1, <2>2, <2>4, Heads DEF ScriptInv, CallsMatch, Script, AtPing
    <3> QED
      BY <1>1, <2>1, <2>4, <3>1 DEF Own
  <2>7. InStep
    BY <2>2, <2>6 DEF ScriptInv, ScriptInStep, Script
  <2>8. ReadLine /\ Head(toHost).tag = "PUB" /\ pub_pem' = Head(toHost).key
    BY <2>2, <2>5, ReturnGives DEF Expected
  <2>9. pub_pem' = slotKey
    BY <2>2, <2>7, <2>8, ReadInStep
  <2> QED
    BY <2>5, <2>9 DEF AfterPub
<1> QED
  BY <1>2, <1>3 DEF KeyInv

\* The key that was read is the one that is written and certified.
LEMMA WritesKeepKey ==
    ASSUME FilesInv, KeyInv, WritePub \/ WriteCert \/ WriteRootPub \/ WriteRootPriv
    PROVE  KeyInv'
<1>0. PICK name \in FileNames : \E value :
             /\ Write1(name, value)
             /\ name = "pub" => value = pub_pem
             /\ name = "cert" => value.key = pub_pem
  <2>1. CASE WritePub
    BY <2>1 DEF WritePub, FileNames
  <2>2. CASE WriteCert
    BY <2>2 DEF WriteCert, FileNames
  <2>3. CASE WriteRootPub
    BY <2>3 DEF WriteRootPub, FileNames
  <2>4. CASE WriteRootPriv
    BY <2>4 DEF WriteRootPriv, FileNames
  <2> QED
    BY <2>1, <2>2, <2>3, <2>4
<1>1. PICK value :
             /\ Write1(name, value)
             /\ name = "pub" => value = pub_pem
             /\ name = "cert" => value.key = pub_pem
  BY <1>0
<1>2. /\ prog = "provision" /\ complete' = 0
      /\ todo \in ProvisionLeft /\ todo # << >> /\ Head(todo) = name
      /\ \A other \in FileNames : other # name => files'[other] = files[other]
      /\ \/ files'[name] = Holding(value) /\ todo' = Tail(todo)
         \/ todo' = <<"exit">>
      /\ UNCHANGED <<results, slotKey, pub_pem, first>>
  <2>1. UNCHANGED <<results, slotKey, pub_pem, first>>
    BY <1>1 DEF Write1, vars
  <2> QED
    BY <1>1, <2>1, WriteByProvision
<1>3. KeyStays'
  BY <1>2 DEF KeyStays
<1>4. CASE todo' = <<"exit">>
  <2>1. todo' \notin AfterKey /\ todo' \notin AfterPub /\ todo' \notin AfterCert
    BY <1>4 DEF AfterKey, AfterPub, AfterCert
  <2> QED
    BY <1>3, <2>1 DEF KeyInv, KeyWritten
<1>5. CASE files'[name] = Holding(value) /\ todo' = Tail(todo)
  <2>1. SUFFICES ASSUME first <= Len(results), Own(first)
                 PROVE  /\ todo' \in AfterKey => pub_pem = slotKey
                        /\ todo' \in AfterPub => files'["pub"] = Holding(pub_pem)
                        /\ todo' \in AfterCert => files'["cert"].value.key = pub_pem
    BY <1>2, <1>3 DEF KeyInv, KeyWritten, Own
  <2>2. /\ todo \in AfterKey => pub_pem = slotKey
        /\ todo \in AfterPub => files["pub"] = Holding(pub_pem)
        /\ todo \in AfterCert => files["cert"].value.key = pub_pem
    BY <1>2, <2>1 DEF KeyInv, KeyWritten
  <2>3. name \in {"pub", "cert", "rootPub", "rootPriv"}
    BY DEF FileNames
  <2>4. CASE name = "pub"
    <3>1. todo = <<"pub", "cert", "rootPub", "rootPriv">>
          /\ todo' = <<"cert", "rootPub", "rootPriv">>
      BY <1>2, <1>5, <2>4, FileAtHand, Tails
    <3>2. todo \in AfterKey /\ todo' \notin AfterCert
      BY <3>1 DEF AfterKey, AfterCert
    <3> QED
      BY <1>1, <1>5, <2>2, <2>4, <3>2
  <2>5. CASE name = "cert"
    <3>1. todo = <<"cert", "rootPub", "rootPriv">>
      BY <1>2, <2>5, FileAtHand
    <3>2. todo \in AfterKey /\ todo \in AfterPub
      BY <3>1 DEF AfterKey, AfterPub
    <3>3. files'["pub"] = files["pub"] /\ files'["cert"].value = value
      BY <1>2, <1>5, <2>5 DEF FileNames, Holding
    <3> QED
      BY <1>1, <2>2, <2>5, <3>2, <3>3
  <2>6. CASE name \in {"rootPub", "rootPriv"}
    <3>1. todo \in {<<"rootPub", "rootPriv">>, <<"rootPriv">>}
      BY <1>2, <2>6, FileAtHand
    <3>2. todo \in AfterKey /\ todo \in AfterPub /\ todo \in AfterCert
      BY <3>1 DEF AfterKey, AfterPub, AfterCert
    <3>3. files'["pub"] = files["pub"] /\ files'["cert"] = files["cert"]
      BY <1>2, <2>6 DEF FileNames
    <3> QED
      BY <2>2, <3>2, <3>3
  <2> QED
    BY <2>3, <2>4, <2>5, <2>6
<1> QED
  BY <1>2, <1>4, <1>5

LEMMA ExitKeepsKey ==
    ASSUME IInv, FilesInv, ScriptInv, KeyInv, Exit
    PROVE  KeyInv'
<1>1. /\ prog' = "none" /\ UNCHANGED <<files, results, slotKey, toBridge>>
  BY DEF Exit, Close
<1>2. KeyWritten'
  BY <1>1 DEF KeyWritten
<1>3. CASE complete' = complete
  BY <1>1, <1>2, <1>3 DEF KeyInv, KeyStays, Own
<1>4. CASE prog = "provision" /\ todo = << >> /\ complete' = first
  <2>1. todo \in AfterKey /\ todo \in AfterPub /\ todo \in AfterCert
    BY <1>4 DEF AfterKey, AfterPub, AfterCert
  <2>2. first <= Len(results)
    BY <1>4 DEF ScriptInv, CallsMatch, Script, AtPing
  <2>3. KeyStays'
    <3>1. SUFFICES ASSUME Own(first)
                   PROVE  /\ files["pub"] = Holding(slotKey)
                          /\ files["cert"].value.key = slotKey
                          /\ toBridge = << >>
      BY <1>1, <1>4 DEF KeyStays, Own
    <3>2. toBridge = << >>
      BY <1>4, <2>1, <2>2, <3>1, KeyIsRead
    <3> QED
      BY <1>4, <2>1, <2>2, <3>1, <3>2 DEF KeyInv, KeyWritten
  <2> QED
    BY <1>2, <2>3 DEF KeyInv
<1> QED
  BY <1>3, <1>4 DEF Exit

LEMMA InterruptKeepsKey ==
    ASSUME IInv, ScriptInv, KeyInv, Interrupt
    PROVE  KeyInv'
<1>1. /\ prog' = "none" /\ UNCHANGED <<files, complete, slotKey, toBridge>>
      /\ Len(results) \in Nat
      /\ \A n \in 1..Len(results) : results'[n] = results[n]
  BY StopGives DEF Interrupt
<1>2. KeyWritten'
  BY <1>1 DEF KeyWritten
<1>3. complete \in 0..Len(results)
  BY DEF ScriptInv, CompletedInv
<1>4. KeyStays'
  BY <1>1, <1>3 DEF KeyInv, KeyStays, Own
<1> QED
  BY <1>2, <1>4 DEF KeyInv

\* The key that a completed provision() certified and wrote is the one in the
\* chip until the next provision() is started, if its PING was answered by its
\* own PONG: whatever interrupted programs had left for the bridge was
\* processed before that, and no other program makes a key (provision.py).
THEOREM CertifiedKeyIsChipKey == ProvisioningSpec => []DeployedKeyIsChipKey
<1>1. ProvisioningInit => KeyInv
  BY DEF ProvisioningInit, KeyInv, KeyWritten, KeyStays
<1>2. IInv /\ FilesInv /\ ScriptInv /\ KeyInv /\ [ProvisioningNext]_allVars => KeyInv'
  <2>1. SUFFICES ASSUME IInv, FilesInv, ScriptInv, KeyInv, [ProvisioningNext]_allVars
                 PROVE  KeyInv'
    OBVIOUS
  <2>2. CASE UNCHANGED allVars
    BY <2>1, <2>2 DEF allVars, vars, programVars, KeyInv, KeyWritten, KeyStays, Own
  <2> QED
    BY <2>1, <2>2, StartKeepsKey, CallKeepsKey, BridgeKeepsKey, ReturnKeepsKey,
       WritesKeepKey, ExitKeepsKey, InterruptKeepsKey
       DEF ProvisioningNext
<1>3. KeyInv => DeployedKeyIsChipKey
  BY DEF KeyInv, KeyStays, DeployedKeyIsChipKey, Own
<1> QED
  BY <1>1, <1>2, <1>3, LinkHolds, FilesHold, ScriptsHold, PTL DEF ProvisioningSpec

-----------------------------------------------------------------------------
\* Type correctness

\* No line on its way is of a key pair that was not made yet.
KeysKnown == \A i \in 1..Len(toHost) : toHost[i].key <= slotKey

FilesTyped ==
    /\ files["pub"] \in FileOf(0..slotKey)
    /\ files["cert"] \in FileOf([key : 0..slotKey, ca : 1..ca])
    /\ files["rootPub"] \in FileOf(1..ca)
    /\ files["rootPriv"] \in FileOf(1..ca)

\* The steps left of provision() while its RootCA() is still to be made.
BeforeCA ==
    {<<"PING", "GENKEY", "PUBKEY", "pub", "cert", "rootPub", "rootPriv">>,
     <<"PING", "PUBKEY", "pub", "cert", "rootPub", "rootPriv">>,
     <<"GENKEY", "PUBKEY", "pub", "cert", "rootPub", "rootPriv">>,
     <<"PUBKEY", "pub", "cert", "rootPub", "rootPriv">>,
     <<"pub", "cert", "rootPub", "rootPriv">>,
     <<"cert", "rootPub", "rootPriv">>}

\* A RootCA() is made by a provision(), and each of these has made a query.
ValuesInv ==
    /\ KeysKnown
    /\ pub_pem \in 0..slotKey
    /\ ca \in 0..queries
    /\ prog = "provision" /\ todo \in BeforeCA => ca < queries
    /\ prog = "provision" /\ todo \in AfterCert => ca > 0
    /\ FilesTyped

LEMMA FileOfMore ==
    ASSUME NEW S, NEW T, S \subseteq T
    PROVE  FileOf(S) \subseteq FileOf(T)
  BY DEF FileOf

\* Key pairs, queries and RootCA()s are only ever added.
LEMMA FilesStayTyped ==
    ASSUME FilesTyped, slotKey \in Nat, ca \in Nat,
           NEW k \in Nat, slotKey <= k, NEW c \in Nat, ca <= c
    PROVE  /\ files["pub"] \in FileOf(0..k)
           /\ files["cert"] \in FileOf([key : 0..k, ca : 1..c])
           /\ files["rootPub"] \in FileOf(1..c)
           /\ files["rootPriv"] \in FileOf(1..c)
<1>1. /\ 0..slotKey \subseteq 0..k /\ 1..ca \subseteq 1..c
  OBVIOUS
<1>2. [key : 0..slotKey, ca : 1..ca] \subseteq [key : 0..k, ca : 1..c]
  BY <1>1
<1>3. /\ FileOf(0..slotKey) \subseteq FileOf(0..k)
      /\ FileOf(1..ca) \subseteq FileOf(1..c)
  BY <1>1, FileOfMore
<1>4. FileOf([key : 0..slotKey, ca : 1..ca]) \subseteq FileOf([key : 0..k, ca : 1..c])
  BY <1>2, FileOfMore
<1> QED
  BY <1>3, <1>4 DEF FilesTyped

\* What a step of the link does to the keys.
LEMMA LinkKeys ==
    ASSUME IInv, IInv', KeysKnown, LinkStep \/ UNCHANGED vars
    PROVE  /\ slotKey \in Nat /\ slotKey' \in Nat /\ slotKey <= slotKey'
           /\ queries \in Nat /\ queries' \in Nat /\ queries <= queries'
           /\ KeysKnown'
<1>1. /\ slotKey \in Nat /\ slotKey' \in Nat /\ queries \in Nat /\ queries' \in Nat
      /\ toHost \in Seq(Line) /\ Len(toHost) \in Nat
  <2>1. slotKey' \in Nat /\ queries' \in Nat
    BY QueriesAssumption DEF IInv, TypeOK
  <2> QED
    BY <2>1, Types DEF IInv
<1>2. CASE Connect
  <2>1. queries' = queries + 1 /\ UNCHANGED slotKey
    BY <1>2 DEF Connect, Write
  <2>2. \A i \in 1..Len(toHost') : toHost'[i].key = 0
    BY <1>2 DEF Connect
  <2>3. 0 <= slotKey' /\ slotKey <= slotKey' /\ queries <= queries'
    BY <1>1, <2>1
  <2>4. KeysKnown'
    BY <2>2, <2>3 DEF KeysKnown
  <2> QED
    BY <1>1, <2>3, <2>4
<1>3. CASE \E cmd \in Commands : Call(cmd)
  <2>1. queries' = queries + 1 /\ UNCHANGED <<slotKey, toHost>>
    BY <1>3 DEF Call, Write
  <2> QED
    BY <1>1, <2>1 DEF KeysKnown
<1>4. CASE ReadLine
  <2>1. /\ toHost # << >> /\ toHost' \in {Tail(toHost), << >>}
        /\ UNCHANGED <<slotKey, queries>>
    BY <1>4 DEF ReadLine
  <2>2. \A i \in 1..Len(Tail(toHost)) :
          i + 1 \in 1..Len(toHost) /\ Tail(toHost)[i] = toHost[i + 1]
    BY <1>1, <2>1, EmptySeq, HeadTailProperties
  <2>3. toHost' = Tail(toHost) \/ toHost' = << >>
    BY <2>1
  <2>4. KeysKnown'
    BY <2>1, <2>2, <2>3 DEF KeysKnown
  <2> QED
    BY <1>1, <2>1, <2>4
<1>5. CASE Timeout \/ Stop \/ Close \/ UNCHANGED vars
  <2>1. UNCHANGED <<slotKey, queries>> /\ toHost' \in {toHost, << >>}
    BY <1>5 DEF Timeout, Stop, Close, vars
  <2> QED
    BY <1>1, <2>1 DEF KeysKnown
<1>6. CASE Bridge
  <2>1. PICK cmd, tag, key :
               /\ Answer(cmd, tag, key)
               /\ slotKey' \in {slotKey, slotKey + 1} /\ key \in Nat /\ key <= slotKey'
    <3>1. CASE BridgePing
      BY <1>1, <3>1 DEF BridgePing
    <3>2. CASE BridgeSign
      BY <1>1, <3>2 DEF BridgeSign
    <3>3. CASE BridgePubKey
      BY <1>1, <3>3 DEF BridgePubKey
    <3>4. CASE BridgeGenKey
      BY <1>1, <3>4 DEF BridgeGenKey
    <3>5. CASE BridgeVerify
      BY <1>1, <3>5 DEF BridgeVerify
    <3>6. CASE BridgeChipError
      BY <1>1, <3>6 DEF BridgeChipError
    <3> QED
      BY <1>6, <3>1, <3>2, <3>3, <3>4, <3>5, <3>6 DEF Bridge
  <2> DEFINE line == [tag |-> tag, q |-> Head(toBridge).q, key |-> key]
  <2>2. /\ toHost' = toHost \/ toHost' = Append(toHost, line)
        /\ UNCHANGED queries
    BY <2>1 DEF Answer
  <2>3. line.key = key
    OBVIOUS
  <2> HIDE DEF line
  <2>4. \A i \in 1..Len(toHost') :
          (i \in 1..Len(toHost) /\ toHost'[i] = toHost[i]) \/ toHost'[i] = line
    BY <1>1, <2>2
  <2>5. \A i \in 1..Len(toHost) : toHost[i].key \in Nat
    <3>1. \A i \in 1..Len(toHost) : toHost[i] \in Line
      BY <1>1, ElementOfSeq
    <3> QED
      BY <3>1, QueriesAssumption DEF Line
  <2>6. \A i \in 1..Len(toHost) : toHost[i].key <= slotKey'
    BY <1>1, <2>1, <2>5 DEF KeysKnown
  <2>7. \A i \in 1..Len(toHost') : toHost'[i].key <= slotKey'
    BY <2>1, <2>3, <2>4, <2>6
  <2>8. KeysKnown'
    BY <2>7 DEF KeysKnown
  <2> QED
    BY <1>1, <2>1, <2>2, <2>8
<1> QED
  BY <1>2, <1>3, <1>4, <1>5, <1>6 DEF LinkStep

\* A step of the link leaves files and RootCA() alone, and what it makes of the
\* program is within its keys and its queries.
LEMMA LinkKeepsValues ==
    ASSUME IInv, IInv', ValuesInv, LinkStep \/ UNCHANGED vars,
           UNCHANGED <<ca, files>>, pub_pem' \in 0..slotKey',
           prog' = "provision" /\ todo' \in BeforeCA => ca < queries',
           prog' = "provision" /\ todo' \in AfterCert => ca > 0
    PROVE  ValuesInv'
<1>1. /\ slotKey \in Nat /\ slotKey' \in Nat /\ slotKey <= slotKey'
      /\ queries \in Nat /\ queries' \in Nat /\ queries <= queries'
      /\ KeysKnown'
  BY LinkKeys DEF ValuesInv
<1>2. ca \in Nat /\ ca' = ca /\ ca \in 0..queries /\ FilesTyped
  BY <1>1 DEF ValuesInv
<1>3. ca' \in 0..queries'
  BY <1>1, <1>2
<1>4. /\ files["pub"] \in FileOf(0..slotKey')
      /\ files["cert"] \in FileOf([key : 0..slotKey', ca : 1..ca])
      /\ files["rootPub"] \in FileOf(1..ca)
      /\ files["rootPriv"] \in FileOf(1..ca)
  <2>1. ca <= ca
    BY <1>2
  <2> QED
    BY <1>1, <1>2, <2>1, FilesStayTyped
<1>5. FilesTyped'
  BY <1>2, <1>4 DEF FilesTyped, FileOf
<1> QED
  BY <1>1, <1>2, <1>3, <1>5 DEF ValuesInv

\* Of what is left, only the first steps are calls.
LEMMA CallsBeforeCA ==
    ASSUME todo \in ProvisionLeft, todo # << >>, Head(todo) \in Commands
    PROVE  todo \in BeforeCA /\ Tail(todo) \notin AfterCert
<1>1. todo \in BeforeCA
  BY CallAtHand DEF BeforeCA
<1>2. Tail(todo) \notin AfterCert
  <2>1. Head(Tail(todo)) \in {"GENKEY", "PUBKEY", "pub"} /\ Tail(todo) # << >>
    <3>1. \A left \in {<<"GENKEY", "PUBKEY", "pub", "cert", "rootPub", "rootPriv">>,
                        <<"PUBKEY", "pub", "cert", "rootPub", "rootPriv">>,
                        <<"pub", "cert", "rootPub", "rootPriv">>} :
            Head(left) \in {"GENKEY", "PUBKEY", "pub"} /\ left # << >>
      BY Heads
    <3> QED
      BY <3>1, ProvisionAfterCall
  <2>2. \A left \in AfterCert : left = << >> \/ Head(left) \in {"rootPub", "rootPriv"}
    BY Heads DEF AfterCert
  <2> QED
    BY <2>1, <2>2
<1> QED
  BY <1>1, <1>2

LEMMA StartKeepsValues ==
    ASSUME IInv, IInv', ValuesInv, StartProvision \/ StartCompat \/ StartApp
    PROVE  ValuesInv'
<1>1. /\ Connect /\ UNCHANGED <<slotKey, pub_pem, ca, files>>
      /\ todo' # << >> /\ Head(todo') = "PING"
  BY StartGives
<1>2. queries' = queries + 1 /\ queries \in Nat
  BY <1>1, Types DEF Connect, Write, IInv
<1>3. ca < queries' /\ pub_pem' \in 0..slotKey'
  BY <1>1, <1>2 DEF ValuesInv
<1>4. todo' \notin AfterCert
  BY <1>1, Heads DEF AfterCert
<1> QED
  BY <1>1, <1>3, <1>4, LinkKeepsValues DEF LinkStep

LEMMA CallKeepsValues ==
    ASSUME IInv, IInv', ValuesInv,
           NextCall \/ AppCall \/ (Bridge /\ UNCHANGED programVars) \/ UNCHANGED allVars
    PROVE  ValuesInv'
<1>1. UNCHANGED <<prog, todo, pub_pem, ca, files>>
  BY DEF NextCall, AppCall, allVars, programVars
<1>2. LinkStep \/ UNCHANGED vars
  BY ProgramsUseLink DEF ProvisioningNext
<1>3. /\ slotKey \in Nat /\ slotKey' \in Nat /\ slotKey <= slotKey'
      /\ queries \in Nat /\ queries' \in Nat /\ queries <= queries'
  BY <1>2, LinkKeys DEF ValuesInv
<1>4. pub_pem' \in 0..slotKey' /\ (ca < queries => ca < queries')
  BY <1>1, <1>3 DEF ValuesInv
<1> QED
  BY <1>1, <1>2, <1>4, LinkKeepsValues DEF ValuesInv

\* The key that provision() reads is one that was made.
LEMMA ReturnKeepsValues ==
    ASSUME IInv, IInv', FilesInv, CallsMatch, ValuesInv, Return
    PROVE  ValuesInv'
<1>1. UNCHANGED <<ca, files, queries, slotKey>>
  BY ReturnGives
<1>2. pub_pem' \in 0..slotKey'
  <2>1. CASE pub_pem' = pub_pem
    BY <1>1, <2>1 DEF ValuesInv
  <2>2. CASE ReadLine /\ pub_pem' = Head(toHost).key
    <3>1. toHost # << >> /\ toHost \in Seq(Line)
      BY <2>2, Types DEF ReadLine, IInv
    <3>2. 1 \in 1..Len(toHost) /\ Head(toHost) = toHost[1] /\ Head(toHost) \in Line
      BY <3>1, EmptySeq, HeadTailProperties, ElementOfSeq
    <3>3. Head(toHost).key <= slotKey
      BY <3>2 DEF ValuesInv, KeysKnown
    <3>4. Head(toHost).key \in Nat /\ slotKey \in Nat
      BY <3>2, QueriesAssumption, Types DEF Line, IInv
    <3> QED
      BY <1>1, <2>2, <3>3, <3>4
  <2> QED
    BY <2>1, <2>2, ReturnGives
<1>3. ASSUME prog' = "provision"
      PROVE  prog = "provision" /\ todo \in BeforeCA /\ todo' \notin AfterCert
  <2>1. /\ prog = "provision" /\ todo # << >> /\ Head(todo) \in Commands
        /\ todo' = <<"exit">> \/ todo' = Tail(todo)
    BY <1>3, ReturnGoesOn
  <2>2. todo \in ProvisionLeft
    BY <2>1 DEF FilesInv, StepsLeft
  <2>3. <<"exit">> \notin AfterCert
    BY DEF AfterCert
  <2> QED
    BY <2>1, <2>2, <2>3, CallsBeforeCA
<1>4. LinkStep
  BY DEF Return, LinkStep
<1> QED
  BY <1>1, <1>2, <1>3, <1>4, LinkKeepsValues DEF ValuesInv

\* Each file gets a value of its kind; a RootCA() is made for the certificate.
LEMMA WritesKeepValues ==
    ASSUME IInv, FilesInv, ValuesInv,
           WritePub \/ WriteCert \/ WriteRootPub \/ WriteRootPriv
    PROVE  ValuesInv'
<1>1. /\ slotKey \in Nat /\ queries \in Nat /\ ca \in Nat /\ ca <= queries
      /\ pub_pem \in 0..slotKey /\ FilesTyped
  BY Types DEF ValuesInv, IInv
<1>0. PICK name \in FileNames : \E value :
             /\ Write1(name, value)
             /\ \/ name = "pub" /\ value = pub_pem /\ ca' = ca
                \/ name = "cert" /\ value = [key |-> pub_pem, ca |-> ca + 1] /\ ca' = ca + 1
                \/ name = "rootPub" /\ value = ca /\ ca' = ca
                \/ name = "rootPriv" /\ value = ca /\ ca' = ca
  <2>1. CASE WritePub
    BY <2>1 DEF WritePub, FileNames
  <2>2. CASE WriteCert
    BY <2>2 DEF WriteCert, FileNames
  <2>3. CASE WriteRootPub
    BY <2>3 DEF WriteRootPub, FileNames
  <2>4. CASE WriteRootPriv
    BY <2>4 DEF WriteRootPriv, FileNames
  <2> QED
    BY <2>1, <2>2, <2>3, <2>4
<1>2. PICK value :
             /\ Write1(name, value)
             /\ \/ name = "pub" /\ value = pub_pem /\ ca' = ca
                \/ name = "cert" /\ value = [key |-> pub_pem, ca |-> ca + 1] /\ ca' = ca + 1
                \/ name = "rootPub" /\ value = ca /\ ca' = ca
                \/ name = "rootPriv" /\ value = ca /\ ca' = ca
  BY <1>0
<1>3. /\ prog = "provision" /\ todo \in ProvisionLeft /\ todo # << >> /\ Head(todo) = name
      /\ todo' = Tail(todo) \/ todo' = <<"exit">>
      /\ UNCHANGED <<toHost, slotKey, queries, pub_pem>>
  <2>1. UNCHANGED <<toHost, slotKey, queries, pub_pem>>
    BY <1>2 DEF Write1, vars
  <2> QED
    BY <1>2, <2>1, WriteByProvision
<1>4. /\ <<"exit">> \notin BeforeCA /\ <<"exit">> \notin AfterCert
      /\ <<"cert", "rootPub", "rootPriv">> \notin AfterCert
      /\ \A left \in {<<"rootPub", "rootPriv">>, <<"rootPriv">>, << >>} : left \notin BeforeCA
  BY DEF BeforeCA, AfterCert
<1>5. /\ name = "pub" => todo \in BeforeCA /\ todo' \notin AfterCert
      /\ name = "cert" => todo \in BeforeCA /\ todo' \notin BeforeCA
      /\ name \in {"rootPub", "rootPriv"} => todo \in AfterCert /\ todo' \notin BeforeCA
  BY <1>3, <1>4, FileAtHand, Tails DEF BeforeCA, AfterCert
<1>6. /\ ca' \in 0..queries
      /\ todo' \in BeforeCA => ca' < queries
      /\ todo' \in AfterCert => ca' > 0
      /\ ca <= ca' /\ ca' \in Nat
      /\ name \in {"cert", "rootPub", "rootPriv"} => ca' > 0
  <2>1. CASE name = "pub"
    BY <1>1, <1>2, <1>3, <1>5, <2>1 DEF ValuesInv
  <2>2. CASE name = "cert"
    BY <1>1, <1>2, <1>3, <1>5, <2>2 DEF ValuesInv
  <2>3. CASE name \in {"rootPub", "rootPriv"}
    BY <1>1, <1>2, <1>3, <1>5, <2>3 DEF ValuesInv
  <2> QED
    BY <2>1, <2>2, <2>3 DEF FileNames
<1>7. /\ files["pub"] \in FileOf(0..slotKey)
      /\ files["cert"] \in FileOf([key : 0..slotKey, ca : 1..ca'])
      /\ files["rootPub"] \in FileOf(1..ca')
      /\ files["rootPriv"] \in FileOf(1..ca')
  <2>1. slotKey <= slotKey
    BY <1>1
  <2> QED
    BY <1>1, <1>6, <2>1, FilesStayTyped
<1>8. /\ DOMAIN files = FileNames
      /\ files' = [files EXCEPT ![name] = Holding(value)] \/ files' = [files EXCEPT ![name] = Torn]
  BY <1>2 DEF Write1, FilesInv
<1>9. /\ name = "pub" => value \in 0..slotKey
      /\ name = "cert" => value \in [key : 0..slotKey, ca : 1..ca']
      /\ name \in {"rootPub", "rootPriv"} => value \in 1..ca'
  BY <1>1, <1>2, <1>6
<1>10. /\ files'["pub"] \in FileOf(0..slotKey)
       /\ files'["cert"] \in FileOf([key : 0..slotKey, ca : 1..ca'])
       /\ files'["rootPub"] \in FileOf(1..ca')
       /\ files'["rootPriv"] \in FileOf(1..ca')
  <2>1. ASSUME NEW other \in FileNames, other # name
        PROVE  files'[other] = files[other]
    BY <1>8, <2>1
  <2>2. files'[name] \in {Holding(value), Torn}
    BY <1>8
  <2>3. ASSUME NEW S, value \in S PROVE files'[name] \in FileOf(S)
    BY <2>2, <2>3 DEF FileOf
  <2> QED
    BY <1>7, <1>9, <2>1, <2>3 DEF FileNames
<1>11. FilesTyped'
  BY <1>3, <1>10 DEF FilesTyped, FileOf
<1> QED
  BY <1>1, <1>3, <1>6, <1>11 DEF ValuesInv, KeysKnown

LEMMA LeftTyped ==
    ASSUME NEW S, {"PING", "SIGN", "PUBKEY", "GENKEY", "VERIFY", "VERIFYBAD", "exit",
                   "pub", "cert", "rootPub", "rootPriv"} \subseteq S
    PROVE  ProvisionLeft \cup OtherLeft \subseteq Seq(S)
<1>1. /\ <<"PING", "GENKEY", "PUBKEY", "pub", "cert", "rootPub", "rootPriv">> \in Seq(S)
      /\ <<"PING", "PUBKEY", "pub", "cert", "rootPub", "rootPriv">> \in Seq(S)
      /\ <<"GENKEY", "PUBKEY", "pub", "cert", "rootPub", "rootPriv">> \in Seq(S)
      /\ <<"PUBKEY", "pub", "cert", "rootPub", "rootPriv">> \in Seq(S)
  OBVIOUS
<1>2. /\ <<"pub", "cert", "rootPub", "rootPriv">> \in Seq(S)
      /\ <<"cert", "rootPub", "rootPriv">> \in Seq(S)
      /\ <<"rootPub", "rootPriv">> \in Seq(S)
      /\ <<"rootPriv">> \in Seq(S)
      /\ << >> \in Seq(S) /\ <<"exit">> \in Seq(S)
  OBVIOUS
<1>3. /\ <<"PING", "SIGN", "PUBKEY", "VERIFY", "VERIFYBAD">> \in Seq(S)
      /\ <<"SIGN", "PUBKEY", "VERIFY", "VERIFYBAD">> \in Seq(S)
      /\ <<"PUBKEY", "VERIFY", "VERIFYBAD">> \in Seq(S)
      /\ <<"VERIFY", "VERIFYBAD">> \in Seq(S)
      /\ <<"VERIFYBAD">> \in Seq(S) /\ <<"PING">> \in Seq(S)
  OBVIOUS
<1> QED
  BY <1>1, <1>2, <1>3 DEF ProvisionLeft, OtherLeft

LEMMA ValuesHold == ProvisioningSpec => []ValuesInv
<1>1. ProvisioningInit => ValuesInv
  BY DEF ProvisioningInit, Init, ValuesInv, KeysKnown, FilesTyped, FileOf, FileNames
<1>2. IInv /\ FilesInv /\ ScriptInv /\ ValuesInv /\ [ProvisioningNext]_allVars => ValuesInv'
  <2> SUFFICES ASSUME IInv, FilesInv, ScriptInv, ValuesInv, [ProvisioningNext]_allVars
               PROVE  ValuesInv'
    OBVIOUS
  <2>1. IInv'
    BY ProgramsUseLink, LinkPreserves
  <2>2. CASE Exit
    <3>1. Close /\ prog' = "none" /\ UNCHANGED <<pub_pem, ca, files, slotKey>>
      BY <2>2 DEF Exit, Close
    <3> QED
      BY <2>1, <3>1, LinkKeepsValues DEF LinkStep, ValuesInv
  <2>3. CASE Return
    BY <2>1, <2>3, ReturnKeepsValues DEF ScriptInv
  <2>4. CASE Interrupt
    <3>1. Stop /\ prog' = "none" /\ UNCHANGED <<pub_pem, ca, files, slotKey>>
      BY <2>4 DEF Interrupt, Stop
    <3> QED
      BY <2>1, <3>1, LinkKeepsValues DEF LinkStep, ValuesInv
  <2> QED
    BY <2>1, <2>2, <2>3, <2>4, StartKeepsValues, CallKeepsValues, WritesKeepValues
       DEF ProvisioningNext
<1> QED
  BY <1>1, <1>2, LinkHolds, FilesHold, ScriptsHold, PTL DEF ProvisioningSpec

\* The state of the programs is always one of the kinds it is meant to be: the
\* keys they hold were made in the chip, a certificate and a trust anchor are of
\* a RootCA() that was made, and the history is of calls that were made.
THEOREM ProvisioningTypesCorrect == ProvisioningSpec => []ProvisioningTypeOK
<1>1. IInv /\ FilesInv /\ ScriptInv /\ ValuesInv => ProvisioningTypeOK
  <2>1. SUFFICES ASSUME IInv, FilesInv, ScriptInv, ValuesInv PROVE ProvisioningTypeOK
    OBVIOUS
  <2>2. TypeOK /\ ca \in 0..MaxQueries
    <3>1. TypeOK
      BY <2>1 DEF IInv
    <3>2. queries \in 0..MaxQueries
      BY <3>1 DEF TypeOK
    <3> QED
      BY <2>1, <3>1, <3>2, QueriesAssumption DEF ValuesInv
  <2>3. todo \in Seq(Commands \cup FileNames \cup {"exit"})
    <3>1. todo \in ProvisionLeft \cup OtherLeft
      BY <2>1, LeftIs
    <3> QED
      BY <3>1, LeftTyped DEF Commands, FileNames
  <2> QED
    BY <2>1, <2>2, <2>3
       DEF ProvisioningTypeOK, ValuesInv, FilesTyped, ScriptInv, CallsMatch, CompletedInv
<1> QED
  BY <1>1, LinkHolds, FilesHold, ScriptsHold, ValuesHold, PTL
=============================================================================
