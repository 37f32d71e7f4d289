---------------------------- MODULE Provisioning ----------------------------
(***************************************************************************)
(* The programs that use the secure element over AteccLink, one at a time: *)
(* provisioning/provision.py, which creates the battery's key, certifies   *)
(* it and writes the four files of an identity, cross_compat_test.py, and  *)
(* an application that signs with KeyManager(use_hardware=True) through    *)
(* crypto_api.                                                             *)
(*                                                                         *)
(* A key is a number, as in AteccLink; the n-th RootCA() made has the key  *)
(* pair n.  A certificate is [key, ca]: the key certified and the CA that  *)
(* signed it; it verifies under that CA's public key and no other.         *)
(***************************************************************************)
EXTENDS AteccLink, SequencesExt

VARIABLES
    prog,      \* the program that is running, or "none"
    todo,      \* the steps it has not finished; the first is the one at hand
    pub_pem,   \* the public key provision() has read
    ca,        \* how many RootCA() were made; root_ca is the last
    files,     \* what provisioning/out/ holds
    first,     \* the first call of the program in `results` (history)
    completed, \* the programs that completed, with their calls (history)
    complete   \* the first call of the last provision() started, once it
               \* has completed, and 0 before (history)

programVars == <<prog, todo, pub_pem, ca, files, first, completed, complete>>
allVars == <<vars, programVars>>

FileNames == {"pub", "cert", "rootPub", "rootPriv"}

\* A file that is not there, and one whose writing was cut short.
Absent == [is |-> "absent"]
Torn == [is |-> "torn"]
Holding(v) == [is |-> "written", value |-> v]

\* Mutant of ProvisionSteps: the public key is read before the key is made.
ProvisionSteps_KeyFirst(skip_genkey) ==
    IF skip_genkey
    THEN <<"PING", "PUBKEY", "pub", "cert", "rootPub", "rootPriv">>
    ELSE <<"PING", "PUBKEY", "GENKEY", "pub", "cert", "rootPub", "rootPriv">>

\* The steps of provision(), with and without --skip-genkey, and of the
\* compatibility test.
ProvisionSteps(skip_genkey) ==
    IF skip_genkey
    THEN <<"PING", "PUBKEY", "pub", "cert", "rootPub", "rootPriv">>
    ELSE <<"PING", "GENKEY", "PUBKEY", "pub", "cert", "rootPub", "rootPriv">>
CompatSteps == <<"PING", "SIGN", "PUBKEY", "VERIFY", "VERIFYBAD">>

ProvisioningInit ==
    /\ Init
    /\ prog = "none"
    /\ todo = << >>
    /\ pub_pem = 0 /\ ca = 0
    /\ files = [name \in FileNames |-> Absent]
    /\ first = 0
    /\ completed = {}
    /\ complete = 0

-----------------------------------------------------------------------------
\* Starting a program, and its calls

\* main() of a program: its own ATECC608 object, and connect().
Start(name, steps) ==
    /\ prog = "none"
    /\ Connect
    /\ prog' = name
    /\ todo' = steps
    /\ first' = Len(results) + 1
    /\ complete' = IF name = "provision" THEN 0 ELSE complete
    /\ UNCHANGED <<pub_pem, ca, files, completed>>

StartProvision == \E skip_genkey \in BOOLEAN : Start("provision", ProvisionSteps(skip_genkey))
StartCompat == Start("compat", CompatSteps)

\* KeyManager(use_hardware=True): the constructor connects.
StartApp == Start("app", <<"PING">>)

\* The next call of a program.
NextCall ==
    /\ todo # << >>
    /\ Head(todo) \in Commands
    /\ Call(Head(todo))
    /\ UNCHANGED programVars

\* crypto_api.sign_nonce() and get_public_key_bytes(), as often as the
\* application likes.
AppCall ==
    /\ prog = "app" /\ todo = << >>
    /\ Sign \/ GetPublicKey
    /\ UNCHANGED programVars

\* Test A of the compatibility test: the signature verifies under the key.
SameKey ==
    prog = "compat" /\ todo # << >> /\ Head(todo) = "PUBKEY" =>
        Last(results').key = Last(results).key

\* Mutant of After: a step that failed is reported and the script goes on.
After_GoesOn(ok) == IF todo = << >> \/ ~ open' THEN << >> ELSE Tail(todo)

\* What is left to do after a call: the script goes on if the answer was the
\* one it expects, and an exception ends it.  A failed connect() has closed
\* the port already, and what an application does next is up to it.
After(ok) ==
    CASE todo = << >> \/ ~ open' -> << >>
      [] todo # << >> /\ open' /\ ok -> Tail(todo)
      [] OTHER -> <<"exit">>

\* A call returns.
Return ==
    /\ ReadLine \/ Timeout
    /\ LET call == Last(results')
           ok == call.answered # 0
       IN  /\ prog' = IF open' THEN prog ELSE "none"
           /\ todo' = After(ok /\ SameKey)
           /\ pub_pem' = IF ok /\ call.cmd = "PUBKEY" THEN call.key ELSE pub_pem
    /\ UNCHANGED <<ca, files, first, completed, complete>>

-----------------------------------------------------------------------------
\* The files

\* One file is written: open() empties it, and if the program ends here, by an
\* exception or because it was stopped, that is what it stays.
Write1(name, value) ==
    /\ todo # << >>
    /\ Head(todo) = name
    /\ \/ files' = [files EXCEPT ![name] = Holding(value)] /\ todo' = Tail(todo)
       \/ files' = [files EXCEPT ![name] = Torn] /\ todo' = <<"exit">>
    /\ UNCHANGED <<vars, prog, pub_pem, first, completed, complete>>

WritePub == Write1("pub", pub_pem) /\ UNCHANGED ca

\* RootCA() is made anew, create_certificate(), the self-check, and the file.
WriteCert == Write1("cert", [key |-> pub_pem, ca |-> ca + 1]) /\ ca' = ca + 1

\* Mutants of WriteRootPub: a trust anchor that is there is kept; the key of
\* another RootCA() is written.
WriteRootPub_Kept ==
    /\ Write1("rootPub", IF files["rootPub"].is = "written"
                         THEN files["rootPub"].value ELSE ca)
    /\ UNCHANGED ca

WriteRootPub_Another == Write1("rootPub", ca + 1) /\ UNCHANGED ca

WriteRootPub == Write1("rootPub", ca) /\ UNCHANGED ca
WriteRootPriv == Write1("rootPriv", ca) /\ UNCHANGED ca

\* The program ends between its calls: after its last step with close(), and at
\* any other by an exception or because it is stopped, when the system closes
\* the port.
Exit ==
    /\ prog # "none"
    /\ Close
    /\ prog' = "none"
    /\ todo' = << >>
    /\ IF todo = << >> /\ prog # "app"
       THEN /\ completed' = completed \cup {[prog |-> prog, from |-> first, to |-> Len(results)]}
            /\ complete' = IF prog = "provision" THEN first ELSE complete
       ELSE UNCHANGED <<completed, complete>>
    /\ UNCHANGED <<pub_pem, ca, files, first>>

\* The program is stopped in a call, while it waits for the bridge.
Interrupt ==
    /\ Stop
    /\ prog' = "none"
    /\ todo' = << >>
    /\ UNCHANGED <<pub_pem, ca, files, first, completed, complete>>

-----------------------------------------------------------------------------

ProvisioningNext ==
    \/ StartProvision \/ StartCompat \/ StartApp
    \/ NextCall \/ AppCall \/ Return \/ Exit \/ Interrupt
    \/ WritePub \/ WriteCert \/ WriteRootPub \/ WriteRootPriv
    \/ Bridge /\ UNCHANGED programVars

ProvisioningSpec == ProvisioningInit /\ [][ProvisioningNext]_allVars

\* readline() returns, with a line or after the timeout of the port.  Nothing
\* is assumed of the bridge, nor of who runs the programs.
FairProvisioningSpec == ProvisioningSpec /\ WF_allVars(Return)

-----------------------------------------------------------------------------
\* Properties

FileOf(values) == {Absent, Torn} \cup {Holding(v) : v \in values}

ProvisioningTypeOK ==
    /\ TypeOK
    /\ prog \in {"none", "app", "provision", "compat"}
    /\ todo \in Seq(Commands \cup FileNames \cup {"exit"})
    /\ pub_pem \in 0..slotKey
    /\ ca \in 0..MaxQueries
    /\ files["pub"] \in FileOf(0..slotKey)
    /\ files["cert"] \in FileOf([key : 0..slotKey, ca : 1..ca])
    /\ files["rootPub"] \in FileOf(1..ca)
    /\ files["rootPriv"] \in FileOf(1..ca)
    /\ first \in 0..(Len(results) + 1)
    /\ completed \subseteq [prog : {"provision", "compat"},
                            from : 1..Len(results), to : 1..Len(results)]
    /\ complete \in 0..Len(results)

\* On a board that resets when the port is opened, provision() and the
\* compatibility test complete only on the answers to their own commands,
\* whatever earlier programs left unanswered; and so they do on any board when
\* the PING they began with was answered by its own PONG.  (Without a reset,
\* programs that are repeated after timeouts may complete one round late.)
CompletedInSync ==
    \A p \in completed :
        results[p.from].fresh \/ results[p.from].answered = results[p.from].asked =>
        \A i \in p.from..p.to : results[i].answered = results[i].asked

\* The key that a completed provision() certified and wrote is the one in the
\* chip, and stays it until provision() is started again, whatever commands of
\* interrupted programs the bridge still had to process - provided that the
\* PING it began with was answered by its own PONG.
DeployedKeyIsChipKey ==
    complete # 0 /\ results[complete].answered = results[complete].asked =>
        /\ files["pub"] = Holding(slotKey)
        /\ files["cert"].value.key = slotKey

\* After a provision() that completed, the certificate verifies under the
\* trust anchor for the vehicle, and the private key of the CA belongs to it:
\* no file is left over from an earlier or an interrupted run.
FilesBelongTogether ==
    complete # 0 =>
        /\ \A name \in FileNames : files[name].is = "written"
        /\ files["cert"].value.ca = files["rootPub"].value
        /\ files["rootPriv"] = files["rootPub"]
=============================================================================
