------------------------------- MODULE Login --------------------------------
(***************************************************************************)
(* Registration, enrolment and relogin: connect_and_handshake of the       *)
(* client (client_main.cpp) with the files that hold its identity, and     *)
(* requests 825, 826 and 827 of the server (handlers.py) with its Clients  *)
(* table.                                                                  *)
(*                                                                         *)
(* Every device has its own directory (me.info, priv.key, aes.key) and one *)
(* client process at a time; all devices are configured with one user      *)
(* name.  A process may be killed at any time, also between the remove and *)
(* the rename of atomic_write; a connection may be lost with the request   *)
(* or the answer in flight, and the server may still handle the request    *)
(* of a connection whose client is gone; the server may be killed, also    *)
(* between the two commits of request_826; its store may be replaced by an *)
(* empty one; a write of a file may fail.  A request handler never         *)
(* suspends before its answer, so it is one action, and the in-memory      *)
(* index of store.py equals the table between two handlers: acct stands    *)
(* for both.  The server identity handshake that precedes the first        *)
(* request is left out.                                                    *)
(***************************************************************************)
EXTENDS Naturals, FiniteSets

CONSTANTS
    Device,         \* the machines with the client installed
    MaxFaults,      \* how many faults of any kind happen
    Faults          \* which kinds happen: a subset of FaultKind

FaultKind == {"kill", "lose", "serverKill", "store", "save"}

ASSUME FaultAssumption == Faults \subseteq FaultKind /\ MaxFaults \in Nat
ASSUME DeviceAssumption == IsFiniteSet(Device)

VARIABLES
    acct,           \* the Clients row of the user: id, pub, aes (0: NULL)
    me, priv, aes,  \* per device: the id in me.info, the key pair in priv.key,
                    \* the AES key in aes.key; 0 when there is no such file
    unsaved,        \* per device: the last AES key it received is not in aes.key
                    \* (history)
    pc,             \* per device: where its process is
    cid,            \* per device: cc.client_id, 0 when empty
    key,            \* per device: the AES key connect_and_handshake returned
    tmp,            \* per device: the id in me.info.tmp
    up,             \* per device: its connection is alive
    msg,            \* per device: the request or the answer in flight
    stray,          \* requests of dead connections the server may still handle
    strayKey,       \* the stored AES key was made by a stray request
    faults          \* faults so far

vars == <<acct, me, priv, aes, unsaved, pc, cid, key, tmp, up, msg, stray, strayKey, faults>>
aesFile == <<aes, unsaved>>
files == <<me, priv, aesFile>>
local == <<cid, key, tmp>>
server == <<acct, stray, strayKey>>

\* Ids, key pairs and AES keys are random 128, 2048 and 256 bit values: a new one
\* differs from every one that is still around, and only equality matters.
Ident == 0..(4 * Cardinality(Device) + MaxFaults + 2)
None == 0

Account == [id : Ident, pub : Ident, aes : Ident]
NoAccount == [id |-> None, pub |-> None, aes |-> None]

Message == [code : {0, 825, 826, 827, 1600, 1601, 1602, 1605, 1606, 1607},
            id : Ident, pub : Ident, aes : Ident]
NoMessage == [code |-> 0, id |-> None, pub |-> None, aes |-> None]
Request(code, id, pub) == [code |-> code, id |-> id, pub |-> pub, aes |-> None]
Answer(code, id) == Request(code, id, None)
KeyAnswer(code, id, pub, k) == [code |-> code, id |-> id, pub |-> pub, aes |-> k]

(***************************************************************************)
(* Where a client process is.                                              *)
(*   off          no process, or connect_and_handshake returned false      *)
(*   login        waits for the answer to 827                              *)
(*   register     waits for the answer to 825                              *)
(*   saveId       answer_1600 has removed me.info and not yet renamed      *)
(*   makeKeys     making_RSAkeys without a key: generate and save priv.key *)
(*   sendKey      making_RSAkeys: rewrite me.info and send 826             *)
(*   savePub      the same, between the remove and the rename              *)
(*   enrol        waits for the answer to 826                              *)
(*   loadKey      reads aes.key                                            *)
(*   connected    connect_and_handshake returned true                      *)
(***************************************************************************)
Waiting == {"login", "register", "enrol"}
Place == {"off", "saveId", "makeKeys", "sendKey", "savePub", "loadKey", "connected"} \cup Waiting

TypeOK ==
    /\ acct \in Account
    /\ me \in [Device -> Ident] /\ priv \in [Device -> Ident] /\ aes \in [Device -> Ident]
    /\ unsaved \in [Device -> BOOLEAN] /\ pc \in [Device -> Place]
    /\ cid \in [Device -> Ident] /\ key \in [Device -> Ident] /\ tmp \in [Device -> Ident]
    /\ up \in [Device -> BOOLEAN]
    /\ msg \in [Device -> Message]
    /\ stray \subseteq Message /\ strayKey \in BOOLEAN
    /\ faults \in 0..MaxFaults

Init ==
    /\ acct = NoAccount
    /\ me = [d \in Device |-> None] /\ priv = [d \in Device |-> None]
    /\ aes = [d \in Device |-> None] /\ unsaved = [d \in Device |-> FALSE]
    /\ pc = [d \in Device |-> "off"]
    /\ cid = [d \in Device |-> None] /\ key = [d \in Device |-> None]
    /\ tmp = [d \in Device |-> None]
    /\ up = [d \in Device |-> FALSE]
    /\ msg = [d \in Device |-> NoMessage]
    /\ stray = {} /\ strayKey = FALSE
    /\ faults = 0

Unused(used) == CHOOSE x \in Ident \ {None} : x \notin used
InFlight == {msg[d] : d \in Device} \cup stray
NewId == Unused({acct.id} \cup {m.id : m \in InFlight}
                \cup UNION {{me[d], cid[d], tmp[d]} : d \in Device})
NewPair == Unused({acct.pub} \cup {m.pub : m \in InFlight} \cup {priv[d] : d \in Device})
NewKey == Unused({acct.aes} \cup {m.aes : m \in InFlight}
                 \cup UNION {{aes[d], key[d]} : d \in Device})

Go(d, place) == pc' = [pc EXCEPT ![d] = place]

\* A write to a dead connection is an exception that request_825, 826 and 827
\* only log.
Send(d, m) == msg' = [msg EXCEPT ![d] = IF up[d] THEN m ELSE NoMessage]

-----------------------------------------------------------------------------
(* The client.                                                             *)

\* A new connection and the first request.
Connect(d) ==
    /\ pc[d] = "off"
    /\ up' = [up EXCEPT ![d] = TRUE]
    /\ cid' = [cid EXCEPT ![d] = me[d]]
    /\ key' = [key EXCEPT ![d] = None]
    /\ tmp' = [tmp EXCEPT ![d] = None]
    /\ Go(d, IF me[d] = None THEN "register" ELSE "login")
    /\ msg' = [msg EXCEPT ![d] = IF me[d] = None THEN Request(825, None, None)
                                 ELSE Request(827, me[d], None)]
    /\ UNCHANGED <<server, files, faults>>

\* answer_manager takes an answer off the socket.
Receives(d, place, code) ==
    /\ pc[d] = place
    /\ msg[d].code = code
    /\ msg' = [msg EXCEPT ![d] = NoMessage]

\* connect_and_handshake returns false on NextStep::Fatal and on an exception of
\* making_RSAkeys.
Fail(d) == Go(d, "off")

\* 1601 to a registration, 1607 to an enrolment.
Refused(d) ==
    /\ Receives(d, "register", 1601) \/ Receives(d, "enrol", 1607)
    /\ Fail(d)
    /\ UNCHANGED <<server, files, local, up, faults>>

\* 1600: write_me_identity writes me.info.tmp and removes me.info ...
Registered(d) ==
    /\ Receives(d, "register", 1600)
    /\ cid' = [cid EXCEPT ![d] = msg[d].id]
    /\ tmp' = [tmp EXCEPT ![d] = msg[d].id]
    /\ me' = [me EXCEPT ![d] = None]
    /\ Go(d, "saveId")
    /\ UNCHANGED <<server, priv, aesFile, key, up, faults>>

\* ... and renames me.info.tmp to me.info.
IdentitySaved(d) ==
    /\ pc[d] = "saveId"
    /\ me' = [me EXCEPT ![d] = tmp[d]]
    /\ Go(d, "makeKeys")
    /\ UNCHANGED <<server, priv, aesFile, local, up, msg, faults>>

\* making_RSAkeys without a key: it refuses to overwrite priv.key.
MakeKeys(d) ==
    /\ pc[d] = "makeKeys"
    /\ IF priv[d] # None
       THEN Fail(d) /\ UNCHANGED priv
       ELSE Go(d, "sendKey") /\ priv' = [priv EXCEPT ![d] = NewPair]
    /\ UNCHANGED <<server, me, aesFile, local, up, msg, faults>>

\* write_me_public_key reads me.info, fails when there is none, and rewrites it.
RewriteIdentity(d) ==
    /\ pc[d] = "sendKey"
    /\ IF me[d] = None
       THEN Fail(d) /\ UNCHANGED <<me, tmp>>
       ELSE /\ Go(d, "savePub")
            /\ tmp' = [tmp EXCEPT ![d] = me[d]]
            /\ me' = [me EXCEPT ![d] = None]
    /\ UNCHANGED <<server, priv, aesFile, cid, key, up, msg, faults>>

\* Faulty variant: a key pair other than the saved one is sent.
SendUnsavedKey(d) ==
    /\ pc[d] = "savePub"
    /\ Go(d, "enrol")
    /\ me' = [me EXCEPT ![d] = tmp[d]]
    /\ Send(d, Request(826, cid[d], NewPair))
    /\ UNCHANGED <<server, priv, aesFile, local, up, faults>>

\* The rename, and request_826, which sends nothing when cc.client_id is empty.
SendPublicKey(d) ==
    /\ pc[d] = "savePub"
    /\ Go(d, "enrol")
    /\ me' = [me EXCEPT ![d] = tmp[d]]
    /\ IF cid[d] = None THEN UNCHANGED msg
       ELSE Send(d, Request(826, cid[d], priv[d]))
    /\ UNCHANGED <<server, priv, aesFile, local, up, faults>>

\* 1606 with id zero: register anew.
NeedRegister(d) ==
    /\ pc[d] = "login"
    /\ msg[d].code = 1606 /\ msg[d].id = None
    /\ Send(d, Request(825, None, None))
    /\ Go(d, "register")
    /\ UNCHANGED <<server, files, local, up, faults>>

\* 1606 with the client's id: send the public key of priv.key.
NeedSendPublicKey(d) ==
    /\ msg[d].id # None
    /\ Receives(d, "login", 1606)
    /\ cid' = [cid EXCEPT ![d] = msg[d].id]
    /\ Go(d, IF priv[d] = None THEN "off" ELSE "sendKey")
    /\ UNCHANGED <<server, files, key, tmp, up, faults>>

\* 1605 to a login, 1602 to an enrolment: the AES key, encrypted for msg.pub.
ReceivesKey(d) ==
    /\ Receives(d, "login", 1605) \/ Receives(d, "enrol", 1602)
    /\ cid' = [cid EXCEPT ![d] = msg[d].id]

\* Decrypt the key with priv.key and save it as aes.key.  The window between the
\* remove and the rename needs no step: without aes.key the next attempt does
\* what it does with an old one.
KeyReceived(d) ==
    /\ ReceivesKey(d)
    /\ IF priv[d] # msg[d].pub
       THEN Fail(d) /\ UNCHANGED aesFile
       ELSE /\ Go(d, "loadKey")
            /\ aes' = [aes EXCEPT ![d] = msg[d].aes]
            /\ unsaved' = [unsaved EXCEPT ![d] = FALSE]
    /\ UNCHANGED <<server, me, priv, key, tmp, up, faults>>

LoadKey(d) ==
    /\ pc[d] = "loadKey"
    /\ IF aes[d] = None
       THEN Fail(d) /\ UNCHANGED key
       ELSE Go(d, "connected") /\ key' = [key EXCEPT ![d] = aes[d]]
    /\ UNCHANGED <<server, files, cid, tmp, up, msg, faults>>

\* The user disconnects or exits.
Disconnect(d) ==
    /\ pc[d] = "connected"
    /\ Fail(d)
    /\ up' = [up EXCEPT ![d] = FALSE]
    /\ UNCHANGED <<server, files, local, msg, faults>>

\* The read of an answer that cannot come ends with an exception nobody catches:
\* the connection is dead, or the server closed it because nothing was sent.
ReadFails(d) ==
    /\ pc[d] \in Waiting /\ msg[d].code = 0
    /\ Fail(d)
    /\ up' = [up EXCEPT ![d] = FALSE]
    /\ UNCHANGED <<server, files, local, msg, faults>>

-----------------------------------------------------------------------------
(* The server: what a request m leaves in the row and what it answers.     *)

Result(row, answer) == [acct |-> row, answer |-> answer]

Reply825(m) ==
    IF acct.id # None
    THEN Result(acct, Answer(1601, None))
    ELSE Result([NoAccount EXCEPT !.id = NewId], Answer(1600, NewId))

\* A new AES key for the first enrolment and after a partial one; a retry gets
\* the stored one.
EnrolKey == IF acct.pub = None \/ acct.aes = None THEN NewKey ELSE acct.aes

Reply826(m) ==
    IF acct.id # m.id \/ acct.pub \notin {None, m.pub}
    THEN Result(acct, Answer(1607, m.id))
    ELSE Result([id |-> acct.id, pub |-> m.pub, aes |-> EnrolKey],
                KeyAnswer(1602, m.id, m.pub, EnrolKey))

\* Faulty variant: the new key is not stored.
RotationUnsaved(m) ==
    IF acct.id # m.id
    THEN Result(acct, Answer(1606, None))
    ELSE IF acct.pub = None
    THEN Result(acct, Answer(1606, m.id))
    ELSE Result(acct, KeyAnswer(1605, m.id, acct.pub, NewKey))

\* Faulty variant: the row's public key is not checked.
RotationUnbound(m) ==
    IF acct.id # m.id
    THEN Result(acct, Answer(1606, None))
    ELSE Result([acct EXCEPT !.aes = NewKey], KeyAnswer(1605, m.id, acct.pub, NewKey))

\* Faulty variant: a refusal with the code of a finished transfer.
RotationMiscoded(m) ==
    IF acct.id # m.id THEN Result(acct, Answer(1604, None))
    ELSE RotationUnbound(m)

Reply827(m) ==
    IF acct.id # m.id
    THEN Result(acct, Answer(1606, None))
    ELSE IF acct.pub = None
    THEN Result(acct, Answer(1606, m.id))
    ELSE Result([acct EXCEPT !.aes = NewKey], KeyAnswer(1605, m.id, acct.pub, NewKey))

Reply(m) == CASE m.code = 825 -> Reply825(m)
              [] m.code = 826 -> Reply826(m)
              [] m.code = 827 -> Reply827(m)

IsRequest(m) == m.code \in {825, 826, 827}

Handle(d) ==
    /\ IsRequest(msg[d])
    /\ LET r == Reply(msg[d]) IN
         /\ acct' = r.acct
         /\ msg' = [msg EXCEPT ![d] = r.answer]
         /\ strayKey' = (strayKey /\ r.acct.aes = acct.aes)
    /\ UNCHANGED <<files, pc, local, up, stray, faults>>

\* The request of a connection whose client is gone; the answer goes nowhere.
HandleStray(m) ==
    /\ m \in stray
    /\ LET r == Reply(m) IN
         /\ acct' = r.acct
         /\ strayKey' = (strayKey \/ r.acct.aes # acct.aes)
    /\ stray' = stray \ {m}
    /\ UNCHANGED <<files, pc, local, up, msg, faults>>

-----------------------------------------------------------------------------
(* Faults.                                                                 *)

Fault(kind) ==
    /\ kind \in Faults
    /\ faults < MaxFaults
    /\ faults' = faults + 1

\* The connection goes; a request in flight is lost or reaches the server.
ConnectionDies(d) ==
    /\ up' = [up EXCEPT ![d] = FALSE]
    /\ msg' = [msg EXCEPT ![d] = NoMessage]
    /\ stray' \in {stray} \cup {stray \cup {m} : m \in {x \in {msg[d]} : IsRequest(x)}}

\* The client process is killed; the files stay as they are.
Kill(d) ==
    /\ Fault("kill")
    /\ pc[d] # "off"
    /\ Fail(d)
    /\ ConnectionDies(d)
    /\ UNCHANGED <<acct, strayKey, files, local>>

Lose(d) ==
    /\ Fault("lose")
    /\ up[d]
    /\ ConnectionDies(d)
    /\ UNCHANGED <<acct, strayKey, files, pc, local>>

ServerDown ==
    /\ up' = [d \in Device |-> FALSE]
    /\ msg' = [d \in Device |-> NoMessage]
    /\ stray' = {}
    /\ UNCHANGED <<strayKey, files, pc, local>>

\* The server is killed between two handlers, or in a first enrolment between
\* the commit of the public key and the commit of the AES key.
ServerKill ==
    /\ Fault("serverKill")
    /\ \/ UNCHANGED acct
       \/ \E m \in InFlight :
            /\ m.code = 826 /\ acct.id = m.id /\ acct.pub = None
            /\ acct' = [acct EXCEPT !.pub = m.pub]
    /\ ServerDown

\* The server is restarted with an empty store.
StoreReplaced ==
    /\ Fault("store")
    /\ acct # NoAccount
    /\ acct' = NoAccount
    /\ ServerDown

\* atomic_write fails before it removes the old file or, in the rename, after.
Unsaved(file, d) == file' \in {file, [file EXCEPT ![d] = None]}

\* answer_1600 then returns an empty id and connect_and_handshake goes on.
IdentityUnsaved(d) ==
    /\ Fault("save")
    /\ Receives(d, "register", 1600)
    /\ cid' = [cid EXCEPT ![d] = None]
    /\ Unsaved(me, d)
    /\ Go(d, "makeKeys")
    /\ UNCHANGED <<server, priv, aesFile, key, tmp, up>>

\* making_RSAkeys throws when priv.key or the public key cannot be saved.
KeysUnsaved(d) ==
    /\ Fault("save")
    /\ \/ pc[d] = "makeKeys" /\ priv[d] = None /\ UNCHANGED me
       \/ pc[d] = "sendKey" /\ me[d] # None /\ Unsaved(me, d)
    /\ Fail(d)
    /\ UNCHANGED <<server, priv, aesFile, local, up, msg>>

\* answer_1602 logs that aes.key could not be saved and goes on.
AesKeyUnsaved(d) ==
    /\ Fault("save")
    /\ ReceivesKey(d)
    /\ priv[d] = msg[d].pub
    /\ Unsaved(aes, d)
    /\ unsaved' = [unsaved EXCEPT ![d] = TRUE]
    /\ Go(d, "loadKey")
    /\ UNCHANGED <<server, me, priv, key, tmp, up>>

-----------------------------------------------------------------------------
ClientStep(d) ==
    \/ Refused(d) \/ Registered(d) \/ IdentitySaved(d) \/ MakeKeys(d)
    \/ RewriteIdentity(d) \/ SendPublicKey(d) \/ NeedRegister(d)
    \/ NeedSendPublicKey(d) \/ KeyReceived(d) \/ LoadKey(d) \/ ReadFails(d)

Next ==
    \/ \E d \in Device :
         \/ Connect(d) \/ ClientStep(d) \/ Disconnect(d) \/ Handle(d)
         \/ Kill(d) \/ Lose(d)
         \/ IdentityUnsaved(d) \/ KeysUnsaved(d) \/ AesKeyUnsaved(d)
    \/ \E m \in stray : HandleStray(m)
    \/ ServerKill \/ StoreReplaced

Spec == Init /\ [][Next]_vars

\* The user keeps trying, a running process takes its next step, and the server
\* serves its connections.  No fault and no disconnection need ever happen.
Fairness == \A d \in Device : WF_vars(Connect(d) \/ ClientStep(d) \/ Handle(d))

FairSpec == Spec /\ Fairness

-----------------------------------------------------------------------------
\* Whatever crashes, is lost or is replaced, a device whose identity the server
\* knows and has bound to a public key still has the matching private key:
\* making_RSAkeys saves priv.key before 826 and never overwrites it.
PrivateKeyKept ==
    \A d \in Device :
        me[d] # None /\ me[d] = acct.id /\ acct.pub # None => priv[d] = acct.pub

\* A connected client of the registered identity holds the AES key the server
\* will decrypt its uploads with, with two exceptions: a request of an earlier, dead
\* connection of the same identity was handled late and rotated the stored key, or
\* aes.key could not be saved, which answer_1602 and answer_1605 only log.
ConnectedKeyCurrent ==
    \A d \in Device :
        pc[d] = "connected" /\ me[d] = acct.id => key[d] = acct.aes \/ strayKey \/ unsaved[d]

\* The states that need the user or the operator: the name is registered under an
\* id this device does not have, or the private key is missing.
Locked(d) ==
    \/ acct.id # None /\ me[d] # acct.id
    \/ acct.id # None /\ priv[d] = None

\* A device that keeps trying ends up connected or in a state that needs a manual
\* reset; partial enrolments, lost answers and a replaced store are repaired by
\* the recovery paths of connect_and_handshake and request_826.
Reconnects ==
    \A d \in Device : pc[d] = "off" ~> (pc[d] = "connected" \/ Locked(d))
=============================================================================
