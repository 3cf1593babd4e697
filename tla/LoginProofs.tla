---------------------------- MODULE LoginProofs -----------------------------
(***************************************************************************)
(* Proofs about Login, for every finite set of devices, every number and   *)
(* every choice of faults.                                                 *)
(***************************************************************************)
EXTENDS Login, TLAPS

-----------------------------------------------------------------------------
(* The inductive invariant.                                                *)

\* The ids a device holds: in me.info, in the process, in me.info.tmp and on its
\* connection.
Held(d) == {me[d], cid[d], tmp[d], msg[d].id}

\* No two devices hold one id.
OwnIds == \A d, e \in Device : \A x \in Held(d) \cap Held(e) : d = e \/ x = None

\* pub is the public key of every device that holds id.
Belongs(id, pub) ==
    /\ id # None /\ pub # None
    /\ \A d \in Device : id \in Held(d) => priv[d] = pub

\* Enrolments in flight and the row bind an id to its own public key.
Bound ==
    /\ \A m \in InFlight : m.code = 826 => Belongs(m.id, m.pub)
    /\ acct.pub # None => Belongs(acct.id, acct.pub)

\* What a process has at each place of connect_and_handshake.
PlaceInv(d) ==
    /\ pc[d] \notin Waiting => msg[d].code = 0
    /\ pc[d] \in {"sendKey", "savePub"} => priv[d] # None
    /\ pc[d] = "savePub" => tmp[d] # None
    /\ pc[d] \in {"login", "enrol", "loadKey", "connected"} => me[d] # None

\* k is the stored key of the registered identity, if d has that identity.
Current(d, k) == me[d] = acct.id => k = acct.aes \/ strayKey

\* The key an answer carries, the saved one and the one in use are current, or the last
\* one received could not be saved.
KeyInv(d) ==
    /\ msg[d].code \in {1602, 1605} => Current(d, msg[d].aes)
    /\ pc[d] = "loadKey" => Current(d, aes[d]) \/ unsaved[d]
    /\ pc[d] = "connected" => Current(d, key[d]) \/ unsaved[d]

\* The invariant but for the bound on stray requests, which is about counting.
Core ==
    /\ TypeOK
    /\ \A m \in stray : IsRequest(m)
    /\ OwnIds
    /\ Bound
    /\ \A d \in Device : PlaceInv(d) /\ KeyInv(d)

\* A new id is nobody's, in no message and not the registered one, and a new key pair
\* or AES key is a value.  This is shown below by counting.
Fresh ==
    /\ None \in Ident
    /\ NewId \in Ident \ {None} /\ NewId # acct.id
    /\ \A m \in InFlight : NewId # m.id
    /\ \A d \in Device : NewId \notin Held(d)
    /\ NewPair \in Ident \ {None}
    /\ NewKey \in Ident \ {None}

-----------------------------------------------------------------------------
(* What a step may do to identities and keys.                              *)

\* No device gains an id or loses its private key.
Shrinks ==
    \A d \in Device :
      /\ Held(d)' \subseteq Held(d) \cup {None}
      /\ priv[d] # None => priv'[d] = priv[d]

\* A step in which no device gains an id keeps the ids apart ...
LEMMA ShrinksOwn == ASSUME OwnIds, Shrinks PROVE OwnIds'
<1> SUFFICES ASSUME NEW d \in Device, NEW e \in Device, NEW x, x \in Held(d)', x \in Held(e)'
             PROVE  d = e \/ x = None
  BY DEF OwnIds
<1>1. x \in Held(d) \cup {None} /\ x \in Held(e) \cup {None}  BY DEF Shrinks
<1> QED  BY <1>1 DEF OwnIds

\* ... and a public key that belonged to an id still does.
LEMMA ShrinksBelongs ==
    ASSUME Shrinks, NEW id, NEW pub, Belongs(id, pub)
    PROVE  Belongs(id, pub)'
<1> SUFFICES ASSUME NEW d \in Device, id \in Held(d)' PROVE priv'[d] = pub
  BY DEF Belongs
<1>1. id \in Held(d)  BY DEF Shrinks, Belongs
<1> QED  BY <1>1 DEF Shrinks, Belongs

\* A step of device d, which the server and the other devices do not notice: it may
\* send its public key, and a request of it may become a stray one.
DeviceStep(d) ==
    /\ acct' = acct /\ strayKey' = strayKey
    /\ \A e \in Device \ {d} :
         /\ pc'[e] = pc[e] /\ msg'[e] = msg[e]
         /\ me'[e] = me[e] /\ cid'[e] = cid[e] /\ tmp'[e] = tmp[e] /\ priv'[e] = priv[e]
         /\ aes'[e] = aes[e] /\ key'[e] = key[e] /\ unsaved'[e] = unsaved[e]
    /\ Held(d)' \subseteq Held(d) \cup {None}
    /\ priv[d] # None => priv'[d] = priv[d]
    /\ msg'[d].code = 826 =>
         \/ msg'[d] = msg[d]
         \/ msg'[d].id # None /\ msg'[d].pub # None /\ msg'[d].pub = priv'[d]
    /\ stray' \subseteq stray \cup {msg[d]}
    /\ PlaceInv(d)' /\ KeyInv(d)'

\* A step of one device gives nobody an id and takes no private key.
LEMMA DeviceStepShrinks ==
    ASSUME NEW d \in Device, DeviceStep(d)
    PROVE  Shrinks
<1> SUFFICES ASSUME NEW e \in Device
             PROVE  /\ Held(e)' \subseteq Held(e) \cup {None}
                    /\ priv[e] # None => priv'[e] = priv[e]
  BY DEF Shrinks
<1>1. CASE e = d  BY <1>1 DEF DeviceStep
<1>2. CASE e # d
  <2>1. me'[e] = me[e] /\ cid'[e] = cid[e] /\ tmp'[e] = tmp[e] /\ msg'[e] = msg[e]
    BY <1>2 DEF DeviceStep
  <2>2. Held(e)' = Held(e)  BY <2>1 DEF Held
  <2> QED  BY <1>2, <2>2 DEF DeviceStep
<1> QED  BY <1>1, <1>2

\* A step of one device keeps the ids apart, the public keys with their ids and
\* every other device where it was.
LEMMA DeviceStepKeeps ==
    ASSUME Core, NEW d \in Device, DeviceStep(d)
    PROVE  OwnIds' /\ Bound' /\ \A e \in Device : PlaceInv(e)' /\ KeyInv(e)'
<1>1. Shrinks  BY DeviceStepShrinks
<1>2. OwnIds'  BY <1>1, ShrinksOwn DEF Core
<1>3. ASSUME NEW m \in InFlight', m.code = 826
      PROVE  Belongs(m.id, m.pub)'
  <2>1. CASE m \in InFlight
    <3>1. Belongs(m.id, m.pub)  BY <1>3, <2>1 DEF Core, Bound
    <3> QED  BY <1>1, <3>1, ShrinksBelongs
  <2>2. CASE m \notin InFlight
    <3>1. m = msg'[d]
      <4>1. msg[d] \in InFlight /\ stray \subseteq InFlight  BY DEF InFlight
      <4>2. m \notin stray'  BY <2>2, <4>1 DEF DeviceStep
      <4>3. PICK e \in Device : m = msg'[e]  BY <4>2 DEF InFlight
      <4>4. e # d => m = msg[e]  BY <4>3 DEF DeviceStep
      <4> QED  BY <2>2, <4>3, <4>4 DEF InFlight
    <3>2. msg'[d] # msg[d]  BY <2>2, <3>1 DEF InFlight
    <3>3. m.id # None /\ m.pub # None /\ m.pub = priv'[d]  BY <1>3, <3>1, <3>2 DEF DeviceStep
    <3>4. m.id \in Held(d)'  BY <3>1 DEF Held
    <3>5. ASSUME NEW e \in Device, m.id \in Held(e)' PROVE priv'[e] = m.pub
      <4>1. e = d  BY <1>2, <3>3, <3>4, <3>5 DEF OwnIds
      <4> QED  BY <3>3, <4>1
    <3> QED  BY <3>3, <3>5 DEF Belongs
  <2> QED  BY <2>1, <2>2
<1>4. acct'.pub # None => Belongs(acct.id, acct.pub)'
  <2> SUFFICES ASSUME acct'.pub # None PROVE Belongs(acct.id, acct.pub)'  OBVIOUS
  <2>1. acct' = acct  BY DEF DeviceStep
  <2>2. Belongs(acct.id, acct.pub)  BY <2>1 DEF Core, Bound
  <2> QED  BY <1>1, <2>1, <2>2 DEF Belongs, Shrinks
<1>5. ASSUME NEW e \in Device, e # d PROVE PlaceInv(e)' /\ KeyInv(e)'
  <2>1. PlaceInv(e) /\ KeyInv(e)  BY DEF Core
  <2>2. /\ acct' = acct /\ strayKey' = strayKey
        /\ pc'[e] = pc[e] /\ msg'[e] = msg[e]
        /\ me'[e] = me[e] /\ tmp'[e] = tmp[e] /\ priv'[e] = priv[e]
        /\ aes'[e] = aes[e] /\ key'[e] = key[e] /\ unsaved'[e] = unsaved[e]
    BY <1>5 DEF DeviceStep
  <2>3. PlaceInv(e)'  BY <2>1, <2>2 DEF PlaceInv
  <2>4. KeyInv(e)'  BY <2>1, <2>2 DEF KeyInv, Current
  <2> QED  BY <2>3, <2>4
<1>6. PlaceInv(d)' /\ KeyInv(d)'  BY DEF DeviceStep
<1> QED  BY <1>2, <1>3, <1>4, <1>5, <1>6 DEF Bound

-----------------------------------------------------------------------------
(* The steps of a client.                                                  *)

\* The messages a client makes are messages.
LEMMA MessageTypes ==
    ASSUME Fresh
    PROVE
    /\ NoMessage \in Message /\ NoMessage.code = 0 /\ NoMessage.id = None
    /\ \A c \in {825, 826, 827}, i, p \in Ident :
         /\ Request(c, i, p) \in Message
         /\ Request(c, i, p).code = c /\ Request(c, i, p).id = i /\ Request(c, i, p).pub = p
BY DEF Fresh, NoMessage, Request, Message

\* The files, the process and the connection of d after a step of d.
Changes(d, i, p, a, u, c, k, t, o, x, m) ==
    /\ me' = [me EXCEPT ![d] = i] /\ priv' = [priv EXCEPT ![d] = p]
    /\ aes' = [aes EXCEPT ![d] = a] /\ unsaved' = [unsaved EXCEPT ![d] = u]
    /\ cid' = [cid EXCEPT ![d] = c] /\ key' = [key EXCEPT ![d] = k]
    /\ tmp' = [tmp EXCEPT ![d] = t] /\ pc' = [pc EXCEPT ![d] = o]
    /\ u \in BOOLEAN /\ x \in BOOLEAN
    /\ up' = [up EXCEPT ![d] = x] /\ msg' = [msg EXCEPT ![d] = m]

\* The values of a device have their types.
LEMMA Values ==
    ASSUME TypeOK, NEW d \in Device
    PROVE  /\ me[d] \in Ident /\ priv[d] \in Ident /\ aes[d] \in Ident
           /\ cid[d] \in Ident /\ key[d] \in Ident /\ tmp[d] \in Ident
           /\ unsaved[d] \in BOOLEAN /\ up[d] \in BOOLEAN /\ pc[d] \in Place
           /\ msg[d] \in Message /\ msg[d].id \in Ident /\ msg[d].pub \in Ident
           /\ msg[d].aes \in Ident
BY DEF TypeOK, Message

\* What a step of d relies on: the values of d ...
Here(d) ==
    /\ PlaceInv(d) /\ KeyInv(d)
    /\ me[d] \in Ident /\ priv[d] \in Ident /\ aes[d] \in Ident
    /\ cid[d] \in Ident /\ key[d] \in Ident /\ tmp[d] \in Ident
    /\ pc[d] \in Place /\ msg[d] \in Message
    /\ msg[d].id \in Ident /\ msg[d].aes \in Ident
    /\ None \in Ident /\ NewPair \in Ident \ {None}
    /\ NoMessage \in Message /\ NoMessage.code = 0 /\ NoMessage.id = None

\* ... and what a step that leaves a variable alone does to d.
Same(d) ==
    /\ me = [me EXCEPT ![d] = me[d]] /\ priv = [priv EXCEPT ![d] = priv[d]]
    /\ aes = [aes EXCEPT ![d] = aes[d]] /\ unsaved = [unsaved EXCEPT ![d] = unsaved[d]]
    /\ cid = [cid EXCEPT ![d] = cid[d]] /\ key = [key EXCEPT ![d] = key[d]]
    /\ tmp = [tmp EXCEPT ![d] = tmp[d]] /\ pc = [pc EXCEPT ![d] = pc[d]]
    /\ up = [up EXCEPT ![d] = up[d]] /\ msg = [msg EXCEPT ![d] = msg[d]]
    /\ unsaved[d] \in BOOLEAN /\ up[d] \in BOOLEAN

\* A step of d may rely on Here and Same.
LEMMA Context == ASSUME Core, Fresh, NEW d \in Device PROVE Here(d) /\ Same(d)
<1>1. TypeOK /\ PlaceInv(d) /\ KeyInv(d)  BY DEF Core
<1>0. NewPair \in Ident \ {None} /\ None \in Ident  BY DEF Fresh
<1>2. Here(d)  BY <1>0, <1>1, Values, MessageTypes DEF Here
<1>3. unsaved[d] \in BOOLEAN /\ up[d] \in BOOLEAN  BY <1>1, Values
<1>4. Same(d)  BY <1>1, <1>3 DEF Same, TypeOK
<1> QED  BY <1>2, <1>4

\* What the values a step of d leaves have to be.
Sound(d, i, p, a, u, c, k, t, o, m) ==
    /\ i \in Ident /\ p \in Ident /\ a \in Ident /\ c \in Ident /\ k \in Ident /\ t \in Ident
    /\ {i, c, t, m.id} \subseteq Held(d) \cup {None}
    /\ priv[d] # None => p = priv[d]
    /\ m \in Message
    /\ m.code = 826 => m = msg[d] \/ (m.id # None /\ m.pub # None /\ m.pub = p)
    /\ m.code \in {1602, 1605} => m = msg[d] /\ i = me[d]
    /\ o \in Place
    /\ o \notin Waiting => m.code = 0
    /\ o \in {"sendKey", "savePub"} => p # None
    /\ o = "savePub" => t # None
    /\ o \in {"login", "enrol", "loadKey", "connected"} => i # None
    /\ o = "loadKey" => i = me[d] /\ (Current(d, a) \/ u)
    /\ o = "connected" => i = me[d] /\ (Current(d, k) \/ u)

\* The row stays, and no request gets stray without a fault.
Apart(d) ==
    /\ acct' = acct /\ strayKey' = strayKey
    /\ stray' \subseteq stray \cup {msg[d]}
    /\ \A m \in stray' : IsRequest(m)
    /\ faults' \in 0..MaxFaults

\* A step that leaves the server alone and is no fault keeps apart ...
LEMMA QuietApart ==
    ASSUME Core, NEW d, UNCHANGED <<server, faults>>
    PROVE  Apart(d)
BY DEF Core, TypeOK, server, Apart

\* ... and so does a fault after which the request of d may be stray.
LEMMA FaultApart ==
    ASSUME Core, NEW d, NEW k, Fault(k), acct' = acct, strayKey' = strayKey,
           stray' \subseteq stray \cup {x \in {msg[d]} : IsRequest(x)}
    PROVE  Apart(d)
<1>1. faults' \in 0..MaxFaults  BY FaultAssumption DEF Core, TypeOK, Fault
<1>2. stray' \subseteq stray \cup {msg[d]} /\ \A m \in stray' : IsRequest(m)  BY DEF Core
<1> QED  BY <1>1, <1>2 DEF Apart

\* A step of d with sound values keeps the invariant.
LEMMA SoundStep ==
    ASSUME Core, NEW d \in Device, NEW i, NEW p, NEW a, NEW u, NEW c, NEW k, NEW t,
           NEW o, NEW x, NEW m,
           Changes(d, i, p, a, u, c, k, t, o, x, m), Sound(d, i, p, a, u, c, k, t, o, m),
           Apart(d)
    PROVE  Core'
<1>1. TypeOK /\ PlaceInv(d) /\ KeyInv(d)  BY DEF Core
<1>2. /\ me'[d] = i /\ priv'[d] = p /\ aes'[d] = a /\ unsaved'[d] = u /\ cid'[d] = c
      /\ key'[d] = k /\ tmp'[d] = t /\ pc'[d] = o /\ msg'[d] = m
  BY <1>1 DEF Changes, TypeOK
<1>3. \A e \in Device \ {d} :
        /\ pc'[e] = pc[e] /\ msg'[e] = msg[e]
        /\ me'[e] = me[e] /\ cid'[e] = cid[e] /\ tmp'[e] = tmp[e] /\ priv'[e] = priv[e]
        /\ aes'[e] = aes[e] /\ key'[e] = key[e] /\ unsaved'[e] = unsaved[e]
  BY <1>1 DEF Changes, TypeOK
<1>4. TypeOK'
  <2>1. /\ me' \in [Device -> Ident] /\ priv' \in [Device -> Ident] /\ aes' \in [Device -> Ident]
        /\ unsaved' \in [Device -> BOOLEAN] /\ cid' \in [Device -> Ident]
        /\ key' \in [Device -> Ident] /\ tmp' \in [Device -> Ident]
    BY <1>1 DEF Changes, Sound, TypeOK
  <2>2. up' \in [Device -> BOOLEAN] /\ msg' \in [Device -> Message] /\ pc' \in [Device -> Place]
    BY <1>1 DEF Changes, Sound, TypeOK
  <2>3. stray' \subseteq Message  BY <1>1, Values DEF TypeOK, Apart
  <2> QED  BY <1>1, <2>1, <2>2, <2>3 DEF TypeOK, Apart
<1>5. Held(d)' \subseteq Held(d) \cup {None}
  <2>1. Held(d)' = {i, c, t, m.id}  BY <1>2 DEF Held
  <2> QED  BY <2>1 DEF Sound
<1>6. PlaceInv(d)'  BY <1>2 DEF PlaceInv, Sound
<1>7. KeyInv(d)'
  <2>1. acct' = acct /\ strayKey' = strayKey  BY DEF Apart
  <2>2. /\ m.code \in {1602, 1605} => m = msg[d] /\ i = me[d]
        /\ o = "loadKey" => i = me[d] /\ (Current(d, a) \/ u)
        /\ o = "connected" => i = me[d] /\ (Current(d, k) \/ u)
    BY DEF Sound
  <2>3. KeyInv(d)  BY <1>1
  <2>4. msg[d].code \in {1602, 1605} => Current(d, msg[d].aes)  BY <2>3 DEF KeyInv
  <2>5. m.code \in {1602, 1605} => Current(d, m.aes)'  BY <1>2, <2>1, <2>2, <2>4 DEF Current
  <2>6. o = "loadKey" => Current(d, a)' \/ u  BY <1>2, <2>1, <2>2 DEF Current
  <2>7. o = "connected" => Current(d, k)' \/ u  BY <1>2, <2>1, <2>2 DEF Current
  <2> QED  BY <1>2, <2>5, <2>6, <2>7 DEF KeyInv
<1>8. DeviceStep(d)
  <2>1. /\ priv[d] # None => priv'[d] = priv[d]
        /\ msg'[d].code = 826 =>
             \/ msg'[d] = msg[d]
             \/ msg'[d].id # None /\ msg'[d].pub # None /\ msg'[d].pub = priv'[d]
    BY <1>2 DEF Sound
  <2> QED  BY <1>3, <1>5, <1>6, <1>7, <2>1 DEF DeviceStep, Apart
<1> QED  BY <1>4, <1>8, DeviceStepKeeps DEF Core, Apart

\* The step of d leaves sound values.
Leads(d) ==
    \E i, p, a, u, c, k, t, o, x, m :
        Changes(d, i, p, a, u, c, k, t, o, x, m) /\ Sound(d, i, p, a, u, c, k, t, o, m)

\* A step of d that leaves sound values and keeps apart preserves the invariant.
LEMMA LeadsKeeps == ASSUME Core, NEW d \in Device, Leads(d), Apart(d) PROVE Core'
<1>1. PICK i, p, a, u, c, k, t, o, x, m :
        Changes(d, i, p, a, u, c, k, t, o, x, m) /\ Sound(d, i, p, a, u, c, k, t, o, m)
  BY Zenon DEF Leads
<1> QED  BY <1>1, SoundStep, Zenon

\* connect_and_handshake starts: 825 without me.info, 827 with the id in it.
LEMMA ConnectLeads ==
    ASSUME NEW d \in Device, Here(d), Same(d), Connect(d) PROVE Leads(d)
<1> USE DEF server, files, aesFile, local
<1>1. PICK o, m :
       /\ o = IF me[d] = None THEN "register" ELSE "login"
       /\ m = IF me[d] = None THEN Request(825, None, None) ELSE Request(827, me[d], None)
  OBVIOUS
<1>2. Changes(d, me[d], priv[d], aes[d], unsaved[d], me[d], None, None, o, TRUE, m)
  BY <1>1 DEF Same, Changes, Connect, Go
<1>3. Sound(d, me[d], priv[d], aes[d], unsaved[d], me[d], None, None, o, m)
  BY <1>1 DEF Here, Sound, Held, PlaceInv, KeyInv, Current, Place, Waiting, Request, Message
<1> QED  BY <1>2, <1>3, Zenon DEF Leads

\* 1601 to a registration and 1607 to an enrolment end the handshake.
LEMMA RefusedLeads ==
    ASSUME NEW d \in Device, Here(d), Same(d), Refused(d) PROVE Leads(d)
<1> USE DEF server, files, aesFile, local
<1>1. Changes(d, me[d], priv[d], aes[d], unsaved[d], cid[d], key[d], tmp[d], "off", up[d],
              NoMessage)
  BY DEF Same, Changes, Refused, Receives, Fail, Go
<1>2. Sound(d, me[d], priv[d], aes[d], unsaved[d], cid[d], key[d], tmp[d], "off", NoMessage)
  BY DEF Here, Sound, Held, PlaceInv, KeyInv, Current, Place, Waiting
<1> QED  BY <1>1, <1>2, Zenon DEF Leads

\* 1600: the new id is taken from the answer and goes to me.info.tmp.
LEMMA RegisteredLeads ==
    ASSUME NEW d \in Device, Here(d), Same(d), Registered(d) PROVE Leads(d)
<1> USE DEF server, files, aesFile, local
<1>1. Changes(d, None, priv[d], aes[d], unsaved[d], msg[d].id, key[d], msg[d].id, "saveId",
              up[d], NoMessage)
  BY DEF Same, Changes, Registered, Receives, Go
<1>2. Sound(d, None, priv[d], aes[d], unsaved[d], msg[d].id, key[d], msg[d].id, "saveId",
            NoMessage)
  BY DEF Here, Sound, Held, PlaceInv, KeyInv, Current, Place, Waiting
<1> QED  BY <1>1, <1>2, Zenon DEF Leads

\* me.info.tmp becomes me.info.
LEMMA IdentitySavedLeads ==
    ASSUME NEW d \in Device, Here(d), Same(d), IdentitySaved(d) PROVE Leads(d)
<1> USE DEF server, files, aesFile, local
<1>1. pc[d] = "saveId"  BY DEF IdentitySaved
<1>2. Changes(d, tmp[d], priv[d], aes[d], unsaved[d], cid[d], key[d], tmp[d], "makeKeys",
              up[d], msg[d])
  BY DEF Same, Changes, IdentitySaved, Go
<1>3. Sound(d, tmp[d], priv[d], aes[d], unsaved[d], cid[d], key[d], tmp[d], "makeKeys",
            msg[d])
  BY <1>1 DEF Here, Sound, Held, PlaceInv, KeyInv, Current, Place, Waiting
<1> QED  BY <1>2, <1>3, Zenon DEF Leads

\* making_RSAkeys makes a pair only where priv.key has none.
LEMMA MakeKeysLeads ==
    ASSUME NEW d \in Device, Here(d), Same(d), MakeKeys(d) PROVE Leads(d)
<1> USE DEF server, files, aesFile, local
<1>1. PICK p, o :
       /\ p = IF priv[d] # None THEN priv[d] ELSE NewPair
       /\ o = IF priv[d] # None THEN "off" ELSE "sendKey"
  OBVIOUS
<1>2. pc[d] = "makeKeys"  BY DEF MakeKeys
<1>3. Changes(d, me[d], p, aes[d], unsaved[d], cid[d], key[d], tmp[d], o, up[d], msg[d])
  BY <1>1 DEF Same, Changes, MakeKeys, Fail, Go
<1>4. Sound(d, me[d], p, aes[d], unsaved[d], cid[d], key[d], tmp[d], o, msg[d])
  BY <1>1, <1>2 DEF Here, Sound, Held, PlaceInv, KeyInv, Current, Place, Waiting
<1> QED  BY <1>3, <1>4, Zenon DEF Leads

\* write_me_public_key moves the id from me.info to me.info.tmp.
LEMMA RewriteIdentityLeads ==
    ASSUME NEW d \in Device, Here(d), Same(d), RewriteIdentity(d) PROVE Leads(d)
<1> USE DEF server, files, aesFile, local
<1>1. PICK t, o :
       /\ t = IF me[d] = None THEN tmp[d] ELSE me[d]
       /\ o = IF me[d] = None THEN "off" ELSE "savePub"
  OBVIOUS
<1>2. pc[d] = "sendKey"  BY DEF RewriteIdentity
<1>3. Changes(d, None, priv[d], aes[d], unsaved[d], cid[d], key[d], t, o, up[d], msg[d])
  BY <1>1 DEF Same, Changes, RewriteIdentity, Fail, Go
<1>4. Sound(d, None, priv[d], aes[d], unsaved[d], cid[d], key[d], t, o, msg[d])
  BY <1>1, <1>2 DEF Here, Sound, Held, PlaceInv, KeyInv, Current, Place, Waiting
<1> QED  BY <1>3, <1>4, Zenon DEF Leads

\* 826 carries the public key of the pair in priv.key.
LEMMA SendPublicKeyLeads ==
    ASSUME NEW d \in Device, Here(d), Same(d), SendPublicKey(d) PROVE Leads(d)
<1> USE DEF server, files, aesFile, local
<1>1. PICK m :
       m = IF cid[d] = None THEN msg[d] ELSE IF up[d] THEN Request(826, cid[d], priv[d]) ELSE NoMessage
  OBVIOUS
<1>2. pc[d] = "savePub"  BY DEF SendPublicKey
<1>3. Changes(d, tmp[d], priv[d], aes[d], unsaved[d], cid[d], key[d], tmp[d], "enrol",
              up[d], m)
  BY <1>1 DEF Same, Changes, SendPublicKey, Go, Send
<1>4. Sound(d, tmp[d], priv[d], aes[d], unsaved[d], cid[d], key[d], tmp[d], "enrol", m)
  BY <1>1, <1>2 DEF Here, Sound, Held, PlaceInv, KeyInv, Current, Place, Waiting, Request,
     Message
<1> QED  BY <1>3, <1>4, Zenon DEF Leads

\* 1606 with id zero: the client registers anew.
LEMMA NeedRegisterLeads ==
    ASSUME NEW d \in Device, Here(d), Same(d), NeedRegister(d) PROVE Leads(d)
<1> USE DEF server, files, aesFile, local
<1>1. PICK m :
       m = IF up[d] THEN Request(825, None, None) ELSE NoMessage
  OBVIOUS
<1>2. Changes(d, me[d], priv[d], aes[d], unsaved[d], cid[d], key[d], tmp[d], "register",
              up[d], m)
  BY <1>1 DEF Same, Changes, NeedRegister, Go, Send
<1>3. Sound(d, me[d], priv[d], aes[d], unsaved[d], cid[d], key[d], tmp[d], "register", m)
  BY <1>1 DEF Here, Sound, Held, PlaceInv, KeyInv, Current, Place, Waiting, Request, Message
<1> QED  BY <1>2, <1>3, Zenon DEF Leads

\* 1606 with the id of the client: it goes on to send its public key.
LEMMA NeedSendPublicKeyLeads ==
    ASSUME NEW d \in Device, Here(d), Same(d), NeedSendPublicKey(d) PROVE Leads(d)
<1> USE DEF server, files, aesFile, local
<1>1. PICK o :
       o = IF priv[d] = None THEN "off" ELSE "sendKey"
  OBVIOUS
<1>2. Changes(d, me[d], priv[d], aes[d], unsaved[d], msg[d].id, key[d], tmp[d], o, up[d],
              NoMessage)
  BY <1>1 DEF Same, Changes, NeedSendPublicKey, Receives, Go
<1>3. Sound(d, me[d], priv[d], aes[d], unsaved[d], msg[d].id, key[d], tmp[d], o, NoMessage)
  BY <1>1 DEF Here, Sound, Held, PlaceInv, KeyInv, Current, Place, Waiting
<1> QED  BY <1>2, <1>3, Zenon DEF Leads

\* 1602 and 1605: the AES key of the answer goes to aes.key.
LEMMA KeyReceivedLeads ==
    ASSUME NEW d \in Device, Here(d), Same(d), KeyReceived(d) PROVE Leads(d)
<1> USE DEF server, files, aesFile, local
<1>1. PICK o, a :
       /\ o = IF priv[d] # msg[d].pub THEN "off" ELSE "loadKey"
       /\ a = IF priv[d] # msg[d].pub THEN aes[d] ELSE msg[d].aes
  OBVIOUS
<1>2. PICK u \in BOOLEAN : unsaved' = [unsaved EXCEPT ![d] = u]
  BY DEF KeyReceived, Same
<1>3. pc[d] \in {"login", "enrol"} /\ msg[d].code \in {1602, 1605}  BY DEF KeyReceived, ReceivesKey, Receives
<1>4. Changes(d, me[d], priv[d], a, u, msg[d].id, key[d], tmp[d], o, up[d], NoMessage)
  BY <1>1, <1>2 DEF Same, Changes, KeyReceived, ReceivesKey, Receives, Fail, Go
<1>5. Sound(d, me[d], priv[d], a, u, msg[d].id, key[d], tmp[d], o, NoMessage)
  BY <1>1, <1>2, <1>3 DEF Here, Sound, Held, PlaceInv, KeyInv, Current, Place, Waiting
<1> QED  BY <1>4, <1>5, Zenon DEF Leads

\* The key of the connection is then read back from aes.key.
LEMMA LoadKeyLeads ==
    ASSUME NEW d \in Device, Here(d), Same(d), LoadKey(d) PROVE Leads(d)
<1> USE DEF server, files, aesFile, local
<1>1. PICK k, o :
       /\ k = IF aes[d] = None THEN key[d] ELSE aes[d]
       /\ o = IF aes[d] = None THEN "off" ELSE "connected"
  OBVIOUS
<1>2. pc[d] = "loadKey"  BY DEF LoadKey
<1>3. Changes(d, me[d], priv[d], aes[d], unsaved[d], cid[d], k, tmp[d], o, up[d], msg[d])
  BY <1>1 DEF Same, Changes, LoadKey, Fail, Go
<1>4. Sound(d, me[d], priv[d], aes[d], unsaved[d], cid[d], k, tmp[d], o, msg[d])
  BY <1>1, <1>2 DEF Here, Sound, Held, PlaceInv, KeyInv, Current, Place, Waiting
<1> QED  BY <1>3, <1>4, Zenon DEF Leads

\* A client that disconnects keeps its files.
LEMMA DisconnectLeads ==
    ASSUME NEW d \in Device, Here(d), Same(d), Disconnect(d) PROVE Leads(d)
<1> USE DEF server, files, aesFile, local
<1>1. pc[d] = "connected"  BY DEF Disconnect
<1>2. Changes(d, me[d], priv[d], aes[d], unsaved[d], cid[d], key[d], tmp[d], "off", FALSE,
              msg[d])
  BY DEF Same, Changes, Disconnect, Fail, Go
<1>3. Sound(d, me[d], priv[d], aes[d], unsaved[d], cid[d], key[d], tmp[d], "off", msg[d])
  BY <1>1 DEF Here, Sound, Held, PlaceInv, KeyInv, Current, Place, Waiting
<1> QED  BY <1>2, <1>3, Zenon DEF Leads

\* The read of an answer that cannot come ends the process.
LEMMA ReadFailsLeads ==
    ASSUME NEW d \in Device, Here(d), Same(d), ReadFails(d) PROVE Leads(d)
<1> USE DEF server, files, aesFile, local
<1>1. msg[d].code = 0  BY DEF ReadFails
<1>2. Changes(d, me[d], priv[d], aes[d], unsaved[d], cid[d], key[d], tmp[d], "off", FALSE,
              msg[d])
  BY DEF Same, Changes, ReadFails, Fail, Go
<1>3. Sound(d, me[d], priv[d], aes[d], unsaved[d], cid[d], key[d], tmp[d], "off", msg[d])
  BY <1>1 DEF Here, Sound, Held, PlaceInv, KeyInv, Current, Place, Waiting
<1> QED  BY <1>2, <1>3, Zenon DEF Leads

\* A killed process leaves what is in its files.
LEMMA KillLeads ==
    ASSUME NEW d \in Device, Here(d), Same(d), Kill(d) PROVE Leads(d)
<1> USE DEF server, files, aesFile, local
<1>1. Changes(d, me[d], priv[d], aes[d], unsaved[d], cid[d], key[d], tmp[d], "off", FALSE,
              NoMessage)
  BY DEF Same, Changes, Kill, ConnectionDies, Fail, Go
<1>2. Sound(d, me[d], priv[d], aes[d], unsaved[d], cid[d], key[d], tmp[d], "off", NoMessage)
  BY DEF Here, Sound, Held, PlaceInv, KeyInv, Current, Place, Waiting
<1> QED  BY <1>1, <1>2, Zenon DEF Leads

\* A lost connection leaves the process and the files alone.
LEMMA LoseLeads ==
    ASSUME NEW d \in Device, Here(d), Same(d), Lose(d) PROVE Leads(d)
<1> USE DEF server, files, aesFile, local
<1>1. Changes(d, me[d], priv[d], aes[d], unsaved[d], cid[d], key[d], tmp[d], pc[d], FALSE,
              NoMessage)
  BY DEF Same, Changes, Lose, ConnectionDies
<1>2. Sound(d, me[d], priv[d], aes[d], unsaved[d], cid[d], key[d], tmp[d], pc[d], NoMessage)
  BY DEF Here, Sound, Held, PlaceInv, KeyInv, Current, Place, Waiting
<1> QED  BY <1>1, <1>2, Zenon DEF Leads

\* me.info could not be saved: the process goes on without an id.
LEMMA IdentityUnsavedLeads ==
    ASSUME NEW d \in Device, Here(d), Same(d), IdentityUnsaved(d) PROVE Leads(d)
<1> USE DEF server, files, aesFile, local
<1>1. PICK i \in {me[d], None} : me' = [me EXCEPT ![d] = i]
  <2>1. me = [me EXCEPT ![d] = me[d]]  BY DEF Same
  <2>2. me' = me \/ me' = [me EXCEPT ![d] = None]  BY DEF IdentityUnsaved, Unsaved
  <2> QED  BY <2>1, <2>2
<1>2. Changes(d, i, priv[d], aes[d], unsaved[d], None, key[d], tmp[d], "makeKeys", up[d],
              NoMessage)
  BY <1>1 DEF Same, Changes, IdentityUnsaved, Receives, Unsaved, Go
<1>3. Sound(d, i, priv[d], aes[d], unsaved[d], None, key[d], tmp[d], "makeKeys", NoMessage)
  BY <1>1 DEF Here, Sound, Held, PlaceInv, KeyInv, Current, Place, Waiting
<1> QED  BY <1>2, <1>3, Zenon DEF Leads

\* priv.key or the public key could not be saved: the handshake ends.
LEMMA KeysUnsavedLeads ==
    ASSUME NEW d \in Device, Here(d), Same(d), KeysUnsaved(d) PROVE Leads(d)
<1> USE DEF server, files, aesFile, local
<1>1. PICK i \in {me[d], None} : me' = [me EXCEPT ![d] = i]
  <2>1. me = [me EXCEPT ![d] = me[d]]  BY DEF Same
  <2>2. me' = me \/ me' = [me EXCEPT ![d] = None]  BY DEF KeysUnsaved, Unsaved
  <2> QED  BY <2>1, <2>2
<1>2. pc[d] \in {"makeKeys", "sendKey"}  BY DEF KeysUnsaved
<1>3. Changes(d, i, priv[d], aes[d], unsaved[d], cid[d], key[d], tmp[d], "off", up[d],
              msg[d])
  BY <1>1 DEF Same, Changes, KeysUnsaved, Unsaved, Fail, Go
<1>4. Sound(d, i, priv[d], aes[d], unsaved[d], cid[d], key[d], tmp[d], "off", msg[d])
  BY <1>1, <1>2 DEF Here, Sound, Held, PlaceInv, KeyInv, Current, Place, Waiting
<1> QED  BY <1>3, <1>4, Zenon DEF Leads

\* aes.key that could not be written is recorded as unsaved.
LEMMA AesKeyUnsavedLeads ==
    ASSUME NEW d \in Device, Here(d), Same(d), AesKeyUnsaved(d) PROVE Leads(d)
<1> USE DEF server, files, aesFile, local
<1>1. PICK a \in {aes[d], None} : aes' = [aes EXCEPT ![d] = a]
  <2>1. aes = [aes EXCEPT ![d] = aes[d]]  BY DEF Same
  <2>2. aes' = aes \/ aes' = [aes EXCEPT ![d] = None]  BY DEF AesKeyUnsaved, Unsaved
  <2> QED  BY <2>1, <2>2
<1>2. pc[d] \in {"login", "enrol"} /\ msg[d].code \in {1602, 1605}  BY DEF AesKeyUnsaved, ReceivesKey, Receives
<1>3. Changes(d, me[d], priv[d], a, TRUE, msg[d].id, key[d], tmp[d], "loadKey", up[d],
              NoMessage)
  BY <1>1 DEF Same, Changes, AesKeyUnsaved, ReceivesKey, Receives, Unsaved, Go
<1>4. Sound(d, me[d], priv[d], a, TRUE, msg[d].id, key[d], tmp[d], "loadKey", NoMessage)
  <2>1. {me[d], msg[d].id, tmp[d], NoMessage.id} \subseteq Held(d) \cup {None}  BY DEF Here, Held
  <2>2. me[d] # None  BY <1>2 DEF Here, PlaceInv
  <2> QED  BY <1>1, <2>1, <2>2 DEF Here, Sound, Place, Waiting
<1> QED  BY <1>3, <1>4, Zenon DEF Leads

\* No step of a client touches the server.
LEMMA ClientQuiet ==
    ASSUME NEW d \in Device, Connect(d) \/ ClientStep(d) \/ Disconnect(d)
    PROVE  UNCHANGED <<server, faults>>
BY DEF ClientStep, Connect, Refused, Registered, IdentitySaved, MakeKeys, RewriteIdentity,
         SendPublicKey, NeedRegister, NeedSendPublicKey, KeyReceived, LoadKey, Disconnect, ReadFails

\* The steps of a client keep the invariant ...
LEMMA ClientKeeps ==
    ASSUME Core, Fresh, NEW d \in Device, Connect(d) \/ ClientStep(d) \/ Disconnect(d) PROVE Core'
<1>1. Here(d) /\ Same(d)  BY Context
<1>2. Leads(d)
  BY <1>1, ConnectLeads, RefusedLeads, RegisteredLeads, IdentitySavedLeads, MakeKeysLeads,
     RewriteIdentityLeads, SendPublicKeyLeads, NeedRegisterLeads, NeedSendPublicKeyLeads,
     KeyReceivedLeads, LoadKeyLeads, DisconnectLeads, ReadFailsLeads
  DEF ClientStep
<1>3. UNCHANGED <<server, faults>>  BY ClientQuiet
<1>4. Apart(d)  BY <1>3, QuietApart
<1> QED  BY <1>2, <1>4, LeadsKeeps

\* ... and so do the faults that meet one.
LEMMA ClientFaultKeeps ==
    ASSUME Core, Fresh, NEW d \in Device,
           \/ Kill(d) \/ Lose(d) \/ IdentityUnsaved(d) \/ KeysUnsaved(d) \/ AesKeyUnsaved(d)
    PROVE  Core'
<1>1. Here(d) /\ Same(d)  BY Context
<1>2. Leads(d)
  BY <1>1, KillLeads, LoseLeads, IdentityUnsavedLeads, KeysUnsavedLeads, AesKeyUnsavedLeads
<1>3. PICK k : Fault(k)  BY DEF Kill, Lose, IdentityUnsaved, KeysUnsaved, AesKeyUnsaved
<1>4. /\ acct' = acct /\ strayKey' = strayKey
      /\ stray' \subseteq stray \cup {x \in {msg[d]} : IsRequest(x)}
  BY DEF Kill, Lose, IdentityUnsaved, KeysUnsaved, AesKeyUnsaved, ConnectionDies, server
<1>5. Apart(d)  BY <1>3, <1>4, FaultApart
<1> QED  BY <1>2, <1>5, LeadsKeeps

-----------------------------------------------------------------------------
(* The steps of the server.                                                *)

\* The result r of request m is a refusal: the row stays as it is.
Refusal(m, r) ==
    /\ r.acct = acct /\ r.answer \in Message
    /\ r.answer.code \in {1601, 1606, 1607} /\ r.answer.id \in {None, m.id}

\* The row of the user is made, without a key.
Registration(m, r) ==
    /\ acct.id = None
    /\ r.acct = [id |-> NewId, pub |-> None, aes |-> None]
    /\ r.answer \in Message /\ r.answer.code = 1600 /\ r.answer.id = NewId

\* The registered id is answered with the AES key of its row.
KeyGiven(m, r) ==
    /\ acct.id = m.id /\ r.acct \in Account /\ r.acct.id = m.id
    /\ \/ m.code = 826 /\ r.acct.pub = m.pub
       \/ acct.pub # None /\ r.acct.pub = acct.pub
    /\ r.answer \in Message /\ r.answer.code \in {1602, 1605}
    /\ r.answer.id = m.id /\ r.answer.aes = r.acct.aes

\* The row of the user is an account.
LEMMA RowType ==
    ASSUME TypeOK
    PROVE  /\ acct \in Account /\ acct = [id |-> acct.id, pub |-> acct.pub, aes |-> acct.aes]
           /\ acct.id \in Ident /\ acct.pub \in Ident /\ acct.aes \in Ident
BY DEF TypeOK, Account

\* The answers the server makes are messages.
LEMMA AnswerTypes ==
    ASSUME Fresh
    PROVE
    /\ \A c \in {1600, 1601, 1606, 1607}, i \in Ident :
         /\ Answer(c, i) \in Message /\ Answer(c, i).code = c /\ Answer(c, i).id = i
    /\ \A c \in {1602, 1605}, i, p, k \in Ident :
         /\ KeyAnswer(c, i, p, k) \in Message /\ KeyAnswer(c, i, p, k).code = c
         /\ KeyAnswer(c, i, p, k).id = i /\ KeyAnswer(c, i, p, k).aes = k
BY DEF Fresh, Answer, Request, KeyAnswer, Message

\* request_825 refuses a name that is taken and registers one that is not.
LEMMA Reply825Cases ==
    ASSUME Core, Fresh, NEW m \in Message
    PROVE  Refusal(m, Reply825(m)) \/ Registration(m, Reply825(m))
<1>1. CASE acct.id # None
  <2>1. Reply825(m) = Result(acct, Answer(1601, None))  BY <1>1 DEF Reply825
  <2> QED  BY <2>1, AnswerTypes DEF Fresh, Refusal, Result
<1>2. CASE acct.id = None
  <2>1. Reply825(m) = Result([NoAccount EXCEPT !.id = NewId], Answer(1600, NewId))
    BY <1>2 DEF Reply825
  <2>2. [NoAccount EXCEPT !.id = NewId] = [id |-> NewId, pub |-> None, aes |-> None]
    BY DEF NoAccount
  <2>3. NewId \in Ident  BY DEF Fresh
  <2> QED  BY <1>2, <2>1, <2>2, <2>3, AnswerTypes DEF Registration, Result
<1> QED  BY <1>1, <1>2

\* request_826 gives a key to the registered id and refuses every other.
LEMMA Reply826Cases ==
    ASSUME Core, Fresh, NEW m \in Message, m.code = 826
    PROVE  Refusal(m, Reply826(m)) \/ KeyGiven(m, Reply826(m))
<1>1. m.id \in Ident /\ m.pub \in Ident  BY DEF Message
<1>2. CASE acct.id # m.id \/ acct.pub \notin {None, m.pub}
  <2>1. Reply826(m) = Result(acct, Answer(1607, m.id))  BY <1>2 DEF Reply826
  <2> QED  BY <1>1, <2>1, AnswerTypes DEF Refusal, Result
<1>3. CASE acct.id = m.id /\ acct.pub \in {None, m.pub}
  <2>1. Reply826(m) = Result([id |-> acct.id, pub |-> m.pub, aes |-> EnrolKey],
                             KeyAnswer(1602, m.id, m.pub, EnrolKey))
    BY <1>3 DEF Reply826
  <2>2. EnrolKey \in Ident
    <3>1. NewKey \in Ident  BY DEF Fresh
    <3>2. acct.aes \in Ident  BY RowType DEF Core
    <3> QED  BY <3>1, <3>2 DEF EnrolKey
  <2>4. [id |-> acct.id, pub |-> m.pub, aes |-> EnrolKey] \in Account
    BY <1>1, <2>2, RowType DEF Core, Account
  <2>5. /\ Reply826(m).acct = [id |-> acct.id, pub |-> m.pub, aes |-> EnrolKey]
        /\ Reply826(m).answer = KeyAnswer(1602, m.id, m.pub, EnrolKey)
    BY <2>1 DEF Result
  <2> QED  BY <1>1, <1>3, <2>2, <2>4, <2>5, AnswerTypes DEF KeyGiven
<1> QED  BY <1>2, <1>3

\* request_827 gives a key to the registered id once it has a public key.
LEMMA Reply827Cases ==
    ASSUME Core, Fresh, NEW m \in Message
    PROVE  Refusal(m, Reply827(m)) \/ KeyGiven(m, Reply827(m))
<1>1. m.id \in Ident /\ m.pub \in Ident  BY DEF Message
<1>2. CASE acct.id # m.id
  <2>1. Reply827(m) = Result(acct, Answer(1606, None))  BY <1>2 DEF Reply827
  <2>2. Answer(1606, None) \in Message /\ Answer(1606, None).code = 1606 /\ Answer(1606, None).id = None
    BY AnswerTypes DEF Fresh
  <2>3. PICK a : a = Answer(1606, None)  OBVIOUS
  <2> QED  BY <2>1, <2>2, <2>3 DEF Refusal, Result
<1>3. CASE acct.id = m.id /\ acct.pub = None
  <2>1. Reply827(m) = Result(acct, Answer(1606, m.id))  BY <1>3 DEF Reply827
  <2> QED  BY <1>1, <2>1, AnswerTypes DEF Refusal, Result
<1>4. CASE acct.id = m.id /\ acct.pub # None
  <2>1. Reply827(m) = Result([acct EXCEPT !.aes = NewKey],
                             KeyAnswer(1605, m.id, acct.pub, NewKey))
    BY <1>4 DEF Reply827
  <2>2. NewKey \in Ident  BY DEF Fresh
  <2>3. [acct EXCEPT !.aes = NewKey] = [id |-> acct.id, pub |-> acct.pub, aes |-> NewKey]
    BY RowType DEF Core
  <2>4. [id |-> acct.id, pub |-> acct.pub, aes |-> NewKey] \in Account
    BY <2>2, RowType DEF Core, Account
  <2>5. /\ Reply827(m).acct = [id |-> acct.id, pub |-> acct.pub, aes |-> NewKey]
        /\ Reply827(m).answer = KeyAnswer(1605, m.id, acct.pub, NewKey)
    BY <2>1, <2>3 DEF Result
  <2>6. acct.pub \in Ident  BY RowType DEF Core
  <2>7. PICK a : a = KeyAnswer(1605, m.id, acct.pub, NewKey)  OBVIOUS
  <2>8. a \in Message /\ a.code = 1605 /\ a.id = m.id /\ a.aes = NewKey
    BY <1>1, <2>2, <2>6, <2>7, AnswerTypes
  <2> QED  BY <1>4, <2>4, <2>5, <2>7, <2>8 DEF KeyGiven
<1> QED  BY <1>2, <1>3, <1>4

\* Every request is refused, registered or given a key.
LEMMA ReplyCases ==
    ASSUME Core, Fresh, NEW m \in Message, IsRequest(m)
    PROVE  \/ Refusal(m, Reply(m)) \/ Registration(m, Reply(m)) \/ KeyGiven(m, Reply(m))
<1>1. \/ m.code = 825 /\ Reply(m) = Reply825(m)
      \/ m.code = 826 /\ Reply(m) = Reply826(m)
      \/ m.code = 827 /\ Reply(m) = Reply827(m)
  BY DEF IsRequest, Reply
<1> QED  BY <1>1, Reply825Cases, Reply826Cases, Reply827Cases

-----------------------------------------------------------------------------
\* A step of the server leaves the clients alone, except for what is on the way to
\* them.
Idle == UNCHANGED <<me, priv, aes, unsaved, pc, cid, key, tmp>>

\* The row after an answer to a request in flight: the ids and public keys of the
\* registered user still belong together.
LEMMA GivenBelongs ==
    ASSUME Core, NEW m \in InFlight, NEW r, KeyGiven(m, r)
    PROVE  Belongs(m.id, r.acct.pub)
<1>1. Bound  BY DEF Core
<1>2. CASE m.code = 826 /\ r.acct.pub = m.pub  BY <1>1, <1>2 DEF Bound
<1>3. CASE acct.pub # None /\ r.acct.pub = acct.pub  BY <1>1, <1>3 DEF Bound, KeyGiven
<1> QED  BY <1>2, <1>3 DEF KeyGiven

\* Without a new id and with no new 826 in flight, it is enough that the row's ids
\* and keys belong together.
LEMMA IdleBound ==
    ASSUME Core, Idle, Shrinks,
           \A m \in InFlight' : m.code = 826 => m \in InFlight,
           acct'.pub # None => Belongs(acct'.id, acct'.pub)
    PROVE  OwnIds' /\ Bound'
<1>1. OwnIds'  BY ShrinksOwn DEF Core
<1>2. ASSUME NEW m \in InFlight', m.code = 826 PROVE Belongs(m.id, m.pub)'
  <2>1. Belongs(m.id, m.pub)  BY <1>2 DEF Core, Bound
  <2> QED  BY <2>1, ShrinksBelongs
<1>3. acct'.pub # None => Belongs(acct.id, acct.pub)'
  BY DEF Belongs, Shrinks
<1> QED  BY <1>1, <1>2, <1>3 DEF Bound

\* The types after a step of the server.
LEMMA IdleType ==
    ASSUME TypeOK, Idle, acct' \in Account, up' \in [Device -> BOOLEAN],
           msg' \in [Device -> Message], stray' \subseteq Message, strayKey' \in BOOLEAN,
           faults' \in 0..MaxFaults
    PROVE  TypeOK'
BY DEF TypeOK, Idle

\* An answer replaces the request of d.
Answers(d, a) ==
    /\ Idle /\ up' = up /\ stray' = stray /\ faults' = faults
    /\ a \in Message /\ msg' = [msg EXCEPT ![d] = a]

\* An answer leaves the types alone.
LEMMA AnswersType ==
    ASSUME Core, NEW d \in Device, NEW a, Answers(d, a), acct' \in Account, strayKey' \in BOOLEAN
    PROVE  /\ TypeOK'
           /\ msg'[d] = a /\ \A e \in Device \ {d} : msg'[e] = msg[e]
           /\ Idle /\ stray' = stray
<1>1. TypeOK  BY DEF Core
<1>2. msg' \in [Device -> Message] /\ stray' \subseteq Message /\ up' \in [Device -> BOOLEAN]
      /\ faults' \in 0..MaxFaults
  BY <1>1 DEF TypeOK, Answers
<1>3. TypeOK'  BY <1>1, <1>2, IdleType DEF Answers
<1>4. msg'[d] = a /\ \A e \in Device \ {d} : msg'[e] = msg[e]  BY <1>1 DEF TypeOK, Answers
<1> QED  BY <1>1, <1>3, <1>4 DEF Answers

\* A refusal keeps the invariant: the row is as it was ...
LEMMA RefusalKeeps ==
    ASSUME Core, Fresh, NEW d \in Device, IsRequest(msg[d]), NEW r, Refusal(msg[d], r),
           Answers(d, r.answer), acct' = r.acct, strayKey' = strayKey
    PROVE  Core'
<1>1. TypeOK /\ PlaceInv(d) /\ KeyInv(d)  BY DEF Core
<1>2. UNCHANGED <<server, faults>>  BY DEF server, Answers, Refusal
<1>3. Apart(d)  BY <1>2, QuietApart
<1>4. PICK m : m = r.answer  OBVIOUS
<1>5. Changes(d, me[d], priv[d], aes[d], unsaved[d], cid[d], key[d], tmp[d], pc[d], up[d], m)
  BY <1>4, Context DEF Same, Changes, Answers, Idle
<1>6. pc[d] \in Waiting  BY <1>1 DEF PlaceInv, IsRequest
<1>7. m \in Message /\ m.code \in {1601, 1606, 1607} /\ m.id \in {None, msg[d].id}
  BY <1>4 DEF Refusal
<1>8. Sound(d, me[d], priv[d], aes[d], unsaved[d], cid[d], key[d], tmp[d], pc[d], m)
  BY <1>1, <1>6, <1>7, Values DEF Sound, Held, PlaceInv, Waiting
<1> QED  BY <1>3, <1>5, <1>8, SoundStep, Zenon

\* The device of an answered request waits.
LEMMA AnsweredPlace ==
    ASSUME Core, Idle, NEW d \in Device, IsRequest(msg[d]),
           \A e \in Device \ {d} : msg'[e] = msg[e]
    PROVE  /\ pc[d] \in Waiting
           /\ \A e \in Device : PlaceInv(e)'
<1>1. pc[d] \in Waiting  BY DEF Core, PlaceInv, IsRequest
<1>2. ASSUME NEW e \in Device PROVE PlaceInv(e)'
  <2>1. PlaceInv(e)  BY DEF Core
  <2>2. CASE e = d  BY <1>1, <2>1, <2>2 DEF PlaceInv, Idle
  <2>3. CASE e # d
    <3>1. msg'[e] = msg[e]  BY <2>3
    <3> QED  BY <2>1, <3>1 DEF PlaceInv, Idle
  <2> QED  BY <2>2, <2>3
<1> QED  BY <1>1, <1>2

\* ... a registration does, because the new id is held by nobody ...
LEMMA RegistrationKeeps ==
    ASSUME Core, Fresh, NEW d \in Device, IsRequest(msg[d]), NEW r, Registration(msg[d], r),
           Answers(d, r.answer), acct' = r.acct, strayKey' \in BOOLEAN
    PROVE  Core'
<1>1. TypeOK  BY DEF Core
<1>2. /\ NewId \in Ident \ {None}
      /\ \A m \in InFlight : NewId # m.id
      /\ \A e \in Device : NewId \notin Held(e)
  BY DEF Fresh
<1>3. acct' \in Account /\ acct'.id = NewId /\ acct'.pub = None
  BY <1>2 DEF Fresh, Registration, Account
<1>4. /\ TypeOK'
      /\ msg'[d] = r.answer /\ \A e \in Device \ {d} : msg'[e] = msg[e]
      /\ Idle /\ stray' = stray
  BY <1>3, AnswersType
<1>5. msg'[d].id = NewId /\ msg'[d].code = 1600  BY <1>4 DEF Registration
<1>6. pc[d] \in Waiting /\ \A e \in Device : PlaceInv(e)'  BY <1>4, AnsweredPlace
<1>7. ASSUME NEW e \in Device PROVE Held(e)' \subseteq Held(e) \cup {NewId} /\ (e # d => Held(e)' = Held(e))
  <2>1. me'[e] = me[e] /\ cid'[e] = cid[e] /\ tmp'[e] = tmp[e]  BY <1>4 DEF Idle
  <2>2. CASE e = d  BY <1>5, <2>1, <2>2 DEF Held
  <2>3. CASE e # d
    <3>1. msg'[e] = msg[e]  BY <1>4, <2>3
    <3> QED  BY <2>1, <3>1 DEF Held
  <2> QED  BY <2>2, <2>3
<1>8. OwnIds'
  <2> SUFFICES ASSUME NEW a \in Device, NEW b \in Device, NEW x, x \in Held(a)', x \in Held(b)'
               PROVE  a = b \/ x = None
    BY DEF OwnIds
  <2>1. CASE x = NewId
    <3>1. a = d /\ b = d  BY <1>2, <1>7, <2>1
    <3> QED  BY <3>1
  <2>2. CASE x # NewId
    <3>1. x \in Held(a) /\ x \in Held(b)  BY <1>7, <2>2
    <3> QED  BY <3>1 DEF Core, OwnIds
  <2> QED  BY <2>1, <2>2
<1>9. Bound'
  <2>1. ASSUME NEW m \in InFlight', m.code = 826 PROVE Belongs(m.id, m.pub)'
    <3>1. m \in InFlight
      <4>1. m # msg'[d]  BY <1>5, <2>1
      <4> QED  BY <1>4, <4>1 DEF InFlight
    <3>2. Belongs(m.id, m.pub)  BY <2>1, <3>1 DEF Core, Bound
    <3>3. ASSUME NEW e \in Device, m.id \in Held(e)' PROVE priv'[e] = m.pub
      <4>1. m.id \in Held(e)  BY <1>2, <1>7, <3>1, <3>3
      <4>2. priv[e] = m.pub  BY <3>2, <4>1 DEF Belongs
      <4> QED  BY <1>4, <4>2 DEF Idle
    <3> QED  BY <3>2, <3>3 DEF Belongs
  <2> QED  BY <1>3, <2>1 DEF Bound
<1>10. ASSUME NEW e \in Device PROVE KeyInv(e)'
  <2>1. me'[e] # acct'.id
    <3>1. me[e] \in Held(e)  BY DEF Held
    <3> QED  BY <1>2, <1>3, <1>4, <3>1 DEF Idle
  <2> QED  BY <2>1 DEF KeyInv, Current
<1> QED  BY <1>4, <1>6, <1>8, <1>9, <1>10 DEF Core

\* ... and a key given does, because the answer carries the key of the row.
LEMMA KeyGivenKeeps ==
    ASSUME Core, NEW d \in Device, IsRequest(msg[d]), NEW r, KeyGiven(msg[d], r),
           Answers(d, r.answer), acct' = r.acct, strayKey' \in BOOLEAN
    PROVE  Core'
<1>1. TypeOK /\ msg[d] \in InFlight  BY DEF Core, InFlight
<1>2. Belongs(msg[d].id, r.acct.pub)  BY <1>1, GivenBelongs
<1>3. acct' \in Account /\ acct'.id = msg[d].id /\ acct.id = msg[d].id  BY DEF KeyGiven
<1>4. /\ TypeOK'
      /\ msg'[d] = r.answer /\ \A e \in Device \ {d} : msg'[e] = msg[e]
      /\ Idle /\ stray' = stray
  BY <1>3, AnswersType
<1>5. msg'[d].id = msg[d].id /\ msg'[d].code # 826 /\ msg'[d].aes = acct'.aes
  BY <1>4 DEF KeyGiven
<1>6. pc[d] \in Waiting /\ \A e \in Device : PlaceInv(e)'  BY <1>4, AnsweredPlace
<1>7. Shrinks
  <2> SUFFICES ASSUME NEW e \in Device PROVE Held(e)' = Held(e) /\ priv'[e] = priv[e]
    BY DEF Shrinks
  <2>1. msg'[e].id = msg[e].id  BY <1>4, <1>5
  <2> QED  BY <1>4, <2>1 DEF Held, Idle
<1>8. \A m \in InFlight' : m.code = 826 => m \in InFlight
  BY <1>4, <1>5 DEF InFlight
<1>9. OwnIds' /\ Bound'  BY <1>2, <1>3, <1>4, <1>7, <1>8, IdleBound
<1>10. ASSUME NEW e \in Device PROVE KeyInv(e)'
  <2>1. CASE e = d
    <3>1. pc'[d] \notin {"loadKey", "connected"}  BY <1>4, <1>6 DEF Idle, Waiting
    <3> QED  BY <1>5, <2>1, <3>1 DEF KeyInv, Current
  <2>2. CASE e # d
    <3>1. msg[d].id # None /\ msg[d].id \in Held(d) /\ me[e] \in Held(e)
      BY <1>2 DEF Belongs, Held
    <3>2. me[e] # msg[d].id  BY <2>2, <3>1 DEF Core, OwnIds
    <3>3. me'[e] # acct'.id  BY <1>3, <1>4, <3>2 DEF Idle
    <3> QED  BY <3>3 DEF KeyInv, Current
  <2> QED  BY <2>1, <2>2
<1> QED  BY <1>4, <1>6, <1>9, <1>10 DEF Core

\* The server handles the request of a connection.
LEMMA HandleKeeps == ASSUME Core, Fresh, NEW d \in Device, Handle(d) PROVE Core'
<1>1. TypeOK /\ IsRequest(msg[d])  BY DEF Core, Handle
<1>2. PICK r : r = Reply(msg[d])  OBVIOUS
<1>3. /\ acct' = r.acct /\ msg' = [msg EXCEPT ![d] = r.answer]
      /\ strayKey' = (strayKey /\ r.acct.aes = acct.aes)
      /\ Idle /\ up' = up /\ stray' = stray /\ faults' = faults
  BY <1>2 DEF Handle, Idle, files, aesFile, local
<1>4. strayKey' \in BOOLEAN  BY <1>3
<1>5. \/ Refusal(msg[d], r) \/ Registration(msg[d], r) \/ KeyGiven(msg[d], r)
  BY <1>1, <1>2, Values, ReplyCases
<1>6. Answers(d, r.answer)  BY <1>3, <1>5 DEF Answers, Refusal, Registration, KeyGiven
<1>7. CASE Refusal(msg[d], r)
  <2>1. strayKey' = strayKey  BY <1>1, <1>3, <1>7 DEF Refusal, TypeOK
  <2> QED  BY <1>1, <1>3, <1>6, <1>7, <2>1, RefusalKeeps
<1>8. CASE Registration(msg[d], r)  BY <1>1, <1>3, <1>4, <1>6, <1>8, RegistrationKeeps
<1>9. CASE KeyGiven(msg[d], r)  BY <1>1, <1>3, <1>4, <1>6, <1>9, KeyGivenKeeps
<1> QED  BY <1>5, <1>7, <1>8, <1>9

\* The server handles the request of a dead connection: no answer is received, and a
\* key it rotates is recorded as strayKey.
LEMMA HandleStrayKeeps == ASSUME Core, Fresh, NEW m \in stray, HandleStray(m) PROVE Core'
<1>1. TypeOK  BY DEF Core
<1>2. PICK r : r = Reply(m)  OBVIOUS
<1>3. /\ acct' = r.acct /\ strayKey' = (strayKey \/ r.acct.aes # acct.aes)
      /\ Idle /\ up' = up /\ msg' = msg /\ stray' = stray \ {m} /\ faults' = faults
  BY <1>2 DEF HandleStray, Idle, files, aesFile, local
<1>4. m \in InFlight /\ m \in Message  BY <1>1 DEF InFlight, TypeOK
<1>5. Refusal(m, r) \/ Registration(m, r) \/ KeyGiven(m, r)
  <2>1. IsRequest(m)  BY DEF Core
  <2> QED  BY <1>2, <1>4, <2>1, ReplyCases
<1>6. NewId \in Ident /\ \A e \in Device : NewId \notin Held(e)  BY DEF Fresh
<1>7. acct' \in Account
  BY <1>1, <1>3, <1>5, <1>6, RowType DEF Fresh, Refusal, Registration, KeyGiven, Account
<1>8. TypeOK'
  <2>3. strayKey' \in BOOLEAN  BY <1>3
  <2>4. /\ up' \in [Device -> BOOLEAN] /\ msg' \in [Device -> Message] /\ stray' \subseteq Message
        /\ faults' \in 0..MaxFaults
    BY <1>1, <1>3 DEF TypeOK
  <2> QED  BY <1>1, <1>3, <1>7, <2>3, <2>4, IdleType
<1>9. ASSUME NEW e \in Device PROVE Held(e)' = Held(e) /\ priv'[e] = priv[e]
  BY <1>3 DEF Held, Idle
<1>10. Shrinks  BY <1>9 DEF Shrinks
<1>11. \A x \in InFlight' : x \in InFlight  BY <1>3 DEF InFlight
<1>12. acct'.pub # None => Belongs(acct'.id, acct'.pub)
  <2>1. CASE Refusal(m, r)  BY <1>3, <2>1 DEF Refusal, Core, Bound
  <2>2. CASE Registration(m, r)  BY <1>3, <2>2 DEF Registration
  <2>3. CASE KeyGiven(m, r)  BY <1>3, <1>4, <2>3, GivenBelongs DEF KeyGiven
  <2> QED  BY <1>5, <2>1, <2>2, <2>3
<1>13. OwnIds' /\ Bound'  BY <1>3, <1>10, <1>11, <1>12, IdleBound
<1>16. acct'.id = acct.id \/ acct'.id = NewId
  <2>1. CASE Refusal(m, r)  BY <1>3, <2>1 DEF Refusal
  <2>2. CASE Registration(m, r)  BY <1>3, <2>2 DEF Registration
  <2>3. CASE KeyGiven(m, r)  BY <1>3, <2>3 DEF KeyGiven
  <2> QED  BY <1>5, <2>1, <2>2, <2>3
<1>17. (strayKey => strayKey') /\ (acct'.aes = acct.aes \/ strayKey')  BY <1>3, Zenon
<1>14. ASSUME NEW e \in Device PROVE PlaceInv(e)' /\ KeyInv(e)'
  <2>1. PlaceInv(e) /\ KeyInv(e)  BY DEF Core
  <2>2. PlaceInv(e)'  BY <1>3, <2>1 DEF PlaceInv, Idle
  <2>3. ASSUME NEW k, Current(e, k) PROVE me'[e] = acct'.id => k = acct'.aes \/ strayKey'
    <3>0. me'[e] = me[e]  BY <1>3 DEF Idle
    <3>1. CASE acct'.id = acct.id  BY <1>17, <2>3, <3>0, <3>1, Zenon DEF Current
    <3>2. CASE acct'.id = NewId
      <4>2. me[e] \in Held(e)  BY DEF Held
      <4> QED  BY <1>6, <3>0, <3>2, <4>2, Zenon
    <3> QED  BY <1>16, <3>1, <3>2, Zenon
  <2>4. KeyInv(e)'
    <3>1. /\ msg'[e] = msg[e] /\ pc'[e] = pc[e] /\ aes'[e] = aes[e] /\ key'[e] = key[e]
          /\ unsaved'[e] = unsaved[e]
      BY <1>3 DEF Idle
    <3>2. \A k : Current(e, k) => Current(e, k)'  BY <2>3 DEF Current
    <3> QED  BY <2>1, <3>1, <3>2 DEF KeyInv
  <2> QED  BY <2>2, <2>4
<1>15. \A x \in stray' : IsRequest(x)  BY <1>3 DEF Core
<1> QED  BY <1>8, <1>13, <1>14, <1>15 DEF Core

\* A device that only loses its connection keeps its place, and a key stays current for
\* as long as the row is that of its identity.
LEMMA DownKeeps ==
    ASSUME NEW e \in Device, PlaceInv(e), KeyInv(e), Idle, msg'[e].code = 0, strayKey' = strayKey,
           acct'.id = None \/ (acct'.id = acct.id /\ acct'.aes = acct.aes)
    PROVE  PlaceInv(e)' /\ KeyInv(e)'
<1>1. /\ pc'[e] = pc[e] /\ aes'[e] = aes[e] /\ key'[e] = key[e] /\ unsaved'[e] = unsaved[e]
      /\ me'[e] = me[e] /\ priv'[e] = priv[e] /\ tmp'[e] = tmp[e]
  BY DEF Idle
<1>2. PlaceInv(e)'  BY <1>1 DEF PlaceInv
<1>3. ASSUME NEW n, Current(e, n), me[e] # None PROVE me'[e] = acct'.id => n = acct'.aes \/ strayKey'
  <2>1. me'[e] = acct'.id => me[e] = acct.id /\ acct'.aes = acct.aes  BY <1>1, <1>3
  <2> QED  BY <1>3, <2>1 DEF Current
<1>4. ASSUME pc[e] = "loadKey", ~unsaved[e] PROVE Current(e, aes[e])'
  <2>1. me[e] # None  BY <1>4 DEF PlaceInv
  <2>2. Current(e, aes[e])  BY <1>4 DEF KeyInv
  <2>3. me'[e] = acct'.id => aes[e] = acct'.aes \/ strayKey'  BY <1>3, <2>1, <2>2
  <2> QED  BY <1>1, <2>3 DEF Current
<1>5. ASSUME pc[e] = "connected", ~unsaved[e] PROVE Current(e, key[e])'
  <2>1. me[e] # None  BY <1>5 DEF PlaceInv
  <2>2. Current(e, key[e])  BY <1>5 DEF KeyInv
  <2>3. me'[e] = acct'.id => key[e] = acct'.aes \/ strayKey'  BY <1>3, <2>1, <2>2
  <2> QED  BY <1>1, <2>3 DEF Current
<1>6. KeyInv(e)'
  <2>1. pc'[e] = "loadKey" => Current(e, aes[e])' \/ unsaved'[e]  BY <1>1, <1>4
  <2>2. pc'[e] = "connected" => Current(e, key[e])' \/ unsaved'[e]  BY <1>1, <1>5
  <2>3. msg'[e].code \notin {1602, 1605}  OBVIOUS
  <2> QED  BY <2>1, <2>2, <2>3 DEF KeyInv
<1> QED  BY <1>2, <1>6

\* The server goes down, with this row in its store.
LEMMA ServerDownKeeps ==
    ASSUME Core, Fresh, NEW k, Fault(k), ServerDown, acct' \in Account,
           acct'.pub # None => Belongs(acct'.id, acct'.pub),
           acct'.id = None \/ (acct'.id = acct.id /\ acct'.aes = acct.aes)
    PROVE  Core'
<1>1. TypeOK  BY DEF Core
<1>2. /\ Idle /\ up' = [d \in Device |-> FALSE] /\ msg' = [d \in Device |-> NoMessage]
      /\ stray' = {} /\ strayKey' = strayKey
  BY DEF ServerDown, Idle, files, aesFile, local
<1>3. faults' \in Nat /\ faults' \in 0..MaxFaults  BY <1>1, FaultAssumption DEF TypeOK, Fault
<1>4. TypeOK'
  <2>1. /\ up' \in [Device -> BOOLEAN] /\ msg' \in [Device -> Message] /\ stray' \subseteq Message
        /\ strayKey' \in BOOLEAN
    BY <1>1, <1>2, MessageTypes DEF TypeOK
  <2> QED  BY <1>1, <1>2, <1>3, <2>1, IdleType
<1>6. ASSUME NEW e \in Device PROVE msg'[e] = NoMessage  BY <1>2
<1>7. Shrinks
  <2> SUFFICES ASSUME NEW e \in Device
               PROVE  Held(e)' \subseteq Held(e) \cup {None} /\ priv'[e] = priv[e]
    BY DEF Shrinks
  <2> QED  BY <1>2, <1>6, MessageTypes DEF Held, Idle
<1>8. \A m \in InFlight' : m.code = 826 => m \in InFlight
  BY <1>2, <1>6, MessageTypes DEF InFlight
<1>9. OwnIds' /\ Bound'  BY <1>2, <1>7, <1>8, IdleBound
<1>10. ASSUME NEW e \in Device PROVE PlaceInv(e)' /\ KeyInv(e)'
  <2>1. PlaceInv(e) /\ KeyInv(e)  BY DEF Core
  <2>2. msg'[e].code = 0  BY <1>6, MessageTypes
  <2>3. strayKey' = strayKey  BY <1>2
  <2> QED  BY <1>2, <2>1, <2>2, <2>3, DownKeeps
<1> QED  BY <1>2, <1>4, <1>9, <1>10 DEF Core

\* A killed server leaves the row, or has committed the public key of an enrolment in
\* flight, which belongs to its id.
LEMMA ServerKillKeeps == ASSUME Core, Fresh, ServerKill PROVE Core'
<1>1. Fault("serverKill") /\ ServerDown  BY DEF ServerKill
<1>2. TypeOK /\ Bound  BY DEF Core
<1>3. CASE acct' = acct  BY <1>1, <1>2, <1>3, RowType, ServerDownKeeps DEF Bound
<1>4. CASE acct' # acct
  <2>1. PICK m \in InFlight :
          m.code = 826 /\ acct.id = m.id /\ acct' = [acct EXCEPT !.pub = m.pub]
    BY <1>4 DEF ServerKill
  <2>2. Belongs(m.id, m.pub)  BY <1>2, <2>1 DEF Bound
  <2>3. m \in Message  BY <1>2, Values DEF InFlight, TypeOK
  <2>4. m.pub \in Ident  BY <2>3 DEF Message
  <2>5. acct' = [id |-> acct.id, pub |-> m.pub, aes |-> acct.aes]  BY <1>2, <2>1, RowType
  <2>6. acct' \in Account /\ acct'.id = acct.id /\ acct'.aes = acct.aes /\ acct'.pub = m.pub
    BY <1>2, <2>4, <2>5, RowType DEF Account
  <2> QED  BY <1>1, <2>1, <2>2, <2>6, ServerDownKeeps
<1> QED  BY <1>3, <1>4

\* An empty store binds no id to a public key.
LEMMA StoreReplacedKeeps == ASSUME Core, Fresh, StoreReplaced PROVE Core'
<1>1. Fault("store") /\ ServerDown  BY DEF StoreReplaced
<1>2. acct' \in Account /\ acct'.id = None /\ acct'.pub = None
  BY DEF Fresh, StoreReplaced, NoAccount, Account
<1>3. acct'.pub # None => Belongs(acct'.id, acct'.pub)  BY <1>2
<1>4. acct'.id = None \/ (acct'.id = acct.id /\ acct'.aes = acct.aes)  BY <1>2
<1> QED  BY <1>1, <1>2, <1>3, <1>4, ServerDownKeeps, Zenon

\* Every step keeps the core of the invariant while new values are fresh.
LEMMA NextCore == ASSUME Core, Fresh, [Next]_vars PROVE Core'
<1>1. ASSUME NEW d \in Device, Connect(d) \/ ClientStep(d) \/ Disconnect(d) PROVE Core'
  BY <1>1, ClientKeeps
<1>2. ASSUME NEW d \in Device, Handle(d) PROVE Core'  BY <1>2, HandleKeeps
<1>3. ASSUME NEW d \in Device,
             \/ Kill(d) \/ Lose(d) \/ IdentityUnsaved(d) \/ KeysUnsaved(d) \/ AesKeyUnsaved(d)
      PROVE  Core'
  BY <1>3, ClientFaultKeeps
<1>4. ASSUME NEW m \in stray, HandleStray(m) PROVE Core'  BY <1>4, HandleStrayKeeps
<1>5. CASE ServerKill  BY <1>5, ServerKillKeeps
<1>6. CASE StoreReplaced  BY <1>6, StoreReplacedKeeps
<1>7. CASE UNCHANGED vars
  <2>1. /\ UNCHANGED <<acct, me, priv, aes, unsaved, pc, cid, key, tmp>>
        /\ UNCHANGED <<up, msg, stray, strayKey, faults>>
    BY <1>7 DEF vars
  <2>2. TypeOK' /\ \A m \in stray' : IsRequest(m)  BY <2>1 DEF Core, TypeOK
  <2>3. OwnIds'  BY <2>1 DEF Core, OwnIds, Held
  <2>4. Bound'
    <3>1. Bound  BY DEF Core
    <3> QED  BY <2>1, <3>1 DEF Bound, Belongs, Held, InFlight
  <2>5. ASSUME NEW d \in Device PROVE PlaceInv(d)'
    <3>1. PlaceInv(d)  BY DEF Core
    <3> QED  BY <2>1, <3>1 DEF PlaceInv
  <2>6. ASSUME NEW d \in Device PROVE KeyInv(d)'
    <3>1. KeyInv(d)  BY DEF Core
    <3>2. \A k : Current(d, k)' <=> Current(d, k)  BY <2>1 DEF Current
    <3> QED  BY <2>1, <3>1, <3>2 DEF KeyInv
  <2> QED  BY <2>2, <2>3, <2>4, <2>5, <2>6 DEF Core
<1> QED  BY <1>1, <1>2, <1>3, <1>4, <1>5, <1>6, <1>7 DEF Next

\* Only a fault makes a request stray, and only one.
LEMMA StrayGrows ==
    ASSUME [Next]_vars
    PROVE  \/ faults' = faults /\ stray' \subseteq stray
           \/ faults' = faults + 1 /\ \E x : stray' \subseteq stray \cup {x}
<1> USE DEF server
<1>1. ASSUME NEW d \in Device, Connect(d) \/ ClientStep(d) \/ Disconnect(d) \/ Handle(d)
      PROVE  faults' = faults /\ stray' = stray
  <2>1. CASE Connect(d) \/ ClientStep(d) \/ Disconnect(d)  BY <2>1, ClientQuiet, Zenon
  <2>2. CASE Handle(d)  BY <2>2, Zenon DEF Handle
  <2> QED  BY <1>1, <2>1, <2>2
<1>2. ASSUME NEW d \in Device, Kill(d) \/ Lose(d)
      PROVE  faults' = faults + 1 /\ \E x : stray' \subseteq stray \cup {x}
  <2>1. faults' = faults + 1 /\ stray' \subseteq stray \cup {msg[d]}
    BY <1>2 DEF Kill, Lose, Fault, ConnectionDies
  <2> QED  BY <2>1
<1>3. ASSUME NEW d \in Device, IdentityUnsaved(d) \/ KeysUnsaved(d) \/ AesKeyUnsaved(d)
      PROVE  faults' = faults + 1 /\ stray' = stray
  <2>1. CASE IdentityUnsaved(d)  BY <2>1 DEF IdentityUnsaved, Fault
  <2>2. CASE KeysUnsaved(d)  BY <2>2 DEF KeysUnsaved, Fault
  <2>3. CASE AesKeyUnsaved(d)  BY <2>3 DEF AesKeyUnsaved, Fault
  <2> QED  BY <1>3, <2>1, <2>2, <2>3
<1>4. ASSUME NEW m \in stray, HandleStray(m) PROVE faults' = faults /\ stray' \subseteq stray
  BY <1>4 DEF HandleStray
<1>5. ASSUME ServerKill \/ StoreReplaced PROVE faults' = faults + 1 /\ stray' = {}
  BY <1>5 DEF ServerKill, StoreReplaced, Fault, ServerDown
<1>6. ASSUME UNCHANGED vars PROVE faults' = faults /\ stray' = stray  BY <1>6 DEF vars
<1>7. ASSUME stray' = stray \/ stray' = {} PROVE \E x : stray' \subseteq stray \cup {x}  BY <1>7
<1> QED  BY <1>1, <1>2, <1>3, <1>4, <1>5, <1>6, <1>7 DEF Next

\* Before anybody has registered nothing is held and nothing is on its way.
LEMMA InitCore == ASSUME Init, None \in Ident PROVE Core
<1>0. NoMessage \in Message /\ NoMessage.code = 0 /\ NoMessage.id = None
  BY DEF NoMessage, Message
<1>1. TypeOK
  <2>1. acct \in Account  BY DEF Init, NoAccount, Account
  <2>2. /\ me \in [Device -> Ident] /\ priv \in [Device -> Ident] /\ aes \in [Device -> Ident]
        /\ cid \in [Device -> Ident] /\ key \in [Device -> Ident] /\ tmp \in [Device -> Ident]
    BY DEF Init
  <2>3. unsaved \in [Device -> BOOLEAN] /\ up \in [Device -> BOOLEAN]  BY DEF Init
  <2>4. strayKey \in BOOLEAN  BY DEF Init
  <2>5. pc \in [Device -> Place] /\ msg \in [Device -> Message]
    BY <1>0 DEF Init, Place
  <2>6. stray \subseteq Message /\ faults \in 0..MaxFaults  BY FaultAssumption DEF Init
  <2> QED  BY <2>1, <2>2, <2>3, <2>4, <2>5, <2>6 DEF TypeOK
<1>2. stray = {} /\ acct.pub = None  BY DEF Init, NoAccount
<1>3. ASSUME NEW d \in Device
      PROVE  /\ me[d] = None /\ cid[d] = None /\ tmp[d] = None /\ pc[d] = "off"
             /\ msg[d].id = None /\ msg[d].code = 0
  BY <1>0 DEF Init
<1>4. \A d \in Device : Held(d) = {None}  BY <1>3 DEF Held
<1>5. OwnIds  BY <1>4 DEF OwnIds
<1>6. \A m \in InFlight : m.code = 0  BY <1>2, <1>3 DEF InFlight
<1>7. Bound  BY <1>2, <1>6 DEF Bound
<1>8. ASSUME NEW d \in Device PROVE PlaceInv(d) /\ KeyInv(d)
  <2>1. pc[d] = "off" /\ msg[d].code = 0  BY <1>3
  <2>2. PlaceInv(d)  BY <2>1 DEF PlaceInv
  <2>3. KeyInv(d)  BY <2>1 DEF KeyInv
  <2> QED  BY <2>2, <2>3
<1>9. \A m \in stray : IsRequest(m)  BY <1>2
<1> QED  BY <1>1, <1>5, <1>7, <1>8, <1>9, Zenon DEF Core

-----------------------------------------------------------------------------
(* New values are fresh while there are more names than places for them.   *)

\* The names in used are x and those that f gives the stray requests and that g, h,
\* i and j give the devices.
Spread(used, x, f, g, h, i, j) ==
    /\ DOMAIN f = stray
    /\ DOMAIN g = Device /\ DOMAIN h = Device /\ DOMAIN i = Device /\ DOMAIN j = Device
    /\ used \subseteq ({x} \cup {f[m] : m \in stray})
                      \cup (({g[d] : d \in Device} \cup {h[d] : d \in Device})
                            \cup ({i[d] : d \in Device} \cup {j[d] : d \in Device}))

\* A set with at most one name per place leaves one out.  This is shown below by
\* counting.
Roomy ==
    \A used, x, f, g, h, i, j : Spread(used, x, f, g, h, i, j) =>
      Unused(used) \in Ident \ {None} /\ Unused(used) \notin used

\* A new id is nobody's, in no message and not the registered one.
LEMMA NewIdIs ==
    ASSUME TypeOK, Roomy
    PROVE  /\ NewId \in Ident \ {None}
           /\ NewId # acct.id
           /\ \A m \in InFlight : NewId # m.id
           /\ \A d \in Device : NewId \notin Held(d)
<1> DEFINE f == [m \in stray |-> m.id]
           g == [d \in Device |-> msg[d].id]
           used == {acct.id} \cup {m.id : m \in InFlight}
                   \cup UNION {{me[d], cid[d], tmp[d]} : d \in Device}
<1>1. Spread(used, acct.id, f, g, me, cid, tmp)
  <2>1. DOMAIN me = Device /\ DOMAIN cid = Device /\ DOMAIN tmp = Device  BY DEF TypeOK
  <2>2. DOMAIN f = stray /\ DOMAIN g = Device  OBVIOUS
  <2>3. \A m \in InFlight : m \in stray \/ \E d \in Device : m = msg[d]  BY DEF InFlight
  <2>4. /\ \A m \in stray : f[m] = m.id
        /\ \A d \in Device : g[d] = msg[d].id
    OBVIOUS
  <2> HIDE DEF f, g
  <2> QED  BY <2>1, <2>2, <2>3, <2>4 DEF Spread
<1>2. NewId = Unused(used)  BY DEF NewId
<1>3. NewId \in Ident \ {None} /\ NewId \notin used
  <2> HIDE DEF f, g, used
  <2> QED  BY <1>1, <1>2 DEF Roomy
<1>4. \A m \in InFlight : NewId # m.id  BY <1>3
<1>5. ASSUME NEW d \in Device PROVE NewId \notin Held(d)
  <2>1. msg[d] \in InFlight  BY DEF InFlight
  <2>2. NewId # me[d] /\ NewId # cid[d] /\ NewId # tmp[d]  BY <1>3
  <2> QED  BY <1>4, <2>1, <2>2 DEF Held
<1> QED  BY <1>3, <1>4, <1>5

\* A new key pair is a value ...
LEMMA NewPairIs ==
    ASSUME TypeOK, Roomy
    PROVE  NewPair \in Ident \ {None}
<1> DEFINE f == [m \in stray |-> m.pub]
           g == [d \in Device |-> msg[d].pub]
           used == {acct.pub} \cup {m.pub : m \in InFlight} \cup {priv[d] : d \in Device}
<1>1. Spread(used, acct.pub, f, g, priv, priv, priv)
  <2>1. DOMAIN priv = Device  BY DEF TypeOK
  <2>2. DOMAIN f = stray /\ DOMAIN g = Device  OBVIOUS
  <2>3. \A m \in InFlight : m \in stray \/ \E d \in Device : m = msg[d]  BY DEF InFlight
  <2>4. /\ \A m \in stray : f[m] = m.pub
        /\ \A d \in Device : g[d] = msg[d].pub
    OBVIOUS
  <2> HIDE DEF f, g
  <2> QED  BY <2>1, <2>2, <2>3, <2>4 DEF Spread
<1>2. NewPair = Unused(used)  BY DEF NewPair
<1> HIDE DEF f, g, used
<1> QED  BY <1>1, <1>2 DEF Roomy

\* ... and so is a new AES key.
LEMMA NewKeyIs ==
    ASSUME TypeOK, Roomy
    PROVE  NewKey \in Ident \ {None}
<1> DEFINE f == [m \in stray |-> m.aes]
           g == [d \in Device |-> msg[d].aes]
           used == {acct.aes} \cup {m.aes : m \in InFlight}
                   \cup UNION {{aes[d], key[d]} : d \in Device}
<1>1. Spread(used, acct.aes, f, g, aes, aes, key)
  <2>1. DOMAIN aes = Device /\ DOMAIN key = Device  BY DEF TypeOK
  <2>2. DOMAIN f = stray /\ DOMAIN g = Device  OBVIOUS
  <2>3. \A m \in InFlight : m \in stray \/ \E d \in Device : m = msg[d]  BY DEF InFlight
  <2>4. /\ \A m \in stray : f[m] = m.aes
        /\ \A d \in Device : g[d] = msg[d].aes
    OBVIOUS
  <2> HIDE DEF f, g
  <2> QED  BY <2>1, <2>2, <2>3, <2>4 DEF Spread
<1>2. NewKey = Unused(used)  BY DEF NewKey
<1> HIDE DEF f, g, used
<1> QED  BY <1>1, <1>2 DEF Roomy

\* So new values are fresh.
LEMMA FreshIfRoomy == ASSUME TypeOK, Roomy, None \in Ident PROVE Fresh
BY NewIdIs, NewPairIs, NewKeyIs, Zenon DEF Fresh

\* The invariant says of the private keys and the AES keys what it should.
LEMMA CoreKeepsKeys == ASSUME Core PROVE PrivateKeyKept /\ ConnectedKeyCurrent
<1>1. ASSUME NEW d \in Device, me[d] = acct.id, acct.pub # None PROVE priv[d] = acct.pub
  <2>1. me[d] \in Held(d)  BY DEF Held
  <2> QED  BY <1>1, <2>1 DEF Core, Bound, Belongs
<1>2. ASSUME NEW d \in Device PROVE KeyInv(d)  BY DEF Core
<1>3. ConnectedKeyCurrent  BY <1>2 DEF KeyInv, Current, ConnectedKeyCurrent
<1> QED  BY <1>1, <1>3 DEF PrivateKeyKept

-----------------------------------------------------------------------------
(* Fresh values.  There are more names than places that can hold one.      *)
INSTANCE FiniteSetTheorems

\* S has at most n elements.
AtMost(n, S) == IsFiniteSet(S) /\ Cardinality(S) <= n

\* A singleton has at most one element.
LEMMA AtMostOne == ASSUME NEW x PROVE AtMost(1, {x})
BY FS_Singleton DEF AtMost

\* The bounds of two sets add up to one of their union.
LEMMA AtMostUnion ==
    ASSUME NEW m \in Nat, NEW n \in Nat, NEW S, NEW T, AtMost(m, S), AtMost(n, T)
    PROVE  AtMost(m + n, S \cup T)
<1>1. /\ IsFiniteSet(S \cup T)
      /\ Cardinality(S \cup T) = Cardinality(S) + Cardinality(T) - Cardinality(S \cap T)
  BY FS_Union DEF AtMost
<1>2. IsFiniteSet(S \cap T)
  <2>1. S \cap T \in SUBSET S  OBVIOUS
  <2> QED  BY <2>1, FS_Subset DEF AtMost
<1>3. Cardinality(S) \in Nat /\ Cardinality(T) \in Nat /\ Cardinality(S \cap T) \in Nat
  BY <1>2, FS_CardinalityType DEF AtMost
<1> QED  BY <1>1, <1>3 DEF AtMost

\* A subset has no more elements.
LEMMA AtMostSubset ==
    ASSUME NEW n \in Nat, NEW T, AtMost(n, T), NEW S \in SUBSET T
    PROVE  AtMost(n, S)
<1>1. IsFiniteSet(S) /\ Cardinality(S) <= Cardinality(T)  BY FS_Subset DEF AtMost
<1>2. Cardinality(S) \in Nat /\ Cardinality(T) \in Nat
  BY <1>1, FS_CardinalityType DEF AtMost
<1> QED  BY <1>1, <1>2 DEF AtMost

\* A function has no more values than arguments.
LEMMA AtMostImage ==
    ASSUME NEW n \in Nat, NEW S, AtMost(n, S), NEW f, DOMAIN f = S
    PROVE  AtMost(n, {f[x] : x \in S})
<1> DEFINE T == {f[x] : x \in S}
           g == [x \in S |-> f[x]]
<1>1. g \in Surjection(S, T)  BY DEF Surjection
<1>2. IsFiniteSet(S)  BY DEF AtMost
<1> HIDE DEF T, g
<1>3. IsFiniteSet(T) /\ Cardinality(T) <= Cardinality(S)  BY <1>1, <1>2, FS_Surjection
<1>4. Cardinality(S) \in Nat /\ Cardinality(T) \in Nat  BY <1>2, <1>3, FS_CardinalityType
<1>5. AtMost(n, T)  BY <1>3, <1>4 DEF AtMost
<1> QED  BY <1>5 DEF T

Devices == Cardinality(Device)

\* There are finitely many devices ...
LEMMA DevicesType == Devices \in Nat /\ AtMost(Devices, Device)
BY DeviceAssumption, FS_CardinalityType DEF AtMost, Devices

\* ... so finitely many values, one per device.
LEMMA DeviceImage ==
    ASSUME NEW f, DOMAIN f = Device
    PROVE  AtMost(Devices, {f[d] : d \in Device})
BY DevicesType, AtMostImage

\* A set with at most one name per place leaves one out.
LEMMA UnusedIs ==
    ASSUME NEW used, AtMost(4 * Devices + MaxFaults + 1, used)
    PROVE  Unused(used) \in Ident \ {None} /\ Unused(used) \notin used
<1> DEFINE K == 4 * Devices + MaxFaults + 2
<1>1. Ident = 0..K  BY DEF Ident, Devices
<1>2. K \in Nat /\ K > 0  BY DevicesType, FaultAssumption
<1>3. \E x \in Ident \ {None} : x \notin used
  <2> SUFFICES ASSUME Ident \ {None} \subseteq used PROVE FALSE  OBVIOUS
  <2>1. 1..K \in SUBSET used
    <3>1. 1..K \subseteq Ident \ {None}  BY <1>1, <1>2 DEF None
    <3> QED  BY <3>1
  <2>2. AtMost(4 * Devices + MaxFaults + 1, 1..K)
    <3>1. 4 * Devices + MaxFaults + 1 \in Nat  BY DevicesType, FaultAssumption
    <3> HIDE DEF K
    <3> QED  BY <2>1, <3>1, AtMostSubset
  <2>3. Cardinality(1..K) = K
    <3> HIDE DEF K
    <3>1. 1 \in Int /\ K \in Int /\ ~(1 > K) /\ K - 1 + 1 = K  BY <1>2
    <3> QED  BY <3>1, FS_Interval
  <2> QED  BY <2>2, <2>3, DevicesType, FaultAssumption DEF AtMost
<1> QED  BY <1>3 DEF Unused

\* No value is a value.
LEMMA NoneType == None \in Ident
BY DevicesType, FaultAssumption DEF Ident, None, Devices

\* The stray requests hold at most one name of a kind each.
LEMMA StrayImage ==
    ASSUME TypeOK, AtMost(faults, stray), NEW f, DOMAIN f = stray
    PROVE  AtMost(faults, {f[m] : m \in stray})
<1>1. faults \in Nat  BY FaultAssumption DEF TypeOK
<1> QED  BY <1>1, AtMostImage

\* The places that can hold a name of one kind are four per device, one per stray
\* request and one in the row.
LEMMA Room ==
    ASSUME TypeOK, AtMost(faults, stray),
           NEW used, NEW x, NEW f, NEW g, NEW h, NEW i, NEW j, Spread(used, x, f, g, h, i, j)
    PROVE  Unused(used) \in Ident \ {None} /\ Unused(used) \notin used
<1> DEFINE F == {f[m] : m \in stray}
           G == {g[d] : d \in Device}
           H == {h[d] : d \in Device}
           I == {i[d] : d \in Device}
           J == {j[d] : d \in Device}
<1>1. faults \in Nat /\ faults <= MaxFaults /\ MaxFaults \in Nat
  BY FaultAssumption DEF TypeOK
<1>2. AtMost(Devices, G) /\ AtMost(Devices, H) /\ AtMost(Devices, I) /\ AtMost(Devices, J)
  BY DeviceImage DEF Spread
<1>3. AtMost(faults, F)  BY StrayImage DEF Spread
<1>4. used \in SUBSET (({x} \cup F) \cup ((G \cup H) \cup (I \cup J)))  BY DEF Spread
<1> HIDE DEF F, G, H, I, J
<1>5. AtMost(1 + faults, {x} \cup F)  BY <1>1, <1>3, AtMostOne, AtMostUnion
<1>6. AtMost(Devices + Devices, G \cup H) /\ AtMost(Devices + Devices, I \cup J)
  BY <1>2, DevicesType, AtMostUnion
<1>7. Devices + Devices \in Nat /\ 1 + faults \in Nat  BY <1>1, DevicesType
<1>8. AtMost((Devices + Devices) + (Devices + Devices), (G \cup H) \cup (I \cup J))
  BY <1>6, <1>7, AtMostUnion
<1>9. (Devices + Devices) + (Devices + Devices) \in Nat  BY <1>7
<1>10. AtMost((1 + faults) + ((Devices + Devices) + (Devices + Devices)),
              ({x} \cup F) \cup ((G \cup H) \cup (I \cup J)))
  BY <1>5, <1>7, <1>8, <1>9, AtMostUnion
<1>11. (1 + faults) + ((Devices + Devices) + (Devices + Devices)) \in Nat  BY <1>7
<1>12. AtMost((1 + faults) + ((Devices + Devices) + (Devices + Devices)), used)
  BY <1>4, <1>10, <1>11, AtMostSubset
<1>13. Cardinality(used) \in Nat  BY <1>12, FS_CardinalityType DEF AtMost
<1>14. AtMost(4 * Devices + MaxFaults + 1, used)
  BY <1>1, <1>12, <1>13, DevicesType DEF AtMost
<1> QED  BY <1>14, UnusedIs

\* The inductive invariant.
IInv == Core /\ AtMost(faults, stray)

\* In every reachable state new values are fresh.
LEMMA FreshNow == ASSUME IInv PROVE Fresh
<1>1. TypeOK /\ AtMost(faults, stray)  BY DEF IInv, Core
<1>2. Roomy  BY <1>1, Room, Zenon DEF Roomy
<1> QED  BY <1>1, <1>2, NoneType, FreshIfRoomy

\* There are no more stray requests than there were faults.
LEMMA StrayBound == ASSUME IInv, [Next]_vars PROVE AtMost(faults', stray')
<1>1. AtMost(faults, stray) /\ faults \in Nat
  BY FaultAssumption DEF IInv, Core, TypeOK
<1>2. CASE faults' = faults /\ stray' \subseteq stray
  <2>1. stray' \in SUBSET stray  BY <1>2
  <2> QED  BY <1>1, <1>2, <2>1, AtMostSubset
<1>3. CASE faults' = faults + 1 /\ \E x : stray' \subseteq stray \cup {x}
  <2>1. PICK x : stray' \subseteq stray \cup {x}  BY <1>3
  <2>2. AtMost(faults + 1, stray \cup {x})  BY <1>1, AtMostOne, AtMostUnion
  <2>3. faults + 1 \in Nat /\ stray' \in SUBSET (stray \cup {x})  BY <1>1, <2>1
  <2> QED  BY <1>3, <2>2, <2>3, AtMostSubset, Zenon
<1> QED  BY <1>2, <1>3, StrayGrows

\* The invariant holds before anybody has registered ...
LEMMA InitIInv == ASSUME Init PROVE IInv
<1>1. Core  BY InitCore, NoneType
<1>2. faults = 0 /\ stray = {}  BY DEF Init
<1>3. AtMost(faults, stray)  BY <1>2, FS_EmptySet DEF AtMost
<1> QED  BY <1>1, <1>3 DEF IInv

\* ... and every step preserves it.
LEMMA NextIInv == ASSUME IInv, [Next]_vars PROVE IInv'
<1>1. Core /\ Fresh  BY FreshNow DEF IInv
<1>2. Core'  BY <1>1, NextCore
<1> QED  BY <1>2, StrayBound DEF IInv

\* IInv is an inductive invariant of registration, enrolment and relogin.
THEOREM LoginInvariant == Spec => []IInv
<1>1. Init => IInv  BY InitIInv
<1>2. IInv /\ [Next]_vars => IInv'  BY NextIInv
<1> QED  BY <1>1, <1>2, PTL DEF Spec

\* The row, the files and the processes keep their types, and a fresh id or key is
\* always to be had.
THEOREM TypesHold == Spec => []TypeOK
<1>1. IInv => TypeOK  BY DEF IInv, Core
<1> QED  BY <1>1, LoginInvariant, PTL

\* Whatever crashes, is lost or is replaced, the device whose identity the row binds
\* to a public key has the matching private key (making_RSAkeys, request_826).
THEOREM PrivateKeysKept == Spec => []PrivateKeyKept
<1>1. IInv => PrivateKeyKept  BY CoreKeepsKeys DEF IInv
<1> QED  BY <1>1, LoginInvariant, PTL

\* A connected client of the registered identity holds the AES key of the row, unless
\* a stray request rotated the row's key or aes.key could not be saved.
THEOREM ConnectedKeysCurrent == Spec => []ConnectedKeyCurrent
<1>1. IInv => ConnectedKeyCurrent  BY CoreKeepsKeys DEF IInv
<1> QED  BY <1>1, LoginInvariant, PTL

=============================================================================
