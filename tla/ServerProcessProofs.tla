------------------------ MODULE ServerProcessProofs -------------------------
(***************************************************************************)
(* Proofs about ServerProcess, for every set of configurations, names,     *)
(* keys and users and every bound: what the requests do to the state, the  *)
(* types, for any number of processes on one data directory, and the       *)
(* lemmas ServerDiskProofs goes on from.                                   *)
(***************************************************************************)
EXTENDS ServerProcess, TLAPS

\* What a handler sets in a row.
Write == [pub : Pub \cup {None}, aes : Key \cup {None}]

-----------------------------------------------------------------------------
(* Maps, rows and writes.                                                  *)

\* A map is a function on some of the keys.
LEMMA MapType ==
    ASSUME NEW S, NEW T, NEW f \in Map(S, T)
    PROVE  DOMAIN f \subseteq S /\ f \in [DOMAIN f -> T]
BY DEF Map

\* A function on some of the keys is a map.
LEMMA MapIntro ==
    ASSUME NEW S, NEW T, NEW D \in SUBSET S, NEW f \in [D -> T]
    PROVE  f \in Map(S, T)
BY DEF Map

\* The empty map, of a table without rows, is a map.
LEMMA EmptyIsMap == ASSUME NEW S, NEW T PROVE Empty \in Map(S, T)
<1>1. Empty \in [{} -> T]  BY DEF Empty
<1> QED  BY <1>1, MapIntro, Zenon

\* Adding a row to a map gives a map.
LEMMA WithIsMap ==
    ASSUME NEW S, NEW T, NEW f \in Map(S, T), NEW x \in S, NEW v \in T
    PROVE  With(f, x, v) \in Map(S, T)
<1>1. DOMAIN f \subseteq S /\ f \in [DOMAIN f -> T]  BY MapType
<1>2. With(f, x, v) \in [DOMAIN f \cup {x} -> T]  BY <1>1 DEF With
<1> QED  BY <1>1, <1>2, MapIntro

\* Changing a row of a map gives a map.
LEMMA ExceptIsMap ==
    ASSUME NEW S, NEW T, NEW f \in Map(S, T), NEW x, NEW v \in T
    PROVE  [f EXCEPT ![x] = v] \in Map(S, T)
<1>1. DOMAIN f \subseteq S /\ f \in [DOMAIN f -> T]  BY MapType
<1>2. [f EXCEPT ![x] = v] \in [DOMAIN f -> T]  BY <1>1, Zenon
<1> QED  BY <1>1, <1>2, MapIntro

\* A write to a row leaves a row.
LEMMA ApplyType == ASSUME NEW row \in Row, NEW w \in Write PROVE Apply(row, w) \in Row
BY Zenon DEF Apply, Row, Write

\* A sequence of writes of a handler.
Writes(ws) == Len(ws) \in Nat \ {0} /\ \A n \in 1..Len(ws) : ws[n] \in Write

\* The writes of a request that only touches last_seen.
LEMMA TouchesAreWrites == Writes(Touches) /\ Writes(<<Unset, Unset>>)
BY DEF Writes, Touches, Unset, Write

\* The writes of a relogin.
LEMMA RotationIsWrites == ASSUME NEW new \in Key PROVE Writes(Rotation(new))
BY DEF Writes, Rotation, Unset, Write

\* The writes of an enrolment.
LEMMA EnrolmentIsWrites ==
    ASSUME NEW k \in Pub, NEW new \in Key PROVE Writes(Enrolment(k, new))
<1> DEFINE bound == [Unset EXCEPT !.pub = k]
           both  == [bound EXCEPT !.aes = new]
<1>1. Unset \in Write /\ bound \in Write /\ both \in Write  BY Zenon DEF Unset, Write
<1>2. Enrolment(k, new) = <<Unset, Unset, bound, both, both>>  BY DEF Enrolment
<1> HIDE DEF bound, both
<1> QED  BY <1>1, <1>2 DEF Writes

\* What request_826 writes, and the codes it answers with.
LEMMA Reply826Type ==
    ASSUME NEW row \in Row, NEW k \in Pub, NEW new \in Nat,
           Reply826(row, k, new).key \in Key \cup {None}, new # None
    PROVE  LET r == Reply826(row, k, new) IN
             /\ Writes(r.writes)
             /\ r.code \in {1602, 1607}
             /\ r.key \in {new, row.aes, None}
<1>1. CASE row.pub = None
  BY <1>1, EnrolmentIsWrites, ProcessAssumption DEF Reply826, Reply, None
<1>2. CASE row.pub # None /\ row.pub # k
  BY <1>2, TouchesAreWrites DEF Reply826, Reply
<1>3. CASE row.pub # None /\ row.pub = k /\ row.aes = None
  BY <1>3, RotationIsWrites, ProcessAssumption DEF Reply826, Reply, None
<1>4. CASE row.pub # None /\ row.pub = k /\ row.aes # None
  BY <1>4, TouchesAreWrites DEF Reply826, Reply
<1> QED  BY <1>1, <1>2, <1>3, <1>4

-----------------------------------------------------------------------------
(* Types.  An index never has an id that the table does not have, nor a    *)
(* name whose id it does not have.                                         *)

TInv ==
    /\ TypeOK
    /\ \A p \in Proc : DOMAIN byId[p] \subseteq DOMAIN table
    /\ \A p \in Proc : \A n \in DOMAIN byName[p] : byName[p][n] \in DOMAIN byId[p]

\* A process that ends leaves well-typed variables and forgets its indexes.
LEMMA GoneType ==
    ASSUME TypeOK, NEW p \in Proc, Gone(p)
    PROVE  /\ pc' \in [Proc -> Phase] /\ open' \in [Proc -> BOOLEAN]
           /\ config' \in [Proc -> Config \cup {NoConfig}]
           /\ byId' \in [Proc -> Map(Id, Row)] /\ byName' \in [Proc -> Map(Name, Id)]
           /\ idKey' \in [Proc -> Ident \cup {None}]
           /\ port' \in Proc \cup {None}
           /\ \A q \in Proc : DOMAIN byId'[q] \subseteq DOMAIN byId[q]
           /\ \A q \in Proc : \/ byId'[q] = byId[q] /\ byName'[q] = byName[q]
                              \/ DOMAIN byName'[q] = {}
<1>1. Empty \in Map(Id, Row) /\ Empty \in Map(Name, Id) /\ DOMAIN Empty = {}
  BY EmptyIsMap DEF Empty
<1>2. \A q \in Proc : DOMAIN byId'[q] \subseteq DOMAIN byId[q]
  BY <1>1 DEF TypeOK, Gone
<1>3. \A q \in Proc : \/ byId'[q] = byId[q] /\ byName'[q] = byName[q]
                     \/ DOMAIN byName'[q] = {}
  BY <1>1 DEF TypeOK, Gone
<1> QED  BY <1>1, <1>2, <1>3 DEF TypeOK, Gone, Go, Phase

\* What a handler's commits do: they apply one of its writes to the table, and to
\* the index unless the process is gone.
CommitEffect(p, id, w, reply) ==
    /\ table' = [table EXCEPT ![id] = Apply(table[id], w)]
    /\ \/ /\ byId' = [byId EXCEPT ![p] = [byId[p] EXCEPT ![id] = Apply(byId[p][id], w)]]
          /\ answer' \in {NoAnswer, [code |-> 1607, id |-> id, key |-> None], reply}
          /\ UNCHANGED <<pc, config, open, byName, idKey, port>>
       \/ Gone(p) /\ answer' = NoAnswer
    /\ faults' \in {faults, faults + 1} /\ (faults' = faults \/ faults < MaxFaults)

\* A sequence of commits that is cut short has the effect of one of its writes.
LEMMA CommitSteps ==
    ASSUME TypeOK, NEW p \in Proc, NEW id \in Id, NEW ws, Writes(ws),
           NEW code, NEW key, Commit(p, id, ws, code, key)
    PROVE  \E n \in 1..Len(ws) :
             /\ CommitEffect(p, id, ws[n], [code |-> code, id |-> id, key |-> key])
             /\ answer' \in {NoAnswer, [code |-> 1607, id |-> id, key |-> None]} \/ n = Len(ws)
<1>1. CASE /\ table' = [table EXCEPT ![id] = Apply(@, ws[Len(ws)])]
           /\ byId' = [byId EXCEPT ![p][id] = Apply(@, Indexed(ws, Len(ws)))]
           /\ Say(code, id, key)
           /\ UNCHANGED <<pc, config, open, byName, idKey, port, faults>>
  <2>1. Len(ws) \in 1..Len(ws)  BY DEF Writes
  <2>2. CommitEffect(p, id, ws[Len(ws)], [code |-> code, id |-> id, key |-> key])
    BY <1>1, <2>1 DEF CommitEffect, Indexed, Say
  <2> QED  BY <2>1, <2>2
<1>2. ASSUME NEW n \in 1..(Len(ws) - 1), Fault,
             table' = [table EXCEPT ![id] = Apply(@, ws[n])],
             \/ /\ byId' = [byId EXCEPT ![p][id] = Apply(@, Indexed(ws, n))]
                /\ answer' \in {NoAnswer, [code |-> 1607, id |-> id, key |-> None]}
                /\ UNCHANGED <<pc, config, open, byName, idKey, port>>
             \/ Gone(p) /\ answer' = NoAnswer
      PROVE  \E m \in 1..Len(ws) :
             /\ CommitEffect(p, id, ws[m], [code |-> code, id |-> id, key |-> key])
             /\ answer' \in {NoAnswer, [code |-> 1607, id |-> id, key |-> None]} \/ m = Len(ws)
  <2>1. n \in 1..Len(ws)  BY <1>2 DEF Writes
  <2>2. CommitEffect(p, id, ws[n], [code |-> code, id |-> id, key |-> key])
    BY <1>2 DEF CommitEffect, Indexed, Fault
  <2> QED  BY <1>2, <2>1, <2>2
<1> QED  BY <1>1, <1>2 DEF Commit

\* A commit keeps the types.
LEMMA CommitType ==
    ASSUME TInv, NEW p \in Proc, NEW id \in DOMAIN byId[p], NEW w \in Write,
           NEW reply \in AnswerKind, CommitEffect(p, id, w, reply),
           UNCHANGED <<idFile, clients, starts>>, keys' \in 0..MaxKeys
    PROVE  TInv'
<1>1. id \in DOMAIN table /\ DOMAIN table \subseteq Id /\ table \in [DOMAIN table -> Row]
  BY MapType DEF TInv, TypeOK
<1>2. DOMAIN byId[p] \subseteq Id /\ byId[p] \in [DOMAIN byId[p] -> Row]
  BY MapType DEF TypeOK, TInv
<1>3. table' \in Map(Id, Row) /\ DOMAIN table' = DOMAIN table
  BY <1>1, ApplyType, ExceptIsMap, Zenon DEF CommitEffect, TInv, TypeOK
<1>4. answer' \in AnswerKind
  BY <1>1 DEF CommitEffect, AnswerKind, NoAnswer
<1>5. faults' \in 0..MaxFaults
  BY ProcessAssumption DEF CommitEffect, TInv, TypeOK
<1>6. CASE /\ byId' = [byId EXCEPT ![p] = [byId[p] EXCEPT ![id] = Apply(byId[p][id], w)]]
           /\ UNCHANGED <<pc, config, open, byName, idKey, port>>
  <2>1. [byId[p] EXCEPT ![id] = Apply(byId[p][id], w)] \in Map(Id, Row)
    BY <1>2, ApplyType, ExceptIsMap DEF TInv, TypeOK
  <2>2. byId' \in [Proc -> Map(Id, Row)] /\ \A q \in Proc : DOMAIN byId'[q] = DOMAIN byId[q]
    BY <1>6, <2>1 DEF TInv, TypeOK
  <2> QED  BY <1>3, <1>4, <1>5, <1>6, <2>2 DEF TInv, TypeOK, clients
<1>7. CASE Gone(p)
  <2>1. TypeOK'  BY <1>3, <1>4, <1>5, <1>7, GoneType DEF TInv, TypeOK, clients
  <2> QED  BY <1>3, <1>7, <2>1, GoneType DEF TInv
<1> QED  BY <1>6, <1>7 DEF CommitEffect

\* An answer without a write keeps the types.
LEMMA PlainType ==
    ASSUME TInv, NEW code \in {1601, 1606, 1607}, Plain(code),
           UNCHANGED <<idFile, clients, keys, starts>>
    PROVE  TInv'
BY DEF TInv, TypeOK, Plain, Say, AnswerKind, memory, store, clients

\* create_client keeps the types.
LEMMA CreateType ==
    ASSUME TInv, NEW p \in Proc, NEW id \in Id, NEW row \in Row, create_client(p, id, row),
           UNCHANGED <<idFile, clients, keys, starts>>
    PROVE  TInv'
<1>0. /\ DOMAIN With(table, id, row) = DOMAIN table \cup {id}
      /\ DOMAIN With(byId[p], id, row) = DOMAIN byId[p] \cup {id}
  BY DEF With
<1>1. With(table, id, row) \in Map(Id, Row)  BY WithIsMap DEF TInv, TypeOK
<1>2. With(byId[p], id, row) \in Map(Id, Row)  BY WithIsMap DEF TInv, TypeOK
<1>3. With(byName[p], row.name, id) \in Map(Name, Id)
  BY WithIsMap DEF TInv, TypeOK, Row
<1> USE DEF TInv
<1>4. [code |-> 1600, id |-> id, key |-> None] \in AnswerKind /\ NoAnswer \in AnswerKind
      /\ [code |-> 1607, id |-> None, key |-> None] \in AnswerKind
  BY DEF AnswerKind, NoAnswer
<1>5. CASE Plain(1607)  BY <1>5, PlainType
<1>6. CASE /\ table' = With(table, id, row)
           /\ byId' = [byId EXCEPT ![p] = With(@, id, row)]
           /\ byName' = [byName EXCEPT ![p] = With(@, row.name, id)]
           /\ Say(1600, id, None)
           /\ UNCHANGED <<pc, config, open, idKey, port, faults>>
  <2>0. \A q \in Proc : /\ byId'[q] = IF q = p THEN With(byId[p], id, row) ELSE byId[q]
                        /\ byName'[q] = IF q = p THEN With(byName[p], row.name, id) ELSE byName[q]
    BY <1>6 DEF TypeOK
  <2>1. \A q \in Proc : DOMAIN byId'[q] \subseteq DOMAIN table'
    BY <1>0, <1>6, <2>0
  <2>2. \A q \in Proc : \A n \in DOMAIN byName'[q] : byName'[q][n] \in DOMAIN byId'[q]
    <3>1. ASSUME NEW n \in DOMAIN With(byName[p], row.name, id)
          PROVE  With(byName[p], row.name, id)[n] \in DOMAIN byId[p] \cup {id}
      BY <3>1 DEF With
    <3> QED  BY <1>0, <2>0, <3>1
  <2>3. TypeOK'  BY <1>1, <1>2, <1>3, <1>4, <1>6 DEF TypeOK, Say, clients
  <2> QED  BY <2>1, <2>2, <2>3
<1>7. CASE Fault /\ Say(1607, None, None) /\ UNCHANGED <<table, pc, memory, port>>
  BY <1>4, <1>7, ProcessAssumption DEF TypeOK, Fault, Say, memory, store, clients
<1>8. CASE Fault /\ table' = With(table, id, row) /\ Gone(p) /\ answer' = NoAnswer
  <2>1. TypeOK'
    BY <1>1, <1>4, <1>8, GoneType, ProcessAssumption DEF TypeOK, Fault, clients
  <2>2. \A q \in Proc : DOMAIN byId'[q] \subseteq DOMAIN table'
    <3>1. \A q \in Proc : DOMAIN byId'[q] \subseteq DOMAIN byId[q]  BY <1>8, GoneType
    <3> QED  BY <1>0, <1>8, <3>1
  <2>3. \A q \in Proc : \A n \in DOMAIN byName'[q] : byName'[q][n] \in DOMAIN byId'[q]
    <3>1. \A q \in Proc : (byId'[q] = byId[q] /\ byName'[q] = byName[q]) \/ DOMAIN byName'[q] = {}
      BY <1>8, GoneType
    <3> QED  BY <3>1
  <2> QED  BY <2>1, <2>2, <2>3
<1> QED  BY <1>5, <1>6, <1>7, <1>8 DEF create_client

\* What a registration that gets to the store does.
Registers(p) ==
    /\ open[p]
    /\ \E n \in Name, id \in Id :
         id \notin DOMAIN table /\ create_client(p, id, [name |-> n, pub |-> None, aes |-> None])

\* The outcomes of request_825.
LEMMA RegistrationCases ==
    ASSUME NEW p \in Proc, request_825(p)
    PROVE  /\ Plain(1601) \/ Plain(1607) \/ Registers(p)
           /\ UNCHANGED <<idFile, clients, keys, starts>>
<1> DEFINE row(n) == [name |-> n, pub |-> None, aes |-> None]
<1>1. Registers(p) <=> open[p] /\ \E n \in Name, id \in Id :
                                    id \notin DOMAIN table /\ create_client(p, id, row(n))
  BY DEF Registers
<1>2. /\ \/ Plain(1601)
         \/ Plain(1607)
         \/ \E n \in Name :
              \/ KnownName(p, n) /\ Plain(1601)
              \/ ~ KnownName(p, n) /\ ~ open[p] /\ Plain(1607)
              \/ /\ ~ KnownName(p, n) /\ open[p]
                 /\ \E id \in Id : /\ id \notin DOMAIN table
                                   /\ \A i \in 1..(id - 1) : i \in DOMAIN table
                                   /\ create_client(p, id, row(n))
      /\ UNCHANGED <<idFile, clients, keys, starts>>
  BY DEF request_825
<1> HIDE DEF row
<1> QED  BY <1>1, <1>2

\* What request 826 does: it refuses, it commits that the client was seen, or it
\* commits what Reply826 says.
Touched(p) ==
    \E id \in Id, code \in {1606, 1607} : KnownId(p, id) /\ Commit(p, id, Touches, code, None)
Enrolled(p) ==
    \E id \in Id, k \in Pub : \E r \in {Reply826(byId[p][id], k, keys + 1)} :
      /\ KnownId(p, id) /\ r.key \in Key \cup {None}
      /\ keys' = IF r.key > keys THEN r.key ELSE keys
      /\ Commit(p, id, r.writes, r.code, r.key)

\* The outcomes of request_826.
LEMMA EnrolmentCases ==
    ASSUME NEW p \in Proc, request_826(p)
    PROVE  /\ \/ (Plain(1607) \/ Touched(p)) /\ UNCHANGED keys
              \/ Enrolled(p)
           /\ UNCHANGED <<idFile, clients, starts>>
BY DEF request_826, Touched, Enrolled

\* What request 827 does: it refuses, it commits that the client was seen, or it
\* commits a new AES key.
Named(p, n, id) == KnownName(p, n) /\ byName[p][n] = id
Unrotated(p) ==
    \E n \in Name, id \in Id : Named(p, n, id) /\ Commit(p, id, <<Unset, Unset>>, 1606, None)
Rotated(p) ==
    \E n \in Name, id \in Id :
      /\ Named(p, n, id) /\ byId[p][id].pub # None
      /\ keys < MaxKeys /\ keys' = keys + 1
      /\ Commit(p, id, Rotation(keys + 1), 1605, keys + 1)

\* The outcomes of request_827.
LEMMA ReloginCases ==
    ASSUME NEW p \in Proc, request_827(p)
    PROVE  /\ \/ (Plain(1606) \/ Unrotated(p)) /\ UNCHANGED keys
              \/ Rotated(p)
           /\ UNCHANGED <<idFile, clients, starts>>
BY DEF request_827, Unrotated, Rotated, Named

\* The bound on AES keys, from TInv.
LEMMA KeysType == ASSUME TInv PROVE keys \in 0..MaxKeys /\ MaxKeys \in Nat /\ TypeOK
BY ProcessAssumption DEF TypeOK, TInv

\* The requests keep the types.
LEMMA RegistrationType == ASSUME TInv, NEW p \in Proc, request_825(p) PROVE TInv'
<1>1. CASE Registers(p)
  <2>1. PICK n \in Name, id \in Id :
           create_client(p, id, [name |-> n, pub |-> None, aes |-> None])
    BY <1>1 DEF Registers
  <2>2. [name |-> n, pub |-> None, aes |-> None] \in Row  BY DEF Row
  <2> QED  BY <2>1, <2>2, CreateType, RegistrationCases
<1>2. CASE Plain(1601) \/ Plain(1607)
  BY <1>2, PlainType, RegistrationCases
<1> QED  BY <1>1, <1>2, RegistrationCases

\* request_826 keeps the types.
LEMMA EnrolmentType == ASSUME TInv, NEW p \in Proc, request_826(p) PROVE TInv'
<1>a. keys \in 0..MaxKeys /\ MaxKeys \in Nat /\ TypeOK  BY KeysType
<1>b. UNCHANGED <<idFile, clients, starts>>  BY EnrolmentCases
<1>1. CASE Plain(1607) /\ UNCHANGED keys
  BY <1>b, <1>1, PlainType
<1>2. ASSUME NEW id \in Id, KnownId(p, id), NEW code \in {1606, 1607},
             Commit(p, id, Touches, code, None), UNCHANGED keys
      PROVE  TInv'
  <2>1. PICK n \in 1..Len(Touches) :
           CommitEffect(p, id, Touches[n], [code |-> code, id |-> id, key |-> None])
    BY <1>a, <1>2, TouchesAreWrites, CommitSteps
  <2>2. Touches[n] \in Write /\ id \in DOMAIN byId[p]
    BY <1>2, TouchesAreWrites DEF Writes, KnownId
  <2>3. [code |-> code, id |-> id, key |-> None] \in AnswerKind  BY DEF AnswerKind
  <2>4. keys' \in 0..MaxKeys  BY <1>a, <1>2
  <2> QED  BY <1>b, <2>1, <2>2, <2>3, <2>4, CommitType
<1>3. ASSUME NEW id \in Id, KnownId(p, id), NEW k \in Pub, NEW r,
             r = Reply826(byId[p][id], k, keys + 1),
             r.key \in Key \cup {None}, keys' = (IF r.key > keys THEN r.key ELSE keys),
             Commit(p, id, r.writes, r.code, r.key)
      PROVE  TInv'
  <2>0. byId[p][id] \in Row /\ id \in DOMAIN byId[p]
    BY <1>3, MapType DEF TInv, TypeOK, KnownId
  <2>1. Writes(r.writes) /\ r.code \in {1602, 1607}
    BY <1>a, <1>3, <2>0, Reply826Type DEF None
  <2>2. PICK n \in 1..Len(r.writes) :
           CommitEffect(p, id, r.writes[n], [code |-> r.code, id |-> id, key |-> r.key])
    BY <1>a, <1>3, <2>1, CommitSteps
  <2>3. [code |-> r.code, id |-> id, key |-> r.key] \in AnswerKind
    BY <1>3, <2>1 DEF AnswerKind
  <2>4. keys' \in 0..MaxKeys  BY <1>a, <1>3 DEF Key, None
  <2>5. r.writes[n] \in Write  BY <2>1 DEF Writes
  <2> QED  BY <1>b, <2>0, <2>2, <2>3, <2>4, <2>5, CommitType
<1> QED  BY <1>1, <1>2, <1>3, EnrolmentCases DEF Touched, Enrolled

\* request_827 keeps the types.
LEMMA ReloginType == ASSUME TInv, NEW p \in Proc, request_827(p) PROVE TInv'
<1>a. keys \in 0..MaxKeys /\ MaxKeys \in Nat /\ TypeOK  BY KeysType
<1>b. UNCHANGED <<idFile, clients, starts>>  BY ReloginCases
<1>1. CASE Plain(1606) /\ UNCHANGED keys
  BY <1>b, <1>1, PlainType
<1>2. ASSUME NEW n \in Name, NEW id \in Id, Named(p, n, id),
             NEW ws, Writes(ws), NEW code \in {1605, 1606}, NEW key \in Key \cup {None},
             Commit(p, id, ws, code, key), keys' \in 0..MaxKeys
      PROVE  TInv'
  <2>1. PICK m \in 1..Len(ws) : CommitEffect(p, id, ws[m], [code |-> code, id |-> id, key |-> key])
    BY <1>a, <1>2, CommitSteps
  <2>2. ws[m] \in Write /\ [code |-> code, id |-> id, key |-> key] \in AnswerKind
    BY <1>2 DEF Writes, AnswerKind
  <2>3. id \in DOMAIN byId[p]  BY <1>2 DEF TInv, KnownName, Named
  <2> QED  BY <1>b, <1>2, <2>1, <2>2, <2>3, CommitType
<1>3. ASSUME NEW n \in Name, NEW id \in Id, Named(p, n, id),
             Commit(p, id, <<Unset, Unset>>, 1606, None), UNCHANGED keys
      PROVE  TInv'
  BY <1>a, <1>2, <1>3, TouchesAreWrites
<1>4. ASSUME NEW n \in Name, NEW id \in Id, Named(p, n, id),
             keys < MaxKeys, keys' = keys + 1, Commit(p, id, Rotation(keys + 1), 1605, keys + 1)
      PROVE  TInv'
  <2>1. keys + 1 \in Key /\ keys' \in 0..MaxKeys  BY <1>a, <1>4 DEF Key
  <2> QED  BY <1>2, <1>4, <2>1, RotationIsWrites
<1> QED  BY <1>1, <1>3, <1>4, ReloginCases DEF Unrotated, Rotated

-----------------------------------------------------------------------------
(* What a request leaves alone.                                            *)

\* Of the process, a request changes nothing but the store's memory, or the process
\* is gone.
Elsewhere(p) == Gone(p) \/ UNCHANGED <<pc, config, idKey>>

\* A request touches the variables of no other process and no identity file.
LEMMA RequestElsewhere ==
    ASSUME NEW p \in Proc, request_825(p) \/ request_826(p) \/ request_827(p)
    PROVE  Elsewhere(p) /\ UNCHANGED <<idFile, clients>>
<1>1. ASSUME NEW id, NEW ws, NEW code, NEW key, Commit(p, id, ws, code, key) PROVE Elsewhere(p)
  BY <1>1 DEF Commit, Elsewhere
<1>2. ASSUME NEW code, Plain(code) PROVE Elsewhere(p)
  BY <1>2 DEF Plain, Elsewhere, memory
<1>3. ASSUME NEW id, NEW row, create_client(p, id, row) PROVE Elsewhere(p)
  BY <1>2, <1>3 DEF create_client, Elsewhere, memory
<1>4. CASE request_825(p)
  <2>1. Registers(p) => Elsewhere(p)  BY <1>3 DEF Registers
  <2> QED  BY <1>2, <1>4, <2>1, RegistrationCases
<1>5. CASE request_826(p)  BY <1>1, <1>2, <1>5, EnrolmentCases DEF Touched, Enrolled
<1>6. CASE request_827(p)  BY <1>1, <1>2, <1>6, ReloginCases DEF Unrotated, Rotated
<1> QED  BY <1>4, <1>5, <1>6

-----------------------------------------------------------------------------
(* The invariant of types, for any number of processes.                    *)

\* No other process uses the data directory.
OneProcess == \A p, q \in Proc : p = q

\* f maps each name in rows to an id with that name.
IsNameIndex(f, rows) ==
    /\ f \in [{rows[i].name : i \in DOMAIN rows} -> DOMAIN rows]
    /\ \A n \in DOMAIN f : rows[f[n]].name = n

\* The index by name that loading builds gives each name the id of a row with it.
LEMMA NameIndexIs == ASSUME NEW rows PROVE IsNameIndex(NameIndex(rows), rows)
<1> DEFINE D == {rows[i].name : i \in DOMAIN rows}
           first(n) == CHOOSE i \in DOMAIN rows : rows[i].name = n
<1>1. ASSUME NEW n \in D PROVE first(n) \in DOMAIN rows /\ rows[first(n)].name = n
  <2>1. \E i \in DOMAIN rows : rows[i].name = n  OBVIOUS
  <2> QED  BY <2>1
<1>2. NameIndex(rows) = [n \in D |-> first(n)]  BY DEF NameIndex
<1>3. IsNameIndex(NameIndex(rows), rows) <=>
        /\ NameIndex(rows) \in [D -> DOMAIN rows]
        /\ \A n \in DOMAIN NameIndex(rows) : rows[NameIndex(rows)[n]].name = n
  BY DEF IsNameIndex
<1> HIDE DEF D, first
<1> QED  BY <1>1, <1>2, <1>3

\* The index by name is a map to ids of the table.
LEMMA NameIndexType ==
    ASSUME NEW rows \in Map(Id, Row)
    PROVE  /\ NameIndex(rows) \in Map(Name, Id)
           /\ \A n \in DOMAIN NameIndex(rows) : NameIndex(rows)[n] \in DOMAIN rows
<1> DEFINE D == {rows[i].name : i \in DOMAIN rows}
<1>1. DOMAIN rows \subseteq Id /\ rows \in [DOMAIN rows -> Row]  BY MapType
<1>2. D \in SUBSET Name  BY <1>1 DEF Row
<1>3. NameIndex(rows) \in [D -> DOMAIN rows]  BY NameIndexIs, Zenon DEF IsNameIndex
<1> HIDE DEF D
<1>4. NameIndex(rows) \in [D -> Id]  BY <1>1, <1>3
<1> QED  BY <1>2, <1>3, <1>4, MapIntro

\* A step that leaves the table, the indexes and the clients alone.
LEMMA StoreUntouched ==
    ASSUME TInv, UNCHANGED <<table, byId, byName, clients, answer, keys>>,
           idFile' \in IdFile, pc' \in [Proc -> Phase], UNCHANGED open,
           config' \in [Proc -> Config \cup {NoConfig}],
           idKey' \in [Proc -> Ident \cup {None}], port' \in Proc \cup {None},
           starts' \in 0..MaxStarts, faults' \in 0..MaxFaults
    PROVE  TInv'
BY DEF TInv, TypeOK, clients

\* The phases a process goes through, as pc has them.
LEMMA PhaseNames ==
    /\ "off" \in Phase /\ "closed" \in Phase /\ "config" \in Phase /\ "store" \in Phase
    /\ "limits" \in Phase /\ "identity" \in Phase /\ "create" \in Phase /\ "write" \in Phase
    /\ "bind" \in Phase /\ "metrics" \in Phase /\ "serving" \in Phase /\ "stopping" \in Phase
BY DEF Phase, Starting, Listening

\* Moving a process on keeps the type of pc.
LEMMA GoType ==
    ASSUME pc \in [Proc -> Phase], NEW p \in Proc, NEW a \in Phase, Go(p, a)
    PROVE  pc' \in [Proc -> Phase]
BY DEF Go

\* A fault keeps the bound on faults.
LEMMA FaultType == ASSUME TInv, Fault PROVE faults' \in 0..MaxFaults
<1>1. faults \in 0..MaxFaults  BY Zenon DEF TInv, TypeOK
<1> QED  BY <1>1, ProcessAssumption DEF Fault

\* A process that ends.
LEMMA EndType ==
    ASSUME TInv, NEW p \in Proc, Gone(p), table' = table, idFile' = idFile,
           UNCHANGED <<clients, answer, keys, starts>>, faults' \in 0..MaxFaults
    PROVE  TInv'
<1>0. TypeOK  BY DEF TInv
<1>1. /\ pc' \in [Proc -> Phase] /\ open' \in [Proc -> BOOLEAN]
      /\ config' \in [Proc -> Config \cup {NoConfig}]
      /\ byId' \in [Proc -> Map(Id, Row)] /\ byName' \in [Proc -> Map(Name, Id)]
      /\ idKey' \in [Proc -> Ident \cup {None}] /\ port' \in Proc \cup {None}
  BY <1>0, GoneType, Zenon
<1>2. TypeOK'  BY <1>0, <1>1, Zenon DEF TypeOK, clients
<1>3. \A q \in Proc : DOMAIN byId'[q] \subseteq DOMAIN byId[q]  BY <1>0, GoneType, Zenon
<1>4. \A q \in Proc : (byId'[q] = byId[q] /\ byName'[q] = byName[q]) \/ DOMAIN byName'[q] = {}
  BY <1>0, GoneType, Zenon
<1> QED  BY <1>2, <1>3, <1>4, Zenon DEF TInv

\* The beginning and the end of a process.
LEMMA LifeType ==
    ASSUME TInv, NEW p \in Proc,
           \/ Start(p) \/ StartMetrics(p) \/ Signal(p) \/ LoadConfig(p)
           \/ initialize(p) \/ Dies(p) \/ Shutdown(p) \/ Exit(p)
    PROVE  TInv'
<1> USE DEF memory, store, disk, clients, counters
<1>a. /\ pc \in [Proc -> Phase] /\ idFile \in IdFile /\ port \in Proc \cup {None}
      /\ config \in [Proc -> Config \cup {NoConfig}] /\ idKey \in [Proc -> Ident \cup {None}]
      /\ starts \in 0..MaxStarts /\ faults \in 0..MaxFaults
  BY Zenon DEF TInv, TypeOK
<1>0. TypeOK  BY DEF TInv
<1>2. CASE Start(p) \/ StartMetrics(p) \/ Signal(p)
  <2>1. pc' \in [Proc -> Phase]  BY <1>2, <1>a, GoType, PhaseNames DEF Start, StartMetrics, Signal
  <2>2. UNCHANGED <<table, idFile, open, byId, byName, config, idKey, port, clients, answer, counters>>
    BY <1>2 DEF Start, StartMetrics, Signal
  <2> QED  BY <1>a, <2>1, <2>2, StoreUntouched
<1>3. CASE LoadConfig(p)
  <2>1. UNCHANGED <<table, idFile, open, byId, byName, idKey, port, clients, answer, keys, starts>>
    BY <1>3 DEF LoadConfig
  <2>2. faults' \in 0..MaxFaults  BY <1>3, <1>a, FaultType DEF LoadConfig
  <2>3. pc' \in [Proc -> Phase]  BY <1>3, <1>a, GoType, PhaseNames DEF LoadConfig
  <2>4. config' \in [Proc -> Config \cup {NoConfig}]  BY <1>3, <1>a DEF LoadConfig
  <2> QED  BY <1>a, <2>1, <2>2, <2>3, <2>4, StoreUntouched
<1>4. CASE initialize(p)
  <2>1. /\ NameIndex(table) \in Map(Name, Id)
        /\ \A n \in DOMAIN NameIndex(table) : NameIndex(table)[n] \in DOMAIN table
    BY NameIndexType, Zenon DEF TInv, TypeOK
  <2>2. pc' \in [Proc -> Phase]  BY <1>4, <1>a, GoType, PhaseNames DEF initialize
  <2>3. TypeOK'  BY <1>0, <1>4, <2>1, <2>2, Zenon DEF TypeOK, initialize
  <2> QED  BY <1>4, <2>1, <2>3, Zenon DEF TInv, TypeOK, initialize
<1>10. CASE Dies(p)  BY <1>10, EndType, FaultType DEF Dies
<1>11. CASE Shutdown(p)
  <2>1. Empty \in Map(Id, Row) /\ Empty \in Map(Name, Id) /\ DOMAIN Empty = {}
    BY EmptyIsMap DEF Empty
  <2>2. pc' \in [Proc -> Phase]  BY <1>11, <1>a, GoType, PhaseNames DEF Shutdown
  <2>3. TypeOK'  BY <1>0, <1>11, <2>1, <2>2, Zenon DEF TypeOK, Shutdown
  <2> QED  BY <1>11, <2>1, <2>3, Zenon DEF TInv, TypeOK, Shutdown
<1>12. CASE Exit(p)  BY <1>12, <1>a, EndType DEF Exit
<1> QED  BY <1>2, <1>3, <1>4, <1>10, <1>11, <1>12

\* The steps of main between the store and the listening socket.
LEMMA StartupType ==
    ASSUME TInv, NEW p \in Proc,
           \/ MakeLimiters(p) \/ LoadIdentity(p) \/ GenerateIdentity(p)
           \/ OpenIdentity(p) \/ WriteIdentity(p) \/ Bind(p)
    PROVE  TInv'
<1> USE DEF memory, store, disk, clients, counters
<1>a. /\ pc \in [Proc -> Phase] /\ idFile \in IdFile /\ port \in Proc \cup {None}
      /\ config \in [Proc -> Config \cup {NoConfig}] /\ idKey \in [Proc -> Ident \cup {None}]
      /\ starts \in 0..MaxStarts /\ faults \in 0..MaxFaults
  BY Zenon DEF TInv, TypeOK
<1>0. Partial \in IdFile /\ Ident \cup {None} \subseteq IdFile  BY Zenon DEF IdFile, None, Absent
<1>5. CASE MakeLimiters(p)
  <2>1. CASE Gone(p)  BY EndType, <1>5, <1>a, <2>1 DEF MakeLimiters
  <2>2. CASE ~Gone(p)
    <3>1. pc' \in [Proc -> Phase]  BY <1>5, <1>a, GoType, PhaseNames, <2>2, Zenon DEF MakeLimiters
    <3>2. UNCHANGED <<table, idFile, open, byId, byName, config, idKey, port, clients, answer, counters>>
      BY <1>5, <2>2, Zenon DEF MakeLimiters
    <3> QED  BY <1>a, <3>1, <3>2, StoreUntouched
  <2> QED  BY <2>1, <2>2
<1>6. CASE LoadIdentity(p)
  <2>1. CASE Gone(p)  BY EndType, <1>6, <1>a, <2>1 DEF LoadIdentity
  <2>2. CASE ~Gone(p)
    <3>1. pc' \in [Proc -> Phase]  BY <1>6, <1>a, GoType, PhaseNames, <2>2 DEF LoadIdentity
    <3>2. idKey' \in [Proc -> Ident \cup {None}]  BY <1>6, <1>a, <2>2 DEF LoadIdentity
    <3>3. UNCHANGED <<table, idFile, open, byId, byName, config, port, clients, answer, counters>>
      BY <1>6, <2>2 DEF LoadIdentity
    <3> QED  BY <1>a, <3>1, <3>2, <3>3, StoreUntouched
  <2> QED  BY <2>1, <2>2
<1>7. CASE GenerateIdentity(p)
  <2>1. starts' \in 0..MaxStarts /\ starts + 1 \in Ident
    BY <1>7, <1>a, ProcessAssumption DEF GenerateIdentity, Ident
  <2>2. idKey' \in [Proc -> Ident \cup {None}]  BY <1>7, <1>a, <2>1 DEF GenerateIdentity
  <2>3. pc' \in [Proc -> Phase]  BY <1>7, <1>a, GoType, PhaseNames DEF GenerateIdentity
  <2>4. UNCHANGED <<table, idFile, open, byId, byName, config, port, clients, answer, keys, faults>>
    BY <1>7 DEF GenerateIdentity
  <2> QED  BY <1>a, <2>1, <2>2, <2>3, <2>4, StoreUntouched
<1>8. CASE OpenIdentity(p) \/ WriteIdentity(p)
  <2>1. idFile' \in IdFile  BY <1>0, <1>8, <1>a DEF OpenIdentity, WriteIdentity
  <2>2. pc' \in [Proc -> Phase]  BY <1>8, <1>a, GoType, PhaseNames DEF OpenIdentity, WriteIdentity
  <2>3. UNCHANGED <<table, open, byId, byName, config, idKey, port, clients, answer, counters>>
    BY <1>8 DEF OpenIdentity, WriteIdentity
  <2> QED  BY <1>a, <2>1, <2>2, <2>3, StoreUntouched
<1>9. CASE Bind(p)
  <2>1. CASE Gone(p)  BY EndType, <1>9, <1>a, <2>1 DEF Bind
  <2>2. CASE ~Gone(p)
    <3>1. pc' \in [Proc -> Phase]  BY <1>9, <1>a, GoType, PhaseNames, <2>2, Zenon DEF Bind
    <3>2. UNCHANGED <<table, idFile, open, byId, byName, config, idKey, clients, answer, counters>>
          /\ port' = p
      BY <1>9, <2>2, Zenon DEF Bind
    <3> QED  BY <1>a, <3>1, <3>2, StoreUntouched
  <2> QED  BY <2>1, <2>2
<1> QED  BY <1>5, <1>6, <1>7, <1>8, <1>9

\* Every step keeps the types.
LEMMA TypeStep == TInv /\ [Next]_vars => TInv'
<1> SUFFICES ASSUME TInv, [Next]_vars PROVE TInv'  OBVIOUS
<1>1. ASSUME NEW u \in User, NEW p \in Proc, Handshake(u, p) PROVE TInv'
  BY <1>1, Zenon DEF TInv, TypeOK, Handshake, disk, memory, store, counters
<1>2. ASSUME NEW u \in User, PinServer(u) PROVE TInv'
  BY <1>2, Zenon DEF TInv, TypeOK, PinServer, disk, memory, store, counters
<1>3. CASE RemovePartial
  BY <1>3 DEF TInv, TypeOK, RemovePartial, IdFile, memory, store, clients, counters
<1>4. CASE UNCHANGED vars
  BY <1>4, Zenon DEF TInv, TypeOK, vars, disk, memory, store, clients, counters
<1> QED  BY <1>1, <1>2, <1>3, <1>4, LifeType, StartupType, RegistrationType,
            EnrolmentType, ReloginType DEF Next, Startup

\* Every reachable state has its type, whatever number of processes run.
THEOREM ProcessTypeOK == Spec => []TypeOK
<1>1. Init => TInv
  <2>1. Empty \in Map(Id, Row) /\ Empty \in Map(Name, Id) /\ DOMAIN Empty = {}
    BY EmptyIsMap DEF Empty
  <2> QED  BY <2>1, ProcessAssumption DEF Init, TInv, TypeOK, IdFile, Phase, AnswerKind, NoAnswer
<1>2. TInv => TypeOK  BY DEF TInv
<1> QED  BY <1>1, <1>2, TypeStep, PTL DEF Spec

=============================================================================
