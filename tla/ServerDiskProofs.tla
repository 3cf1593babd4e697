-------------------------- MODULE ServerDiskProofs --------------------------
(***************************************************************************)
(* What ServerProcess keeps on disk, for every value of its constants.     *)
(*                                                                         *)
(* The configuration a process listens with is valid, for any number of    *)
(* processes.  The rest holds for one process on the data directory, the   *)
(* assumption OneProcess: two first starts at once may each generate an    *)
(* identity, and a process reads its indexes before it fails to get the    *)
(* port.                                                                   *)
(***************************************************************************)
EXTENDS ServerProcessProofs

-----------------------------------------------------------------------------
(* The store, for one process: the indexes in memory are the table, what   *)
(* was answered is on disk, and a bound key stays.  The insert of          *)
(* create_client fails on a name that is taken, so that the index by name  *)
(* has one id to choose from and a new registration changes it in one      *)
(* place.                                                                  *)

Unique(rows) == \A i, j \in DOMAIN rows : rows[i].name = rows[j].name => i = j

StoreInv == Unique(table) /\ IndexInSync /\ AnswersDurable

\* The step of KeyBound.
RowsKept ==
    \A i \in DOMAIN table :
      /\ i \in DOMAIN table'
      /\ table'[i].name = table[i].name
      /\ table[i].pub # None => table'[i].pub = table[i].pub

\* With unique names there is one index by name.
LEMMA NameIndexUnique ==
    ASSUME NEW rows, Unique(rows), NEW f, IsNameIndex(f, rows)
    PROVE  f = NameIndex(rows)
<1> DEFINE D == {rows[i].name : i \in DOMAIN rows}
           g == NameIndex(rows)
<1>1. f \in [D -> DOMAIN rows] /\ \A n \in D : rows[f[n]].name = n  BY DEF IsNameIndex
<1>2. g \in [D -> DOMAIN rows] /\ \A n \in D : rows[g[n]].name = n
  <2>1. IsNameIndex(g, rows)  BY NameIndexIs
  <2> HIDE DEF g
  <2> QED  BY <2>1 DEF IsNameIndex
<1> HIDE DEF D, g
<1>3. \A n \in D : f[n] = g[n]  BY <1>1, <1>2 DEF Unique
<1>4. f = g  BY <1>1, <1>2, <1>3
<1> QED  BY <1>4 DEF g

\* Rows that keep their names keep their index.
LEMMA NameIndexKept ==
    ASSUME NEW rows, NEW new, Unique(rows), DOMAIN new = DOMAIN rows,
           \A i \in DOMAIN rows : new[i].name = rows[i].name
    PROVE  Unique(new) /\ NameIndex(new) = NameIndex(rows)
<1> DEFINE D == {rows[i].name : i \in DOMAIN rows}
           g == NameIndex(rows)
<1>1. Unique(new)  BY DEF Unique
<1>2. g \in [D -> DOMAIN rows] /\ \A n \in D : rows[g[n]].name = n
  <2>1. IsNameIndex(g, rows)  BY NameIndexIs
  <2> HIDE DEF g
  <2> QED  BY <2>1 DEF IsNameIndex
<1>3. {new[i].name : i \in DOMAIN new} = D  OBVIOUS
<1> HIDE DEF D, g
<1>4. IsNameIndex(g, new)  BY <1>2, <1>3 DEF IsNameIndex
<1> QED  BY <1>1, <1>4, NameIndexUnique DEF g

\* A new row with a new name adds one entry to the index.
LEMMA NameIndexGrows ==
    ASSUME NEW rows, Unique(rows), NEW id, id \notin DOMAIN rows, NEW row,
           \A i \in DOMAIN rows : rows[i].name # row.name
    PROVE  /\ Unique(With(rows, id, row))
           /\ NameIndex(With(rows, id, row)) = With(NameIndex(rows), row.name, id)
<1> DEFINE D == {rows[i].name : i \in DOMAIN rows}
           g == NameIndex(rows)
           new == With(rows, id, row)
           h == With(g, row.name, id)
<1>1. /\ DOMAIN new = DOMAIN rows \cup {id} /\ new[id] = row
      /\ \A i \in DOMAIN rows : new[i] = rows[i]
  BY DEF With
<1>2. g \in [D -> DOMAIN rows] /\ \A n \in D : rows[g[n]].name = n
  <2>1. IsNameIndex(g, rows)  BY NameIndexIs
  <2> HIDE DEF g
  <2> QED  BY <2>1 DEF IsNameIndex
<1>3. /\ DOMAIN h = DOMAIN g \cup {row.name} /\ h[row.name] = id
      /\ \A n \in DOMAIN g : n # row.name => h[n] = g[n]
      /\ h = [n \in DOMAIN h |-> h[n]]
  BY DEF With
<1> HIDE DEF new, g, h
<1>4. Unique(new)  BY <1>1 DEF Unique
<1>5. {new[i].name : i \in DOMAIN new} = D \cup {row.name}  BY <1>1
<1>6. row.name \notin D  OBVIOUS
<1> HIDE DEF D
<1>7. h \in [D \cup {row.name} -> DOMAIN new]  BY <1>1, <1>2, <1>3, <1>6
<1>8. \A n \in D \cup {row.name} : new[h[n]].name = n  BY <1>1, <1>2, <1>3, <1>6
<1>9. IsNameIndex(h, new)  BY <1>5, <1>7, <1>8 DEF IsNameIndex
<1>10. h = NameIndex(new)  BY <1>4, <1>9, NameIndexUnique
<1> QED  BY <1>4, <1>10 DEF new, g, h

\* A process that ends has no index that could disagree with the table.
LEMMA GoneStore ==
    ASSUME OneProcess, TypeOK, NEW p \in Proc, Gone(p)
    PROVE  IndexInSync'
BY DEF OneProcess, TypeOK, Gone, IndexInSync

\* A commit: what it binds was not bound, and what it answers is what it wrote.
LEMMA CommitStore ==
    ASSUME OneProcess, TInv, StoreInv, NEW p \in Proc, open[p], NEW id \in DOMAIN byId[p],
           NEW w \in Write, NEW reply, CommitEffect(p, id, w, reply),
           w.pub # None => table[id].pub = None,
           reply.code # 1600,
           answer' = reply /\ reply.code \in {1602, 1605} =>
             /\ reply.id = id
             /\ Apply(table[id], w).aes = reply.key
             /\ Apply(table[id], w).pub # None
    PROVE  StoreInv' /\ RowsKept
<1>1. byId[p] = table /\ byName[p] = NameIndex(table)  BY DEF StoreInv, IndexInSync
<1>2. table \in [DOMAIN table -> Row] /\ id \in DOMAIN table  BY <1>1, MapType DEF TInv, TypeOK
<1>3. /\ DOMAIN table' = DOMAIN table
      /\ table'[id] = Apply(table[id], w)
      /\ \A i \in DOMAIN table : i # id => table'[i] = table[i]
  BY <1>2 DEF CommitEffect
<1>4. /\ Apply(table[id], w).name = table[id].name
      /\ table[id].pub # None => Apply(table[id], w).pub = table[id].pub
  BY <1>2 DEF Apply, Row, Write
<1>5. RowsKept  BY <1>3, <1>4 DEF RowsKept
<1>6. Unique(table') /\ NameIndex(table') = NameIndex(table)
  BY <1>3, <1>5, NameIndexKept DEF RowsKept, StoreInv
<1>7. IndexInSync'
  <2>1. CASE Gone(p)  BY <2>1, GoneStore DEF TInv
  <2>2. CASE /\ byId' = [byId EXCEPT ![p] = [byId[p] EXCEPT ![id] = Apply(byId[p][id], w)]]
             /\ UNCHANGED <<open, byName>>
    BY <1>1, <1>6, <2>2 DEF OneProcess, CommitEffect, IndexInSync, TInv, TypeOK
  <2> QED  BY <2>1, <2>2 DEF CommitEffect
<1>8. AnswersDurable'
  <2>1. CASE answer' \in {NoAnswer, [code |-> 1607, id |-> id, key |-> None]}
    BY <2>1 DEF AnswersDurable, NoAnswer
  <2>2. CASE answer' = reply  BY <1>2, <1>3, <2>2 DEF AnswersDurable
  <2> QED  BY <2>1, <2>2 DEF CommitEffect
<1> QED  BY <1>5, <1>6, <1>7, <1>8 DEF StoreInv

\* An answer without a write leaves the store alone.
LEMMA PlainStore ==
    ASSUME StoreInv, NEW code \in {1601, 1606, 1607}, Plain(code)
    PROVE  StoreInv' /\ RowsKept
<1>1. Unique(table') /\ IndexInSync'  BY DEF StoreInv, Unique, IndexInSync, Plain, memory, store
<1>2. AnswersDurable'  BY DEF AnswersDurable, Plain, Say
<1>3. RowsKept  BY DEF RowsKept, Plain
<1> QED  BY <1>1, <1>2, <1>3 DEF StoreInv

\* create_client extends the table and both indexes by the same row.
LEMMA CreateStore ==
    ASSUME OneProcess, TInv, StoreInv, NEW p \in Proc, Registers(p)
    PROVE  StoreInv' /\ RowsKept
<1>1. PICK n \in Name, id \in Id :
         id \notin DOMAIN table /\ create_client(p, id, [name |-> n, pub |-> None, aes |-> None])
  BY DEF Registers
<1> DEFINE row == [name |-> n, pub |-> None, aes |-> None]
<1>2. row.name = n  OBVIOUS
<1>3. create_client(p, id, row)  BY <1>1
<1> HIDE DEF row
<1>4. byId[p] = table /\ byName[p] = NameIndex(table)
  BY DEF Registers, StoreInv, IndexInSync
<1>5. ASSUME ~ \E i \in DOMAIN table : table[i].name = row.name
      PROVE  /\ Unique(With(table, id, row))
             /\ NameIndex(With(table, id, row)) = With(NameIndex(table), row.name, id)
  BY <1>1, <1>5, NameIndexGrows DEF StoreInv
<1>6. /\ id \in DOMAIN With(table, id, row) /\ DOMAIN table \subseteq DOMAIN With(table, id, row)
      /\ \A i \in DOMAIN table : With(table, id, row)[i] = table[i]
  BY <1>1 DEF With
<1>7. CASE Plain(1607)  BY <1>7, PlainStore
<1>8. CASE Fault /\ Say(1607, None, None) /\ UNCHANGED <<table, pc, memory, port>>
  BY <1>8 DEF StoreInv, Unique, IndexInSync, AnswersDurable, RowsKept, Say, memory, store
<1>9. ASSUME ~ \E i \in DOMAIN table : table[i].name = row.name,
             table' = With(table, id, row), byId' = [byId EXCEPT ![p] = With(@, id, row)],
             byName' = [byName EXCEPT ![p] = With(@, row.name, id)], Say(1600, id, None)
      PROVE  StoreInv' /\ RowsKept
  <2>1. Unique(table')  BY <1>5, <1>9
  <2>2. IndexInSync'
    <3>1. byId'[p] = With(byId[p], id, row) /\ byName'[p] = With(byName[p], row.name, id)
      BY <1>9 DEF TInv, TypeOK
    <3> QED  BY <1>4, <1>5, <1>9, <3>1 DEF IndexInSync, OneProcess
  <2>3. AnswersDurable'  BY <1>6, <1>9 DEF AnswersDurable, Say
  <2>4. RowsKept  BY <1>6, <1>9 DEF RowsKept
  <2> QED  BY <2>1, <2>2, <2>3, <2>4 DEF StoreInv
<1>10. ASSUME ~ \E i \in DOMAIN table : table[i].name = row.name,
              table' = With(table, id, row), Gone(p), answer' = NoAnswer
       PROVE  StoreInv' /\ RowsKept
  <2>1. Unique(table') /\ IndexInSync'  BY <1>5, <1>10, GoneStore DEF TInv
  <2>2. AnswersDurable'  BY <1>10 DEF AnswersDurable, NoAnswer
  <2>3. RowsKept  BY <1>6, <1>10 DEF RowsKept
  <2> QED  BY <2>1, <2>2, <2>3 DEF StoreInv
<1> QED  BY <1>3, <1>7, <1>8, <1>9, <1>10 DEF create_client

\* What Reply826 writes is bound and answered as CommitStore asks for.
LEMMA Reply826Store ==
    ASSUME NEW row \in Row, NEW k \in Pub, NEW new \in Nat \ {0}, NEW n \in Nat,
           n \in 1..Len(Reply826(row, k, new).writes)
    PROVE  LET r == Reply826(row, k, new)
               w == r.writes[n] IN
             /\ w.pub # None => row.pub = None
             /\ n = Len(r.writes) /\ r.code = 1602 =>
                  Apply(row, w).aes = r.key /\ Apply(row, w).pub # None
<1> USE DEF None
<1>0. row.pub \in Pub \cup {0} /\ row.aes \in Key \cup {0} /\ 0 \notin Pub
  BY ProcessAssumption DEF Row
<1>1. CASE row.pub = None
  <2> DEFINE bound == [Unset EXCEPT !.pub = k]
             both  == [bound EXCEPT !.aes = new]
  <2>1. Reply826(row, k, new).writes = <<Unset, Unset, bound, both, both>>
        /\ Reply826(row, k, new).key = new
    BY <1>1 DEF Reply826, Reply, Enrolment
  <2>2. Apply(row, both).aes = new /\ Apply(row, both).pub = k
    BY <1>0 DEF Apply, Row, Unset
  <2> HIDE DEF bound, both
  <2>3. Len(Reply826(row, k, new).writes) = 5 /\ Reply826(row, k, new).writes[5] = both  BY <2>1
  <2> QED  BY <1>0, <1>1, <2>1, <2>2, <2>3
<1>2. CASE row.pub # None /\ (row.pub # k \/ row.aes # None)
  <2>1. /\ Reply826(row, k, new).writes = Touches
        /\ Reply826(row, k, new).code = 1602 => Reply826(row, k, new).key = row.aes
    BY <1>2 DEF Reply826, Reply
  <2>2. n \in 1..3 => Touches[n] = Unset  BY DEF Touches
  <2>3. Len(Touches) = 3  BY DEF Touches
  <2>4. Unset.pub = None /\ Apply(row, Unset).aes = row.aes /\ Apply(row, Unset).pub = row.pub
    BY <1>0 DEF Apply, Row, Unset
  <2> QED  BY <1>2, <2>1, <2>2, <2>3, <2>4
<1>3. CASE row.pub # None /\ row.pub = k /\ row.aes = None
  <2> DEFINE set == [Unset EXCEPT !.aes = new]
  <2>1. Reply826(row, k, new).writes = <<Unset, Unset, set, set>>
        /\ Reply826(row, k, new).key = new
    BY <1>3 DEF Reply826, Reply, Rotation
  <2>2. /\ Unset.pub = None /\ set.pub = None
        /\ Apply(row, set).aes = new /\ Apply(row, set).pub = row.pub
    BY <1>0 DEF Apply, Row, Unset
  <2> HIDE DEF set
  <2>3. /\ n \in 1..4 => <<Unset, Unset, set, set>>[n] \in {Unset, set}
        /\ Len(<<Unset, Unset, set, set>>) = 4 /\ <<Unset, Unset, set, set>>[4] = set
    OBVIOUS
  <2> QED  BY <1>3, <2>1, <2>2, <2>3
<1> QED  BY <1>1, <1>2, <1>3

\* What a handler commits and answers fits the row it found: a bound key is not
\* written again, and an answer with a key is given when key and binding are written.
Fits(row, ws, code, key) ==
    \A n \in 1..Len(ws) :
      /\ ws[n].pub # None => row.pub = None
      /\ n = Len(ws) /\ code \in {1602, 1605} =>
           Apply(row, ws[n]).aes = key /\ Apply(row, ws[n]).pub # None

\* The key request_826 answers with is the one its last write leaves in the row.
LEMMA Reply826Fits ==
    ASSUME NEW row \in Row, NEW k \in Pub, NEW new \in Nat \ {0},
           NEW r, r = Reply826(row, k, new), Writes(r.writes), r.code \in {1602, 1607}
    PROVE  Fits(row, r.writes, r.code, r.key)
<1> SUFFICES ASSUME NEW n \in 1..Len(r.writes)
             PROVE  /\ r.writes[n].pub # None => row.pub = None
                    /\ n = Len(r.writes) /\ r.code \in {1602, 1605} =>
                         Apply(row, r.writes[n]).aes = r.key /\ Apply(row, r.writes[n]).pub # None
  BY DEF Fits
<1>1. n \in Nat  BY DEF Writes
<1> QED  BY <1>1, Reply826Store

\* A request that commits to the row of id keeps the store's invariant.
LEMMA FittingCommit ==
    ASSUME OneProcess, TInv, StoreInv, NEW p \in Proc, NEW id \in DOMAIN byId[p], open[p],
           NEW ws, NEW code \in {1602, 1605, 1606, 1607}, NEW key,
           Writes(ws), Commit(p, id, ws, code, key), Fits(byId[p][id], ws, code, key)
    PROVE  StoreInv' /\ RowsKept
<1> DEFINE reply == [code |-> code, id |-> id, key |-> key]
<1>0. TypeOK  BY DEF TInv
<1>1. id \in Id /\ byId[p] = table
  BY MapType DEF StoreInv, IndexInSync, TInv, TypeOK
<1>2. PICK n \in 1..Len(ws) :
        /\ CommitEffect(p, id, ws[n], reply)
        /\ answer' \in {NoAnswer, [code |-> 1607, id |-> id, key |-> None]} \/ n = Len(ws)
  BY <1>0, <1>1, CommitSteps
<1>3. ws[n] \in Write  BY DEF Writes
<1>4. reply.code = code /\ reply.id = id /\ reply.key = key  OBVIOUS
<1>5. answer' \in {NoAnswer, [code |-> 1607, id |-> id, key |-> None]} =>
        answer'.code \notin {1602, 1605}
  BY DEF NoAnswer
<1> HIDE DEF reply
<1>6. answer' = reply /\ reply.code \in {1602, 1605} => n = Len(ws)  BY <1>2, <1>5
<1> QED  BY <1>1, <1>2, <1>3, <1>4, <1>6, CommitStore DEF Fits

\* A row that an open process finds is a row of the table.
LEMMA RowFound ==
    ASSUME OneProcess, TInv, StoreInv, NEW p \in Proc, NEW id \in DOMAIN byId[p], open[p]
    PROVE  byId[p][id] \in Row
BY MapType DEF StoreInv, IndexInSync, TInv, TypeOK

\* A touch of last_seen sets no public key.
LEMMA UnsetPub == Unset.pub = None
BY DEF Unset

\* Request 826 writes the public key of a row that has none, and the AES key with it.
LEMMA EnrolmentStore ==
    ASSUME OneProcess, TInv, StoreInv, NEW p \in Proc, request_826(p)
    PROVE  StoreInv' /\ RowsKept
<1>a. keys \in 0..MaxKeys /\ MaxKeys \in Nat /\ TypeOK
  <2>1. TypeOK  BY DEF TInv
  <2> QED  BY <2>1, ProcessAssumption DEF TypeOK
<1>1. CASE Plain(1607)  BY <1>1, PlainStore
<1>2. ASSUME NEW id \in Id, KnownId(p, id), NEW code \in {1606, 1607},
             Commit(p, id, Touches, code, None)
      PROVE  StoreInv' /\ RowsKept
  <2>1. \A n \in 1..Len(Touches) : Touches[n].pub = None  BY UnsetPub DEF Touches
  <2>2. Fits(byId[p][id], Touches, code, None)  BY <2>1 DEF Fits
  <2> QED  BY <1>2, <2>2, TouchesAreWrites, FittingCommit DEF KnownId
<1>3. ASSUME NEW id \in Id, KnownId(p, id), NEW k \in Pub, NEW r,
             r = Reply826(byId[p][id], k, keys + 1),
             r.key \in Key \cup {None}, Commit(p, id, r.writes, r.code, r.key)
      PROVE  StoreInv' /\ RowsKept
  <2>1. byId[p][id] \in Row /\ id \in DOMAIN byId[p] /\ open[p]  BY RowFound, <1>3 DEF KnownId
  <2>2. Writes(r.writes) /\ r.code \in {1602, 1607}
    BY <1>a, <1>3, <2>1, Reply826Type DEF None
  <2>3. keys + 1 \in Nat \ {0}  BY <1>a
  <2>4. Fits(byId[p][id], r.writes, r.code, r.key)  BY <1>3, <2>1, <2>2, <2>3, Reply826Fits
  <2> QED  BY <1>3, <2>1, <2>2, <2>4, FittingCommit
<1> QED  BY <1>1, <1>2, <1>3, EnrolmentCases DEF Touched, Enrolled

\* Request 827 writes a new AES key to a row that has a public key.
LEMMA ReloginStore ==
    ASSUME OneProcess, TInv, StoreInv, NEW p \in Proc, request_827(p)
    PROVE  StoreInv' /\ RowsKept
<1>a. keys \in 0..MaxKeys /\ MaxKeys \in Nat /\ TypeOK
  <2>1. TypeOK  BY DEF TInv
  <2> QED  BY <2>1, ProcessAssumption DEF TypeOK
<1>1. CASE Plain(1606)  BY <1>1, PlainStore
<1>2. ASSUME NEW n \in Name, NEW id \in Id, Named(p, n, id)
      PROVE  id \in DOMAIN byId[p] /\ open[p] /\ byId[p][id] \in Row
  BY RowFound, <1>2 DEF TInv, KnownName, Named
<1>3. ASSUME NEW n \in Name, NEW id \in Id, Named(p, n, id),
             Commit(p, id, <<Unset, Unset>>, 1606, None)
      PROVE  StoreInv' /\ RowsKept
  <2>1. \A m \in 1..Len(<<Unset, Unset>>) : <<Unset, Unset>>[m].pub = None  BY UnsetPub
  <2>2. Fits(byId[p][id], <<Unset, Unset>>, 1606, None)  BY <2>1 DEF Fits
  <2> QED  BY <1>2, <1>3, <2>2, TouchesAreWrites, FittingCommit
<1>4. ASSUME NEW n \in Name, NEW id \in Id, Named(p, n, id),
             byId[p][id].pub # None, keys < MaxKeys,
             Commit(p, id, Rotation(keys + 1), 1605, keys + 1)
      PROVE  StoreInv' /\ RowsKept
  <2> DEFINE set == [Unset EXCEPT !.aes = keys + 1]
             ws == Rotation(keys + 1)
  <2>1. keys + 1 \in Key /\ keys + 1 # 0  BY <1>a, <1>4 DEF Key
  <2>2. /\ Unset.pub = None /\ set.pub = None
        /\ Apply(byId[p][id], set).aes = keys + 1 /\ Apply(byId[p][id], set).pub = byId[p][id].pub
    BY <1>2, <1>4, <2>1 DEF Apply, Row, Unset, None
  <2>3. ws = <<Unset, Unset, set, set>>  BY DEF Rotation
  <2> HIDE DEF set
  <2>4. \A m \in 1..Len(ws) : ws[m] \in {Unset, set} /\ (m = Len(ws) => ws[m] = set)
    <3>1. /\ \A m \in 1..4 : <<Unset, Unset, set, set>>[m] \in {Unset, set}
          /\ Len(<<Unset, Unset, set, set>>) = 4 /\ <<Unset, Unset, set, set>>[4] = set
      OBVIOUS
    <3> QED  BY <2>3, <3>1, Zenon
  <2>5. Writes(ws) /\ Commit(p, id, ws, 1605, keys + 1)  BY <1>4, <2>1, RotationIsWrites
  <2> HIDE DEF ws
  <2>6. Fits(byId[p][id], ws, 1605, keys + 1)  BY <1>4, <2>2, <2>4 DEF Fits
  <2> QED  BY <1>2, <1>4, <2>5, <2>6, FittingCommit
<1> QED  BY <1>1, <1>3, <1>4, ReloginCases DEF Unrotated, Rotated

\* Every request keeps the store in order and keeps bound keys.
LEMMA RequestStore ==
    ASSUME OneProcess, TInv, StoreInv, NEW p \in Proc,
           request_825(p) \/ request_826(p) \/ request_827(p)
    PROVE  StoreInv' /\ RowsKept
BY PlainStore, CreateStore, RegistrationCases, EnrolmentStore, ReloginStore

\* Every step does.
LEMMA StoreStep == OneProcess /\ TInv /\ StoreInv /\ [Next]_vars => StoreInv' /\ RowsKept
<1> SUFFICES ASSUME OneProcess, TInv, StoreInv, [Next]_vars PROVE StoreInv' /\ RowsKept
  OBVIOUS
<1>1. ASSUME table' = table, answer' = answer, IndexInSync' PROVE StoreInv' /\ RowsKept
  BY <1>1 DEF StoreInv, Unique, AnswersDurable, RowsKept
<1>2. ASSUME UNCHANGED <<table, store, answer>> PROVE StoreInv' /\ RowsKept
  BY <1>1, <1>2 DEF StoreInv, IndexInSync, store
<1>3. ASSUME NEW p \in Proc, Gone(p), table' = table, answer' = answer PROVE StoreInv' /\ RowsKept
  BY <1>1, <1>3, GoneStore DEF TInv
<1>4. ASSUME NEW p \in Proc, Startup(p) PROVE StoreInv' /\ RowsKept
  <2>1. CASE initialize(p)
    BY <1>1, <2>1 DEF initialize, IndexInSync, OneProcess, TInv, TypeOK, disk
  <2>2. CASE MakeLimiters(p) \/ LoadIdentity(p) \/ Bind(p)
    BY <1>2, <1>3, <2>2 DEF MakeLimiters, LoadIdentity, Bind, memory, disk
  <2>3. CASE Start(p) \/ LoadConfig(p) \/ GenerateIdentity(p) \/ OpenIdentity(p)
             \/ WriteIdentity(p) \/ StartMetrics(p)
    BY <1>2, <2>3 DEF Start, LoadConfig, GenerateIdentity, OpenIdentity, WriteIdentity,
                      StartMetrics, memory, disk
  <2> QED  BY <1>4, <2>1, <2>2, <2>3 DEF Startup
<1>5. ASSUME NEW p \in Proc, Dies(p) \/ Exit(p) PROVE StoreInv' /\ RowsKept
  BY <1>3, <1>5 DEF Dies, Exit, disk
<1>6. ASSUME NEW p \in Proc, Signal(p) PROVE StoreInv' /\ RowsKept
  BY <1>2, <1>6 DEF Signal, memory, disk
<1>7. ASSUME NEW p \in Proc, Shutdown(p) PROVE StoreInv' /\ RowsKept
  BY <1>1, <1>7 DEF Shutdown, IndexInSync, OneProcess, TInv, TypeOK, disk
<1>8. ASSUME NEW u \in User, NEW p \in Proc, Handshake(u, p) PROVE StoreInv' /\ RowsKept
  BY <1>2, <1>8 DEF Handshake, memory, disk
<1>9. ASSUME NEW u \in User, PinServer(u) PROVE StoreInv' /\ RowsKept
  BY <1>2, <1>9 DEF PinServer, memory, disk
<1>10. CASE RemovePartial \/ UNCHANGED vars
  BY <1>2, <1>10 DEF RemovePartial, vars, memory, disk
<1> QED
  BY <1>4, <1>5, <1>6, <1>7, <1>8, <1>9, <1>10, RequestStore DEF Next

\* The store is in order before the first start.
LEMMA ProcessInit == Init => TInv /\ StoreInv
<1> SUFFICES ASSUME Init PROVE TInv /\ StoreInv  OBVIOUS
<1>1. Empty \in Map(Id, Row) /\ Empty \in Map(Name, Id) /\ DOMAIN Empty = {}
  BY EmptyIsMap DEF Empty
<1>2. TInv
  BY <1>1, ProcessAssumption DEF Init, TInv, TypeOK, IdFile, Phase, AnswerKind, NoAnswer
<1>3. StoreInv
  BY <1>1 DEF Init, StoreInv, Unique, IndexInSync, AnswersDurable, NoAnswer
<1> QED  BY <1>2, <1>3

\* With one process the store stays in order.
LEMMA StoreInvariant == ASSUME OneProcess PROVE Spec => [](TInv /\ StoreInv)
<1>1. TInv /\ StoreInv /\ [Next]_vars => StoreInv'  BY StoreStep
<1> QED  BY <1>1, ProcessInit, TypeStep, PTL DEF Spec

\* While the store is open, its two indexes are the table.
THEOREM IndexAlwaysInSync == ASSUME OneProcess PROVE Spec => []IndexInSync
<1>1. StoreInv => IndexInSync  BY DEF StoreInv
<1> QED  BY <1>1, StoreInvariant, PTL

\* What a client was told is on disk, whatever failed or crashed since.
THEOREM AnswersAlwaysDurable == ASSUME OneProcess PROVE Spec => []AnswersDurable
<1>1. StoreInv => AnswersDurable  BY DEF StoreInv
<1> QED  BY <1>1, StoreInvariant, PTL

\* A bound public key is never replaced and no registration is lost.
THEOREM KeyStaysBound == ASSUME OneProcess PROVE Spec => KeyBound
<1>1. TInv /\ StoreInv /\ [Next]_vars => [RowsKept]_vars  BY StoreStep
<1> QED  BY <1>1, StoreInvariant, PTL DEF Spec, KeyBound, RowsKept

-----------------------------------------------------------------------------
(* Configurations.  main checks the port first and the limits later, and   *)
(* the configuration does not change in between.                           *)

ConfigInv ==
    \A p \in Proc :
      /\ pc[p] \in {"store", "limits"} => ValidPort(config[p])
      /\ pc[p] \in {"identity", "create", "write", "bind"} \cup Listening =>
           ValidPort(config[p]) /\ ValidLimits(config[p])

\* Every step keeps ConfigInv: a process goes on with the configuration it has checked.
LEMMA ConfigStep == TypeOK /\ ConfigInv /\ [Next]_vars => ConfigInv'
<1> SUFFICES ASSUME TypeOK, ConfigInv, [Next]_vars PROVE ConfigInv'  OBVIOUS
<1> USE DEF Listening
<1>1. ASSUME NEW p \in Proc, Elsewhere(p) PROVE ConfigInv'
  BY <1>1 DEF TypeOK, ConfigInv, Elsewhere, Gone, Go
<1>2. ASSUME NEW p \in Proc, Startup(p) PROVE ConfigInv'
  <2>1. CASE LoadConfig(p)  BY <2>1 DEF TypeOK, ConfigInv, LoadConfig, Go
  <2>2. CASE MakeLimiters(p)
    BY <1>1, <2>2 DEF TypeOK, ConfigInv, MakeLimiters, Elsewhere, Go, memory
  <2>3. CASE LoadIdentity(p)
    BY <1>1, <2>3 DEF TypeOK, ConfigInv, LoadIdentity, Elsewhere, Go
  <2>4. CASE Bind(p)
    BY <1>1, <2>4 DEF TypeOK, ConfigInv, Bind, Elsewhere, Go, memory
  <2>5. CASE Start(p) \/ initialize(p) \/ GenerateIdentity(p)
             \/ OpenIdentity(p) \/ WriteIdentity(p) \/ StartMetrics(p)
    BY <2>5 DEF TypeOK, ConfigInv, Start, initialize, GenerateIdentity, OpenIdentity,
                WriteIdentity, StartMetrics, Go, memory
  <2> QED  BY <1>2, <2>1, <2>2, <2>3, <2>4, <2>5 DEF Startup
<1>3. ASSUME NEW p \in Proc, Dies(p) \/ Exit(p) PROVE ConfigInv'
  BY <1>1, <1>3 DEF Dies, Exit, Elsewhere
<1>4. ASSUME NEW p \in Proc, Signal(p) \/ Shutdown(p) PROVE ConfigInv'
  BY <1>4 DEF TypeOK, ConfigInv, Signal, Shutdown, Go, memory
<1>5. ASSUME NEW p \in Proc, request_825(p) \/ request_826(p) \/ request_827(p)
      PROVE  ConfigInv'
  BY <1>1, <1>5, RequestElsewhere
<1>6. CASE UNCHANGED <<pc, config>>  BY <1>6 DEF ConfigInv
<1>7. ASSUME NEW u \in User, NEW p \in Proc, Handshake(u, p) PROVE ConfigInv'
  BY <1>6, <1>7 DEF Handshake, memory
<1>8. ASSUME NEW u \in User, PinServer(u) PROVE ConfigInv'
  BY <1>6, <1>8 DEF PinServer, memory
<1>9. CASE RemovePartial \/ UNCHANGED vars
  BY <1>6, <1>9 DEF RemovePartial, vars, memory
<1> QED  BY <1>2, <1>3, <1>4, <1>5, <1>7, <1>8, <1>9 DEF Next

\* No process listens with a configuration that main's checks refuse, whatever number
\* of processes run.
THEOREM ListeningIsConfigured == Spec => []ListensConfigured
<1>1. Init => ConfigInv  BY Zenon DEF Init, ConfigInv, Listening
<1>2. ConfigInv => ListensConfigured  BY DEF ConfigInv, ListensConfigured
<1> QED  BY <1>1, <1>2, ConfigStep, ProcessTypeOK, PTL DEF Spec

-----------------------------------------------------------------------------
(* The identity, for one process.  Between the look for the file and the   *)
(* end of the write nobody else creates it, so that it is written only     *)
(* while no client can have seen a key.                                    *)

Identified == {"bind", "closed"} \cup Listening

IdentityInv ==
    /\ \A p \in Proc :
         /\ pc[p] = "create" => idFile = Absent /\ idKey[p] \in Ident
         /\ pc[p] = "write" => idFile = Partial /\ idKey[p] \in Ident
         /\ pc[p] \in Identified => idFile \in Ident /\ idKey[p] = idFile
    /\ \A u \in User : /\ trust[u] # None => idFile \in Ident /\ trust[u] = idFile
                       /\ pin[u] # None => idFile \in Ident /\ pin[u] = idFile
    /\ refused = {}

\* The step of IdentityKept.
IdKept == idFile \in Ident => idFile' = idFile

\* Every step keeps IdentityInv and the identity once it is made.
LEMMA IdentityStep ==
    OneProcess /\ TypeOK /\ IdentityInv /\ [Next]_vars => IdentityInv' /\ IdKept
<1> SUFFICES ASSUME OneProcess, TypeOK, IdentityInv, [Next]_vars PROVE IdentityInv' /\ IdKept
  OBVIOUS
<1> USE DEF Identified, Listening
<1>0. Absent \notin Ident /\ Partial \notin Ident /\ Absent # Partial /\ None \notin Ident
  BY ProcessAssumption DEF Absent, Partial, Ident, None
<1>1. ASSUME NEW p \in Proc, Elsewhere(p), UNCHANGED <<idFile, clients>>
      PROVE  IdentityInv' /\ IdKept
  <2>1. CASE Gone(p)
    BY <1>1, <2>1 DEF IdentityInv, IdKept, Gone, Go, OneProcess, TypeOK, clients
  <2>2. CASE UNCHANGED <<pc, idKey>>
    BY <1>1, <2>2, Zenon DEF IdentityInv, IdKept, clients
  <2> QED  BY <1>1, <2>1, <2>2 DEF Elsewhere
<1>2. ASSUME NEW p \in Proc, pc[p] \notin {"create", "write"} \cup Identified,
             NEW phase, phase \notin {"create", "write"} \cup Identified, Go(p, phase),
             UNCHANGED <<idFile, idKey, clients>>
      PROVE  IdentityInv' /\ IdKept
  BY <1>2 DEF IdentityInv, IdKept, Go, OneProcess, TypeOK, clients
<1>3. ASSUME NEW p \in Proc, pc[p] \in Identified, NEW phase \in Identified, Go(p, phase),
             UNCHANGED <<idFile, idKey, clients>>
      PROVE  IdentityInv' /\ IdKept
  BY <1>3 DEF IdentityInv, IdKept, Go, OneProcess, TypeOK, clients
<1>4. ASSUME NEW p \in Proc, Startup(p) PROVE IdentityInv' /\ IdKept
  <2>1. CASE Start(p) \/ LoadConfig(p) \/ initialize(p)
    BY <1>2, <2>1 DEF Start, LoadConfig, initialize, Go, disk, memory
  <2>2. CASE MakeLimiters(p)
    BY <1>1, <1>2, <2>2 DEF MakeLimiters, Elsewhere, disk, memory
  <2>3. CASE LoadIdentity(p)
    BY <1>0, <1>1, <2>3 DEF LoadIdentity, Elsewhere, IdentityInv, IdKept, Go, OneProcess,
                            TypeOK, disk, clients
  <2>4. CASE GenerateIdentity(p)
    <3>1. starts + 1 \in Ident  BY <2>4, ProcessAssumption DEF GenerateIdentity, Ident, TypeOK
    <3> QED  BY <1>0, <2>4, <3>1 DEF GenerateIdentity, IdentityInv, IdKept, Go, OneProcess,
                            TypeOK, disk, clients
  <2>5. CASE OpenIdentity(p)
    BY <1>0, <2>5 DEF OpenIdentity, IdentityInv, IdKept, Go, OneProcess, TypeOK, memory, clients
  <2>6. CASE WriteIdentity(p)
    BY <1>0, <2>6 DEF WriteIdentity, IdentityInv, IdKept, Go, OneProcess, TypeOK, memory, clients
  <2>7. CASE Bind(p)
    BY <1>1, <1>3, <2>7 DEF Bind, Elsewhere, disk, memory
  <2>8. CASE StartMetrics(p)
    BY <1>3, <2>8 DEF StartMetrics, disk, memory
  <2> QED  BY <1>4, <2>1, <2>2, <2>3, <2>4, <2>5, <2>6, <2>7, <2>8 DEF Startup
<1>5. ASSUME NEW p \in Proc, Dies(p) \/ Exit(p) PROVE IdentityInv' /\ IdKept
  BY <1>1, <1>5 DEF Dies, Exit, Elsewhere, disk
<1>6. ASSUME NEW p \in Proc, Signal(p) \/ Shutdown(p) PROVE IdentityInv' /\ IdKept
  BY <1>3, <1>6 DEF Signal, Shutdown, disk, memory
<1>7. ASSUME NEW p \in Proc, request_825(p) \/ request_826(p) \/ request_827(p)
      PROVE  IdentityInv' /\ IdKept
  BY <1>1, <1>7, RequestElsewhere
<1>8. ASSUME NEW u \in User, NEW p \in Proc, Handshake(u, p) PROVE IdentityInv' /\ IdKept
  <2>1. pc[p] \in Identified  BY <1>8 DEF Handshake, Serves
  <2>2. idFile \in Ident /\ idKey[p] = idFile  BY <2>1 DEF IdentityInv
  <2>3. pin[u] = None /\ trust[u] = None  BY <1>8, <2>2 DEF Handshake, IdentityInv
  <2>4. trust' = [trust EXCEPT ![u] = idFile] /\ UNCHANGED <<idFile, pc, idKey, pin, refused>>
    BY <1>8, <2>2, <2>3 DEF Handshake, disk, memory
  <2> QED  BY <2>2, <2>4 DEF IdentityInv, IdKept, TypeOK
<1>9. ASSUME NEW u \in User, PinServer(u) PROVE IdentityInv' /\ IdKept
  BY <1>9 DEF PinServer, IdentityInv, IdKept, TypeOK, disk, memory
<1>10. CASE RemovePartial
  BY <1>0, <1>10 DEF RemovePartial, IdentityInv, IdKept, TypeOK, memory, clients
<1>11. CASE UNCHANGED vars
  BY <1>11 DEF vars, IdentityInv, IdKept, disk, memory, clients
<1> QED
  BY <1>4, <1>5, <1>6, <1>7, <1>8, <1>9, <1>10, <1>11 DEF Next

\* With one process IdentityInv holds for good.
LEMMA IdentityInvariant == ASSUME OneProcess PROVE Spec => []IdentityInv
<1>1. Init => IdentityInv  BY DEF Init, IdentityInv, Identified, Listening
<1>2. TypeOK /\ IdentityInv /\ [Next]_vars => IdentityInv'  BY IdentityStep
<1> QED  BY <1>1, <1>2, ProcessTypeOK, PTL DEF Spec

\* No start replaces a key in server_identity.pem.
THEOREM IdentityStaysKept == ASSUME OneProcess PROVE Spec => IdentityKept
<1>1. TypeOK /\ IdentityInv /\ [Next]_vars => [IdKept]_vars  BY IdentityStep
<1> QED  BY <1>1, IdentityInvariant, ProcessTypeOK, PTL DEF Spec, IdentityKept, IdKept

\* No client that trusts the server's key is turned away from it.
THEOREM TrustAlwaysHolds == ASSUME OneProcess PROVE Spec => []TrustHolds
<1>1. IdentityInv => TrustHolds  BY Zenon DEF IdentityInv, TrustHolds
<1> QED  BY <1>1, IdentityInvariant, PTL

=============================================================================
