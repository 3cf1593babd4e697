---------------------------- MODULE ServerProcess ---------------------------
(***************************************************************************)
(* The life of a server process: main of server_async.py from Config.load  *)
(* to store.close, with what outlives it on disk, the Clients table and    *)
(* server_identity.pem, and what it keeps of them in memory, the two       *)
(* indexes of store.py and the identity key.  While it listens it serves   *)
(* requests 825, 826 and 827, whose handlers and answers commit to the     *)
(* table several times and suspend only once they have sent their answer;  *)
(* a commit may raise, and the process may be killed between any two.      *)
(* SQLite is external: a commit is atomic and survives the process, and    *)
(* one that raises leaves nothing behind.  Clients check the identity by   *)
(* server.pin or on first use.                                             *)
(*                                                                         *)
(* Proc is a set because nothing keeps two processes from being started on *)
(* one data directory; the listening port is taken last.                   *)
(***************************************************************************)
EXTENDS Naturals, Sequences

CONSTANTS
    Proc,       \* server processes that use one data directory
    Config,     \* the configurations a process may find
    Name,       \* valid user names
    Pub,        \* RSA public keys
    User,       \* client installations, with their trust files
    MaxIds,     \* bound on registrations
    MaxKeys,    \* bound on AES keys
    MaxStarts,  \* bound on identity keys generated
    MaxFaults   \* bound on faults of any kind

None == 0
Id == 1..MaxIds
Key == 1..MaxKeys
Ident == 1..MaxStarts
Map(S, T) == UNION {[D -> T] : D \in SUBSET S}
Row == [name : Name, pub : Pub \cup {None}, aes : Key \cup {None}]
Absent == 0
Partial == MaxStarts + 1
IdFile == {Absent, Partial} \cup Ident
AnswerKind == [code : {0, 1600, 1601, 1602, 1605, 1606, 1607},
               id : Id \cup {None}, key : Key \cup {None}]

ASSUME ProcessAssumption ==
    /\ None \notin Pub
    /\ {MaxIds, MaxKeys, MaxStarts, MaxFaults} \subseteq Nat

VARIABLES
    \* on disk
    table,     \* the Clients table: rows by client id
    idFile,    \* server_identity.pem: absent, partly written, or a key
    \* per process
    pc,        \* where main is
    config,    \* what Config.load returned
    open,      \* store.sqliteConnection is not None
    byId,      \* store.clients_by_id
    byName,    \* store.clients_by_username: the id of the record it shares
    idKey,     \* server_identity_key
    \* the machine, the clients, and bookkeeping
    port,      \* the process that listens, or None
    trust,     \* per user: server.fingerprint
    pin,       \* per user: server.pin
    refused,   \* the users validate_server_trust has turned away (history)
    answer,    \* the last answer sent; code 0 if a request got none
    keys,      \* AES keys generated so far
    starts,    \* identity keys generated so far
    faults     \* faults so far

disk == <<table, idFile>>
store == <<open, byId, byName>>
memory == <<config, store, idKey>>
clients == <<trust, pin, refused>>
counters == <<keys, starts, faults>>
vars == <<disk, pc, memory, port, clients, answer, counters>>

Starting == {"config", "store", "limits", "identity", "create", "write", "bind"}
Listening == {"metrics", "serving", "stopping"}
Phase == {"off", "closed"} \cup Starting \cup Listening

NoAnswer == [code |-> 0, id |-> None, key |-> None]
NoConfig == [port |-> 0]
Empty == [x \in {} |-> None]

Init ==
    /\ table = Empty /\ idFile = Absent
    /\ pc = [p \in Proc |-> "off"]
    /\ config = [p \in Proc |-> NoConfig]
    /\ open = [p \in Proc |-> FALSE]
    /\ byId = [p \in Proc |-> Empty] /\ byName = [p \in Proc |-> Empty]
    /\ idKey = [p \in Proc |-> None]
    /\ port = None
    /\ trust = [u \in User |-> None] /\ pin = [u \in User |-> None]
    /\ refused = {}
    /\ answer = NoAnswer
    /\ keys = 0 /\ starts = 0 /\ faults = 0

Go(p, phase) == pc' = [pc EXCEPT ![p] = phase]
Fault == faults < MaxFaults /\ faults' = faults + 1

-----------------------------------------------------------------------------
(* Startup.  An exception leaves main and ends the process.                *)

\* Memory and port of a process that is gone.
Gone(p) ==
    /\ Go(p, "off")
    /\ open' = [open EXCEPT ![p] = FALSE]
    /\ byId' = [byId EXCEPT ![p] = Empty]
    /\ byName' = [byName EXCEPT ![p] = Empty]
    /\ idKey' = [idKey EXCEPT ![p] = None]
    /\ config' = [config EXCEPT ![p] = NoConfig]
    /\ port' = IF port = p THEN None ELSE port

Start(p) ==
    /\ pc[p] = "off"
    /\ Go(p, "config")
    /\ UNCHANGED <<disk, memory, port, clients, answer, counters>>

\* Config.load checks the port and nothing else.
ValidPort(c) == c.port \in 1..65535

\* The constructors of UploadLimiter, ConnectionLimiter and BoundedExecutor.
ValidLimits(c) ==
    /\ c.uploads > 0
    /\ c.connections > 0 /\ c.perIp > 0 /\ c.perIp <= c.connections
    /\ c.workers > 0 /\ c.inFlight > 0 /\ c.inFlight >= c.workers

\* A configuration that does not start is a fault.
LoadConfig(p) ==
    /\ pc[p] = "config"
    /\ \E c \in Config :
         /\ IF ValidPort(c) /\ ValidLimits(c) THEN UNCHANGED faults ELSE Fault
         /\ IF ValidPort(c) THEN Go(p, "store") /\ config' = [config EXCEPT ![p] = c]
                            ELSE Go(p, "off") /\ UNCHANGED config
    /\ UNCHANGED <<disk, store, idKey, port, clients, answer, keys, starts>>

\* _load_clients_index: every row, under its id and under its name.
NameIndex(rows) ==
    [n \in {rows[i].name : i \in DOMAIN rows} |-> CHOOSE i \in DOMAIN rows : rows[i].name = n]

initialize(p) ==
    /\ pc[p] = "store"
    /\ open' = [open EXCEPT ![p] = TRUE]
    /\ byId' = [byId EXCEPT ![p] = table]
    /\ byName' = [byName EXCEPT ![p] = NameIndex(table)]
    /\ Go(p, "limits")
    /\ UNCHANGED <<disk, config, idKey, port, clients, answer, counters>>

MakeLimiters(p) ==
    /\ pc[p] = "limits"
    /\ IF ValidLimits(config[p])
       THEN Go(p, "identity") /\ UNCHANGED <<memory, port>>
       ELSE Gone(p)
    /\ UNCHANGED <<disk, clients, answer, counters>>

\* The file that exists is not recognised.
LoadIdentity_Refuses(p) ==
    /\ pc[p] = "identity" /\ idFile # Absent
    /\ Gone(p)
    /\ UNCHANGED <<disk, clients, answer, counters>>

\* load_or_create_server_identity finds a file: a key is used, anything else
\* is a RuntimeError.
LoadIdentity(p) ==
    /\ pc[p] = "identity" /\ idFile # Absent
    /\ IF idFile \in Ident
       THEN /\ idKey' = [idKey EXCEPT ![p] = idFile]
            /\ Go(p, "bind")
            /\ UNCHANGED <<config, store, port>>
       ELSE Gone(p)
    /\ UNCHANGED <<disk, clients, answer, counters>>

\* An existing file is not looked for.
GenerateIdentity_Always(p) ==
    /\ pc[p] = "identity"
    /\ starts < MaxStarts
    /\ starts' = starts + 1
    /\ idKey' = [idKey EXCEPT ![p] = starts + 1]
    /\ Go(p, "create")
    /\ UNCHANGED <<disk, config, store, port, clients, answer, keys, faults>>

\* It finds none, and generates a key ...
GenerateIdentity(p) ==
    /\ pc[p] = "identity" /\ idFile = Absent
    /\ starts < MaxStarts
    /\ starts' = starts + 1
    /\ idKey' = [idKey EXCEPT ![p] = starts + 1]
    /\ Go(p, "create")
    /\ UNCHANGED <<disk, config, store, port, clients, answer, keys, faults>>

\* ... opens the file for writing, which creates or empties it ...
OpenIdentity(p) ==
    /\ pc[p] = "create"
    /\ idFile' = Partial
    /\ Go(p, "write")
    /\ UNCHANGED <<table, memory, port, clients, answer, counters>>

\* ... and writes it.
WriteIdentity(p) ==
    /\ pc[p] = "write"
    /\ idFile' = idKey[p]
    /\ Go(p, "bind")
    /\ UNCHANGED <<table, memory, port, clients, answer, counters>>

\* start_server: the port may be taken.
Bind(p) ==
    /\ pc[p] = "bind"
    /\ IF port = None
       THEN /\ port' = p
            /\ Go(p, IF config[p].metrics THEN "metrics" ELSE "serving")
            /\ UNCHANGED memory
       ELSE Gone(p)
    /\ UNCHANGED <<disk, clients, answer, counters>>

\* The second start_server; connections are accepted already.
StartMetrics(p) ==
    /\ pc[p] = "metrics"
    /\ Go(p, "serving")
    /\ UNCHANGED <<disk, memory, port, clients, answer, counters>>

\* The operator removes a file that is no key.
RemovePartial ==
    /\ idFile = Partial /\ \A p \in Proc : pc[p] = "off"
    /\ idFile' = Absent
    /\ UNCHANGED <<table, pc, memory, port, clients, answer, counters>>

\* The process is killed, or main raises: a failing sqlite3 call in initialize,
\* a failing open, write or chmod of the identity, a metrics port that is taken.
Dies(p) ==
    /\ pc[p] # "off"
    /\ Fault
    /\ Gone(p)
    /\ UNCHANGED <<disk, clients, answer, keys, starts>>

-----------------------------------------------------------------------------
(* Shutdown.                                                               *)

Signal(p) ==
    /\ pc[p] = "serving"
    /\ Go(p, "stopping")
    /\ UNCHANGED <<disk, memory, port, clients, answer, counters>>

\* The close of the listener waits for a connection that stays.
Shutdown_Waits(p) == pc[p] = "stopping" /\ UNCHANGED vars

\* The finally block of main does not suspend: it closes the listener and the
\* store, which clears the indexes.
Shutdown(p) ==
    /\ pc[p] = "stopping"
    /\ port' = None
    /\ open' = [open EXCEPT ![p] = FALSE]
    /\ byId' = [byId EXCEPT ![p] = Empty]
    /\ byName' = [byName EXCEPT ![p] = Empty]
    /\ Go(p, "closed")
    /\ UNCHANGED <<disk, config, idKey, clients, answer, counters>>

\* asyncio.run has cancelled the connections' tasks and they have ended.
Exit(p) ==
    /\ pc[p] = "closed"
    /\ Gone(p)
    /\ UNCHANGED <<disk, clients, answer, counters>>

-----------------------------------------------------------------------------
(* Requests.  A task runs while main listens; and in "closed" as well: a   *)
(* wait_for whose read was done when the cancellation came returns the     *)
(* data, and the task goes on.  With a max_payload_size that is not        *)
(* positive the constructor of ClientSession raises, and no task runs.     *)

Serves(p) == pc[p] \in Listening \cup {"closed"} /\ config[p].payload > 0

Say(code, id, key) == answer' = [code |-> code, id |-> id, key |-> key]

\* store.get_client_by_id and get_client_by_username, which know nobody once
\* the store is closed.
KnownId(p, id) == open[p] /\ id \in DOMAIN byId[p]
KnownName(p, n) == open[p] /\ n \in DOMAIN byName[p]

\* What the commits of a handler up to some point have set in a row.
Unset == [pub |-> None, aes |-> None]

Apply(row, w) ==
    [row EXCEPT !.pub = IF w.pub = None THEN @ ELSE w.pub,
                !.aes = IF w.aes = None THEN @ ELSE w.aes]

\* What the index has when writes[n] is committed: a write that raises does not
\* reach it.
Indexed_First(writes, n) == IF n < Len(writes) THEN writes[n + 1] ELSE writes[n]
Indexed(writes, n) == writes[n]

\* A handler commits, one after the other, what leads from writes[1] to the last of
\* writes, and then answers.  When a commit raises, the router answers 1607, or
\* nothing when the commit of that answer raises as well.  When the process is
\* killed after a commit, the index goes with it.
Commit(p, id, writes, code, key) ==
    \/ /\ table' = [table EXCEPT ![id] = Apply(@, writes[Len(writes)])]
       /\ byId' = [byId EXCEPT ![p][id] = Apply(@, Indexed(writes, Len(writes)))]
       /\ Say(code, id, key)
       /\ UNCHANGED <<pc, config, open, byName, idKey, port, faults>>
    \/ \E n \in 1..(Len(writes) - 1) :
         /\ Fault
         /\ table' = [table EXCEPT ![id] = Apply(@, writes[n])]
         /\ \/ /\ byId' = [byId EXCEPT ![p][id] = Apply(@, Indexed(writes, n))]
               /\ answer' \in {NoAnswer, [code |-> 1607, id |-> id, key |-> None]}
               /\ UNCHANGED <<pc, config, open, byName, idKey, port>>
            \/ Gone(p) /\ answer' = NoAnswer

\* An answer without a commit.
Plain(code) == Say(code, None, None) /\ UNCHANGED <<table, pc, memory, port, faults>>

With(f, x, v) == [y \in DOMAIN f \cup {x} |-> IF y = x THEN v ELSE f[y]]

\* create_client: the insert fails on a name that is taken, and its record
\* enters both indexes after the commit.
create_client(p, id, row) ==
    IF \E i \in DOMAIN table : table[i].name = row.name
    THEN Plain(1607)
    ELSE \/ /\ table' = With(table, id, row)
            /\ byId' = [byId EXCEPT ![p] = With(@, id, row)]
            /\ byName' = [byName EXCEPT ![p] = With(@, row.name, id)]
            /\ Say(1600, id, None)
            /\ UNCHANGED <<pc, config, open, idKey, port, faults>>
         \/ Fault /\ Say(1607, None, None) /\ UNCHANGED <<table, pc, memory, port>>
         \/ Fault /\ table' = With(table, id, row) /\ Gone(p) /\ answer' = NoAnswer

\* Registration.  Without a store create_client returns None, and the handler
\* raises on it.
request_825(p) ==
    /\ Serves(p)
    /\ \/ Plain(1601)    \* the name is not valid
       \/ Plain(1607)    \* or is not UTF-8
       \/ \E n \in Name :
            \/ KnownName(p, n) /\ Plain(1601)
            \/ ~ KnownName(p, n) /\ ~ open[p] /\ Plain(1607)
            \/ /\ ~ KnownName(p, n) /\ open[p]
               /\ \E id \in Id : /\ id \notin DOMAIN table
                                 /\ \A i \in 1..(id - 1) : i \in DOMAIN table
                                 /\ create_client(p, id, [name |-> n, pub |-> None, aes |-> None])
    /\ UNCHANGED <<idFile, clients, keys, starts>>

\* touch_client_last_seen commits and changes nothing that is modelled: it is a step
\* in which nothing is set.  Every handler begins with one, every answer has one.
Touches == <<Unset, Unset, Unset>>
Enrolment(k, new) ==
    LET bound == [Unset EXCEPT !.pub = k]
        both  == [bound EXCEPT !.aes = new]
    IN  <<Unset, Unset, bound, both, both>>
Rotation_Unsaved(new) == Touches
Rotation(new) == LET set == [Unset EXCEPT !.aes = new] IN <<Unset, Unset, set, set>>

\* 826 with key k for a known row, a fresh AES key at hand: what it commits and answers.
Reply(writes, code, key) == [writes |-> writes, code |-> code, key |-> key]

Reply826_Rebinds(row, k, new) ==
    IF row.pub # k THEN Reply(Enrolment(k, new), 1602, new)
    ELSE IF row.aes = None THEN Reply(Rotation(new), 1602, new)
    ELSE Reply(Touches, 1602, row.aes)

Reply826(row, k, new) ==
    IF row.pub = None THEN Reply(Enrolment(k, new), 1602, new)
    ELSE IF row.pub # k THEN Reply(Touches, 1607, None)
    ELSE IF row.aes = None THEN Reply(Rotation(new), 1602, new)
    ELSE Reply(Touches, 1602, row.aes)

\* Enrolment; a malformed payload or a wrong name gets 1607, a key that is not
\* fit 1606.
request_826(p) ==
    /\ Serves(p)
    /\ \E id \in Id :
         \/ ~ KnownId(p, id) /\ Plain(1607) /\ UNCHANGED keys
         \/ /\ KnownId(p, id)
            /\ \E code \in {1606, 1607} : Commit(p, id, Touches, code, None)
            /\ UNCHANGED keys
         \/ /\ KnownId(p, id)
            /\ \E k \in Pub : LET r == Reply826(byId[p][id], k, keys + 1) IN
                 /\ r.key \in Key \cup {None}
                 /\ keys' = IF r.key > keys THEN r.key ELSE keys
                 /\ Commit(p, id, r.writes, r.code, r.key)
    /\ UNCHANGED <<idFile, clients, starts>>

\* Relogin: a new AES key for the user of that name and id.
request_827(p) ==
    /\ Serves(p)
    /\ \E n \in Name, id \in Id :
         IF ~ KnownName(p, n) \/ byName[p][n] # id
         THEN Plain(1606) /\ UNCHANGED keys
         ELSE IF byId[p][id].pub = None
         THEN Commit(p, id, <<Unset, Unset>>, 1606, None) /\ UNCHANGED keys
         ELSE /\ keys < MaxKeys /\ keys' = keys + 1
              /\ Commit(p, id, Rotation(keys + 1), 1605, keys + 1)
    /\ UNCHANGED <<idFile, clients, starts>>

-----------------------------------------------------------------------------
(* Clients.                                                                *)

\* 829, 1608, and validate_server_trust: a pin decides alone; without one the
\* first fingerprint is stored, or the handshake fails when it cannot be.
Handshake(u, p) ==
    /\ Serves(p)
    /\ IF pin[u] # None \/ trust[u] # None
       THEN /\ (IF pin[u] # None THEN pin[u] ELSE trust[u]) # idKey[p]
            /\ refused' = refused \cup {u}
            /\ UNCHANGED trust
       ELSE /\ trust' = [trust EXCEPT ![u] = idKey[p]]
            /\ UNCHANGED refused
    /\ UNCHANGED <<disk, pc, memory, port, pin, answer, counters>>

\* The user is given the fingerprint of the server's key.
PinServer(u) ==
    /\ idFile \in Ident /\ pin[u] = None
    /\ pin' = [pin EXCEPT ![u] = idFile]
    /\ UNCHANGED <<disk, pc, memory, port, trust, refused, answer, counters>>

-----------------------------------------------------------------------------
Startup(p) ==
    \/ Start(p) \/ LoadConfig(p) \/ initialize(p) \/ MakeLimiters(p)
    \/ LoadIdentity(p) \/ GenerateIdentity(p) \/ OpenIdentity(p) \/ WriteIdentity(p)
    \/ Bind(p) \/ StartMetrics(p)

Next ==
    \/ \E p \in Proc :
         \/ Startup(p) \/ Dies(p)
         \/ Signal(p) \/ Shutdown(p) \/ Exit(p)
         \/ request_825(p) \/ request_826(p) \/ request_827(p)
         \/ \E u \in User : Handshake(u, p)
    \/ \E u \in User : PinServer(u)
    \/ RemovePartial

Spec == Init /\ [][Next]_vars

\* The process is started again when it has ended, and takes its steps; the peers of
\* the connections that outlive the shutdown go away.
FairSpec == Spec /\ \A p \in Proc : WF_vars(Startup(p)) /\ WF_vars(Shutdown(p) \/ Exit(p))

-----------------------------------------------------------------------------
(* Properties.                                                             *)

TypeOK ==
    /\ table \in Map(Id, Row)
    /\ idFile \in IdFile
    /\ pc \in [Proc -> Phase] /\ open \in [Proc -> BOOLEAN]
    /\ config \in [Proc -> Config \cup {NoConfig}]
    /\ byId \in [Proc -> Map(Id, Row)] /\ byName \in [Proc -> Map(Name, Id)]
    /\ idKey \in [Proc -> Ident \cup {None}]
    /\ port \in Proc \cup {None}
    /\ trust \in [User -> Ident \cup {None}] /\ pin \in [User -> Ident \cup {None}]
    /\ refused \subseteq User
    /\ answer \in AnswerKind
    /\ keys \in 0..MaxKeys /\ starts \in 0..MaxStarts /\ faults \in 0..MaxFaults

\* While the store is open its two indexes are the table, whatever commit
\* raised and whenever the process was killed: the lookups of a request are never
\* stale.
IndexInSync ==
    \A p \in Proc : open[p] => byId[p] = table /\ byName[p] = NameIndex(table)

\* What the server has told a client is on disk, also after a crash: the id of
\* 1600, and the AES key of 1602 and 1605, which is the one uploads are decrypted
\* with.
AnswersDurable ==
    /\ answer.code = 1600 => answer.id \in DOMAIN table
    /\ answer.code \in {1602, 1605} =>
         /\ answer.id \in DOMAIN table
         /\ table[answer.id].aes = answer.key
         /\ table[answer.id].pub # None

\* A registration is never lost, and a public key that is bound to it never
\* replaced, whatever handlers fail halfway and are retried.
KeyBound ==
    [][\A i \in DOMAIN table :
         /\ i \in DOMAIN table'
         /\ table'[i].name = table[i].name
         /\ table[i].pub # None => table'[i].pub = table[i].pub]_vars

\* server_identity.pem is created once: no start ever replaces a key in it.
IdentityKept == [][(idFile \in Ident) => idFile' = idFile]_vars

\* No client that has pinned or stored the server's fingerprint is ever turned
\* away from it by a restart, a crash in the first start or a repair after one.
TrustHolds == refused = {}

\* A process that accepts connections has passed every check of its configuration.
ListensConfigured ==
    \A p \in Proc : pc[p] \in Listening => ValidPort(config[p]) /\ ValidLimits(config[p])

\* A server that is down comes up, unless a crash has left an identity file that
\* the operator has to remove.
ComesUp == \A p \in Proc : pc[p] = "off" ~> (pc[p] = "serving" \/ idFile = Partial)

\* A server that is told to stop stops.
Stops == \A p \in Proc : pc[p] = "stopping" ~> pc[p] = "off"
=============================================================================
