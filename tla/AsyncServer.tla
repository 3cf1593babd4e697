---------------------------- MODULE AsyncServer -----------------------------
(***************************************************************************)
(* The C++ server (server_cpp): AsyncServer with its accept loop, retry    *)
(* timer and registry, and the AsyncConnection objects with their read,    *)
(* write and timer operations, run by four threads.                        *)
(*                                                                         *)
(* The handlers of one object are serialised by its strand: a strand is    *)
(* the sequence of the handlers that are ready, and one action runs the    *)
(* first of them to its end.  An operation that is outstanding becomes     *)
(* ready in a step of its own; a handler that is ready can no longer be    *)
(* cancelled.  A connection object lives as long as an operation or a      *)
(* handler holds its shared_ptr, so its life is defined, not recorded.     *)
(***************************************************************************)
EXTENDS Naturals, Sequences, FiniteSets

CONSTANTS
    Conn,       \* the sockets the acceptor hands out
    MaxActive   \* max_active_connections_

ASSUME ServerAssumption == IsFiniteSet(Conn) /\ MaxActive \in Nat \ {0}

VARIABLES
    serverStopped,  \* AsyncServer::stopped_
    serverStrand,   \* its ready handlers
    accepting,      \* an async_accept is outstanding
    retrying,       \* the accept retry timer is outstanding
    registry,       \* connections_
    signalled,      \* SIGINT or SIGTERM has arrived
    fresh,          \* sockets not handed out yet
    stopped,        \* per connection: AsyncConnection::stopped_
    strand,         \* per connection: its ready handlers
    reading,        \* per connection: the outstanding async_read, or "none"
    writing,        \* per connection: an async_write is outstanding
    timing,         \* per connection: a wait on the read timer is outstanding
    session         \* per connection: session_.state()

serverVars == <<serverStopped, serverStrand, accepting, retrying, registry, signalled, fresh>>
connVars == <<stopped, strand, reading, writing, timing, session>>
vars == <<serverVars, connVars>>

SessionState == {"AwaitingClientHello", "AwaitingHandshakeAck", "HandshakeComplete"}
RequestCode == {"Register", "SendPublicKey", "Reconnect", "Upload", "ClientHello",
                "ClientHandshakeAck"}

\* Handlers of a connection: an operation and how it ended.
ConnHandler == {"start", "stop", "header", "headerError", "payload", "payloadError",
                "written", "writeError", "timeout", "timerAborted"}
\* Handlers of the server; a "refused" accept is one that ended with an error.
ServerHandler == {"start", "stop", "accepted", "refused", "retry", "retryAborted"}

TypeOK ==
    /\ serverStopped \in BOOLEAN
    /\ serverStrand \in Seq(ServerHandler)
    /\ accepting \in BOOLEAN
    /\ retrying \in BOOLEAN
    /\ registry \subseteq Conn
    /\ signalled \in BOOLEAN
    /\ fresh \subseteq Conn
    /\ stopped \in [Conn -> BOOLEAN]
    /\ strand \in [Conn -> Seq(ConnHandler)]
    /\ \A c \in Conn : Len(strand[c]) <= 4
    /\ reading \in [Conn -> {"none", "header", "payload"}]
    /\ writing \in [Conn -> BOOLEAN]
    /\ timing \in [Conn -> BOOLEAN]
    /\ session \in [Conn -> SessionState]

\* main calls server.start() before it waits for a signal.
Init ==
    /\ serverStopped = FALSE
    /\ serverStrand = <<"start">>
    /\ accepting = FALSE
    /\ retrying = FALSE
    /\ registry = {}
    /\ signalled = FALSE
    /\ fresh = Conn
    /\ stopped = [c \in Conn |-> FALSE]
    /\ strand = [c \in Conn |-> <<>>]
    /\ reading = [c \in Conn |-> "none"]
    /\ writing = [c \in Conn |-> FALSE]
    /\ timing = [c \in Conn |-> FALSE]
    /\ session = [c \in Conn |-> "AwaitingClientHello"]

\* Something holds the shared_ptr of c.
Alive(c) == strand[c] # <<>> \/ reading[c] # "none" \/ writing[c] \/ timing[c]

-----------------------------------------------------------------------------
(* A connection: what its handlers do.  Each takes q, the handlers that    *)
(* are left on the strand, and says how the connection goes on.            *)

\* The read timer is cancelled: an outstanding wait becomes ready as aborted, a
\* timeout that is ready stays ready.
AbortedTimer(c) == IF timing[c] THEN <<"timerAborted">> ELSE <<>>

\* Faulty variant: only the header read is guarded.
BeginHeaderOnly(c, q, what) ==
    /\ reading' = [reading EXCEPT ![c] = what]
    /\ timing' = [timing EXCEPT ![c] = what = "header"]
    /\ strand' = [strand EXCEPT ![c] = q]
    /\ UNCHANGED <<stopped, writing>>

\* read_header and read_payload: the timer is armed, the read is started.
BeginRead(c, q, what) ==
    /\ reading' = [reading EXCEPT ![c] = what]
    /\ timing' = [timing EXCEPT ![c] = TRUE]
    /\ strand' = [strand EXCEPT ![c] = q]
    /\ UNCHANGED <<stopped, writing>>

\* Faulty variant: the next request is read while the answer is being written.
BeginWriteAndRead(c, q) ==
    /\ writing' = [writing EXCEPT ![c] = TRUE]
    /\ reading' = [reading EXCEPT ![c] = "header"]
    /\ timing' = [timing EXCEPT ![c] = TRUE]
    /\ strand' = [strand EXCEPT ![c] = q]
    /\ UNCHANGED stopped

BeginWrite(c, q) ==
    /\ writing' = [writing EXCEPT ![c] = TRUE]
    /\ timing' = [timing EXCEPT ![c] = FALSE]
    /\ strand' = [strand EXCEPT ![c] = q]
    /\ UNCHANGED <<stopped, reading>>

\* The handler returns and starts nothing.
Return(c, q) ==
    /\ timing' = [timing EXCEPT ![c] = FALSE]
    /\ strand' = [strand EXCEPT ![c] = q]
    /\ UNCHANGED <<stopped, reading, writing>>

\* stop_impl: the timer and the socket are cancelled, so that what is outstanding
\* becomes ready as aborted.  q already has the aborted timer.
StopImpl(c, q) ==
    /\ stopped' = [stopped EXCEPT ![c] = TRUE]
    /\ strand' = [strand EXCEPT ![c] =
          q \o (CASE reading[c] = "header" -> <<"headerError">>
                  [] reading[c] = "payload" -> <<"payloadError">>
                  [] OTHER -> <<>>)
            \o (IF writing[c] THEN <<"writeError">> ELSE <<>>)]
    /\ reading' = [reading EXCEPT ![c] = "none"]
    /\ writing' = [writing EXCEPT ![c] = FALSE]
    /\ timing' = [timing EXCEPT ![c] = FALSE]

\* route_request.
Allowed(state, code) ==
    CASE state = "AwaitingClientHello" -> code = "ClientHello"
      [] state = "AwaitingHandshakeAck" -> code = "ClientHandshakeAck"
      [] state = "HandshakeComplete" -> code \notin {"ClientHello", "ClientHandshakeAck"}

\* apply_request.
Applied(state, code) ==
    CASE ~Allowed(state, code) -> state
      [] Allowed(state, code) /\ code = "ClientHello" -> "AwaitingHandshakeAck"
      [] Allowed(state, code) /\ code = "ClientHandshakeAck" -> "HandshakeComplete"
      [] OTHER -> state

\* process_frame: an unknown code ends the connection, every known one is answered.
ProcessFrame(c, q) ==
    \/ /\ Return(c, q)
       /\ UNCHANGED session
    \/ \E code \in RequestCode :
         /\ session' = [session EXCEPT ![c] = Applied(session[c], code)]
         /\ BeginWrite(c, q)

-----------------------------------------------------------------------------
(* A connection: its strand runs the first ready handler.                  *)

Runs(c, h) == strand[c] # <<>> /\ Head(strand[c]) = h

RunStart(c) ==
    /\ Runs(c, "start")
    /\ IF stopped[c] THEN Return(c, Tail(strand[c]))
       ELSE BeginRead(c, Tail(strand[c]), "header")
    /\ UNCHANGED <<serverVars, session>>

RunStop(c) ==
    /\ Runs(c, "stop")
    /\ IF stopped[c]
       THEN /\ strand' = [strand EXCEPT ![c] = Tail(@)]
            /\ UNCHANGED <<stopped, reading, writing, timing>>
       ELSE StopImpl(c, Tail(strand[c]) \o AbortedTimer(c))
    /\ UNCHANGED <<serverVars, session>>

\* Every read handler first cancels the timer.
AfterRead(c) == Tail(strand[c]) \o AbortedTimer(c)

\* The header announces no payload, some payload or too much of it.
RunHeader(c) ==
    /\ Runs(c, "header")
    /\ IF stopped[c]
       THEN Return(c, AfterRead(c)) /\ UNCHANGED session
       ELSE \/ Return(c, AfterRead(c)) /\ UNCHANGED session
            \/ ProcessFrame(c, AfterRead(c))
            \/ BeginRead(c, AfterRead(c), "payload") /\ UNCHANGED session
    /\ UNCHANGED serverVars

RunHeaderError(c) ==
    /\ Runs(c, "headerError")
    /\ IF stopped[c] THEN Return(c, AfterRead(c)) ELSE StopImpl(c, AfterRead(c))
    /\ UNCHANGED <<serverVars, session>>

RunPayload(c) ==
    /\ Runs(c, "payload")
    /\ IF stopped[c]
       THEN Return(c, AfterRead(c)) /\ UNCHANGED session
       ELSE ProcessFrame(c, AfterRead(c))
    /\ UNCHANGED serverVars

\* The error is logged; the object goes when its last handler has run.
RunPayloadError(c) ==
    /\ Runs(c, "payloadError")
    /\ Return(c, AfterRead(c))
    /\ UNCHANGED <<serverVars, session>>

RunWritten(c) ==
    /\ Runs(c, "written")
    /\ IF stopped[c] THEN Return(c, Tail(strand[c]))
       ELSE BeginRead(c, Tail(strand[c]), "header")
    /\ UNCHANGED <<serverVars, session>>

RunWriteError(c) ==
    /\ Runs(c, "writeError")
    /\ Return(c, Tail(strand[c]))
    /\ UNCHANGED <<serverVars, session>>

\* A timeout that was ready when the read it guards completed runs like any other:
\* it stops the connection, whatever that does by then.
RunTimeout(c) ==
    /\ Runs(c, "timeout")
    /\ IF stopped[c]
       THEN /\ strand' = [strand EXCEPT ![c] = Tail(@)]
            /\ UNCHANGED <<stopped, reading, writing, timing>>
       ELSE StopImpl(c, Tail(strand[c]) \o AbortedTimer(c))
    /\ UNCHANGED <<serverVars, session>>

RunTimerAborted(c) ==
    /\ Runs(c, "timerAborted")
    /\ strand' = [strand EXCEPT ![c] = Tail(@)]
    /\ UNCHANGED <<serverVars, stopped, reading, writing, timing, session>>

ConnStep(c) ==
    \/ RunStart(c) \/ RunStop(c) \/ RunHeader(c) \/ RunHeaderError(c) \/ RunPayload(c)
    \/ RunPayloadError(c) \/ RunWritten(c) \/ RunWriteError(c) \/ RunTimeout(c)
    \/ RunTimerAborted(c)

-----------------------------------------------------------------------------
(* A connection: its operations become ready.                              *)

Ready(c, h) == strand' = [strand EXCEPT ![c] = Append(@, h)]

ReadReady(c) ==
    /\ reading[c] # "none"
    /\ \/ reading[c] = "header" /\ (Ready(c, "header") \/ Ready(c, "headerError"))
       \/ reading[c] = "payload" /\ (Ready(c, "payload") \/ Ready(c, "payloadError"))
    /\ reading' = [reading EXCEPT ![c] = "none"]
    /\ UNCHANGED <<serverVars, stopped, writing, timing, session>>

WriteReady(c) ==
    /\ writing[c]
    /\ Ready(c, "written") \/ Ready(c, "writeError")
    /\ writing' = [writing EXCEPT ![c] = FALSE]
    /\ UNCHANGED <<serverVars, stopped, reading, timing, session>>

TimerExpires(c) ==
    /\ timing[c]
    /\ Ready(c, "timeout")
    /\ timing' = [timing EXCEPT ![c] = FALSE]
    /\ UNCHANGED <<serverVars, stopped, reading, writing, session>>

-----------------------------------------------------------------------------
(* The server: its strand and its operations.                              *)

ServerRuns(h) == serverStrand # <<>> /\ Head(serverStrand) = h
ServerRest == Tail(serverStrand)

\* accept_next.
AcceptNext == accepting' = ~serverStopped

RunServerStart ==
    /\ ServerRuns("start")
    /\ AcceptNext
    /\ serverStrand' = ServerRest
    /\ UNCHANGED <<serverStopped, retrying, registry, signalled, fresh, connVars>>

\* prune_expired_connections.
Unexpired == {c \in registry : Alive(c)}

\* Faulty variant: off by one at the limit.
HasRoomAndOneMore == Cardinality(Unexpired) <= MaxActive
\* Faulty variant: expired entries are not pruned.
HasRoomUnpruned == Cardinality(registry) < MaxActive

HasRoom == Cardinality(Unexpired) < MaxActive

\* The accept handler got socket c.
RunAccepted(c) ==
    /\ ServerRuns("accepted") /\ c \in fresh
    /\ fresh' = fresh \ {c}
    /\ serverStrand' = ServerRest
    /\ AcceptNext
    /\ \/ /\ serverStopped
          /\ UNCHANGED <<registry, strand>>
       \/ /\ ~serverStopped /\ ~HasRoom
          /\ registry' = Unexpired
          /\ UNCHANGED strand
       \/ /\ ~serverStopped /\ HasRoom
          /\ registry' = Unexpired \cup {c}
          /\ Ready(c, "start")
    /\ UNCHANGED <<serverStopped, retrying, signalled, stopped, reading, writing, timing,
                   session>>

\* Faulty variant: a failed accept is final.
RunRefusedForever ==
    /\ ServerRuns("refused")
    /\ serverStrand' = ServerRest
    /\ UNCHANGED <<serverStopped, accepting, retrying, registry, signalled, fresh, connVars>>

\* The accept handler got an error.
RunRefused ==
    /\ ServerRuns("refused")
    /\ serverStrand' = ServerRest
    /\ retrying' = ~serverStopped
    /\ UNCHANGED <<serverStopped, accepting, registry, signalled, fresh, connVars>>

RunRetry ==
    /\ ServerRuns("retry")
    /\ serverStrand' = ServerRest
    /\ AcceptNext
    /\ UNCHANGED <<serverStopped, retrying, registry, signalled, fresh, connVars>>

RunRetryAborted ==
    /\ ServerRuns("retryAborted")
    /\ serverStrand' = ServerRest
    /\ UNCHANGED <<serverStopped, accepting, retrying, registry, signalled, fresh, connVars>>

\* Faulty variant: the connections are left to themselves.
StopForgetsConnections ==
    /\ ServerRuns("stop")
    /\ serverStopped' = TRUE
    /\ accepting' = FALSE
    /\ retrying' = FALSE
    /\ registry' = {}
    /\ serverStrand' = ServerRest \o (IF accepting THEN <<"refused">> ELSE <<>>)
                                  \o (IF retrying THEN <<"retryAborted">> ELSE <<>>)
    /\ UNCHANGED <<signalled, fresh, connVars>>

\* stop_impl: the acceptor is closed, every live connection is asked to stop, the
\* retry timer is cancelled.
RunServerStop ==
    /\ ServerRuns("stop")
    /\ serverStopped' = TRUE
    /\ accepting' = FALSE
    /\ retrying' = FALSE
    /\ registry' = {}
    /\ serverStrand' = ServerRest \o (IF accepting THEN <<"refused">> ELSE <<>>)
                                  \o (IF retrying THEN <<"retryAborted">> ELSE <<>>)
    /\ strand' = [c \in Conn |-> IF c \in Unexpired THEN Append(strand[c], "stop")
                                 ELSE strand[c]]
    /\ UNCHANGED <<signalled, fresh, stopped, reading, writing, timing, session>>

ServerStep ==
    \/ RunServerStart \/ RunRefused \/ RunRetry \/ RunRetryAborted \/ RunServerStop
    \/ \E c \in Conn : RunAccepted(c)

\* A connection arrives, or accept fails.
AcceptReady ==
    /\ accepting
    /\ \/ fresh # {} /\ serverStrand' = Append(serverStrand, "accepted")
       \/ serverStrand' = Append(serverStrand, "refused")
    /\ accepting' = FALSE
    /\ UNCHANGED <<serverStopped, retrying, registry, signalled, fresh, connVars>>

RetryExpires ==
    /\ retrying
    /\ serverStrand' = Append(serverStrand, "retry")
    /\ retrying' = FALSE
    /\ UNCHANGED <<serverStopped, accepting, registry, signalled, fresh, connVars>>

\* The signal handler of main calls server.stop().
Signal ==
    /\ ~signalled
    /\ signalled' = TRUE
    /\ serverStrand' = Append(serverStrand, "stop")
    /\ UNCHANGED <<serverStopped, accepting, retrying, registry, fresh, connVars>>

Next ==
    \/ ServerStep \/ AcceptReady \/ RetryExpires \/ Signal
    \/ \E c \in Conn : ConnStep(c) \/ ReadReady(c) \/ WriteReady(c) \/ TimerExpires(c)

Spec == Init /\ [][Next]_vars

\* The four threads run every ready handler, and timers expire.
FairSpec ==
    /\ Spec
    /\ WF_vars(ServerStep) /\ WF_vars(RetryExpires)
    /\ \A c \in Conn : WF_vars(ConnStep(c)) /\ WF_vars(TimerExpires(c))

-----------------------------------------------------------------------------
(* Properties.                                                             *)

\* AsyncServer::accept_next and prune_expired_connections: at most
\* max_active_connections_ connection objects live at a time, those that are
\* stopping included, although the registry only observes their life.
AdmissionBound == Cardinality({c \in Conn : Alive(c)}) <= MaxActive

\* A socket is refused only while that many connections live: an entry whose
\* connection is gone never costs a slot.
RefusalIsJustified ==
    [][\A c \in Conn :
         c \in fresh /\ c \notin fresh' /\ ~serverStopped /\ strand'[c] = <<>>
           => Cardinality({d \in Conn : Alive(d)}) >= MaxActive]_vars

\* While the server runs there is exactly one thing that will lead to the next
\* accept: the accept, its result, the retry delay or its end.  Errors never end
\* the accept loop and never double it.
Driving(h) == h \in {"start", "accepted", "refused", "retry"}
AcceptLoop ==
    ~serverStopped =>
        Cardinality({i \in DOMAIN serverStrand : Driving(serverStrand[i])})
          + (IF accepting THEN 1 ELSE 0) + (IF retrying THEN 1 ELSE 0) = 1

\* A connection has at most one read or write under way, in the kernel or ready, so
\* no buffer of the object is written while an operation uses it.
OneOperation ==
    \A c \in Conn :
        Cardinality({i \in DOMAIN strand[c] :
                       strand[c][i] \in {"start", "header", "headerError", "payload",
                                         "payloadError", "written", "writeError"}})
          + (IF reading[c] # "none" THEN 1 ELSE 0) + (IF writing[c] THEN 1 ELSE 0) <= 1

\* A read in the kernel is guarded: its timer runs or its timeout is ready, so that
\* a silent peer cannot keep a connection.
ReadIsGuarded ==
    \A c \in Conn : reading[c] # "none" =>
        timing[c] \/ \E i \in DOMAIN strand[c] : strand[c][i] \in {"timeout", "stop"}

\* README.md of server_cpp: after a signal the io_context drains; every operation
\* ends and every handler runs, so that the threads can be joined.
Drained ==
    /\ serverStrand = <<>> /\ ~accepting /\ ~retrying
    /\ \A c \in Conn : ~Alive(c)
ShutdownDrains == signalled ~> Drained
=============================================================================
