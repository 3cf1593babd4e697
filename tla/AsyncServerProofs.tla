-------------------------- MODULE AsyncServerProofs -------------------------
(***************************************************************************)
(* Proofs about AsyncServer, for any number of sockets and any limit: the  *)
(* accept loop, the operations and the timer of a connection, and the      *)
(* number of connections that live.                                        *)
(***************************************************************************)
EXTENDS AsyncConnectionProofs

-----------------------------------------------------------------------------
(* The steps of the server preserve the invariant.                         *)

Drivers == {"start", "accepted", "refused", "retry"}

\* AcceptLoop, as an equation between counts ...
LEMMA AcceptLoopCount ==
    AcceptLoop <=>
        (~serverStopped => Count(serverStrand, Drivers) + Num(accepting) + Num(retrying) = 1)
<1>1. Places(serverStrand, Drivers) =
        {i \in DOMAIN serverStrand : Driving(serverStrand[i])}
  BY DEF Places, Drivers, Driving
<1> QED BY <1>1, Zenon DEF AcceptLoop, Count, Num

\* ... and the same of the next state.
LEMMA AcceptLoopCountNext ==
    AcceptLoop' <=>
        (~serverStopped' =>
            Count(serverStrand', Drivers) + Num(accepting') + Num(retrying') = 1)
<1>1. Places(serverStrand', Drivers) =
        {i \in DOMAIN serverStrand' : Driving(serverStrand'[i])}
  BY DEF Places, Drivers, Driving
<1> QED BY <1>1, Zenon DEF AcceptLoop, Count, Num

\* What the server's strand counts before a step.
LEMMA ServerNow ==
    ASSUME IInv
    PROVE  /\ serverStrand \in Seq(ServerHandler)
           /\ serverStopped \in BOOLEAN /\ accepting \in BOOLEAN /\ retrying \in BOOLEAN
           /\ signalled \in BOOLEAN
           /\ Count(serverStrand, Drivers) \in Nat /\ Count(serverStrand, Stops) \in Nat
           /\ ~serverStopped =>
                 Count(serverStrand, Drivers) + Num(accepting) + Num(retrying) = 1
           /\ Count(serverStrand, Stops) + Num(serverStopped) <= Num(signalled)
<1>1. /\ serverStrand \in Seq(ServerHandler)
      /\ serverStopped \in BOOLEAN /\ accepting \in BOOLEAN /\ retrying \in BOOLEAN
      /\ signalled \in BOOLEAN
  BY DEF IInv, TypeOK
<1>2. Count(serverStrand, Drivers) \in Nat /\ Count(serverStrand, Stops) \in Nat
  BY <1>1, CountType
<1>3. ~serverStopped => Count(serverStrand, Drivers) + Num(accepting) + Num(retrying) = 1
  BY AcceptLoopCount, Zenon DEF IInv
<1>4. Count(serverStrand, Stops) + Num(serverStopped) <= Num(signalled)
  BY Zenon DEF IInv, StopOnce
<1> QED BY <1>1, <1>2, <1>3, <1>4

\* What is left of the server's queue when its first handler runs.
LEMMA ServerPop ==
    ASSUME IInv, NEW h \in ServerHandler, ServerRuns(h)
    PROVE  /\ ServerRest \in Seq(ServerHandler)
           /\ Count(ServerRest, Drivers) = Count(serverStrand, Drivers) - Num(h \in Drivers)
           /\ Count(ServerRest, Stops) = Count(serverStrand, Stops) - Num(h \in Stops)
           /\ Count(ServerRest, Drivers) \in Nat /\ Count(ServerRest, Stops) \in Nat
<1>1. serverStrand \in Seq(ServerHandler) /\ serverStrand # <<>> /\ Head(serverStrand) = h
  BY DEF IInv, TypeOK, ServerRuns
<1>2. ServerRest \in Seq(ServerHandler) BY <1>1, SeqTail DEF ServerRest
<1>3. Count(ServerRest, Drivers) = Count(serverStrand, Drivers) - Num(h \in Drivers)
  BY <1>1, CountTail DEF ServerRest
<1>4. Count(ServerRest, Stops) = Count(serverStrand, Stops) - Num(h \in Stops)
  BY <1>1, CountTail DEF ServerRest
<1>5. Count(ServerRest, Drivers) \in Nat /\ Count(ServerRest, Stops) \in Nat
  BY <1>2, CountType
<1> QED BY <1>2, <1>3, <1>4, <1>5

\* A step of the accept loop that changes no connection.
LEMMA ServerUpdate ==
    ASSUME IInv, UNCHANGED <<serverStopped, registry, fresh, connVars>>,
           serverStrand' \in Seq(ServerHandler), accepting' \in BOOLEAN,
           retrying' \in BOOLEAN, signalled' \in BOOLEAN,
           ~serverStopped =>
               Count(serverStrand', Drivers) + Num(accepting') + Num(retrying') = 1,
           Count(serverStrand', Stops) + Num(serverStopped) <= Num(signalled')
    PROVE  IInv'
<1>1. TypeOK' BY DEF IInv, TypeOK, connVars
<1>2. \A d \in Conn : Alive(d)' <=> Alive(d) BY DEF Alive, connVars
<1>3. ConnInv'
  <2> SUFFICES ASSUME NEW d \in Conn
               PROVE  /\ Connected(d)' /\ (Count(strand[d], Stops) <= Num(serverStopped))'
                      /\ (d \in fresh => ~Alive(d))'
    BY DEF ConnInv
  <2>1. Connected(d) /\ Count(strand[d], Stops) <= Num(serverStopped)
        /\ (d \in fresh => ~Alive(d))
    BY DEF IInv, ConnInv
  <2> QED BY <1>2, <2>1, Zenon DEF Connected, connVars
<1>4. AcceptLoop' BY AcceptLoopCountNext, Zenon
<1>5. StopOnce' BY Zenon DEF StopOnce
<1>6. AdmissionBound' BY <1>2, AliveShrinks DEF IInv
<1>7. Registered' BY <1>2 DEF IInv, Registered
<1> QED BY <1>1, <1>3, <1>4, <1>5, <1>6, <1>7 DEF IInv

\* accept_next, called by a handler that drives the accept loop.
LEMMA AcceptNextKeeps ==
    ASSUME IInv, NEW h \in {"start", "retry", "accepted"}, ServerRuns(h), AcceptNext,
           serverStrand' = ServerRest, UNCHANGED <<serverStopped, retrying, signalled>>
    PROVE  /\ serverStrand' \in Seq(ServerHandler) /\ accepting' \in BOOLEAN
           /\ ~serverStopped =>
                 Count(serverStrand', Drivers) + Num(accepting') + Num(retrying') = 1
           /\ Count(serverStrand', Stops) + Num(serverStopped) <= Num(signalled')
<1>1. /\ serverStrand \in Seq(ServerHandler)
      /\ serverStopped \in BOOLEAN /\ accepting \in BOOLEAN /\ retrying \in BOOLEAN
      /\ signalled \in BOOLEAN
      /\ Count(serverStrand, Drivers) \in Nat /\ Count(serverStrand, Stops) \in Nat
      /\ ~serverStopped =>
            Count(serverStrand, Drivers) + Num(accepting) + Num(retrying) = 1
      /\ Count(serverStrand, Stops) + Num(serverStopped) <= Num(signalled)
  BY ServerNow
<1>2. h \in ServerHandler BY DEF ServerHandler
<1>3. h \in Drivers /\ h \notin Stops BY DEF Drivers, Stops
<1>4. /\ ServerRest \in Seq(ServerHandler)
      /\ Count(ServerRest, Drivers) = Count(serverStrand, Drivers) - Num(h \in Drivers)
      /\ Count(ServerRest, Stops) = Count(serverStrand, Stops) - Num(h \in Stops)
      /\ Count(ServerRest, Drivers) \in Nat
  BY <1>2, ServerPop
<1>5. Num(h \in Drivers) = 1 /\ Num(h \in Stops) = 0 BY <1>3 DEF Num
<1>6. accepting' = ~serverStopped BY DEF AcceptNext
<1>7. ASSUME ~serverStopped
      PROVE  Count(serverStrand', Drivers) + Num(accepting') + Num(retrying') = 1
  <2>1. Num(accepting') = 1 BY <1>6, <1>7, Zenon DEF Num
  <2>2. Count(serverStrand, Drivers) >= 1 BY <1>1, <1>4, <1>5
  <2>3. Count(serverStrand, Drivers) = 1 /\ Num(retrying) = 0 BY <1>1, <1>7, <2>2 DEF Num
  <2> QED BY <1>4, <1>5, <2>1, <2>3
<1>8. Count(serverStrand', Stops) + Num(serverStopped) <= Num(signalled')
  BY <1>1, <1>4, <1>5 DEF Num
<1> QED BY <1>1, <1>4, <1>6, <1>7, <1>8

\* Every step of the accept loop but the admission of a connection keeps IInv.
LEMMA AcceptStepKeeps ==
    ASSUME IInv, \/ RunServerStart \/ RunRefused \/ RunRetry \/ RunRetryAborted
                 \/ AcceptReady \/ RetryExpires \/ Signal
    PROVE  IInv'
<1>1. /\ serverStrand \in Seq(ServerHandler)
      /\ serverStopped \in BOOLEAN /\ accepting \in BOOLEAN /\ retrying \in BOOLEAN
      /\ signalled \in BOOLEAN
      /\ Count(serverStrand, Drivers) \in Nat /\ Count(serverStrand, Stops) \in Nat
      /\ ~serverStopped =>
            Count(serverStrand, Drivers) + Num(accepting) + Num(retrying) = 1
      /\ Count(serverStrand, Stops) + Num(serverStopped) <= Num(signalled)
  BY ServerNow
<1>2. /\ "start" \in ServerHandler /\ "refused" \in ServerHandler /\ "retry" \in ServerHandler
      /\ "retryAborted" \in ServerHandler /\ "accepted" \in ServerHandler
      /\ "stop" \in ServerHandler
  BY DEF ServerHandler
<1>3. /\ \A h \in {"start", "refused", "retry", "accepted"} : h \in Drivers /\ h \notin Stops
      /\ "retryAborted" \notin Drivers /\ "retryAborted" \notin Stops
      /\ "stop" \notin Drivers /\ "stop" \in Stops
  BY DEF Drivers, Stops
<1>4. ASSUME NEW h \in {"start", "retry", "accepted"}, ServerRuns(h), AcceptNext,
             serverStrand' = ServerRest,
             UNCHANGED <<serverStopped, retrying, registry, signalled, fresh, connVars>>
      PROVE  IInv'
  <2>1. /\ serverStrand' \in Seq(ServerHandler) /\ accepting' \in BOOLEAN
        /\ ~serverStopped =>
              Count(serverStrand', Drivers) + Num(accepting') + Num(retrying') = 1
        /\ Count(serverStrand', Stops) + Num(serverStopped) <= Num(signalled')
    BY <1>4, AcceptNextKeeps
  <2> QED BY <1>1, <1>4, <2>1, ServerUpdate
<1>5. CASE RunServerStart BY <1>4, <1>5 DEF RunServerStart
<1>6. CASE RunRetry BY <1>4, <1>6 DEF RunRetry
<1>7. CASE RunRefused
  <2>1. /\ ServerRest \in Seq(ServerHandler)
        /\ Count(ServerRest, Drivers) = Count(serverStrand, Drivers) - Num("refused" \in Drivers)
        /\ Count(ServerRest, Stops) = Count(serverStrand, Stops) - Num("refused" \in Stops)
        /\ Count(ServerRest, Drivers) \in Nat
    BY <1>2, <1>7, ServerPop DEF RunRefused
  <2>2. Num("refused" \in Drivers) = 1 /\ Num("refused" \in Stops) = 0 BY <1>3 DEF Num
  <2>3. /\ serverStrand' = ServerRest /\ retrying' = ~serverStopped
        /\ UNCHANGED <<serverStopped, accepting, registry, signalled, fresh, connVars>>
    BY <1>7 DEF RunRefused
  <2>4. ~serverStopped => Count(serverStrand', Drivers) + Num(accepting') + Num(retrying') = 1
    <3> SUFFICES ASSUME ~serverStopped
                 PROVE  Count(serverStrand', Drivers) + Num(accepting') + Num(retrying') = 1
      OBVIOUS
    <3>1. Num(retrying') = 1 BY <2>3, Zenon DEF Num
    <3>2. accepting' = accepting /\ serverStrand' = ServerRest BY <2>3
    <3>3. Count(serverStrand, Drivers) >= 1 BY <1>1, <2>1, <2>2
    <3>4. Count(serverStrand, Drivers) = 1 /\ Num(accepting) = 0 BY <1>1, <3>3 DEF Num
    <3> QED BY <2>1, <2>2, <3>1, <3>2, <3>4
  <2>5. Count(serverStrand', Stops) + Num(serverStopped) <= Num(signalled')
    BY <1>1, <2>1, <2>2, <2>3 DEF Num
  <2> QED BY <1>1, <2>1, <2>3, <2>4, <2>5, ServerUpdate
<1>8. CASE RunRetryAborted
  <2>1. /\ ServerRest \in Seq(ServerHandler)
        /\ Count(ServerRest, Drivers) =
             Count(serverStrand, Drivers) - Num("retryAborted" \in Drivers)
        /\ Count(ServerRest, Stops) = Count(serverStrand, Stops) - Num("retryAborted" \in Stops)
    BY <1>2, <1>8, ServerPop DEF RunRetryAborted
  <2>2. Num("retryAborted" \in Drivers) = 0 /\ Num("retryAborted" \in Stops) = 0
    BY <1>3 DEF Num
  <2>3. /\ serverStrand' = ServerRest
        /\ UNCHANGED <<serverStopped, accepting, retrying, registry, signalled, fresh, connVars>>
    BY <1>8 DEF RunRetryAborted
  <2>4. ~serverStopped => Count(serverStrand', Drivers) + Num(accepting') + Num(retrying') = 1
    BY <1>1, <2>1, <2>2, <2>3
  <2>5. Count(serverStrand', Stops) + Num(serverStopped) <= Num(signalled')
    BY <1>1, <2>1, <2>2, <2>3 DEF Num
  <2> QED BY <1>1, <2>1, <2>3, <2>4, <2>5, ServerUpdate
<1>9. ASSUME NEW h \in ServerHandler
      PROVE  /\ Append(serverStrand, h) \in Seq(ServerHandler)
             /\ Count(Append(serverStrand, h), Drivers) =
                  Count(serverStrand, Drivers) + Num(h \in Drivers)
             /\ Count(Append(serverStrand, h), Stops) =
                  Count(serverStrand, Stops) + Num(h \in Stops)
  BY <1>1, CountAppend, SeqAppend
<1>10. CASE AcceptReady
  <2>1. PICK h \in {"accepted", "refused"} : serverStrand' = Append(serverStrand, h)
    BY <1>10 DEF AcceptReady
  <2>2. /\ accepting = TRUE /\ accepting' = FALSE
        /\ UNCHANGED <<serverStopped, retrying, registry, signalled, fresh, connVars>>
    BY <1>1, <1>10 DEF AcceptReady
  <2>3. h \in ServerHandler /\ Num(h \in Drivers) = 1 /\ Num(h \in Stops) = 0
    BY <1>2, <1>3 DEF Num
  <2>4. ~serverStopped => Count(serverStrand', Drivers) + Num(accepting') + Num(retrying') = 1
    BY <1>1, <1>9, <2>1, <2>2, <2>3 DEF Num
  <2>5. Count(serverStrand', Stops) + Num(serverStopped) <= Num(signalled')
    BY <1>1, <1>9, <2>1, <2>2, <2>3 DEF Num
  <2>6. serverStrand' \in Seq(ServerHandler) BY <1>9, <2>1, <2>3
  <2> QED BY <1>1, <2>2, <2>4, <2>5, <2>6, ServerUpdate, Zenon
<1>11. CASE RetryExpires
  <2>1. /\ serverStrand' = Append(serverStrand, "retry") /\ retrying = TRUE /\ retrying' = FALSE
        /\ UNCHANGED <<serverStopped, accepting, registry, signalled, fresh, connVars>>
    BY <1>1, <1>11 DEF RetryExpires
  <2>2. Num("retry" \in Drivers) = 1 /\ Num("retry" \in Stops) = 0 BY <1>3 DEF Num
  <2>3. ~serverStopped => Count(serverStrand', Drivers) + Num(accepting') + Num(retrying') = 1
    BY <1>1, <1>2, <1>9, <2>1, <2>2 DEF Num
  <2>4. Count(serverStrand', Stops) + Num(serverStopped) <= Num(signalled')
    BY <1>1, <1>2, <1>9, <2>1, <2>2 DEF Num
  <2>5. serverStrand' \in Seq(ServerHandler) BY <1>2, <1>9, <2>1
  <2> QED BY <1>1, <2>1, <2>3, <2>4, <2>5, ServerUpdate, Zenon
<1>12. CASE Signal
  <2>1. /\ serverStrand' = Append(serverStrand, "stop") /\ signalled = FALSE /\ signalled' = TRUE
        /\ UNCHANGED <<serverStopped, accepting, retrying, registry, fresh, connVars>>
    BY <1>1, <1>12 DEF Signal
  <2>2. Num("stop" \in Drivers) = 0 /\ Num("stop" \in Stops) = 1 BY <1>3 DEF Num
  <2>3. ~serverStopped => Count(serverStrand', Drivers) + Num(accepting') + Num(retrying') = 1
    BY <1>1, <1>2, <1>9, <2>1, <2>2 DEF Num
  <2>4. Count(serverStrand', Stops) + Num(serverStopped) <= Num(signalled')
    BY <1>1, <1>2, <1>9, <2>1, <2>2 DEF Num
  <2>5. serverStrand' \in Seq(ServerHandler) BY <1>2, <1>9, <2>1
  <2> QED BY <1>1, <2>1, <2>3, <2>4, <2>5, ServerUpdate
<1> QED BY <1>5, <1>6, <1>7, <1>8, <1>10, <1>11, <1>12

\* Admitting or turning away an accepted connection keeps IInv.
LEMMA AcceptedKeeps ==
    ASSUME IInv, NEW c \in Conn, RunAccepted(c)
    PROVE  IInv'
<1>1. /\ ServerRuns("accepted") /\ c \in fresh /\ fresh' = fresh \ {c}
      /\ serverStrand' = ServerRest /\ AcceptNext
      /\ UNCHANGED <<serverStopped, retrying, signalled, stopped, reading, writing, timing,
                     session>>
  BY DEF RunAccepted
<1>2. /\ serverStrand' \in Seq(ServerHandler) /\ accepting' \in BOOLEAN
      /\ ~serverStopped =>
            Count(serverStrand', Drivers) + Num(accepting') + Num(retrying') = 1
      /\ Count(serverStrand', Stops) + Num(serverStopped) <= Num(signalled')
  BY <1>1, AcceptNextKeeps
<1>3. AcceptLoop' BY <1>1, <1>2, AcceptLoopCountNext, Zenon
<1>4. StopOnce' BY <1>1, <1>2, Zenon DEF StopOnce
<1>5. Unexpired \subseteq Conn BY DEF Unexpired, IInv, TypeOK
<1>6. CASE UNCHANGED strand /\ registry' \in {registry, Unexpired}
  <2>1. TypeOK' BY <1>1, <1>2, <1>5, <1>6 DEF IInv, TypeOK
  <2>2. \A d \in Conn : Alive(d)' <=> Alive(d) BY <1>1, <1>6 DEF Alive
  <2>3. ConnInv'
    <3> SUFFICES ASSUME NEW d \in Conn
                 PROVE  /\ Connected(d)' /\ (Count(strand[d], Stops) <= Num(serverStopped))'
                        /\ (d \in fresh => ~Alive(d))'
      BY DEF ConnInv
    <3>1. Connected(d) /\ Count(strand[d], Stops) <= Num(serverStopped)
          /\ (d \in fresh => ~Alive(d))
      BY DEF IInv, ConnInv
    <3>2. d \in fresh' => d \in fresh BY <1>1
    <3> QED BY <1>1, <1>6, <2>2, <3>1, <3>2, Zenon DEF Connected
  <2>4. AdmissionBound' BY <2>2, AliveShrinks DEF IInv
  <2>5. Registered' BY <1>1, <1>6, <2>2 DEF IInv, Registered, Unexpired
  <2> QED BY <1>3, <1>4, <2>1, <2>3, <2>4, <2>5 DEF IInv
<1>7. CASE /\ ~serverStopped /\ HasRoom /\ registry' = Unexpired \cup {c}
           /\ Ready(c, "start")
  <2>1. ~Alive(c) BY <1>1 DEF IInv, ConnInv
  <2>2. /\ strand[c] = <<>> /\ reading[c] = "none" /\ ~writing[c] /\ ~timing[c]
    BY <2>1 DEF Alive
  <2>3. strand' = [strand EXCEPT ![c] = <<"start">>]
    <3>1. Append(<<>>, "start") = <<"start">> OBVIOUS
    <3> QED BY <1>7, <2>2, <3>1 DEF Ready
  <2>4. strand'[c] = <<"start">> /\ \A d \in Conn \ {c} : strand'[d] = strand[d]
    BY <2>3 DEF IInv, TypeOK
  <2>5. "start" \in ConnHandler /\ "start" \in Ops /\ "start" \notin Timers /\ "start" \notin Stops
    BY DEF ConnHandler, Ops, Timers, Stops
  <2>6. <<"start">> \in Seq(ConnHandler) /\ Len(<<"start">>) = 1 BY <2>5
  <2>7. TypeOK' BY <1>1, <1>2, <1>5, <1>7, <2>3, <2>4, <2>6 DEF IInv, TypeOK
  <2>8. /\ Count(<<"start">>, Ops) = 1 /\ Count(<<"start">>, Timers) = 0
        /\ Count(<<"start">>, Stops) = 0
    <3>1. /\ Count(<<"start">>, Ops) = Num("start" \in Ops)
          /\ Count(<<"start">>, Timers) = Num("start" \in Timers)
          /\ Count(<<"start">>, Stops) = Num("start" \in Stops)
      BY CountOne
    <3>2. Num("start" \in Ops) = 1 /\ Num("start" \in Timers) = 0 /\ Num("start" \in Stops) = 0
      BY <2>5 DEF Num
    <3> QED BY <3>1, <3>2, Zenon
  <2>9. ConnInv'
    <3>1. ASSUME NEW d \in Conn \ {c}
          PROVE  /\ Connected(d)' /\ (Count(strand[d], Stops) <= Num(serverStopped))'
                 /\ (d \in fresh => ~Alive(d))'
      <4>1. Connected(d) /\ Count(strand[d], Stops) <= Num(serverStopped)
            /\ (d \in fresh => ~Alive(d))
        BY DEF IInv, ConnInv
      <4>2. d \in fresh' => d \in fresh BY <1>1
      <4>3. Alive(d)' <=> Alive(d) BY <1>1, <2>4, Zenon DEF Alive
      <4> QED BY <1>1, <2>4, <4>1, <4>2, <4>3, Zenon DEF Connected
    <3>2. \A i, j \in 1..Len(<<"start">>) : ~(i < j) BY <2>6
    <3>3. Lone(<<"start">>, timing[c]) BY <3>2, Zenon DEF Lone
    <3>4. Count(<<"start">>, Ops) + Num(reading[c] # "none") + Num(writing[c]) <= 1
      BY <2>2, <2>8 DEF Num
    <3>5. Count(<<"start">>, Timers) + Num(timing[c]) <= 2 BY <2>2, <2>8 DEF Num
    <3>6. Good(<<"start">>, reading[c], writing[c], timing[c], stopped[c])
      BY <2>2, <3>3, <3>4, <3>5, Zenon DEF Good, Tidy
    <3>7. Connected(c)' BY <1>1, <2>4, <3>6, Zenon DEF Connected
    <3>8. (Count(strand[c], Stops) <= Num(serverStopped))' BY <1>1, <2>4, <2>8 DEF Num
    <3>9. c \notin fresh' BY <1>1
    <3> QED BY <3>1, <3>7, <3>8, <3>9, Zenon DEF ConnInv
  <2>10. \A d \in Conn : Alive(d)' => d \in Unexpired \cup {c}
    <3>1. \A d \in Conn \ {c} : Alive(d)' => Alive(d) BY <1>1, <2>4 DEF Alive
    <3> QED BY <1>7, <3>1 DEF IInv, Registered, Unexpired
  <2>11. AdmissionBound'
    <3> DEFINE B == {d \in Conn : Alive(d)'}
    <3>1. IsFiniteSet(Unexpired) BY <1>5, ServerAssumption, FS_Subset
    <3>2. /\ IsFiniteSet(Unexpired \cup {c})
          /\ Cardinality(Unexpired \cup {c}) \in
               {Cardinality(Unexpired), Cardinality(Unexpired) + 1}
      BY <3>1, FS_AddElement
    <3>3. B \subseteq Unexpired \cup {c} BY <2>10
    <3>4. IsFiniteSet(B) /\ Cardinality(B) <= Cardinality(Unexpired \cup {c})
      BY <3>2, <3>3, FS_Subset
    <3>5. /\ Cardinality(Unexpired) \in Nat /\ Cardinality(B) \in Nat
          /\ Cardinality(Unexpired) < MaxActive
      BY <1>7, <3>1, <3>4, FS_CardinalityType DEF HasRoom
    <3> HIDE DEF B
    <3>6. Cardinality(B) <= MaxActive BY <3>2, <3>4, <3>5, ServerAssumption
    <3> QED BY <3>6 DEF AdmissionBound, B
  <2>12. Registered' BY <1>7, <2>10 DEF Registered
  <2> QED BY <1>3, <1>4, <2>7, <2>9, <2>11, <2>12 DEF IInv
<1> QED BY <1>6, <1>7 DEF RunAccepted

\* AsyncServer::stop_impl, which posts a stop to every registered connection, keeps IInv.
LEMMA StopKeeps ==
    ASSUME IInv, RunServerStop
    PROVE  IInv'
<1>1. /\ serverStrand \in Seq(ServerHandler)
      /\ serverStopped \in BOOLEAN /\ accepting \in BOOLEAN /\ retrying \in BOOLEAN
      /\ signalled \in BOOLEAN
      /\ Count(serverStrand, Stops) \in Nat
      /\ Count(serverStrand, Stops) + Num(serverStopped) <= Num(signalled)
  BY ServerNow
<1>2. "stop" \in ServerHandler /\ "stop" \in Stops /\ "stop" \in ConnHandler
      /\ "stop" \notin Ops /\ "stop" \notin Timers
  BY DEF ServerHandler, Stops, ConnHandler, Ops, Timers
<1>3. /\ ServerRuns("stop") /\ serverStopped' = TRUE /\ accepting' = FALSE /\ retrying' = FALSE
      /\ registry' = {} /\ UNCHANGED <<signalled, fresh, stopped, reading, writing, timing, session>>
  BY DEF RunServerStop
<1>4. /\ ServerRest \in Seq(ServerHandler)
      /\ Count(ServerRest, Stops) = Count(serverStrand, Stops) - Num("stop" \in Stops)
      /\ Count(ServerRest, Stops) \in Nat
  BY <1>2, <1>3, ServerPop
<1>5. ~serverStopped /\ signalled /\ Count(ServerRest, Stops) = 0
  BY <1>1, <1>2, <1>4 DEF Num
<1>6. serverStrand' \in Seq(ServerHandler) /\ Count(serverStrand', Stops) = 0
  <2> DEFINE e == IF accepting THEN <<"refused">> ELSE <<>>
             f == IF retrying THEN <<"retryAborted">> ELSE <<>>
  <2>1. "refused" \in ServerHandler /\ "retryAborted" \in ServerHandler
        /\ "refused" \notin Stops /\ "retryAborted" \notin Stops
    BY DEF ServerHandler, Stops
  <2>2. ASSUME NEW q \in Seq(ServerHandler), Count(q, Stops) = 0, NEW h \in ServerHandler \ Stops
        PROVE  /\ q \o <<h>> \in Seq(ServerHandler) /\ Count(q \o <<h>>, Stops) = 0
               /\ q \o <<>> = q
    <3>1. q \o <<h>> = Append(q, h) BY SeqAppend
    <3>2. Append(q, h) \in Seq(ServerHandler) BY SeqAppend
    <3>3. Count(Append(q, h), Stops) = Count(q, Stops) + Num(h \in Stops) BY CountAppend
    <3>4. Num(h \in Stops) = 0 BY DEF Num
    <3>5. q \o <<>> = q BY SeqNothing
    <3>6. Count(Append(q, h), Stops) = 0 BY <2>2, <3>3, <3>4
    <3> QED BY <3>1, <3>2, <3>5, <3>6, Zenon
  <2>3. ServerRest \o e \in Seq(ServerHandler) /\ Count(ServerRest \o e, Stops) = 0
    BY <1>4, <1>5, <2>1, <2>2, Zenon
  <2> HIDE DEF e
  <2>4. (ServerRest \o e) \o f \in Seq(ServerHandler) /\ Count((ServerRest \o e) \o f, Stops) = 0
    BY <2>1, <2>2, <2>3, Zenon
  <2> QED BY <2>4 DEF RunServerStop, e
<1>7. AcceptLoop' BY <1>3, Zenon DEF AcceptLoop
<1>8. StopOnce' BY <1>3, <1>5, <1>6 DEF StopOnce, Num
<1>9. Registered' BY <1>3 DEF Registered
<1>10. \A d \in Conn : strand'[d] = IF d \in Unexpired THEN Append(strand[d], "stop") ELSE strand[d]
  BY DEF RunServerStop
<1>11. \A d \in Conn : Alive(d)' => Alive(d)
  <2> TAKE d \in Conn
  <2>1. CASE d \in Unexpired BY <2>1 DEF Unexpired
  <2>2. CASE d \notin Unexpired BY <1>3, <1>10, <2>2 DEF Alive
  <2> QED BY <2>1, <2>2
<1>12. AdmissionBound' BY <1>11, AliveShrinks DEF IInv
<1>13. ASSUME NEW d \in Conn
       PROVE  /\ strand'[d] \in Seq(ConnHandler) /\ Len(strand'[d]) <= 4 /\ Connected(d)'
              /\ (Count(strand[d], Stops) <= Num(serverStopped))'
              /\ (d \in fresh => ~Alive(d))'
  <2> DEFINE s == strand[d]
             t == Append(strand[d], "stop")
  <2>1. /\ s \in Seq(ConnHandler) /\ reading[d] \in ReadOps
        /\ writing[d] \in BOOLEAN /\ timing[d] \in BOOLEAN /\ stopped[d] \in BOOLEAN
        /\ Good(s, reading[d], writing[d], timing[d], stopped[d])
    BY ConnectedNow
  <2>2. Count(s, Stops) <= Num(serverStopped) BY DEF IInv, ConnInv
  <2>3. Count(s, Ops) \in Nat /\ Count(s, Timers) \in Nat /\ Count(s, Stops) \in Nat
    BY <2>1, CountType
  <2>4. Count(s, Stops) = 0 BY <1>5, <2>2, <2>3 DEF Num
  <2>5. d \in fresh' => ~Alive(d)' BY <1>3, <1>11 DEF IInv, ConnInv
  <2>6. Num(serverStopped') = 1 BY <1>3 DEF Num
  <2>7. CASE d \notin Unexpired
    <3>1. strand'[d] = s BY <1>10, <2>7
    <3>2. Len(s) <= 4 BY DEF IInv, TypeOK
    <3>3. Connected(d)' BY <1>3, <2>1, <3>1, Zenon DEF Connected
    <3>4. (Count(strand[d], Stops) <= Num(serverStopped))' BY <2>4, <2>6, <3>1
    <3> QED BY <2>1, <2>5, <3>1, <3>2, <3>3, <3>4, Zenon
  <2>8. CASE d \in Unexpired
    <3>1. strand'[d] = t BY <1>10, <2>8, Zenon
    <3>2. /\ Count(t, Ops) = Count(s, Ops) + Num("stop" \in Ops)
          /\ Count(t, Timers) = Count(s, Timers) + Num("stop" \in Timers)
          /\ Count(t, Stops) = Count(s, Stops) + Num("stop" \in Stops)
      BY <1>2, <2>1, CountAppend
    <3>3. Num("stop" \in Ops) = 0 /\ Num("stop" \in Timers) = 0 /\ Num("stop" \in Stops) = 1
      BY <1>2 DEF Num
    <3>4. t \in Seq(ConnHandler) /\ Len(t) = Len(s) + 1 /\ t[Len(s) + 1] = "stop"
      BY <1>2, <2>1, SeqAppend
    <3>5. Len(s) \in Nat BY <2>1, SeqLength
    <3>6. Lone(t, timing[d]) BY <1>2, <2>1, LoneAppend, Zenon DEF Good, Tidy
    <3> HIDE DEF s, t
    <3>7. Count(t, Ops) = Count(s, Ops) /\ Count(t, Timers) = Count(s, Timers) /\ Count(t, Stops) = 1
      BY <2>3, <2>4, <3>2, <3>3
    <3>8. Len(t) \in 1..Len(t) /\ t[Len(t)] \in {"timeout", "stop"} BY <3>4, <3>5
    <3>9. Good(t, reading[d], writing[d], timing[d], stopped[d])
      BY <2>1, <3>6, <3>7, <3>8, Zenon DEF Good, Tidy
    <3>10. Len(t) <= 4 BY <2>1, <3>4, <3>7, <3>9, LengthBound
    <3>11. Connected(d)' BY <1>3, <3>1, <3>9, Zenon DEF Connected
    <3>12. (Count(strand[d], Stops) <= Num(serverStopped))' BY <2>6, <3>1, <3>7
    <3> QED BY <2>5, <3>1, <3>4, <3>10, <3>11, <3>12
  <2> QED BY <2>7, <2>8
<1>14. strand' = [d \in Conn |-> strand'[d]] BY DEF RunServerStop
<1>15. TypeOK' BY <1>1, <1>3, <1>6, <1>13, <1>14, Zenon DEF IInv, TypeOK
<1>16. ConnInv' BY <1>13, Zenon DEF ConnInv
<1> QED BY <1>7, <1>8, <1>9, <1>12, <1>15, <1>16 DEF IInv

-----------------------------------------------------------------------------
(* The theorems.                                                           *)

\* IInv holds when the server starts ...
LEMMA InitIInv == Init => IInv
<1> SUFFICES ASSUME Init PROVE IInv OBVIOUS
<1>1. <<>> \in Seq(ConnHandler) /\ Len(<<>>) = 0 OBVIOUS
<1>2. <<"start">> \in Seq(ServerHandler) BY DEF ServerHandler
<1>3. TypeOK
  <2>1. strand \in [Conn -> Seq(ConnHandler)] BY <1>1 DEF Init
  <2>2. \A d \in Conn : Len(strand[d]) <= 4 BY <1>1 DEF Init
  <2>3. serverStrand \in Seq(ServerHandler) BY <1>2 DEF Init
  <2> QED BY <2>1, <2>2, <2>3, Zenon DEF Init, TypeOK, SessionState
<1>4. \A d \in Conn : ~Alive(d) BY DEF Init, Alive
<1>5. ASSUME NEW d \in Conn PROVE Connected(d) /\ Count(strand[d], Stops) <= Num(serverStopped)
  <2>1. /\ strand[d] = <<>> /\ reading[d] = "none" /\ writing[d] = FALSE /\ timing[d] = FALSE
        /\ stopped[d] = FALSE /\ serverStopped = FALSE
    BY DEF Init
  <2>2. Count(<<>>, Ops) = 0 /\ Count(<<>>, Timers) = 0 /\ Count(<<>>, Stops) = 0
    BY CountEmpty
  <2>3. Lone(<<>>, FALSE) BY DEF Lone
  <2>4. Count(<<>>, Ops) + Num("none" # "none") + Num(FALSE) <= 1
        /\ Count(<<>>, Timers) + Num(FALSE) <= 2 /\ Count(<<>>, Stops) <= Num(FALSE)
    BY <2>2 DEF Num
  <2>5. Good(<<>>, "none", FALSE, FALSE, FALSE) BY <2>3, <2>4, Zenon DEF Good, Tidy
  <2> QED BY <2>1, <2>4, <2>5, Zenon DEF Connected
<1>6. ConnInv BY <1>4, <1>5, Zenon DEF ConnInv
<1>7. /\ Count(serverStrand, Drivers) = 1 /\ Count(serverStrand, Stops) = 0
  <2>1. serverStrand = <<"start">> BY DEF Init
  <2>2. /\ Count(<<"start">>, Drivers) = Num("start" \in Drivers)
        /\ Count(<<"start">>, Stops) = Num("start" \in Stops)
    BY CountOne
  <2>3. Num("start" \in Drivers) = 1 /\ Num("start" \in Stops) = 0
    BY DEF Num, Drivers, Stops
  <2> QED BY <2>1, <2>2, <2>3, Zenon
<1>8. Num(accepting) = 0 /\ Num(retrying) = 0 /\ Num(serverStopped) = 0 /\ Num(signalled) = 0
  BY DEF Init, Num
<1>9. Count(serverStrand, Drivers) + Num(accepting) + Num(retrying) = 1 BY <1>7, <1>8
<1>10. AcceptLoop BY <1>9, AcceptLoopCount, Zenon
<1>11. StopOnce BY <1>7, <1>8 DEF StopOnce
<1>12. AdmissionBound
  <2>1. {d \in Conn : Alive(d)} = {} BY <1>4
  <2> QED BY <2>1, FS_EmptySet, ServerAssumption DEF AdmissionBound
<1>13. Registered BY <1>4 DEF Registered
<1> QED BY <1>3, <1>6, <1>10, <1>11, <1>12, <1>13 DEF IInv

\* ... and every step keeps it.
LEMMA NextIInv == IInv /\ [Next]_vars => IInv'
<1> SUFFICES ASSUME IInv, [Next]_vars PROVE IInv' OBVIOUS
<1>1. CASE ServerStep
  BY <1>1, AcceptStepKeeps, AcceptedKeeps, StopKeeps DEF ServerStep
<1>2. CASE AcceptReady \/ RetryExpires \/ Signal BY <1>2, AcceptStepKeeps
<1>3. CASE \E c \in Conn : ConnStep(c) \/ ReadReady(c) \/ WriteReady(c) \/ TimerExpires(c)
  BY <1>3, ConnStepKeeps, OperationReadyKeeps, TimerExpiresStep
<1>4. CASE UNCHANGED vars
  <2>1. UNCHANGED <<serverStopped, registry, fresh, connVars>>
        /\ UNCHANGED <<serverStrand, accepting, retrying, signalled>>
    BY <1>4 DEF vars, serverVars
  <2> QED BY <2>1, ServerNow, ServerUpdate
<1> QED BY <1>1, <1>2, <1>3, <1>4 DEF Next

\* The invariant holds whatever the number of sockets and the limit.
THEOREM ServerInvariant == Spec => []IInv
BY InitIInv, NextIInv, PTL DEF Spec

\* Types of the C++ server; a strand never has more than four handlers ready.
THEOREM TypesHold == Spec => []TypeOK
<1>1. IInv => TypeOK BY DEF IInv
<1> QED BY <1>1, ServerInvariant, PTL

\* AsyncServer::accept_next and prune_expired_connections: never more than
\* max_active_connections_ connections live.
THEOREM AdmissionIsBounded == Spec => []AdmissionBound
<1>1. IInv => AdmissionBound BY DEF IInv
<1> QED BY <1>1, ServerInvariant, PTL

\* The accept loop of a running server neither ends nor doubles, whatever errors it meets.
THEOREM AcceptLoopGoesOn == Spec => []AcceptLoop
<1>1. IInv => AcceptLoop BY DEF IInv
<1> QED BY <1>1, ServerInvariant, PTL

\* AsyncConnection: at most one read or write is under way.
THEOREM OperationsAlternate == Spec => []OneOperation
<1>1. ASSUME IInv, NEW c \in Conn
      PROVE  Cardinality({i \in DOMAIN strand[c] :
                            strand[c][i] \in {"start", "header", "headerError", "payload",
                                              "payloadError", "written", "writeError"}})
               + (IF reading[c] # "none" THEN 1 ELSE 0) + (IF writing[c] THEN 1 ELSE 0) <= 1
  <2>1. Count(strand[c], Ops) + Num(reading[c] # "none") + Num(writing[c]) <= 1
    BY <1>1, ConnectedNow DEF Good, Tidy
  <2> QED BY <2>1, Zenon DEF Count, Places, Ops, Num
<1>2. IInv => OneOperation BY <1>1, Zenon DEF OneOperation
<1> QED BY <1>2, ServerInvariant, PTL

\* AsyncConnection: a read in the kernel always has its timer or its stop.
THEOREM ReadsAreGuarded == Spec => []ReadIsGuarded
<1>1. ASSUME IInv, NEW c \in Conn, reading[c] # "none"
      PROVE  timing[c] \/ \E i \in DOMAIN strand[c] : strand[c][i] \in {"timeout", "stop"}
  <2>1. timing[c] \/ \E i \in 1..Len(strand[c]) : strand[c][i] \in {"timeout", "stop"}
    BY <1>1, ConnectedNow DEF Good
  <2>2. DOMAIN strand[c] = 1..Len(strand[c]) BY <1>1, ConnectedNow, SeqLength
  <2> QED BY <2>1, <2>2
<1>2. IInv => ReadIsGuarded BY <1>1, Zenon DEF ReadIsGuarded
<1> QED BY <1>2, ServerInvariant, PTL

\* accept_next refuses a socket only when the limit is reached by connections that live.
THEOREM RefusalsAreJustified == Spec => RefusalIsJustified
<1> DEFINE Justified ==
       \A c \in Conn :
         c \in fresh /\ c \notin fresh' /\ ~serverStopped /\ strand'[c] = <<>>
           => Cardinality({d \in Conn : Alive(d)}) >= MaxActive
<1>1. ASSUME IInv, [Next]_vars PROVE [Justified]_vars
  <2>1. SUFFICES ASSUME NEW c \in Conn, c \in fresh, c \notin fresh', ~serverStopped,
                        strand'[c] = <<>>
                 PROVE  Cardinality({d \in Conn : Alive(d)}) >= MaxActive
    BY Zenon
  <2>2. PICK e \in Conn : RunAccepted(e)
    <3>1. fresh' # fresh BY <2>1
    <3>2. CASE ServerStep
      BY <3>1, <3>2, Zenon DEF ServerStep, RunServerStart, RunRefused, RunRetry, RunRetryAborted,
                        RunServerStop
    <3>3. ~(AcceptReady \/ RetryExpires \/ Signal)
      BY <3>1 DEF AcceptReady, RetryExpires, Signal
    <3>4. ~\E d \in Conn : ConnStep(d)
      BY <3>1 DEF ConnStep, RunStart, RunStop, RunHeader, RunHeaderError, RunPayload,
                  RunPayloadError, RunWritten, RunWriteError, RunTimeout, RunTimerAborted,
                  serverVars
    <3>5. ~\E d \in Conn : ReadReady(d) \/ WriteReady(d) \/ TimerExpires(d)
      BY <3>1 DEF ReadReady, WriteReady, TimerExpires, serverVars
    <3> QED BY <1>1, <3>1, <3>2, <3>3, <3>4, <3>5 DEF Next, vars, serverVars
  <2>3. e = c BY <2>1, <2>2, Zenon DEF RunAccepted
  <2>4. ~HasRoom
    <3> SUFFICES ASSUME HasRoom PROVE FALSE OBVIOUS
    <3>1. strand' = [strand EXCEPT ![c] = Append(@, "start")]
      BY <2>1, <2>2, <2>3, Zenon DEF RunAccepted, Ready
    <3>2. strand'[c] = Append(strand[c], "start") /\ strand[c] \in Seq(ConnHandler)
      BY <1>1, <3>1 DEF IInv, TypeOK
    <3>3. Len(Append(strand[c], "start")) = Len(strand[c]) + 1 /\ Len(strand[c]) \in Nat
      BY <3>2, SeqAppend, SeqLength DEF ConnHandler
    <3> QED BY <2>1, <3>2, <3>3
  <2> DEFINE A == {d \in Conn : Alive(d)}
  <2>5. Unexpired \subseteq A /\ A \subseteq Conn BY <1>1 DEF IInv, TypeOK, Unexpired
  <2>6. IsFiniteSet(A) BY <2>5, ServerAssumption, FS_Subset
  <2>7. IsFiniteSet(Unexpired) /\ Cardinality(Unexpired) <= Cardinality(A)
    BY <2>5, <2>6, FS_Subset
  <2>8. Cardinality(Unexpired) \in Nat /\ Cardinality(A) \in Nat
    BY <2>6, <2>7, FS_CardinalityType
  <2> HIDE DEF A
  <2>9. Cardinality(A) >= MaxActive BY <2>4, <2>7, <2>8, ServerAssumption DEF HasRoom
  <2> QED BY <2>9 DEF A
<1>2. Spec => [][Justified]_vars BY <1>1, ServerInvariant, PTL DEF Spec
<1> QED BY <1>2 DEF RefusalIsJustified
=============================================================================
