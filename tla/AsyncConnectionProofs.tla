------------------------ MODULE AsyncConnectionProofs -----------------------
(***************************************************************************)
(* Proofs about AsyncServer: counting the handlers of a strand, the        *)
(* invariant of a connection, and that the steps of a connection preserve  *)
(* it.                                                                     *)
(***************************************************************************)
EXTENDS AsyncServer, FiniteSetTheorems, TLAPS

-----------------------------------------------------------------------------
(* Sequences.                                                              *)

\* What a queue is: a function on 1..Len, with its first handler at the head.
LEMMA SeqLength ==
    ASSUME NEW T, NEW s \in Seq(T)
    PROVE  /\ Len(s) \in Nat /\ DOMAIN s = 1..Len(s)
           /\ s # <<>> => Len(s) \in Nat \ {0} /\ Head(s) = s[1]
           /\ \A i \in 1..Len(s) : s[i] \in T
OBVIOUS

\* Taking the first handler off a queue moves the others one place up.
LEMMA SeqTail ==
    ASSUME NEW T, NEW s \in Seq(T), s # <<>>
    PROVE  /\ Tail(s) \in Seq(T) /\ Len(Tail(s)) = Len(s) - 1
           /\ \A i \in 1..Len(Tail(s)) : Tail(s)[i] = s[i + 1]
OBVIOUS

\* Posting a handler leaves the ones before it where they are.
LEMMA SeqAppend ==
    ASSUME NEW T, NEW s \in Seq(T), NEW h \in T
    PROVE  /\ Append(s, h) \in Seq(T) /\ Len(Append(s, h)) = Len(s) + 1
           /\ \A i \in 1..Len(s) : Append(s, h)[i] = s[i]
           /\ Append(s, h)[Len(s) + 1] = h
           /\ s \o <<h>> = Append(s, h)
OBVIOUS

\* Posting nothing leaves the queue as it is.
LEMMA SeqNothing == ASSUME NEW T, NEW s \in Seq(T) PROVE s \o <<>> = s
OBVIOUS

-----------------------------------------------------------------------------
(* Counting the handlers of a strand.                                      *)

Places(s, S) == {i \in DOMAIN s : s[i] \in S}
Count(s, S) == Cardinality(Places(s, S))
Num(b) == IF b THEN 1 ELSE 0

\* A count of handlers is a natural number, zero when none is of the kind.
LEMMA CountType ==
    ASSUME NEW T, NEW s \in Seq(T), NEW S
    PROVE  /\ IsFiniteSet(Places(s, S)) /\ Count(s, S) \in Nat
           /\ Count(s, S) = 0 <=> \A i \in 1..Len(s) : s[i] \notin S
<1>1. DOMAIN s = 1..Len(s) /\ Len(s) \in Nat BY SeqLength
<1>2. Places(s, S) \in SUBSET (1..Len(s)) BY <1>1 DEF Places
<1>3. IsFiniteSet(1..Len(s)) BY <1>1, FS_Interval
<1>4. IsFiniteSet(Places(s, S)) BY <1>2, <1>3, FS_Subset
<1>5. Count(s, S) \in Nat BY <1>4, FS_CardinalityType DEF Count
<1>6. Count(s, S) = 0 <=> Places(s, S) = {} BY <1>4, FS_EmptySet DEF Count
<1> QED BY <1>1, <1>4, <1>5, <1>6 DEF Places

\* Nothing is counted in an empty queue ...
LEMMA CountEmpty == ASSUME NEW S PROVE Count(<<>>, S) = 0
<1>1. Places(<<>>, S) = {} BY DEF Places
<1> QED BY <1>1, FS_EmptySet DEF Count

\* ... and at most one handler in a queue of one.
LEMMA CountOne == ASSUME NEW h, NEW S PROVE Count(<<h>>, S) = Num(h \in S)
<1>1. CASE h \in S
  <2>1. Places(<<h>>, S) = {1} BY <1>1 DEF Places
  <2> QED BY <1>1, <2>1, FS_Singleton DEF Count, Num
<1>2. CASE h \notin S
  <2>1. Places(<<h>>, S) = {} BY <1>2 DEF Places
  <2> QED BY <1>2, <2>1, FS_EmptySet DEF Count, Num
<1> QED BY <1>1, <1>2

\* Posting a handler of a kind makes one more of it.
LEMMA CountAppend ==
    ASSUME NEW T, NEW s \in Seq(T), NEW h \in T, NEW S
    PROVE  Count(Append(s, h), S) = Count(s, S) + Num(h \in S)
<1> DEFINE t == Append(s, h)
<1>1. Len(s) \in Nat /\ DOMAIN s = 1..Len(s) BY SeqLength
<1>2. /\ t \in Seq(T) /\ Len(t) = Len(s) + 1 /\ t[Len(s) + 1] = h
      /\ \A i \in 1..Len(s) : t[i] = s[i]
  BY SeqAppend
<1>3. DOMAIN t = 1..(Len(s) + 1) BY <1>2, SeqLength
<1> HIDE DEF t
<1>4. CASE h \in S
  <2>1. Places(t, S) = Places(s, S) \cup {Len(s) + 1} BY <1>1, <1>2, <1>3, <1>4 DEF Places
  <2>2. Len(s) + 1 \notin Places(s, S) BY <1>1 DEF Places
  <2>3. IsFiniteSet(Places(s, S)) BY CountType
  <2>4. Count(t, S) = Count(s, S) + 1 BY <2>1, <2>2, <2>3, FS_AddElement, Zenon DEF Count
  <2> QED BY <1>4, <2>4 DEF Num, t
<1>5. CASE h \notin S
  <2>1. Places(t, S) = Places(s, S) BY <1>1, <1>2, <1>3, <1>5 DEF Places
  <2>2. Count(s, S) \in Nat BY CountType
  <2> QED BY <1>5, <2>1, <2>2 DEF Num, Count, t
<1> QED BY <1>4, <1>5

\* Running a handler of a kind makes one less of it.
LEMMA CountTail ==
    ASSUME NEW T, NEW s \in Seq(T), s # <<>>, NEW S
    PROVE  Count(Tail(s), S) = Count(s, S) - Num(Head(s) \in S)
<1> DEFINE t == Tail(s)
           A == Places(t, S)
           B == Places(s, S) \ {1}
           f == [i \in A |-> i + 1]
<1>1. Len(s) \in Nat \ {0} /\ DOMAIN s = 1..Len(s) BY SeqLength
<1>2. t \in Seq(T) /\ Len(t) = Len(s) - 1 /\ \A i \in 1..Len(t) : t[i] = s[i + 1]
  BY SeqTail
<1>3. DOMAIN t = 1..(Len(s) - 1) BY <1>2, SeqLength
<1>4. Head(s) = s[1] BY <1>1
<1> HIDE DEF t
<1>5. A \subseteq 1..(Len(s) - 1) /\ B \subseteq 2..Len(s) BY <1>1, <1>3 DEF Places
<1>6. \A i \in A : i + 1 \in B BY <1>1, <1>2, <1>3 DEF Places
<1>7. \A j \in B : j - 1 \in A /\ j = (j - 1) + 1
  <2> TAKE j \in B
  <2>1. j \in 2..Len(s) /\ s[j] \in S BY <1>1, <1>5 DEF Places
  <2>2. j - 1 \in 1..Len(t) /\ t[j - 1] = s[(j - 1) + 1] BY <1>1, <1>2, <2>1
  <2>3. j = (j - 1) + 1 BY <2>1
  <2> QED BY <1>1, <1>2, <1>3, <2>1, <2>2, <2>3 DEF Places
<1>8. f \in Bijection(A, B)
  <2>1. f \in [A -> B] BY <1>6
  <2>2. \A i, j \in A : f[i] = f[j] => i = j BY <1>5
  <2>3. \A j \in B : \E i \in A : f[i] = j BY <1>7
  <2> QED BY <2>1, <2>2, <2>3 DEF Bijection, Injection, Surjection, IsInjective
<1>9. IsFiniteSet(A) /\ IsFiniteSet(Places(s, S)) BY <1>2, CountType
<1>10. Cardinality(B) = Cardinality(A)
  BY <1>8, <1>9, FS_Bijection DEF ExistsBijection
<1>11. 1 \in Places(s, S) <=> Head(s) \in S BY <1>1, <1>4 DEF Places
<1>12. Count(s, S) \in Nat BY CountType
<1>13. Count(t, S) = Cardinality(A) BY DEF Count
<1>14. Cardinality(B) = IF 1 \in Places(s, S) THEN Count(s, S) - 1 ELSE Count(s, S)
  BY <1>9, FS_RemoveElement, Zenon DEF Count
<1>15. Cardinality(B) = Count(s, S) - Num(Head(s) \in S)
  BY <1>11, <1>12, <1>14 DEF Num
<1> QED BY <1>10, <1>13, <1>15 DEF t

\* Handlers of two disjoint kinds.
LEMMA CountUnion ==
    ASSUME NEW T, NEW s \in Seq(T), NEW A, NEW B, A \cap B = {}
    PROVE  Count(s, A \cup B) = Count(s, A) + Count(s, B)
<1>1. Places(s, A \cup B) = Places(s, A) \cup Places(s, B) BY DEF Places
<1>2. Places(s, A) \cap Places(s, B) = {} BY DEF Places
<1>3. IsFiniteSet(Places(s, A)) /\ IsFiniteSet(Places(s, B)) BY CountType
<1>4. Count(s, A) \in Nat /\ Count(s, B) \in Nat BY CountType
<1>5. Cardinality(Places(s, A) \cup Places(s, B)) =
        Count(s, A) + Count(s, B) - Cardinality(Places(s, A) \cap Places(s, B))
  BY <1>3, FS_Union, Zenon DEF Count
<1>6. Count(s, A \cup B) = Count(s, A) + Count(s, B) - 0
  BY <1>1, <1>2, <1>5, FS_EmptySet, Zenon DEF Count
<1> QED BY <1>4, <1>6

\* A queue holds as many handlers as it is long.
LEMMA CountAll ==
    ASSUME NEW T, NEW s \in Seq(T)
    PROVE  Count(s, T) = Len(s)
<1>1. DOMAIN s = 1..Len(s) /\ Len(s) \in Nat BY SeqLength
<1>2. Places(s, T) = 1..Len(s) BY <1>1, SeqLength DEF Places
<1>3. Cardinality(1..Len(s)) = IF 1 > Len(s) THEN 0 ELSE Len(s) - 1 + 1
  <2>1. 1 \in Int /\ Len(s) \in Int BY <1>1
  <2> QED BY <2>1, FS_Interval, Zenon
<1>4. Cardinality(1..Len(s)) = Len(s) BY <1>1, <1>3
<1> QED BY <1>2, <1>4, Zenon DEF Count

-----------------------------------------------------------------------------
(* The invariant of a connection.  q is its strand, rd, wr and tm are its  *)
(* outstanding read, write and timer, sd is its stopped_.                  *)

Ops == {"start", "header", "headerError", "payload", "payloadError", "written", "writeError"}
Timers == {"timeout", "timerAborted"}
Stops == {"stop"}
ReadOps == {"none", "header", "payload"}

\* At most one end of a wait comes behind the handler of an operation, and none while
\* the timer runs: what is ahead of that handler is of an earlier operation.
Lone(q, tm) ==
    \A k, i \in 1..Len(q) : k < i /\ q[k] \in Ops /\ q[i] \in Timers =>
        ~tm /\ \A j \in 1..Len(q) : k < j /\ q[j] \in Timers => i = j

\* What stays so while handlers run: one operation, and the ends of two waits.
Tidy(q, rd, wr, tm) ==
    /\ Count(q, Ops) + Num(rd # "none") + Num(wr) <= 1
    /\ Count(q, Timers) + Num(tm) <= 2
    /\ Lone(q, tm)

Good(q, rd, wr, tm, sd) ==
    /\ Tidy(q, rd, wr, tm)
    /\ sd => rd = "none" /\ ~wr /\ ~tm
    /\ rd # "none" => tm \/ \E i \in 1..Len(q) : q[i] \in {"timeout", "stop"}

Connected(c) == Good(strand[c], reading[c], writing[c], timing[c], stopped[c])

ConnInv ==
    \A c \in Conn : /\ Connected(c)
                    /\ Count(strand[c], Stops) <= Num(serverStopped)
                    /\ c \in fresh => ~Alive(c)

\* The server is stopped at most once.
StopOnce == Count(serverStrand, Stops) + Num(serverStopped) <= Num(signalled)

\* Until the server stops, the registry has every connection that lives.
Registered == ~serverStopped => \A c \in Conn : Alive(c) => c \in registry

IInv == TypeOK /\ ConnInv /\ AcceptLoop /\ StopOnce /\ AdmissionBound /\ Registered

-----------------------------------------------------------------------------
(* Order: what a strand loses at its head and gains at its end.            *)

\* A queue without a completed read or write is Lone, whatever the timer does.
LEMMA LoneNoOps ==
    ASSUME NEW q \in Seq(ConnHandler), Count(q, Ops) = 0, NEW tm \in BOOLEAN
    PROVE  Lone(q, tm)
<1>1. \A i \in 1..Len(q) : q[i] \notin Ops BY CountType
<1> QED BY <1>1 DEF Lone

\* Running the first handler keeps Lone.
LEMMA LoneTail ==
    ASSUME NEW q \in Seq(ConnHandler), q # <<>>, NEW tm \in BOOLEAN, Lone(q, tm)
    PROVE  Lone(Tail(q), tm)
<1> DEFINE t == Tail(q)
<1>1. Len(q) \in Nat \ {0} BY SeqLength
<1>2. Len(t) = Len(q) - 1 /\ \A i \in 1..Len(t) : t[i] = q[i + 1]
  BY SeqTail
<1>3. \A i \in 1..Len(t) : i + 1 \in 1..Len(q) BY <1>1, <1>2
<1> HIDE DEF t
<1> SUFFICES ASSUME NEW k \in 1..Len(t), NEW i \in 1..Len(t), k < i, t[k] \in Ops,
                    t[i] \in Timers
             PROVE  ~tm /\ \A j \in 1..Len(t) : k < j /\ t[j] \in Timers => i = j
  BY DEF Lone, t
<1>4. k + 1 < i + 1 /\ q[k + 1] \in Ops /\ q[i + 1] \in Timers BY <1>1, <1>2
<1>5. ~tm /\ \A j \in 1..Len(q) : k + 1 < j /\ q[j] \in Timers => i + 1 = j
  BY <1>3, <1>4 DEF Lone
<1>6. ASSUME NEW j \in 1..Len(t), k < j, t[j] \in Timers PROVE i = j
  <2>1. k + 1 < j + 1 /\ q[j + 1] \in Timers BY <1>1, <1>2, <1>6
  <2>2. i + 1 = j + 1 BY <1>3, <1>5, <2>1
  <2> QED BY <1>1, <1>2, <2>2
<1> QED BY <1>5, <1>6

\* Posting a handler keeps Lone, unless it is the timer of an operation behind it.
LEMMA LoneAppend ==
    ASSUME NEW q \in Seq(ConnHandler), NEW h \in ConnHandler, NEW tm \in BOOLEAN, Lone(q, tm)
    PROVE  /\ h \notin Timers => Lone(Append(q, h), tm)
           /\ tm => Lone(Append(q, h), FALSE)
<1> DEFINE t == Append(q, h)
<1>1. Len(q) \in Nat BY SeqLength
<1>2. /\ Len(t) = Len(q) + 1 /\ t[Len(q) + 1] = h
      /\ \A i \in 1..Len(q) : t[i] = q[i]
  BY SeqAppend
<1> HIDE DEF t
<1>3. \A i \in 1..Len(t) : i \in 1..Len(q) \/ i = Len(q) + 1 BY <1>1, <1>2
<1>4. ASSUME h \notin Timers PROVE Lone(t, tm)
  <2>1. \A i \in 1..Len(t) : t[i] \in Timers => i \in 1..Len(q) BY <1>2, <1>3, <1>4
  <2>2. \A k, i \in 1..Len(t) : k < i /\ i \in 1..Len(q) => k \in 1..Len(q)
    BY <1>1, <1>2
  <2>3. SUFFICES ASSUME NEW k \in 1..Len(t), NEW i \in 1..Len(t), k < i, t[k] \in Ops,
                        t[i] \in Timers
                 PROVE  ~tm /\ \A j \in 1..Len(t) : k < j /\ t[j] \in Timers => i = j
    BY DEF Lone
  <2>4. k \in 1..Len(q) /\ i \in 1..Len(q) BY <2>1, <2>2, <2>3
  <2>5. ~tm /\ \A j \in 1..Len(q) : k < j /\ q[j] \in Timers => i = j
    BY <1>2, <2>3, <2>4 DEF Lone
  <2> QED BY <1>2, <2>1, <2>5
<1>5. ASSUME tm PROVE Lone(t, FALSE)
  <2>1. \A k, i \in 1..Len(q) : ~(k < i /\ q[k] \in Ops /\ q[i] \in Timers)
    BY <1>5 DEF Lone
  <2>2. \A k, i \in 1..Len(t) : k < i => k \in 1..Len(q) BY <1>1, <1>2
  <2>3. \A k, i \in 1..Len(t) : k < i /\ t[k] \in Ops /\ t[i] \in Timers => i = Len(q) + 1
    BY <1>2, <1>3, <2>1, <2>2
  <2>4. SUFFICES ASSUME NEW k \in 1..Len(t), NEW i \in 1..Len(t), k < i, t[k] \in Ops,
                        t[i] \in Timers
                 PROVE  \A j \in 1..Len(t) : k < j /\ t[j] \in Timers => i = j
    BY DEF Lone
  <2> QED BY <2>3, <2>4
<1> QED BY <1>4, <1>5, Zenon DEF t

\* The handler of the operation is first: nothing is outstanding then, and at most one
\* end of a wait is left, the timer included.
LEMMA PopOperation ==
    ASSUME NEW q \in Seq(ConnHandler), q # <<>>, Head(q) \in Ops,
           NEW rd \in ReadOps, NEW wr \in BOOLEAN, NEW tm \in BOOLEAN,
           NEW sd \in BOOLEAN, Good(q, rd, wr, tm, sd)
    PROVE  /\ rd = "none" /\ ~wr
           /\ Tail(q) \in Seq(ConnHandler)
           /\ Count(Tail(q), Ops) = 0
           /\ Count(Tail(q), Timers) + Num(tm) <= 1
           /\ Count(Tail(q), Stops) = Count(q, Stops)
<1>1. /\ Count(q, Ops) \in Nat /\ Count(q, Timers) \in Nat /\ Count(q, Stops) \in Nat
      /\ Tail(q) \in Seq(ConnHandler)
  BY CountType, SeqTail
<1>2. /\ Count(Tail(q), Ops) = Count(q, Ops) - Num(Head(q) \in Ops)
      /\ Count(Tail(q), Timers) = Count(q, Timers) - Num(Head(q) \in Timers)
      /\ Count(Tail(q), Stops) = Count(q, Stops) - Num(Head(q) \in Stops)
  BY CountTail
<1>3. Head(q) \notin Timers /\ Head(q) \notin Stops BY DEF Ops, Timers, Stops
<1>4. Count(Tail(q), Ops) \in Nat BY <1>1, CountType, Zenon
<1>5. Count(q, Ops) + Num(rd # "none") + Num(wr) <= 1 BY DEF Good, Tidy
<1>6. Count(Tail(q), Ops) = Count(q, Ops) - 1 BY <1>2 DEF Num
<1>7. rd = "none" /\ ~wr /\ Count(Tail(q), Ops) = 0
  BY <1>1, <1>4, <1>5, <1>6 DEF Num
<1>8. Count(Tail(q), Timers) = Count(q, Timers) /\ Count(Tail(q), Stops) = Count(q, Stops)
  BY <1>1, <1>2, <1>3 DEF Num
<1>9. Count(q, Timers) + Num(tm) <= 1
  <2>1. Len(q) \in Nat \ {0} /\ DOMAIN q = 1..Len(q) /\ Head(q) = q[1]
    BY SeqLength
  <2>2. CASE \E i \in 1..Len(q) : q[i] \in Timers
    <3>1. PICK i \in 1..Len(q) : q[i] \in Timers BY <2>2
    <3>2. \A j \in 1..Len(q) : q[j] \in Timers => 1 < j BY <1>3, <2>1
    <3>3. ~tm /\ \A j \in 1..Len(q) : q[j] \in Timers => i = j
      BY <2>1, <3>1, <3>2 DEF Good, Tidy, Lone
    <3>4. Places(q, Timers) = {i} BY <2>1, <3>1, <3>3 DEF Places
    <3>5. Count(q, Timers) = 1 BY <3>4, FS_Singleton, Zenon DEF Count
    <3> QED BY <3>3, <3>5 DEF Num
  <2>3. CASE \A i \in 1..Len(q) : q[i] \notin Timers
    <3>1. Count(q, Timers) = 0 BY <2>3, CountType
    <3> QED BY <3>1 DEF Num
  <2> QED BY <2>2, <2>3
<1> QED BY <1>1, <1>7, <1>8, <1>9

\* cancel() of the timer and close() of the socket, as sequences.
Cancelled(q, tm) == q \o (IF tm THEN <<"timerAborted">> ELSE <<>>)
Closed(q, rd, wr) ==
    q \o (CASE rd = "header" -> <<"headerError">>
            [] rd = "payload" -> <<"payloadError">>
            [] OTHER -> <<>>)
      \o (IF wr THEN <<"writeError">> ELSE <<>>)

\* Cancelling the timer posts its aborted handler and nothing else.
LEMMA CancelTimer ==
    ASSUME NEW q \in Seq(ConnHandler), NEW tm \in BOOLEAN
    PROVE  /\ Cancelled(q, tm) \in Seq(ConnHandler)
           /\ Count(Cancelled(q, tm), Ops) = Count(q, Ops)
           /\ Count(Cancelled(q, tm), Timers) = Count(q, Timers) + Num(tm)
           /\ Count(Cancelled(q, tm), Stops) = Count(q, Stops)
           /\ Lone(q, tm) => Lone(Cancelled(q, tm), FALSE)
<1>1. Count(q, Ops) \in Nat /\ Count(q, Timers) \in Nat /\ Count(q, Stops) \in Nat
  BY CountType
<1>2. CASE tm
  <2>1. "timerAborted" \in ConnHandler BY DEF ConnHandler
  <2>2. Cancelled(q, tm) = Append(q, "timerAborted") BY <1>2, <2>1, SeqAppend DEF Cancelled
  <2>3. Append(q, "timerAborted") \in Seq(ConnHandler) BY <2>1, SeqAppend
  <2> DEFINE a == Append(q, "timerAborted")
  <2>4. /\ Count(a, Ops) = Count(q, Ops) + Num("timerAborted" \in Ops)
        /\ Count(a, Timers) = Count(q, Timers) + Num("timerAborted" \in Timers)
        /\ Count(a, Stops) = Count(q, Stops) + Num("timerAborted" \in Stops)
    BY <2>1, CountAppend, Zenon
  <2>5. Lone(q, tm) => Lone(a, FALSE) BY <1>2, <2>1, LoneAppend, Zenon
  <2>6. /\ Num("timerAborted" \in Ops) = 0 /\ Num("timerAborted" \in Stops) = 0
        /\ Num("timerAborted" \in Timers) = 1 /\ Num(tm) = 1
    BY <1>2 DEF Num, Ops, Timers, Stops
  <2> HIDE DEF a
  <2>7. /\ Count(a, Ops) = Count(q, Ops)
        /\ Count(a, Timers) = Count(q, Timers) + Num(tm)
        /\ Count(a, Stops) = Count(q, Stops)
    BY <1>1, <2>4, <2>6
  <2> QED BY <2>2, <2>3, <2>5, <2>7, Zenon DEF a
<1>3. CASE ~tm
  <2>1. Cancelled(q, tm) = q BY <1>3, SeqNothing DEF Cancelled
  <2>2. Lone(q, tm) => Lone(q, FALSE) BY <1>3, Zenon DEF Lone
  <2>3. Count(q, Timers) + Num(tm) = Count(q, Timers) BY <1>1, <1>3 DEF Num
  <2> QED BY <2>1, <2>2, <2>3, Zenon
<1> QED BY <1>2, <1>3, Zenon

\* One aborted operation joins the strand, or none.
LEMMA AbortOne ==
    ASSUME NEW q \in Seq(ConnHandler), NEW e, NEW b \in BOOLEAN,
           b => \E h \in Ops : e = <<h>>, ~b => e = <<>>
    PROVE  /\ q \o e \in Seq(ConnHandler)
           /\ Count(q \o e, Ops) = Count(q, Ops) + Num(b)
           /\ Count(q \o e, Timers) = Count(q, Timers)
           /\ Count(q \o e, Stops) = Count(q, Stops)
           /\ Lone(q, FALSE) => Lone(q \o e, FALSE)
<1>1. Count(q, Ops) \in Nat /\ Count(q, Timers) \in Nat /\ Count(q, Stops) \in Nat
  BY CountType
<1>2. CASE b
  <2>1. PICK h \in Ops : e = <<h>> BY <1>2
  <2>2. h \in ConnHandler /\ h \notin Timers /\ h \notin Stops BY DEF ConnHandler, Ops, Timers, Stops
  <2>3. q \o e = Append(q, h) BY <2>1, <2>2, SeqAppend
  <2>4. Append(q, h) \in Seq(ConnHandler) BY <2>2, SeqAppend
  <2> DEFINE a == Append(q, h)
  <2>5. /\ Count(a, Ops) = Count(q, Ops) + Num(h \in Ops)
        /\ Count(a, Timers) = Count(q, Timers) + Num(h \in Timers)
        /\ Count(a, Stops) = Count(q, Stops) + Num(h \in Stops)
    BY <2>2, CountAppend
  <2>6. Lone(q, FALSE) => Lone(a, FALSE) BY <2>2, LoneAppend, Zenon
  <2>7. Num(h \in Ops) = Num(b) /\ Num(h \in Timers) = 0 /\ Num(h \in Stops) = 0
    BY <1>2, <2>2 DEF Num
  <2> HIDE DEF a
  <2>8. /\ Count(a, Ops) = Count(q, Ops) + Num(b)
        /\ Count(a, Timers) = Count(q, Timers)
        /\ Count(a, Stops) = Count(q, Stops)
    BY <1>1, <2>5, <2>7
  <2> QED BY <2>3, <2>4, <2>6, <2>8, Zenon DEF a
<1>3. CASE ~b
  <2>1. q \o e = q BY <1>3, SeqNothing
  <2>2. Count(q, Ops) + Num(b) = Count(q, Ops) BY <1>1, <1>3 DEF Num
  <2> QED BY <2>1, <2>2, Zenon
<1> QED BY <1>2, <1>3, Zenon

\* close(): what is outstanding ends up on the strand.
LEMMA CloseSocket ==
    ASSUME NEW q \in Seq(ConnHandler), NEW rd \in ReadOps,
           NEW wr \in BOOLEAN
    PROVE  /\ Closed(q, rd, wr) \in Seq(ConnHandler)
           /\ Count(Closed(q, rd, wr), Ops) = Count(q, Ops) + Num(rd # "none") + Num(wr)
           /\ Count(Closed(q, rd, wr), Timers) = Count(q, Timers)
           /\ Count(Closed(q, rd, wr), Stops) = Count(q, Stops)
           /\ Lone(q, FALSE) => Lone(Closed(q, rd, wr), FALSE)
<1> DEFINE e == CASE rd = "header" -> <<"headerError">>
                  [] rd = "payload" -> <<"payloadError">>
                  [] OTHER -> <<>>
           f == IF wr THEN <<"writeError">> ELSE <<>>
           b == q \o e
           r == b \o f
<1>1. Closed(q, rd, wr) = r BY DEF Closed
<1>2. rd # "none" => \E h \in Ops : e = <<h>> BY DEF Ops, ReadOps
<1>3. ~(rd # "none") => e = <<>> OBVIOUS
<1>4. wr => \E h \in Ops : f = <<h>> BY DEF Ops
<1>5. ~wr => f = <<>> OBVIOUS
<1>6. (rd # "none") \in BOOLEAN OBVIOUS
<1> HIDE DEF e, f
<1>7. /\ b \in Seq(ConnHandler)
      /\ Count(b, Ops) = Count(q, Ops) + Num(rd # "none")
      /\ Count(b, Timers) = Count(q, Timers)
      /\ Count(b, Stops) = Count(q, Stops)
      /\ Lone(q, FALSE) => Lone(b, FALSE)
  BY <1>2, <1>3, <1>6, AbortOne, Zenon
<1> HIDE DEF b
<1>8. /\ r \in Seq(ConnHandler)
      /\ Count(r, Ops) = Count(b, Ops) + Num(wr)
      /\ Count(r, Timers) = Count(b, Timers)
      /\ Count(r, Stops) = Count(b, Stops)
      /\ Lone(b, FALSE) => Lone(r, FALSE)
  BY <1>4, <1>5, <1>7, AbortOne, Zenon
<1> HIDE DEF r
<1> QED BY <1>1, <1>7, <1>8, Zenon

\* stop_impl leaves a connection that has at most the handler of one operation.
LEMMA GoodStop ==
    ASSUME NEW q \in Seq(ConnHandler), NEW rd \in ReadOps,
           NEW wr \in BOOLEAN, NEW tm \in BOOLEAN,
           Tidy(q, rd, wr, tm)
    PROVE  /\ Closed(Cancelled(q, tm), rd, wr) \in Seq(ConnHandler)
           /\ Good(Closed(Cancelled(q, tm), rd, wr), "none", FALSE, FALSE, TRUE)
           /\ Count(Closed(Cancelled(q, tm), rd, wr), Stops) <= Count(q, Stops)
<1> DEFINE a == Cancelled(q, tm)
           r == Closed(a, rd, wr)
<1>1. /\ a \in Seq(ConnHandler)
      /\ Count(a, Ops) = Count(q, Ops)
      /\ Count(a, Timers) = Count(q, Timers) + Num(tm)
      /\ Count(a, Stops) = Count(q, Stops)
      /\ Lone(a, FALSE)
  BY CancelTimer, Zenon DEF Tidy
<1> HIDE DEF a
<1>2. /\ r \in Seq(ConnHandler)
      /\ Count(r, Ops) = Count(a, Ops) + Num(rd # "none") + Num(wr)
      /\ Count(r, Timers) = Count(a, Timers)
      /\ Count(r, Stops) = Count(a, Stops)
      /\ Lone(r, FALSE)
  BY <1>1, CloseSocket, Zenon
<1> HIDE DEF r
<1>3. Count(q, Ops) \in Nat /\ Count(q, Timers) \in Nat /\ Count(q, Stops) \in Nat
  BY CountType
<1>4. /\ Count(r, Ops) = Count(q, Ops) + Num(rd # "none") + Num(wr)
      /\ Count(r, Timers) = Count(q, Timers) + Num(tm)
  BY <1>1, <1>2, Zenon
<1>5. Count(r, Ops) + Num("none" # "none") + Num(FALSE) <= 1 BY <1>3, <1>4 DEF Num, Tidy
<1>6. Count(r, Timers) + Num(FALSE) <= 2 BY <1>3, <1>4 DEF Num, Tidy
<1>7. Good(r, "none", FALSE, FALSE, TRUE) BY <1>2, <1>5, <1>6, Zenon DEF Good, Tidy
<1>8. Count(r, Stops) <= Count(q, Stops) BY <1>1, <1>2, <1>3
<1> QED BY <1>2, <1>7, <1>8, Zenon DEF r, a

-----------------------------------------------------------------------------
(* The steps of one connection preserve the invariant.                     *)

\* A connection never has more than four handlers queued.
LEMMA LengthBound ==
    ASSUME NEW q \in Seq(ConnHandler), NEW rd \in ReadOps,
           NEW wr \in BOOLEAN, NEW tm \in BOOLEAN, NEW sd \in BOOLEAN,
           Good(q, rd, wr, tm, sd), Count(q, Stops) <= 1
    PROVE  Len(q) <= 4
<1>1. /\ Count(q, Ops) \in Nat /\ Count(q, Timers) \in Nat /\ Count(q, Stops) \in Nat
  BY CountType
<1>2. Ops \cap Timers = {} /\ (Ops \cup Timers) \cap Stops = {} BY DEF Ops, Timers, Stops
<1>3. ConnHandler = (Ops \cup Timers) \cup Stops BY DEF ConnHandler, Ops, Timers, Stops
<1>4. Count(q, Ops \cup Timers) = Count(q, Ops) + Count(q, Timers) BY <1>2, CountUnion
<1>5. Count(q, (Ops \cup Timers) \cup Stops) = Count(q, Ops \cup Timers) + Count(q, Stops)
  BY <1>2, CountUnion
<1>6. Count(q, ConnHandler) = Len(q) BY CountAll
<1>7. Len(q) = Count(q, Ops) + Count(q, Timers) + Count(q, Stops)
  BY <1>3, <1>4, <1>5, <1>6
<1>8. Count(q, Ops) <= 1 /\ Count(q, Timers) <= 2 BY <1>1 DEF Good, Tidy, Num
<1> QED BY <1>1, <1>7, <1>8

\* Unless a connection is admitted, fewer of them live after a step than before it.
LEMMA AliveShrinks ==
    ASSUME AdmissionBound, \A d \in Conn : Alive(d)' => Alive(d)
    PROVE  AdmissionBound'
<1> DEFINE A == {c \in Conn : Alive(c)}
           B == {c \in Conn : Alive(c)'}
<1>1. A \in SUBSET Conn /\ B \in SUBSET A OBVIOUS
<1>2. IsFiniteSet(A) /\ IsFiniteSet(B) BY <1>1, ServerAssumption, FS_Subset
<1>3. Cardinality(B) <= Cardinality(A) BY <1>1, <1>2, FS_Subset
<1>4. Cardinality(A) \in Nat /\ Cardinality(B) \in Nat BY <1>2, FS_CardinalityType
<1>5. Cardinality(A) <= MaxActive BY DEF AdmissionBound
<1> HIDE DEF A, B
<1>6. Cardinality(B) <= MaxActive BY <1>3, <1>4, <1>5, ServerAssumption
<1> QED BY <1>6 DEF AdmissionBound, B

ConnBecomes(c, q, rd, wr, tm, sd) ==
    /\ strand' = [strand EXCEPT ![c] = q]
    /\ reading' = [reading EXCEPT ![c] = rd]
    /\ writing' = [writing EXCEPT ![c] = wr]
    /\ timing' = [timing EXCEPT ![c] = tm]
    /\ stopped' = [stopped EXCEPT ![c] = sd]

\* A step of one connection that leaves its queue and its operations Good keeps IInv.
LEMMA ConnUpdate ==
    ASSUME IInv, NEW c \in Conn, Alive(c), UNCHANGED serverVars,
           NEW q \in Seq(ConnHandler), NEW rd \in ReadOps,
           NEW wr \in BOOLEAN, NEW tm \in BOOLEAN, NEW sd \in BOOLEAN,
           ConnBecomes(c, q, rd, wr, tm, sd),
           session' \in [Conn -> SessionState],
           Good(q, rd, wr, tm, sd),
           Count(q, Stops) <= Count(strand[c], Stops)
    PROVE  IInv'
<1>1. /\ strand'[c] = q /\ reading'[c] = rd /\ writing'[c] = wr /\ timing'[c] = tm
      /\ stopped'[c] = sd
  BY DEF IInv, TypeOK, ConnBecomes
<1>2. \A d \in Conn \ {c} : /\ strand'[d] = strand[d] /\ reading'[d] = reading[d]
                            /\ writing'[d] = writing[d] /\ timing'[d] = timing[d]
                            /\ stopped'[d] = stopped[d]
  BY DEF IInv, TypeOK, ConnBecomes
<1>3. \A d \in Conn \ {c} : Alive(d)' <=> Alive(d) BY <1>2 DEF Alive
<1>4. Count(strand[c], Stops) <= Num(serverStopped) BY DEF IInv, ConnInv
<1>5. Num(serverStopped) \in {0, 1} BY DEF Num
<1>6. strand[c] \in Seq(ConnHandler) BY DEF IInv, TypeOK
<1>7. Count(q, Stops) \in Nat /\ Count(strand[c], Stops) \in Nat BY <1>6, CountType
<1>8. Count(q, Stops) <= Num(serverStopped) /\ Count(q, Stops) <= 1
  BY <1>4, <1>5, <1>7
<1>9. Len(q) <= 4 BY <1>8, LengthBound
<1>10. TypeOK'
  <2>1. \A d \in Conn : Len(strand'[d]) <= 4 BY <1>1, <1>2, <1>9 DEF IInv, TypeOK
  <2> QED BY <2>1, Zenon DEF IInv, TypeOK, serverVars, ConnBecomes, ReadOps
<1>11. ConnInv'
  <2>1. ASSUME NEW d \in Conn \ {c}
        PROVE  /\ Connected(d)' /\ (Count(strand[d], Stops) <= Num(serverStopped))'
               /\ (d \in fresh => ~Alive(d))'
    <3>1. Connected(d) /\ Count(strand[d], Stops) <= Num(serverStopped)
          /\ (d \in fresh => ~Alive(d))
      BY DEF IInv, ConnInv
    <3> QED BY <1>2, <1>3, <3>1, Zenon DEF Connected, serverVars
  <2>2. Connected(c)' BY <1>1, Zenon DEF Connected
  <2>3. (Count(strand[c], Stops) <= Num(serverStopped))'
    BY <1>1, <1>8, Zenon DEF serverVars
  <2>4. c \notin fresh' BY DEF IInv, ConnInv, serverVars
  <2> QED BY <2>1, <2>2, <2>3, <2>4, Zenon DEF ConnInv
<1>12. AcceptLoop' /\ StopOnce' BY DEF IInv, AcceptLoop, StopOnce, Driving, serverVars
<1>13. AdmissionBound' BY <1>3, AliveShrinks DEF IInv
<1>14. Registered' BY <1>3 DEF IInv, Registered, serverVars
<1> QED BY <1>10, <1>11, <1>12, <1>13, <1>14 DEF IInv

\* What is left of the strand when the handler of an operation runs, with the timer
\* cancelled or not.
LEMMA AfterOperation ==
    ASSUME IInv, NEW c \in Conn, strand[c] # <<>>, Head(strand[c]) \in Ops,
           NEW q, q \in {Tail(strand[c]), AfterRead(c)}
    PROVE  /\ Alive(c) /\ reading[c] = "none" /\ writing[c] = FALSE
           /\ q \in Seq(ConnHandler) /\ Count(q, Ops) = 0 /\ Count(q, Timers) <= 1
           /\ Count(q, Timers) \in Nat
           /\ Count(q, Stops) <= Count(strand[c], Stops)
<1> DEFINE s == strand[c]
           t == Tail(strand[c])
<1>1. /\ s \in Seq(ConnHandler) /\ reading[c] \in ReadOps
      /\ writing[c] \in BOOLEAN /\ timing[c] \in BOOLEAN /\ stopped[c] \in BOOLEAN
  BY DEF IInv, TypeOK, ReadOps
<1>2. Good(s, reading[c], writing[c], timing[c], stopped[c]) BY DEF IInv, ConnInv, Connected
<1>3. /\ reading[c] = "none" /\ ~writing[c]
      /\ t \in Seq(ConnHandler)
      /\ Count(t, Ops) = 0
      /\ Count(t, Timers) + Num(timing[c]) <= 1
      /\ Count(t, Stops) = Count(s, Stops)
  BY <1>1, <1>2, PopOperation
<1>4. AfterRead(c) = Cancelled(t, timing[c]) BY DEF AfterRead, AbortedTimer, Cancelled
<1>5. /\ AfterRead(c) \in Seq(ConnHandler)
      /\ Count(AfterRead(c), Ops) = Count(t, Ops)
      /\ Count(AfterRead(c), Timers) = Count(t, Timers) + Num(timing[c])
      /\ Count(AfterRead(c), Stops) = Count(t, Stops)
  <2> HIDE DEF s, t
  <2>1. /\ Cancelled(t, timing[c]) \in Seq(ConnHandler)
        /\ Count(Cancelled(t, timing[c]), Ops) = Count(t, Ops)
        /\ Count(Cancelled(t, timing[c]), Timers) = Count(t, Timers) + Num(timing[c])
        /\ Count(Cancelled(t, timing[c]), Stops) = Count(t, Stops)
    BY <1>1, <1>3, CancelTimer, Zenon
  <2> QED BY <1>4, <2>1, Zenon
<1>6. /\ Count(t, Timers) \in Nat /\ Count(s, Stops) \in Nat BY <1>1, <1>3, CountType, Zenon
<1>7. Num(timing[c]) \in {0, 1} BY DEF Num
<1>8. Alive(c) BY DEF Alive
<1> HIDE DEF s, t
<1>9. CASE q = t BY <1>1, <1>3, <1>6, <1>7, <1>8, <1>9 DEF s
<1>10. CASE q = AfterRead(c) BY <1>1, <1>3, <1>5, <1>6, <1>7, <1>8, <1>10 DEF s
<1> QED BY <1>9, <1>10, Zenon DEF t

\* A completion handler that returns or begins the next operation keeps IInv.
LEMMA OperationEnds ==
    ASSUME IInv, NEW c \in Conn, strand[c] # <<>>, Head(strand[c]) \in Ops,
           NEW q, q \in {Tail(strand[c]), AfterRead(c)},
           UNCHANGED serverVars, session' \in [Conn -> SessionState],
           \/ Return(c, q)
           \/ ~stopped[c] /\ BeginWrite(c, q)
           \/ ~stopped[c] /\ \E what \in {"header", "payload"} : BeginRead(c, q, what)
    PROVE  IInv'
<1>1. /\ Alive(c) /\ reading[c] = "none" /\ writing[c] = FALSE
      /\ q \in Seq(ConnHandler) /\ Count(q, Ops) = 0 /\ Count(q, Timers) <= 1
      /\ Count(q, Timers) \in Nat
      /\ Count(q, Stops) <= Count(strand[c], Stops)
  BY AfterOperation, Zenon
<1>2. /\ Lone(q, TRUE) /\ Lone(q, FALSE) BY <1>1, LoneNoOps, Zenon
<1>3. /\ reading \in [Conn -> {"none", "header", "payload"}]
      /\ writing \in [Conn -> BOOLEAN] /\ stopped \in [Conn -> BOOLEAN]
  BY DEF IInv, TypeOK
<1>4. CASE Return(c, q)
  <2>1. ConnBecomes(c, q, "none", FALSE, FALSE, stopped[c])
    BY <1>1, <1>3, <1>4 DEF Return, ConnBecomes
  <2>2. Good(q, "none", FALSE, FALSE, stopped[c])
    <3>1. Count(q, Ops) + Num("none" # "none") + Num(FALSE) <= 1 BY <1>1 DEF Num
    <3>2. Count(q, Timers) + Num(FALSE) <= 2 BY <1>1 DEF Num
    <3> QED BY <1>2, <3>1, <3>2, Zenon DEF Good, Tidy
  <2>3. stopped[c] \in BOOLEAN BY <1>3
  <2> QED BY <1>1, <2>1, <2>2, <2>3, ConnUpdate, Zenon DEF ReadOps
<1>5. CASE ~stopped[c] /\ BeginWrite(c, q)
  <2>1. ConnBecomes(c, q, "none", TRUE, FALSE, FALSE)
    BY <1>1, <1>3, <1>5 DEF BeginWrite, ConnBecomes
  <2>2. Good(q, "none", TRUE, FALSE, FALSE)
    <3>1. Count(q, Ops) + Num("none" # "none") + Num(TRUE) <= 1 BY <1>1 DEF Num
    <3>2. Count(q, Timers) + Num(FALSE) <= 2 BY <1>1 DEF Num
    <3> QED BY <1>2, <3>1, <3>2, Zenon DEF Good, Tidy
  <2> QED BY <1>1, <2>1, <2>2, ConnUpdate, Zenon DEF ReadOps
<1>6. CASE ~stopped[c] /\ \E what \in {"header", "payload"} : BeginRead(c, q, what)
  <2>1. PICK what \in {"header", "payload"} : BeginRead(c, q, what) BY <1>6
  <2>2. ConnBecomes(c, q, what, FALSE, TRUE, FALSE)
    BY <1>1, <1>3, <1>6, <2>1 DEF BeginRead, ConnBecomes
  <2>3. Good(q, what, FALSE, TRUE, FALSE)
    <3>1. Count(q, Ops) + Num(what # "none") + Num(FALSE) <= 1 BY <1>1 DEF Num
    <3>2. Count(q, Timers) + Num(TRUE) <= 2 BY <1>1 DEF Num
    <3> QED BY <1>2, <3>1, <3>2, Zenon DEF Good, Tidy
  <2>4. what \in ReadOps BY DEF ReadOps
  <2> QED BY <1>1, <2>2, <2>3, <2>4, ConnUpdate, Zenon
<1> QED BY <1>4, <1>5, <1>6

\* What the strand keeps when its first handler runs, whatever it is.
LEMMA PopHandler ==
    ASSUME NEW q \in Seq(ConnHandler), q # <<>>, NEW rd \in ReadOps,
           NEW wr \in BOOLEAN, NEW tm \in BOOLEAN, NEW sd \in BOOLEAN,
           Good(q, rd, wr, tm, sd)
    PROVE  /\ Tail(q) \in Seq(ConnHandler)
           /\ Tidy(Tail(q), rd, wr, tm)
           /\ Count(Tail(q), Stops) <= Count(q, Stops)
<1>1. /\ Count(q, Ops) \in Nat /\ Count(q, Timers) \in Nat /\ Count(q, Stops) \in Nat
      /\ Tail(q) \in Seq(ConnHandler)
  BY CountType, SeqTail
<1>2. /\ Count(Tail(q), Ops) = Count(q, Ops) - Num(Head(q) \in Ops)
      /\ Count(Tail(q), Timers) = Count(q, Timers) - Num(Head(q) \in Timers)
      /\ Count(Tail(q), Stops) = Count(q, Stops) - Num(Head(q) \in Stops)
  BY CountTail
<1>3. Lone(Tail(q), tm) BY LoneTail DEF Good, Tidy
<1>4. /\ Count(Tail(q), Ops) \in Nat /\ Count(Tail(q), Timers) \in Nat
      /\ Count(Tail(q), Ops) <= Count(q, Ops) /\ Count(Tail(q), Timers) <= Count(q, Timers)
      /\ Count(Tail(q), Stops) <= Count(q, Stops)
  <2>1. \A n \in Nat, b \in BOOLEAN : n - Num(b) <= n BY DEF Num
  <2>2. /\ (Head(q) \in Ops) \in BOOLEAN /\ (Head(q) \in Timers) \in BOOLEAN
        /\ (Head(q) \in Stops) \in BOOLEAN
    OBVIOUS
  <2>3. /\ Count(Tail(q), Ops) <= Count(q, Ops) /\ Count(Tail(q), Timers) <= Count(q, Timers)
        /\ Count(Tail(q), Stops) <= Count(q, Stops)
    BY <1>1, <1>2, <2>1, <2>2, Zenon
  <2>4. Count(Tail(q), Ops) \in Nat /\ Count(Tail(q), Timers) \in Nat
    BY <1>1, CountType, Zenon
  <2> QED BY <2>3, <2>4
<1>5. Count(Tail(q), Ops) + Num(rd # "none") + Num(wr) <= 1 BY <1>1, <1>4 DEF Good, Tidy, Num
<1>6. Count(Tail(q), Timers) + Num(tm) <= 2 BY <1>1, <1>4 DEF Good, Tidy, Num
<1> QED BY <1>1, <1>3, <1>4, <1>5, <1>6 DEF Tidy

\* What IInv says of one connection.
LEMMA ConnectedNow ==
    ASSUME IInv, NEW c \in Conn
    PROVE  /\ strand[c] \in Seq(ConnHandler) /\ reading[c] \in ReadOps
           /\ writing[c] \in BOOLEAN /\ timing[c] \in BOOLEAN /\ stopped[c] \in BOOLEAN
           /\ Good(strand[c], reading[c], writing[c], timing[c], stopped[c])
<1>1. /\ strand[c] \in Seq(ConnHandler) /\ reading[c] \in ReadOps
      /\ writing[c] \in BOOLEAN /\ timing[c] \in BOOLEAN /\ stopped[c] \in BOOLEAN
  BY DEF IInv, TypeOK, ReadOps
<1>2. Connected(c) BY DEF IInv, ConnInv
<1> QED BY <1>1, <1>2, Zenon DEF Connected

\* stop_impl, called by a completion handler that failed, keeps IInv.
LEMMA StopImplStep ==
    ASSUME IInv, NEW c \in Conn, strand[c] # <<>>, UNCHANGED serverVars,
           session' \in [Conn -> SessionState], StopImpl(c, AfterRead(c))
    PROVE  IInv'
<1> DEFINE t == Tail(strand[c])
           r == Closed(AfterRead(c), reading[c], writing[c])
<1>1. /\ strand[c] \in Seq(ConnHandler) /\ reading[c] \in ReadOps
      /\ writing[c] \in BOOLEAN /\ timing[c] \in BOOLEAN /\ stopped[c] \in BOOLEAN
      /\ Good(strand[c], reading[c], writing[c], timing[c], stopped[c])
  BY ConnectedNow
<1>2. /\ t \in Seq(ConnHandler)
      /\ Tidy(t, reading[c], writing[c], timing[c])
      /\ Count(t, Stops) <= Count(strand[c], Stops)
  BY <1>1, PopHandler, Zenon
<1>3. AfterRead(c) = Cancelled(t, timing[c]) BY DEF AfterRead, AbortedTimer, Cancelled
<1> HIDE DEF t
<1>4. /\ r \in Seq(ConnHandler) /\ Good(r, "none", FALSE, FALSE, TRUE)
      /\ Count(r, Stops) <= Count(strand[c], Stops)
  <2>1. PICK rd \in ReadOps, wr \in BOOLEAN, tm \in BOOLEAN :
             rd = reading[c] /\ wr = writing[c] /\ tm = timing[c]
    BY <1>1, Zenon
  <2> DEFINE w == Closed(Cancelled(t, tm), rd, wr)
  <2>2. t \in Seq(ConnHandler) /\ Tidy(t, rd, wr, tm) BY <1>2, <2>1, Zenon
  <2>3. /\ w \in Seq(ConnHandler) /\ Good(w, "none", FALSE, FALSE, TRUE)
        /\ Count(w, Stops) <= Count(t, Stops)
    BY <2>2, GoodStop, Zenon
  <2>4. Count(w, Stops) <= Count(strand[c], Stops)
    BY <1>1, <1>2, <2>3, CountType
  <2>5. r = w BY <1>3, <2>1, Zenon
  <2> HIDE DEF r, w
  <2> QED BY <2>3, <2>4, <2>5, Zenon
<1>5. Alive(c) BY DEF Alive
<1>6. ConnBecomes(c, r, "none", FALSE, FALSE, TRUE)
  BY Zenon DEF StopImpl, Closed, ConnBecomes
<1> HIDE DEF r
<1> QED BY <1>4, <1>5, <1>6, ConnUpdate, Zenon DEF ReadOps

\* A handler that only returns: the end of a wait that was aborted, or any handler but
\* that of an operation on a connection that is stopped.
LEMMA DropStep ==
    ASSUME IInv, NEW c \in Conn, strand[c] # <<>>, UNCHANGED serverVars,
           session' \in [Conn -> SessionState],
           strand' = [strand EXCEPT ![c] = Tail(strand[c])],
           UNCHANGED <<stopped, reading, writing, timing>>,
           stopped[c] \/ Head(strand[c]) = "timerAborted"
    PROVE  IInv'
<1> DEFINE t == Tail(strand[c])
<1>1. /\ strand[c] \in Seq(ConnHandler) /\ reading[c] \in ReadOps
      /\ writing[c] \in BOOLEAN /\ timing[c] \in BOOLEAN /\ stopped[c] \in BOOLEAN
      /\ Good(strand[c], reading[c], writing[c], timing[c], stopped[c])
  BY ConnectedNow
<1>2. /\ t \in Seq(ConnHandler)
      /\ Tidy(t, reading[c], writing[c], timing[c])
      /\ Count(t, Stops) <= Count(strand[c], Stops)
  BY <1>1, PopHandler, Zenon
<1>3. Alive(c) BY DEF Alive
<1>4. stopped[c] => reading[c] = "none" /\ ~writing[c] /\ ~timing[c] BY <1>1, Zenon DEF Good, Tidy
<1>5. reading[c] # "none" => timing[c] \/ \E i \in 1..Len(t) : t[i] \in {"timeout", "stop"}
  <2> SUFFICES ASSUME reading[c] # "none", ~timing[c]
               PROVE  \E i \in 1..Len(t) : t[i] \in {"timeout", "stop"}
    OBVIOUS
  <2>1. PICK j \in 1..Len(strand[c]) : strand[c][j] \in {"timeout", "stop"}
    BY <1>1 DEF Good, Tidy
  <2>2. Head(strand[c]) = "timerAborted" BY <1>4
  <2>3. Len(strand[c]) \in Nat \ {0} /\ Head(strand[c]) = strand[c][1]
    BY <1>1, SeqLength
  <2>4. Len(t) = Len(strand[c]) - 1 /\ \A i \in 1..Len(t) : t[i] = strand[c][i + 1]
    BY <1>1, SeqTail
  <2> HIDE DEF t
  <2>5. j # 1 BY <2>1, <2>2, <2>3
  <2>6. j - 1 \in 1..Len(t) /\ (j - 1) + 1 = j BY <2>3, <2>4, <2>5
  <2>7. t[j - 1] = strand[c][j] BY <2>4, <2>6
  <2> QED BY <2>1, <2>6, <2>7
<1>6. Good(t, reading[c], writing[c], timing[c], stopped[c])
  BY <1>2, <1>4, <1>5, Zenon DEF Good, Tidy
<1>7. ConnBecomes(c, t, reading[c], writing[c], timing[c], stopped[c])
  BY DEF IInv, TypeOK, ConnBecomes
<1> HIDE DEF t
<1> QED BY <1>1, <1>2, <1>3, <1>6, <1>7, ConnUpdate

\* An outstanding operation becomes ready.
LEMMA ReadyStep ==
    ASSUME IInv, NEW c \in Conn, NEW h \in Ops, UNCHANGED serverVars,
           session' \in [Conn -> SessionState],
           NEW rd \in ReadOps, NEW wr \in BOOLEAN,
           \/ reading[c] # "none" /\ rd = "none" /\ wr = writing[c]
           \/ writing[c] /\ ~wr /\ rd = reading[c],
           Ready(c, h),
           reading' = [reading EXCEPT ![c] = rd], writing' = [writing EXCEPT ![c] = wr],
           UNCHANGED <<stopped, timing>>
    PROVE  IInv'
<1> DEFINE s == strand[c]
           t == Append(strand[c], h)
<1>1. /\ s \in Seq(ConnHandler) /\ reading[c] \in ReadOps
      /\ writing[c] \in BOOLEAN /\ timing[c] \in BOOLEAN /\ stopped[c] \in BOOLEAN
      /\ Good(s, reading[c], writing[c], timing[c], stopped[c])
  BY ConnectedNow
<1>2. h \in ConnHandler /\ h \notin Timers /\ h \notin Stops BY DEF Ops, ConnHandler, Timers, Stops
<1>3. /\ Count(t, Ops) = Count(s, Ops) + Num(h \in Ops)
      /\ Count(t, Timers) = Count(s, Timers) + Num(h \in Timers)
      /\ Count(t, Stops) = Count(s, Stops) + Num(h \in Stops)
  BY <1>1, <1>2, CountAppend
<1>4. Count(s, Ops) \in Nat /\ Count(s, Timers) \in Nat /\ Count(s, Stops) \in Nat
  BY <1>1, CountType
<1>5. Count(t, Ops) = Count(s, Ops) + 1 /\ Count(t, Timers) = Count(s, Timers)
      /\ Count(t, Stops) = Count(s, Stops)
  BY <1>2, <1>3, <1>4 DEF Num
<1>6. t \in Seq(ConnHandler) /\ Len(t) = Len(s) + 1 /\ \A i \in 1..Len(s) : t[i] = s[i]
  BY <1>1, <1>2, SeqAppend
<1>7. Lone(t, timing[c]) BY <1>1, <1>2, LoneAppend, Zenon DEF Good, Tidy
<1>8. Len(s) \in Nat BY <1>1, SeqLength
<1>9. Alive(c) BY DEF Alive
<1> HIDE DEF s, t
<1>10. Count(s, Ops) + Num(reading[c] # "none") + Num(writing[c]) <= 1
  BY <1>1, Zenon DEF Good, Tidy
<1>11. Count(t, Ops) + Num(rd # "none") + Num(wr) <= 1 BY <1>1, <1>4, <1>5, <1>10 DEF Num
<1>12. Count(t, Timers) + Num(timing[c]) <= 2 BY <1>1, <1>5, Zenon DEF Good, Tidy
<1>13. stopped[c] => rd = "none" /\ ~wr /\ ~timing[c] BY <1>1 DEF Good, Tidy
<1>14. \A i \in 1..Len(s) : i \in 1..Len(t) BY <1>6, <1>8
<1>15. rd = "none" \/ rd = reading[c] OBVIOUS
<1>16. rd # "none" => timing[c] \/ \E i \in 1..Len(t) : t[i] \in {"timeout", "stop"}
  <2>1. reading[c] # "none" => timing[c] \/ \E i \in 1..Len(s) : s[i] \in {"timeout", "stop"}
    BY <1>1, Zenon DEF Good, Tidy
  <2> QED BY <1>6, <1>14, <1>15, <2>1
<1>17. Good(t, rd, wr, timing[c], stopped[c]) BY <1>7, <1>11, <1>12, <1>13, <1>16, Zenon DEF Good, Tidy
<1>18. ConnBecomes(c, t, rd, wr, timing[c], stopped[c])
  BY DEF IInv, TypeOK, ConnBecomes, Ready, t
<1>19. Count(t, Stops) <= Count(strand[c], Stops) BY <1>4, <1>5 DEF s
<1> QED BY <1>1, <1>6, <1>9, <1>17, <1>18, <1>19, ConnUpdate

\* The expiry of the deadline timer keeps IInv.
LEMMA TimerExpiresStep ==
    ASSUME IInv, NEW c \in Conn, TimerExpires(c)
    PROVE  IInv'
<1> DEFINE s == strand[c]
           t == Append(strand[c], "timeout")
<1>1. /\ s \in Seq(ConnHandler) /\ reading[c] \in ReadOps
      /\ writing[c] \in BOOLEAN /\ timing[c] \in BOOLEAN /\ stopped[c] \in BOOLEAN
      /\ Good(s, reading[c], writing[c], timing[c], stopped[c])
  BY ConnectedNow
<1>2. timing[c] = TRUE BY <1>1 DEF TimerExpires
<1>3. /\ "timeout" \in ConnHandler /\ "timeout" \notin Ops /\ "timeout" \in Timers
      /\ "timeout" \notin Stops
  BY DEF ConnHandler, Ops, Timers, Stops
<1>4. /\ Count(t, Ops) = Count(s, Ops) + Num("timeout" \in Ops)
      /\ Count(t, Timers) = Count(s, Timers) + Num("timeout" \in Timers)
      /\ Count(t, Stops) = Count(s, Stops) + Num("timeout" \in Stops)
  BY <1>1, <1>3, CountAppend
<1>5. Count(s, Ops) \in Nat /\ Count(s, Timers) \in Nat /\ Count(s, Stops) \in Nat
  BY <1>1, CountType
<1>6. /\ Count(t, Ops) = Count(s, Ops) /\ Count(t, Timers) = Count(s, Timers) + 1
      /\ Count(t, Stops) <= Count(s, Stops)
  BY <1>3, <1>4, <1>5 DEF Num
<1>7. t \in Seq(ConnHandler) /\ Len(t) = Len(s) + 1 /\ t[Len(s) + 1] = "timeout"
  BY <1>1, <1>3, SeqAppend
<1>8. Len(s) \in Nat BY <1>1, SeqLength
<1>9. Lone(t, FALSE) BY <1>1, <1>2, <1>3, LoneAppend, Zenon DEF Good, Tidy
<1>10. Alive(c) BY <1>2 DEF Alive
<1>11. ConnBecomes(c, t, reading[c], writing[c], FALSE, stopped[c])
  BY DEF TimerExpires, Ready, ConnBecomes, IInv, TypeOK
<1> HIDE DEF s, t
<1>12. Len(t) \in 1..Len(t) /\ t[Len(t)] \in {"timeout", "stop"} BY <1>7, <1>8
<1>13. Count(t, Ops) + Num(reading[c] # "none") + Num(writing[c]) <= 1
  BY <1>1, <1>6, Zenon DEF Good, Tidy
<1>14. Count(t, Timers) + Num(FALSE) <= 2 BY <1>1, <1>2, <1>5, <1>6 DEF Good, Tidy, Num
<1>15. stopped[c] => reading[c] = "none" /\ ~writing[c] /\ ~FALSE BY <1>1, Zenon DEF Good
<1>16. Good(t, reading[c], writing[c], FALSE, stopped[c])
  BY <1>9, <1>12, <1>13, <1>14, <1>15, Zenon DEF Good, Tidy
<1>17. session' \in [Conn -> SessionState] /\ UNCHANGED serverVars
  BY DEF IInv, TypeOK, TimerExpires
<1>18. Count(t, Stops) <= Count(strand[c], Stops) BY <1>6 DEF s
<1> QED BY <1>1, <1>7, <1>10, <1>11, <1>16, <1>17, <1>18, ConnUpdate, Zenon

\* The handler of a request leaves the session in one of its states.
LEMMA AppliedType ==
    ASSUME NEW state \in SessionState, NEW code \in RequestCode
    PROVE  Applied(state, code) \in SessionState
BY Zenon DEF Applied, Allowed, SessionState, RequestCode

\* Every handler on the strand of a connection keeps IInv.
LEMMA ConnStepKeeps ==
    ASSUME IInv, NEW c \in Conn, ConnStep(c)
    PROVE  IInv'
<1>1. session \in [Conn -> SessionState] BY DEF IInv, TypeOK
<1>2. UNCHANGED session => session' \in [Conn -> SessionState] BY <1>1
<1>3. AfterRead(c) = Tail(strand[c]) \o AbortedTimer(c) BY DEF AfterRead
<1>4. CASE RunStart(c)
  <2>1. Head(strand[c]) \in Ops /\ strand[c] # <<>> BY <1>4 DEF RunStart, Runs, Ops
  <2> QED BY <1>2, <1>4, <2>1, OperationEnds, Zenon DEF RunStart
<1>5. CASE RunStop(c)
  <2>1. CASE stopped[c] BY <1>2, <1>5, <2>1, DropStep DEF RunStop, Runs
  <2>2. CASE ~stopped[c] BY <1>2, <1>3, <1>5, <2>2, StopImplStep, Zenon DEF RunStop, Runs
  <2> QED BY <2>1, <2>2
<1>6. ASSUME Runs(c, "header") \/ Runs(c, "payload"), ~stopped[c], ProcessFrame(c, AfterRead(c)),
             UNCHANGED serverVars
      PROVE  IInv'
  <2>1. Head(strand[c]) \in Ops /\ strand[c] # <<>> BY <1>6 DEF Runs, Ops
  <2>2. CASE Return(c, AfterRead(c)) /\ UNCHANGED session
    BY <1>2, <1>6, <2>1, <2>2, OperationEnds
  <2>3. CASE \E code \in RequestCode :
               /\ session' = [session EXCEPT ![c] = Applied(session[c], code)]
               /\ BeginWrite(c, AfterRead(c))
    <3>1. PICK code \in RequestCode :
               session' = [session EXCEPT ![c] = Applied(session[c], code)]
      BY <2>3, Zenon
    <3>2. Applied(session[c], code) \in SessionState BY <1>1, AppliedType
    <3>3. session' \in [Conn -> SessionState] BY <1>1, <3>1, <3>2
    <3>4. BeginWrite(c, AfterRead(c)) BY <2>3
    <3> QED BY <1>6, <2>1, <3>3, <3>4, OperationEnds
  <2> QED BY <1>6, <2>2, <2>3 DEF ProcessFrame
<1>7. CASE RunHeader(c)
  <2>1. Head(strand[c]) \in Ops /\ strand[c] # <<>> /\ Runs(c, "header") /\ UNCHANGED serverVars
    BY <1>7 DEF RunHeader, Runs, Ops
  <2>2. CASE Return(c, AfterRead(c)) /\ UNCHANGED session
    BY <1>2, <2>1, <2>2, OperationEnds
  <2>3. CASE ~stopped[c] /\ ProcessFrame(c, AfterRead(c)) BY <1>6, <2>1, <2>3
  <2>4. CASE ~stopped[c] /\ BeginRead(c, AfterRead(c), "payload") /\ UNCHANGED session
    BY <1>2, <2>1, <2>4, OperationEnds
  <2> QED BY <1>7, <2>2, <2>3, <2>4 DEF RunHeader
<1>8. CASE RunHeaderError(c)
  <2>1. Head(strand[c]) \in Ops /\ strand[c] # <<>> BY <1>8 DEF RunHeaderError, Runs, Ops
  <2>2. CASE stopped[c] BY <1>2, <1>8, <2>1, <2>2, OperationEnds DEF RunHeaderError
  <2>3. CASE ~stopped[c] BY <1>2, <1>8, <2>1, <2>3, StopImplStep DEF RunHeaderError
  <2> QED BY <2>2, <2>3
<1>9. CASE RunPayload(c)
  <2>1. Head(strand[c]) \in Ops /\ strand[c] # <<>> BY <1>9 DEF RunPayload, Runs, Ops
  <2>2. CASE stopped[c] BY <1>2, <1>9, <2>1, <2>2, OperationEnds DEF RunPayload
  <2>3. CASE ~stopped[c] BY <1>6, <1>9, <2>3 DEF RunPayload
  <2> QED BY <2>2, <2>3
<1>10. CASE RunPayloadError(c)
  <2>1. Head(strand[c]) \in Ops /\ strand[c] # <<>> BY <1>10 DEF RunPayloadError, Runs, Ops
  <2> QED BY <1>2, <1>10, <2>1, OperationEnds DEF RunPayloadError
<1>11. CASE RunWritten(c)
  <2>1. Head(strand[c]) \in Ops /\ strand[c] # <<>> BY <1>11 DEF RunWritten, Runs, Ops
  <2> QED BY <1>2, <1>11, <2>1, OperationEnds, Zenon DEF RunWritten
<1>12. CASE RunWriteError(c)
  <2>1. Head(strand[c]) \in Ops /\ strand[c] # <<>> BY <1>12 DEF RunWriteError, Runs, Ops
  <2> QED BY <1>2, <1>12, <2>1, OperationEnds, Zenon DEF RunWriteError
<1>13. CASE RunTimeout(c)
  <2>1. CASE stopped[c] BY <1>2, <1>13, <2>1, DropStep DEF RunTimeout, Runs
  <2>2. CASE ~stopped[c] BY <1>2, <1>3, <1>13, <2>2, StopImplStep, Zenon DEF RunTimeout, Runs
  <2> QED BY <2>1, <2>2
<1>14. CASE RunTimerAborted(c) BY <1>2, <1>14, DropStep, Zenon DEF RunTimerAborted, Runs
<1> QED BY <1>4, <1>5, <1>7, <1>8, <1>9, <1>10, <1>11, <1>12, <1>13, <1>14 DEF ConnStep

\* The completion of a read or a write keeps IInv.
LEMMA OperationReadyKeeps ==
    ASSUME IInv, NEW c \in Conn, ReadReady(c) \/ WriteReady(c)
    PROVE  IInv'
<1>1. /\ reading[c] \in ReadOps /\ writing[c] \in BOOLEAN BY ConnectedNow
<1>2. /\ session \in [Conn -> SessionState]
      /\ reading \in [Conn -> {"none", "header", "payload"}]
      /\ writing \in [Conn -> BOOLEAN]
  BY DEF IInv, TypeOK
<1>3. CASE ReadReady(c)
  <2>1. PICK h \in Ops : Ready(c, h) BY <1>3 DEF ReadReady, Ops
  <2>2. /\ reading[c] # "none" /\ reading' = [reading EXCEPT ![c] = "none"]
        /\ writing' = [writing EXCEPT ![c] = writing[c]]
        /\ UNCHANGED serverVars /\ UNCHANGED <<stopped, timing>>
        /\ session' \in [Conn -> SessionState]
    BY <1>2, <1>3 DEF ReadReady
  <2>3. "none" \in ReadOps BY DEF ReadOps
  <2> QED BY <1>1, <2>1, <2>2, <2>3, ReadyStep, Zenon
<1>4. CASE WriteReady(c)
  <2>1. PICK h \in Ops : Ready(c, h) BY <1>4 DEF WriteReady, Ops
  <2>2. /\ writing[c] /\ reading' = [reading EXCEPT ![c] = reading[c]]
        /\ writing' = [writing EXCEPT ![c] = FALSE]
        /\ UNCHANGED serverVars /\ UNCHANGED <<stopped, timing>>
        /\ session' \in [Conn -> SessionState]
    BY <1>2, <1>4 DEF WriteReady
  <2> QED BY <1>1, <2>1, <2>2, ReadyStep, Zenon
<1> QED BY <1>3, <1>4
=============================================================================
