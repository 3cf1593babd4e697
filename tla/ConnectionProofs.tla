-------------------------- MODULE ConnectionProofs --------------------------
(***************************************************************************)
(* Proofs about Connection, for every number of connections and addresses, *)
(* every limit and every timeout.                                          *)
(***************************************************************************)
EXTENDS Connection, TLAPS

-----------------------------------------------------------------------------
(* The request window.  The deque is a suffix of the accepted requests,    *)
(* and what it dropped is older than the window.                           *)

Sorted(q) == \A i, j \in 1..Len(q) : i <= j => q[i] <= q[j]

Spaced(q) ==
    \A i \in 1..Len(q) :
        i + MaxReqPerWindow <= Len(q) => q[i + MaxReqPerWindow] - q[i] > ReqWindow

Window(q, acc, t) ==
    /\ Len(q) <= Len(acc)
    /\ \A i \in 1..Len(q) : q[i] = acc[Len(acc) - Len(q) + i]
    /\ \A i \in 1..(Len(acc) - Len(q)) : acc[i] < t - ReqWindow
    /\ \A i \in 1..Len(acc) : acc[i] <= t
    /\ Sorted(acc)
    /\ Spaced(acc)

\* Sequences of timestamps, their elements, and what appending one does.
LEMMA SeqFacts ==
    ASSUME NEW q \in Seq(Time)
    PROVE  Len(q) \in Nat /\ \A i \in 1..Len(q) : q[i] \in Time /\ q[i] \in Int
<1>1. Len(q) \in Nat /\ \A i \in 1..Len(q) : q[i] \in Time OBVIOUS
<1>2. \A t \in Time : t \in Int BY DEF Time
<1> QED BY <1>1, <1>2, Zenon

\* Appending the present moment keeps the earlier timestamps where they are.
LEMMA SeqAppend ==
    ASSUME NEW q \in Seq(Time), NEW t \in Time
    PROVE  /\ Append(q, t) \in Seq(Time) /\ Len(Append(q, t)) = Len(q) + 1
           /\ \A i \in 1..Len(q) : Append(q, t)[i] = q[i]
           /\ Append(q, t)[Len(q) + 1] = t
OBVIOUS

\* What is left when the first k timestamps are popped.
LEMMA SeqRest ==
    ASSUME NEW q \in Seq(Time), NEW k \in 0..Len(q)
    PROVE  /\ SubSeq(q, k + 1, Len(q)) \in Seq(Time)
           /\ Len(SubSeq(q, k + 1, Len(q))) = Len(q) - k
           /\ \A i \in 1..(Len(q) - k) : SubSeq(q, k + 1, Len(q))[i] = q[k + i]
OBVIOUS

\* The popping loop of allow_request_now drops old timestamps only.  StalePrefix shows
\* it of every sorted deque; the lemmas on the request window take it as a hypothesis.
PopsOld ==
    \A q \in Seq(Time) :
        Sorted(q) => /\ Stale(q) \in 0..Len(q)
                     /\ \A i \in 1..Stale(q) : q[i] < now - ReqWindow

\* Popping the old timestamps keeps the deque a window of the accepted requests.
LEMMA RecentWindow ==
    ASSUME NEW q \in Seq(Time), NEW acc \in Seq(Time), now \in Time, PopsOld, Window(q, acc, now)
    PROVE  Recent(q) \in Seq(Time) /\ Window(Recent(q), acc, now)
<1> DEFINE n == Len(q)  m == Len(acc)  k == Stale(q)  r == Recent(q)
<1>1. n \in Nat /\ m \in Nat /\ n <= m BY SeqFacts DEF Window
<1>2. \A i \in 1..m : acc[i] \in Int BY SeqFacts
<1>3. Sorted(q)
  <2> SUFFICES ASSUME NEW i \in 1..n, NEW j \in 1..n, i <= j PROVE q[i] <= q[j]
    BY DEF Sorted
  <2>1. /\ m - n + i \in 1..m /\ m - n + j \in 1..m
        /\ m - n + i <= m - n + j
    BY <1>1
  <2>2. q[i] = acc[m - n + i] /\ q[j] = acc[m - n + j] BY DEF Window
  <2>3. Sorted(acc) BY DEF Window
  <2> HIDE DEF m, n
  <2>4. acc[m - n + i] <= acc[m - n + j] BY <2>1, <2>3 DEF Sorted, m
  <2> QED BY <2>2, <2>4
<1>4. k \in 0..n /\ \A i \in 1..k : q[i] < now - ReqWindow BY <1>3, Zenon DEF PopsOld
<1> HIDE DEF k
<1>5. r = SubSeq(q, k + 1, n) BY DEF Recent, k
<1>6. r \in Seq(Time) /\ Len(r) = n - k /\ \A i \in 1..(n - k) : r[i] = q[k + i]
  BY <1>4, <1>5, SeqRest
<1>7. Len(r) = n - k /\ \A i \in 1..(n - k) : r[i] = q[k + i] BY <1>6, Zenon
<1> HIDE DEF r
<1>8. \A i \in 1..Len(r) : r[i] = acc[m - Len(r) + i]
  <2> TAKE i \in 1..Len(r)
  <2>1. r[i] = q[k + i] /\ k + i \in 1..n BY <1>1, <1>4, <1>7
  <2>2. q[k + i] = acc[m - n + (k + i)] BY <2>1 DEF Window
  <2>3. m - n + (k + i) = m - Len(r) + i BY <1>1, <1>4, <1>7
  <2> QED BY <2>1, <2>2, <2>3
<1>9. \A i \in 1..(m - Len(r)) : acc[i] < now - ReqWindow
  <2> TAKE i \in 1..(m - Len(r))
  <2>1. CASE i <= m - n BY <1>1, <2>1 DEF Window
  <2>2. CASE i > m - n
    <3>1. i - (m - n) \in 1..k BY <1>1, <1>4, <1>7, <2>2
    <3>2. q[i - (m - n)] = acc[m - n + (i - (m - n))] BY <1>1, <1>4, <3>1 DEF Window
    <3>3. m - n + (i - (m - n)) = i BY <1>1
    <3> QED BY <1>4, <3>1, <3>2, <3>3
  <2> QED BY <1>1, <2>1, <2>2
<1>10. Len(r) <= m BY <1>1, <1>4, <1>7
<1> QED BY <1>6, <1>8, <1>9, <1>10 DEF Window, r

\* A request that is accepted joins the window, and keeps the accepted requests
\* spaced because the one MaxReqPerWindow before it has left the deque.
LEMMA AcceptWindow ==
    ASSUME NEW q \in Seq(Time), NEW acc \in Seq(Time), now \in Time, Window(q, acc, now),
           Len(q) < MaxReqPerWindow
    PROVE  /\ Append(q, now) \in Seq(Time) /\ Append(acc, now) \in Seq(Time)
           /\ Window(Append(q, now), Append(acc, now), now)
<1> DEFINE n == Len(q)  m == Len(acc)  r == Append(q, now)  a == Append(acc, now)
<1>1. n \in Nat /\ m \in Nat /\ n <= m BY SeqFacts DEF Window
<1>2. \A i \in 1..m : acc[i] \in Int BY SeqFacts
<1>3. r \in Seq(Time) /\ Len(r) = n + 1 /\ (\A i \in 1..n : r[i] = q[i]) /\ r[n + 1] = now
  BY SeqAppend
<1>4. a \in Seq(Time) /\ Len(a) = m + 1 /\ (\A i \in 1..m : a[i] = acc[i]) /\ a[m + 1] = now
  BY SeqAppend
<1> HIDE DEF r, a
<1>5. now \in Int /\ ReqWindow \in Int /\ MaxReqPerWindow \in Nat \ {0}
  BY TimeAssumption DEF Time
<1>6. \A i \in 1..Len(r) : r[i] = a[Len(a) - Len(r) + i]
  <2> TAKE i \in 1..Len(r)
  <2>1. CASE i = n + 1 BY <1>1, <1>3, <1>4, <2>1
  <2>2. CASE i # n + 1
    <3>1. i \in 1..n /\ m - n + i \in 1..m BY <1>1, <1>3, <2>2
    <3>2. q[i] = acc[m - n + i] BY <3>1 DEF Window
    <3>3. Len(a) - Len(r) + i = m - n + i BY <1>1, <1>3, <1>4
    <3> QED BY <1>3, <1>4, <3>1, <3>2, <3>3, Zenon
  <2> QED BY <2>1, <2>2
<1>7. \A i \in 1..(Len(a) - Len(r)) : a[i] < now - ReqWindow
  <2> TAKE i \in 1..(Len(a) - Len(r))
  <2>1. i \in 1..(m - n) /\ i \in 1..m BY <1>1, <1>3, <1>4
  <2> QED BY <1>4, <2>1 DEF Window
<1>8. \A i \in 1..Len(a) : a[i] <= now
  <2> TAKE i \in 1..Len(a)
  <2>1. CASE i = m + 1 BY <1>4, <1>5, <2>1
  <2>2. CASE i # m + 1
    <3>1. i \in 1..m BY <1>1, <1>4, <2>2
    <3>2. acc[i] <= now BY <3>1, Zenon DEF Window
    <3> QED BY <1>4, <3>1, <3>2, Zenon
  <2> QED BY <2>1, <2>2
<1>9. Sorted(a)
  <2> SUFFICES ASSUME NEW i \in 1..Len(a), NEW j \in 1..Len(a), i <= j PROVE a[i] <= a[j]
    BY DEF Sorted
  <2>1. CASE j = m + 1 BY <1>4, <1>8, <2>1
  <2>2. CASE j # m + 1
    <3>1. i \in 1..m /\ j \in 1..m BY <1>1, <1>4, <2>2
    <3>2. acc[i] <= acc[j] BY <3>1 DEF Window, Sorted
    <3> QED BY <1>4, <3>1, <3>2
  <2> QED BY <2>1, <2>2
<1>10. Spaced(a)
  <2> DEFINE M == MaxReqPerWindow
  <2> SUFFICES ASSUME NEW i \in 1..Len(a), i + M <= Len(a) PROVE a[i + M] - a[i] > ReqWindow
    BY DEF Spaced
  <2>1. i \in 1..m /\ a[i] = acc[i] BY <1>1, <1>4, <1>5
  <2>2. CASE i + M = m + 1
    <3>1. i \in 1..(m - n) BY <1>1, <1>5, <2>1, <2>2
    <3>2. acc[i] < now - ReqWindow BY <3>1 DEF Window
    <3>3. a[i + M] = now BY <1>4, <2>2
    <3> QED BY <1>2, <1>5, <2>1, <3>2, <3>3
  <2>3. CASE i + M # m + 1
    <3>1. i + M \in 1..m
      <4>1. i + M <= m + 1 BY <1>4
      <4> QED BY <1>1, <1>5, <2>1, <2>3, <4>1
    <3>2. acc[i + M] - acc[i] > ReqWindow BY <1>1, <2>1, <3>1 DEF Window, Spaced
    <3> QED BY <1>4, <2>1, <3>1, <3>2
  <2> QED BY <2>2, <2>3
<1>11. Len(r) <= Len(a) BY <1>1, <1>3, <1>4
<1>12. Window(r, a, now) BY <1>6, <1>7, <1>8, <1>9, <1>10, <1>11 DEF Window
<1> QED BY <1>3, <1>4, <1>12 DEF r, a

-----------------------------------------------------------------------------
(* The inductive invariant.  It is a fact about each connection by itself, *)
(* with the clock: where its task is, its session and its accepted         *)
(* requests; and the accounting of the limiter.                            *)

Served == {"reading", "frames", "sending"}

\* A chunk is handled at the moment it arrived; a read was started in time.
Timely(p, x, t) ==
    /\ p = "frames" => x.left > 0 /\ x.lastActivity = t
    /\ p = "reading" =>
         /\ x.readAt <= t /\ t <= x.readAt + ReadTimeout
         /\ x.handshake # "verified" => x.readAt - x.connectedAt < HandshakeTimeout
         /\ ~x.active => x.readAt - x.lastActivity < IdleTimeout

Good(p, x, acc, t) ==
    /\ x.acquired => p \in Served
    /\ Window(x.stamps, acc, t)
    /\ Timely(p, x, t)

SessionTypes ==
    /\ now \in Time
    /\ phase \in [Conn -> Phase] /\ s \in [Conn -> Session] /\ accepted \in [Conn -> Seq(Time)]

SessionInv == SessionTypes /\ \A c \in Conn : Good(phase[c], s[c], accepted[c], now)

LimiterTypes == activeTotal \in Nat /\ activeByIp \in [Ip -> Nat] /\ metric \in Nat

IInv == SessionInv /\ LimiterTypes /\ LimiterAccounting

\* What a step of connection c leaves behind: phase p, session x, accepted requests
\* a; and it keeps its slot, gets one, or gives it back.
SlotChange(c, x) ==
    \/ x.acquired = s[c].acquired /\ (x.acquired => x.ip = s[c].ip) /\ UNCHANGED limiter
    \/ ~s[c].acquired /\ x.acquired /\ TryAcquire(x.ip)
    \/ s[c].acquired /\ ~x.acquired /\ Release(s[c].ip)

Update(c, p, x, a) ==
    /\ p \in Phase /\ x \in Session /\ a \in Seq(Time)
    /\ now' = now
    /\ phase' = [phase EXCEPT ![c] = p]
    /\ s' = [s EXCEPT ![c] = x]
    /\ accepted' = [accepted EXCEPT ![c] = a]
    /\ Good(p, x, a, now)
    /\ SlotChange(c, x)

\* Such a step keeps the invariant of the sessions.
LEMMA UpdateSessions ==
    ASSUME SessionInv, NEW c \in Conn, NEW p, NEW x, NEW a, Update(c, p, x, a)
    PROVE  SessionInv'
<1>1. SessionTypes' BY DEF SessionInv, SessionTypes, Update
<1>2. ASSUME NEW d \in Conn PROVE Good(phase'[d], s'[d], accepted'[d], now')
  <2>1. CASE d = c
    <3>1. phase'[d] = p /\ s'[d] = x /\ accepted'[d] = a /\ now' = now
      BY <2>1 DEF SessionInv, SessionTypes, Update
    <3> QED BY <3>1 DEF Update
  <2>2. CASE d # c
    <3>1. /\ phase'[d] = phase[d] /\ s'[d] = s[d] /\ accepted'[d] = accepted[d]
          /\ now' = now
      BY <2>2 DEF SessionInv, SessionTypes, Update
    <3> QED BY <3>1 DEF SessionInv
  <2> QED BY <2>1, <2>2
<1> QED BY <1>1, <1>2 DEF SessionInv

\* Who holds a slot after a step of c that changed its session to x.
LEMMA SlotSets ==
    ASSUME s \in [Conn -> Session], NEW c \in Conn, NEW x \in Session, NEW a \in Ip,
           s' = [s EXCEPT ![c] = x], a = s[c].ip
    PROVE  /\ (x.acquired = s[c].acquired /\ (x.acquired => x.ip = a))
                => (Acquired' = Acquired /\ \A i : AcquiredFrom(i)' = AcquiredFrom(i))
           /\ (~s[c].acquired /\ x.acquired)
                => /\ c \notin Acquired /\ Acquired' = Acquired \cup {c}
                   /\ c \notin AcquiredFrom(x.ip)
                   /\ AcquiredFrom(x.ip)' = AcquiredFrom(x.ip) \cup {c}
                   /\ \A i \in Ip \ {x.ip} : AcquiredFrom(i)' = AcquiredFrom(i)
           /\ (s[c].acquired /\ ~x.acquired)
                => /\ c \in Acquired /\ Acquired' = Acquired \ {c}
                   /\ c \in AcquiredFrom(a) /\ AcquiredFrom(a)' = AcquiredFrom(a) \ {c}
                   /\ \A i \in Ip \ {a} : AcquiredFrom(i)' = AcquiredFrom(i)
<1>1. s'[c] = x /\ \A d \in Conn : d # c => s'[d] = s[d] OBVIOUS
<1>2. ASSUME x.acquired = s[c].acquired, x.acquired => x.ip = a
      PROVE  Acquired' = Acquired /\ \A i : AcquiredFrom(i)' = AcquiredFrom(i)
  <2>1. Acquired' = Acquired BY <1>1, <1>2 DEF Acquired
  <2>2. \A i : AcquiredFrom(i)' = AcquiredFrom(i)
    BY <1>1, <1>2, <2>1 DEF Acquired, AcquiredFrom
  <2> QED BY <2>1, <2>2
<1>3. ASSUME ~s[c].acquired, x.acquired
      PROVE  /\ c \notin Acquired /\ Acquired' = Acquired \cup {c}
             /\ c \notin AcquiredFrom(x.ip)
             /\ AcquiredFrom(x.ip)' = AcquiredFrom(x.ip) \cup {c}
             /\ \A i \in Ip \ {x.ip} : AcquiredFrom(i)' = AcquiredFrom(i)
  <2>1. c \notin Acquired /\ Acquired' = Acquired \cup {c} BY <1>1, <1>3 DEF Acquired
  <2>2. c \notin AcquiredFrom(x.ip) /\ AcquiredFrom(x.ip)' = AcquiredFrom(x.ip) \cup {c}
    BY <1>1, <1>3, <2>1 DEF Acquired, AcquiredFrom
  <2>3. \A i \in Ip \ {x.ip} : AcquiredFrom(i)' = AcquiredFrom(i)
    BY <1>1, <1>3, <2>1 DEF Acquired, AcquiredFrom
  <2> QED BY <2>1, <2>2, <2>3
<1>4. ASSUME s[c].acquired, ~x.acquired
      PROVE  /\ c \in Acquired /\ Acquired' = Acquired \ {c}
             /\ c \in AcquiredFrom(a) /\ AcquiredFrom(a)' = AcquiredFrom(a) \ {c}
             /\ \A i \in Ip \ {a} : AcquiredFrom(i)' = AcquiredFrom(i)
  <2>1. c \in Acquired /\ Acquired' = Acquired \ {c} BY <1>1, <1>4 DEF Acquired
  <2>2. c \in AcquiredFrom(a) /\ AcquiredFrom(a)' = AcquiredFrom(a) \ {c}
    BY <1>1, <1>4, <2>1 DEF Acquired, AcquiredFrom
  <2>3. \A i \in Ip \ {a} : AcquiredFrom(i)' = AcquiredFrom(i)
    BY <1>1, <1>4, <2>1 DEF Acquired, AcquiredFrom
  <2> QED BY <2>1, <2>2, <2>3
<1> QED BY <1>2, <1>3, <1>4, Zenon

-----------------------------------------------------------------------------
(* Every step of a connection is such an update.                           *)

\* The facts about the session of c that its steps use.
LEMMA SessionFacts ==
    ASSUME SessionInv, NEW c \in Conn
    PROVE  /\ s[c] \in Session /\ accepted[c] \in Seq(Time) /\ phase[c] \in Phase
           /\ now \in Time /\ now \in Int
           /\ Good(phase[c], s[c], accepted[c], now)
           /\ accepted = [accepted EXCEPT ![c] = accepted[c]]
<1>1. now \in Time BY DEF SessionInv, SessionTypes
<1>2. now \in Int BY <1>1 DEF Time
<1> QED BY <1>1, <1>2 DEF SessionInv, SessionTypes

\* A discarded session is a session, without a slot, with its time stamps.
LEMMA DiscardedType ==
    ASSUME NEW x \in Session
    PROVE  /\ Discarded(x) \in Session /\ Discarded(x).acquired = FALSE
           /\ Discarded(x).stamps = x.stamps
<1>1. 0 \in Time /\ 0 \in 0..MaxFrames BY TimeAssumption DEF Time
<1> QED BY <1>1, Zenon DEF Discarded, Session

\* The cleanup of handle_client gives the slot back and closes.
LEMMA CleanupUpdates ==
    ASSUME SessionInv, NEW c \in Conn, Cleanup(c), UNCHANGED accepted
    PROVE  Update(c, "closing", Discarded(s[c]), accepted[c])
<1> DEFINE x == Discarded(s[c])
<1>1. x \in Session /\ ~x.acquired /\ x.stamps = s[c].stamps BY SessionFacts, DiscardedType, Zenon
<1>2. s' = [s EXCEPT ![c] = x] BY SessionFacts DEF Cleanup, SessionInv, SessionTypes
<1>3. SlotChange(c, x)
  <2>2. CASE s[c].acquired
    <3>1. Release(s[c].ip) BY <2>2 DEF Cleanup
    <3> HIDE DEF x
    <3> QED BY <1>1, <2>2, <3>1, Zenon DEF SlotChange
  <2>3. CASE ~s[c].acquired
    <3>1. UNCHANGED limiter BY <2>3 DEF Cleanup
    <3>2. s[c].acquired = FALSE BY <2>3, SessionFacts DEF Session
    <3>3. x.acquired = FALSE BY SessionFacts, DiscardedType, Zenon
    <3> HIDE DEF x
    <3> QED BY <3>1, <3>2, <3>3, Zenon DEF SlotChange
  <2> QED BY <2>2, <2>3
<1>4. Good("closing", x, accepted[c], now) BY <1>1, SessionFacts DEF Good, Timely
<1> HIDE DEF x
<1>5. Update(c, "closing", x, accepted[c])
  BY <1>1, <1>2, <1>3, <1>4, SessionFacts, Zenon DEF Update, Cleanup, Go, Phase
<1> QED BY <1>5 DEF x

\* The session x that a step made of s[c] without touching its slot.
Successor(c, x, a) ==
    /\ x \in Session /\ a \in Seq(Time)
    /\ x.ip = s[c].ip /\ x.acquired = s[c].acquired
    /\ Window(x.stamps, a, now)

\* From the top of the loop a task reads again, or ends because the handshake is late.
LEMMA LoopTopUpdates ==
    ASSUME SessionInv, NEW c \in Conn, NEW x, NEW a, Successor(c, x, a), LoopTop(c, x),
           accepted' = [accepted EXCEPT ![c] = a],
           ~x.active => now - x.lastActivity < IdleTimeout,
           HandshakeLate(x) => a = accepted[c]
    PROVE  \E p, y, b : Update(c, p, y, b)
<1>1. CASE HandshakeLate(x)
  <2>1. Cleanup(c) /\ UNCHANGED accepted BY <1>1, SessionFacts DEF LoopTop
  <2> QED BY <2>1, CleanupUpdates
<1>2. CASE ~HandshakeLate(x)
  <2> DEFINE y == [x EXCEPT !.readAt = now]
  <2>1. /\ y \in Session /\ y.readAt = now
        /\ y.ip = x.ip /\ y.acquired = x.acquired /\ y.stamps = x.stamps
        /\ y.handshake = x.handshake /\ y.connectedAt = x.connectedAt
        /\ y.active = x.active /\ y.lastActivity = x.lastActivity
    BY SessionFacts, Zenon DEF Successor, Session
  <2>2. /\ phase' = [phase EXCEPT ![c] = "reading"] /\ s' = [s EXCEPT ![c] = y]
        /\ now' = now /\ UNCHANGED limiter
    BY <1>2 DEF LoopTop, Go
  <2> HIDE DEF y
  <2>3. ReadTimeout \in Nat /\ now \in Int /\ now <= now /\ now <= now + ReadTimeout
    BY TimeAssumption, SessionFacts
  <2>4. x.handshake # "verified" => now - x.connectedAt < HandshakeTimeout
    <3>1. x.connectedAt \in Int BY DEF Successor, Session, Time
    <3>2. HandshakeTimeout \in Nat BY TimeAssumption
    <3> QED BY <1>2, <2>3, <3>1, <3>2 DEF HandshakeLate
  <2>5. Timely("reading", y, now) BY <2>1, <2>3, <2>4 DEF Timely
  <2>6. Good("reading", y, a, now) BY <2>1, <2>5 DEF Good, Served, Successor
  <2>7. SlotChange(c, y) BY <2>1, <2>2 DEF SlotChange, Successor
  <2>8. Update(c, "reading", y, a) BY <2>1, <2>2, <2>6, <2>7 DEF Update, Phase, Successor
  <2> QED BY <2>8
<1> QED BY <1>1, <1>2

\* After a frame the next one is handled at the same moment, or the loop starts over.
LEMMA NextFrameUpdates ==
    ASSUME SessionInv, NEW c \in Conn, NEW x, NEW a, Successor(c, x, a), NextFrame(c, x),
           accepted' = [accepted EXCEPT ![c] = a],
           x.lastActivity = now,
           HandshakeLate(x) => a = accepted[c]
    PROVE  \E p, y, b : Update(c, p, y, b)
<1>1. now - x.lastActivity < IdleTimeout
  <2>1. IdleTimeout \in Nat \ {0} BY TimeAssumption
  <2> QED BY <2>1, SessionFacts
<1>2. CASE x.left = 0
  <2>1. LoopTop(c, x) BY <1>2 DEF NextFrame
  <2> QED BY <1>1, <2>1, LoopTopUpdates, Zenon
<1>3. CASE x.left # 0
  <2>1. x.left > 0 BY <1>3, TimeAssumption DEF Successor, Session
  <2>2. Good("frames", x, a, now) BY <2>1 DEF Good, Timely, Served, Successor
  <2>3. Update(c, "frames", x, a)
    BY <1>3, <2>2 DEF NextFrame, Go, Update, SlotChange, Phase, Successor
  <2> QED BY <2>3
<1> QED BY <1>2, <1>3

\* An answer suspends the task in the drain.
LEMMA AnswerUpdates ==
    ASSUME SessionInv, NEW c \in Conn, NEW x, NEW a, NEW f \in {"keep", "reset", "close"},
           Successor(c, x, a), Answer(c, x, f), accepted' = [accepted EXCEPT ![c] = a]
    PROVE  \E p, y, b : Update(c, p, y, b)
<1> DEFINE y == [x EXCEPT !.after = f]
<1>1. y \in Session /\ y.ip = x.ip /\ y.acquired = x.acquired /\ y.stamps = x.stamps
  BY DEF Successor, Session
<1>2. /\ phase' = [phase EXCEPT ![c] = "sending"] /\ s' = [s EXCEPT ![c] = y]
      /\ now' = now /\ UNCHANGED limiter
  BY DEF Answer, Go
<1> HIDE DEF y
<1>3. Good("sending", y, a, now) BY <1>1 DEF Good, Timely, Served, Successor
<1>4. Update(c, "sending", y, a)
  BY <1>1, <1>2, <1>3 DEF Update, SlotChange, Phase, Successor
<1> QED BY <1>4

\* A frame taken off the chunk, with its timestamp or without.
LEMMA TakenFacts ==
    ASSUME SessionInv, NEW c \in Conn, phase[c] = "frames"
    PROVE  /\ Successor(c, Taken(c), accepted[c])
           /\ Taken(c).lastActivity = now
           /\ Taken(c).handshake = s[c].handshake
<1>1. /\ s[c] \in Session /\ s[c].left > 0 /\ s[c].lastActivity = now
      /\ accepted[c] \in Seq(Time) /\ Window(s[c].stamps, accepted[c], now)
  BY SessionFacts DEF Good, Timely
<1> DEFINE l == s[c].left - 1
<1>2. l \in 0..MaxFrames BY <1>1, TimeAssumption DEF Session
<1>3. Taken(c) = [s[c] EXCEPT !.left = l] BY <1>1 DEF Taken, Session
<1> HIDE DEF l
<1>4. /\ Taken(c) \in Session /\ Taken(c).ip = s[c].ip /\ Taken(c).acquired = s[c].acquired
      /\ Taken(c).stamps = s[c].stamps /\ Taken(c).lastActivity = s[c].lastActivity
      /\ Taken(c).handshake = s[c].handshake
  BY <1>1, <1>2, <1>3 DEF Session
<1> QED BY <1>1, <1>4 DEF Successor

\* Popping the old timestamps keeps a session a successor.
LEMMA PoppedFacts ==
    ASSUME SessionInv, PopsOld, NEW c \in Conn, phase[c] = "frames"
    PROVE  Successor(c, [Taken(c) EXCEPT !.stamps = Recent(@)], accepted[c])
<1> DEFINE x == Taken(c)  q == Recent(x.stamps)
<1>1. Successor(c, x, accepted[c]) BY TakenFacts
<1> HIDE DEF x
<1>2. x.stamps \in Seq(Time) BY <1>1 DEF Successor, Session
<1>3. q \in Seq(Time) /\ Window(q, accepted[c], now)
  BY <1>1, <1>2, RecentWindow, SessionFacts DEF Successor
<1>4. [x EXCEPT !.stamps = Recent(@)] = [x EXCEPT !.stamps = q] BY <1>1 DEF Successor, Session
<1> HIDE DEF q
<1>5. Successor(c, [x EXCEPT !.stamps = q], accepted[c]) BY <1>1, <1>3 DEF Successor, Session
<1> QED BY <1>4, <1>5 DEF x

\* An admitted request leaves a successor with one accepted request more.
LEMMA StampedFacts ==
    ASSUME SessionInv, PopsOld, NEW c \in Conn, phase[c] = "frames", AllowRequestNow(c)
    PROVE  /\ Successor(c, Stamped(c), Append(accepted[c], now))
           /\ Stamped(c).lastActivity = now
           /\ Stamped(c).handshake = s[c].handshake
<1> DEFINE x == Taken(c)  q == Recent(x.stamps)  r == Append(q, now)
<1>1. /\ Successor(c, x, accepted[c]) /\ x.lastActivity = now
      /\ x.handshake = s[c].handshake
  BY TakenFacts
<1>2. x.stamps = s[c].stamps BY SessionFacts DEF Taken, Session
<1> HIDE DEF x
<1>3. x.stamps \in Seq(Time) BY <1>1 DEF Successor, Session
<1>4. q \in Seq(Time) /\ Window(q, accepted[c], now)
  BY <1>1, <1>3, RecentWindow, SessionFacts DEF Successor
<1>5. Len(q) < MaxReqPerWindow BY <1>2 DEF AllowRequestNow
<1>6. /\ r \in Seq(Time) /\ Append(accepted[c], now) \in Seq(Time)
      /\ Window(r, Append(accepted[c], now), now)
  <2> HIDE DEF q
  <2> QED BY <1>4, <1>5, AcceptWindow, SessionFacts
<1>7. Stamped(c) = [x EXCEPT !.stamps = r] BY <1>1 DEF Stamped, Successor, Session, x
<1> HIDE DEF r
<1> QED BY <1>1, <1>6, <1>7 DEF Successor, Session

-----------------------------------------------------------------------------
(* The actions.                                                            *)

\* Admission: an admitted connection starts to read, a refused one closes.
LEMMA OpenUpdates ==
    ASSUME SessionInv, NEW c \in Conn, NEW ip \in Ip, Open(c, ip)
    PROVE  \E p, y, b : Update(c, p, y, b)
<1>1. now \in Time /\ now \in Int /\ ~s[c].acquired /\ s[c].acquired \in BOOLEAN
  BY SessionFacts DEF Open, Good, Served, Session
<1>2. 0 \in Time BY TimeAssumption DEF Time
<1>3. <<>> \in Seq(Time) /\ Window(<<>>, <<>>, now) BY DEF Window, Sorted, Spaced
<1> DEFINE n == NewSession(ip)
<1>4. /\ n \in Session /\ n.ip = ip /\ n.acquired = FALSE /\ n.stamps = <<>>
      /\ n.readAt = now /\ n.connectedAt = now /\ n.lastActivity = now
  BY <1>1, <1>2, <1>3, TimeAssumption DEF NewSession, Session
<1> HIDE DEF n
<1>5. accepted' = [accepted EXCEPT ![c] = <<>>] /\ now' = now BY DEF Open
<1>6. CASE TryAcquire(ip) /\ s' = [s EXCEPT ![c] = [n EXCEPT !.acquired = TRUE]] /\ Go(c, "reading")
  <2> DEFINE x == [n EXCEPT !.acquired = TRUE]
  <2>1. /\ x \in Session /\ x.ip = ip /\ x.acquired = TRUE /\ x.stamps = <<>>
        /\ x.readAt = now /\ x.connectedAt = now /\ x.lastActivity = now
    BY <1>4, Zenon DEF Session
  <2> HIDE DEF x
  <2>2. Timely("reading", x, now)
    <3>1. ReadTimeout \in Nat /\ HandshakeTimeout \in Nat \ {0} /\ IdleTimeout \in Nat \ {0}
      BY TimeAssumption
    <3> QED BY <1>1, <2>1, <3>1 DEF Timely
  <2>3. Good("reading", x, <<>>, now) BY <1>3, <2>1, <2>2 DEF Good, Served
  <2>4. SlotChange(c, x) BY <1>1, <1>6, <2>1 DEF SlotChange
  <2>5. Update(c, "reading", x, <<>>)
    BY <1>3, <1>5, <1>6, <2>1, <2>3, <2>4 DEF Update, Phase, Go, x
  <2> QED BY <2>5
<1>7. CASE s' = [s EXCEPT ![c] = Discarded(n)] /\ Go(c, "closing") /\ UNCHANGED limiter
  <2>0. /\ Discarded(n) \in Session /\ Discarded(n).acquired = FALSE
        /\ Discarded(n).stamps = <<>>
    BY <1>4, DiscardedType, Zenon
  <2>1. Good("closing", Discarded(n), <<>>, now) BY <1>3, <2>0 DEF Good, Timely
  <2>2. SlotChange(c, Discarded(n)) BY <1>1, <2>0, <1>7, Zenon DEF SlotChange
  <2>3. Update(c, "closing", Discarded(n), <<>>)
    BY <1>3, <1>5, <1>7, <2>0, <2>1, <2>2 DEF Update, Phase, Go
  <2> QED BY <2>3
<1> QED BY <1>6, <1>7 DEF Open, n

\* A chunk is handled at once, frame by frame.
LEMMA ChunkUpdates ==
    ASSUME SessionInv, NEW c \in Conn, NEW n \in 0..MaxFrames, Chunk(c, n)
    PROVE  \E p, y, b : Update(c, p, y, b)
<1> DEFINE x == [s[c] EXCEPT !.lastActivity = now, !.left = n]
<1>1. /\ x \in Session /\ x.ip = s[c].ip /\ x.acquired = s[c].acquired
      /\ x.stamps = s[c].stamps /\ x.lastActivity = now /\ x.left = n
  BY SessionFacts, Zenon DEF Session
<1>2. Successor(c, x, accepted[c]) BY <1>1, SessionFacts DEF Successor, Good
<1>3. accepted' = [accepted EXCEPT ![c] = accepted[c]] BY SessionFacts DEF Chunk
<1>4. NextFrame(c, x) BY <1>1 DEF Chunk, NextFrame
<1> HIDE DEF x
<1> QED BY <1>1, <1>2, <1>3, <1>4, NextFrameUpdates, Zenon

\* A read that expires is answered, ended or started again.
LEMMA TimeoutUpdates ==
    ASSUME SessionInv, NEW c \in Conn,
           UploadTimesOut(c) \/ IdleTimesOut(c) \/ ReadAgain(c) \/ Disconnect(c)
    PROVE  \E p, y, b : Update(c, p, y, b)
<1>1. accepted' = [accepted EXCEPT ![c] = accepted[c]] /\ UNCHANGED accepted
  BY SessionFacts DEF UploadTimesOut, IdleTimesOut, ReadAgain, Disconnect
<1>2. Successor(c, s[c], accepted[c]) BY SessionFacts DEF Successor, Good
<1>3. CASE UploadTimesOut(c)
  <2>1. Answer(c, s[c], "close")
    BY <1>3, SessionFacts DEF UploadTimesOut, Answer, SessionInv, SessionTypes
  <2> QED BY <1>1, <1>2, <2>1, AnswerUpdates
<1>4. CASE IdleTimesOut(c) \/ Disconnect(c)
  BY <1>1, <1>4, CleanupUpdates DEF IdleTimesOut, Disconnect
<1>5. CASE ReadAgain(c)
  <2>1. ~s[c].active => now - s[c].lastActivity < IdleTimeout
    <3>1. s[c].lastActivity \in Int /\ now \in Int /\ IdleTimeout \in Int
      BY SessionFacts, TimeAssumption DEF Session, Time
    <3> QED BY <1>5, <3>1 DEF ReadAgain, Idle
  <2> QED BY <1>1, <1>2, <1>5, <2>1, LoopTopUpdates DEF ReadAgain
<1> QED BY <1>3, <1>4, <1>5

\* A limited request is refused or accepted.
LEMMA RequestUpdates ==
    ASSUME SessionInv, PopsOld, NEW c \in Conn, RateLimited(c) \/ ControlRequest(c)
    PROVE  \E p, y, b : Update(c, p, y, b)
<1>1. CASE RateLimited(c)
  <2>1. accepted' = [accepted EXCEPT ![c] = accepted[c]] BY <1>1, SessionFacts DEF RateLimited
  <2> DEFINE x == [Taken(c) EXCEPT !.stamps = Recent(@)]
  <2>2. Successor(c, x, accepted[c]) BY <1>1, PoppedFacts DEF RateLimited
  <2>3. Answer(c, x, "close") BY <1>1 DEF RateLimited
  <2> HIDE DEF x
  <2> QED BY <2>1, <2>2, <2>3, AnswerUpdates, Zenon
<1>2. CASE ControlRequest(c)
  <2> DEFINE x == Stamped(c)  a == Append(accepted[c], now)  v == [x EXCEPT !.handshake = "verified"]
  <2>1. accepted' = [accepted EXCEPT ![c] = a] BY <1>2 DEF ControlRequest
  <2>2. Successor(c, x, a) /\ x.lastActivity = now BY <1>2, StampedFacts DEF ControlRequest
  <2>3. \/ Answer(c, [x EXCEPT !.handshake = "hello"], "keep")
        \/ NextFrame(c, v)
        \/ Answer(c, x, "keep") \/ Answer(c, x, "reset")
    BY <1>2 DEF ControlRequest
  <2> HIDE DEF x, a
  <2>4. Successor(c, [x EXCEPT !.handshake = "hello"], a) BY <2>2 DEF Successor, Session
  <2>5. Successor(c, v, a) /\ v.lastActivity = now /\ ~HandshakeLate(v)
    BY <2>2 DEF Successor, Session, HandshakeLate
  <2> HIDE DEF v
  <2>6. CASE NextFrame(c, v) BY <2>1, <2>5, <2>6, NextFrameUpdates, Zenon
  <2>7. CASE Answer(c, [x EXCEPT !.handshake = "hello"], "keep")
    BY <2>1, <2>4, <2>7, AnswerUpdates, Zenon
  <2>8. CASE Answer(c, x, "keep") \/ Answer(c, x, "reset") BY <2>1, <2>2, <2>8, AnswerUpdates, Zenon
  <2> QED BY <2>3, <2>6, <2>7, <2>8
<1> QED BY <1>1, <1>2

\* A frame without limit is refused or is a packet of an upload.
LEMMA PacketUpdates ==
    ASSUME SessionInv, NEW c \in Conn, Refusal(c) \/ SilentFrame(c) \/ UploadPacket(c)
    PROVE  \E p, y, b : Update(c, p, y, b)
<1>1. accepted' = [accepted EXCEPT ![c] = accepted[c]] /\ phase[c] = "frames"
  BY SessionFacts DEF Refusal, SilentFrame, UploadPacket
<1> DEFINE x == Taken(c)
<1>2. Successor(c, x, accepted[c]) /\ x.lastActivity = now BY <1>1, TakenFacts
<1>3. CASE Refusal(c)
  <2>1. Answer(c, x, "keep") \/ Answer(c, x, "reset") BY <1>3 DEF Refusal
  <2> HIDE DEF x
  <2> QED BY <1>1, <1>2, <2>1, AnswerUpdates, Zenon
<1>4. CASE UploadPacket(c)
  <2> DEFINE y == [x EXCEPT !.active = TRUE, !.progress = now, !.lastActivity = now]
  <2>1. NextFrame(c, y) \/ Answer(c, y, "keep") BY <1>4 DEF UploadPacket
  <2> HIDE DEF x
  <2>2. Successor(c, y, accepted[c]) /\ y.lastActivity = now
    BY <1>2, SessionFacts, Zenon DEF Successor, Session
  <2> HIDE DEF y
  <2>3. CASE NextFrame(c, y) BY <1>1, <2>2, <2>3, NextFrameUpdates, Zenon
  <2>4. CASE Answer(c, y, "keep") BY <1>1, <2>2, <2>4, AnswerUpdates, Zenon
  <2> QED BY <2>1, <2>3, <2>4
<1>5. CASE SilentFrame(c)
  <2>1. PICK on \in {s[c].active, FALSE} : NextFrame(c, [x EXCEPT !.active = on])
    BY <1>5, Zenon DEF SilentFrame
  <2>2. on \in BOOLEAN BY SessionFacts, Zenon DEF Session
  <2> HIDE DEF x
  <2> DEFINE y == [x EXCEPT !.active = on]
  <2>3. Successor(c, y, accepted[c]) /\ y.lastActivity = now
    BY <1>2, <2>2 DEF Successor, Session
  <2>4. NextFrame(c, y) BY <2>1
  <2> HIDE DEF y
  <2> QED BY <1>1, <2>3, <2>4, NextFrameUpdates, Zenon
<1> QED BY <1>3, <1>4, <1>5

\* After a send the task goes on with the next frame, or ends.
LEMMA SentUpdates ==
    ASSUME SessionInv, NEW c \in Conn, Sent(c) \/ Closed(c)
    PROVE  \E p, y, b : Update(c, p, y, b)
<1>1. Sent(c) => accepted' = [accepted EXCEPT ![c] = accepted[c]] /\ UNCHANGED accepted
  BY SessionFacts DEF Sent
<1>2. CASE Sent(c) /\ s[c].after = "close" BY <1>1, <1>2, CleanupUpdates DEF Sent
<1>3. CASE Sent(c) /\ s[c].after # "close"
  <2> DEFINE z == s[c].active /\ s[c].after = "keep"
             x == [s[c] EXCEPT !.lastActivity = now, !.after = "keep", !.active = z]
  <2>1. z \in BOOLEAN OBVIOUS
  <2>2. NextFrame(c, x) BY <1>3, SessionFacts DEF Sent, Session
  <2> HIDE DEF z
  <2>3. /\ x \in Session /\ x.ip = s[c].ip /\ x.acquired = s[c].acquired
        /\ x.stamps = s[c].stamps /\ x.lastActivity = now
    BY <2>1, SessionFacts, Zenon DEF Session
  <2>4. Successor(c, x, accepted[c]) BY <2>3, SessionFacts DEF Successor, Good
  <2> HIDE DEF x
  <2> QED BY <1>1, <1>3, <2>2, <2>3, <2>4, NextFrameUpdates
<1>4. CASE Closed(c)
  <2> DEFINE x == [s[c] EXCEPT !.stamps = <<>>]
  <2>1. phase[c] = "closing" /\ s[c].acquired = FALSE /\ UNCHANGED limiter
    BY <1>4, SessionFacts DEF Closed, Good, Served, Session
  <2>2. s' = [s EXCEPT ![c] = x] BY <1>4, SessionFacts DEF Closed, SessionInv, SessionTypes
  <2>3. x \in Session /\ x.acquired = FALSE /\ x.stamps = <<>>
    <3>1. <<>> \in Seq(Time) OBVIOUS
    <3> QED BY <2>1, <3>1, SessionFacts, Zenon DEF Session
  <2> HIDE DEF x
  <2>4. Window(<<>>, <<>>, now) /\ <<>> \in Seq(Time) BY DEF Window, Sorted, Spaced
  <2>5. Good("gone", x, <<>>, now) BY <2>3, <2>4 DEF Good, Timely
  <2>6. SlotChange(c, x) BY <2>1, <2>3, Zenon DEF SlotChange
  <2>7. Update(c, "gone", x, <<>>)
    BY <1>4, <2>2, <2>3, <2>4, <2>5, <2>6, Zenon DEF Update, Closed, Go, Phase
  <2> QED BY <2>7
<1> QED BY <1>2, <1>3, <1>4

\* Time does not pass the deadline of a read nor move while frames are handled.
LEMMA TickKeeps ==
    ASSUME SessionInv, Tick
    PROVE  SessionInv'
<1>1. /\ now \in Int /\ now' = now + 1 /\ now' \in Time /\ now' \in Int
      /\ phase' = phase /\ s' = s /\ accepted' = accepted
  BY TimeAssumption DEF SessionInv, SessionTypes, Tick, Time
<1>2. ASSUME NEW c \in Conn PROVE Good(phase[c], s[c], accepted[c], now')
  <2>1. s[c] \in Session /\ accepted[c] \in Seq(Time) /\ Good(phase[c], s[c], accepted[c], now)
    BY SessionFacts
  <2>2. phase[c] # "frames" /\ ~ReadExpired(c) BY DEF Tick
  <2>3. ReqWindow \in Int /\ ReadTimeout \in Int BY TimeAssumption
  <2>4. \A i \in 1..Len(accepted[c]) : accepted[c][i] \in Int BY <2>1, SeqFacts
  <2>5. Window(s[c].stamps, accepted[c], now')
    <3>1. s[c].stamps \in Seq(Time) BY <2>1 DEF Session
    <3>2. Len(s[c].stamps) \in Nat /\ Len(accepted[c]) \in Nat BY <2>1, <3>1, SeqFacts
    <3>3. Window(s[c].stamps, accepted[c], now) BY <2>1 DEF Good
    <3>4. \A i \in 1..Len(accepted[c]) : accepted[c][i] <= now'
      BY <1>1, <2>4, <3>3 DEF Window
    <3>5. \A i \in 1..(Len(accepted[c]) - Len(s[c].stamps)) : accepted[c][i] < now' - ReqWindow
      <4>1. ASSUME NEW i \in 1..(Len(accepted[c]) - Len(s[c].stamps))
            PROVE  accepted[c][i] < now' - ReqWindow
        <5>1. i \in 1..Len(accepted[c]) BY <3>2
        <5>2. accepted[c][i] < now - ReqWindow BY <3>3, Zenon DEF Window
        <5> QED BY <1>1, <2>3, <2>4, <5>1, <5>2
      <4> QED BY <4>1, Zenon
    <3> QED BY <3>3, <3>4, <3>5, Zenon DEF Window
  <2>6. Timely(phase[c], s[c], now')
    <3>1. s[c].readAt \in Int BY <2>1 DEF Session, Time
    <3>2. phase[c] = "reading" => now' <= s[c].readAt + ReadTimeout /\ s[c].readAt <= now'
      BY <1>1, <2>1, <2>2, <2>3, <3>1 DEF ReadExpired, Good, Timely
    <3> QED BY <2>1, <2>2, <3>2 DEF Good, Timely
  <2> QED BY <2>1, <2>5, <2>6 DEF Good
<1>3. SessionTypes' BY <1>1 DEF SessionInv, SessionTypes
<1> QED BY <1>1, <1>2, <1>3 DEF SessionInv

-----------------------------------------------------------------------------
(* Counting: how many timestamps the loop pops and how many connections   *)
(* hold a slot.                                                            *)
INSTANCE FiniteSetTheorems

\* The numbers from 1 to n are n numbers.
LEMMA CountTo ==
    ASSUME NEW n \in Nat
    PROVE  IsFiniteSet(1..n) /\ Cardinality(1..n) = n
<1>1. 1 \in Int /\ n \in Int OBVIOUS
<1>2. IsFiniteSet(1..n) /\ Cardinality(1..n) = IF 1 > n THEN 0 ELSE n - 1 + 1
  BY <1>1, FS_Interval
<1>3. (IF 1 > n THEN 0 ELSE n - 1 + 1) = n OBVIOUS
<1> QED BY <1>2, <1>3

\* In a sorted deque the old timestamps are at the front, so the popping loop of
\* allow_request_now stops at the first one inside the window.
LEMMA StalePrefix ==
    ASSUME NEW q \in Seq(Time), Sorted(q), now \in Time
    PROVE  /\ Stale(q) \in 0..Len(q)
           /\ \A i \in 1..Stale(q) : q[i] < now - ReqWindow
<1> DEFINE n == Len(q)
           Old == {i \in 1..n : q[i] < now - ReqWindow}
           k == Cardinality(Old)
<1>1. n \in Nat /\ \A i \in 1..n : q[i] \in Int
  <2>1. n \in Nat /\ \A i \in 1..n : q[i] \in Time BY SeqFacts
  <2> QED BY <2>1 DEF Time
<1>2. now - ReqWindow \in Int BY TimeAssumption DEF Time
<1>3. IsFiniteSet(1..n) /\ Cardinality(1..n) = n BY <1>1, CountTo
<1>4. IsFiniteSet(Old) /\ k <= n
  <2>1. Old \in SUBSET (1..n) OBVIOUS
  <2> QED BY <1>3, <2>1, FS_Subset
<1>5. k \in Nat BY <1>4, FS_CardinalityType
<1>6. \A i \in 1..k : q[i] < now - ReqWindow
  <2> SUFFICES ASSUME NEW i \in 1..k, ~(q[i] < now - ReqWindow) PROVE FALSE
    OBVIOUS
  <2>1. i \in 1..n BY <1>1, <1>4, <1>5
  <2>2. Old \subseteq 1..(i - 1) BY <1>1, <1>2, <2>1 DEF Sorted
  <2>3. IsFiniteSet(1..(i - 1)) /\ Cardinality(1..(i - 1)) = i - 1
    <3>1. i - 1 \in Nat OBVIOUS
    <3> QED BY <3>1, CountTo
  <2>4. k <= i - 1
    <3>1. Old \in SUBSET (1..(i - 1)) BY <2>2
    <3> QED BY <2>3, <3>1, FS_Subset
  <2> QED BY <1>5, <2>4
<1>7. k < n => q[k + 1] >= now - ReqWindow
  <2> SUFFICES ASSUME k < n, q[k + 1] < now - ReqWindow PROVE FALSE
    BY <1>1, <1>2, <1>5
  <2>1. k + 1 \in 1..n BY <1>1, <1>5
  <2>2. 1..(k + 1) \subseteq Old
    <3> HIDE DEF k
    <3> SUFFICES ASSUME NEW i \in 1..(k + 1) PROVE i \in 1..n /\ q[i] < now - ReqWindow
      OBVIOUS
    <3>1. i \in 1..n /\ i <= k + 1 BY <1>1, <1>5, <2>1
    <3>2. q[i] <= q[k + 1] BY <2>1, <3>1 DEF Sorted
    <3> QED BY <1>1, <1>2, <2>1, <3>1, <3>2
  <2>3. Cardinality(1..(k + 1)) = k + 1
    <3>1. k + 1 \in Nat BY <1>5
    <3> QED BY <3>1, CountTo
  <2>4. k + 1 <= k
    <3>1. 1..(k + 1) \in SUBSET Old BY <2>2
    <3>2. \A T \in SUBSET Old : Cardinality(T) <= Cardinality(Old) BY <1>4, FS_Subset, Zenon
    <3>3. Cardinality(1..(k + 1)) <= Cardinality(Old) BY <3>1, <3>2, Zenon
    <3> QED BY <2>3, <3>3
  <2> QED BY <1>5, <2>4
<1> HIDE DEF k
<1>8. k \in 0..n BY <1>1, <1>4, <1>5
<1> QED BY <1>6, <1>7, <1>8 DEF Stale

\* The sets the limiter counts are finite.
LEMMA AcquiredFinite ==
    /\ IsFiniteSet(Acquired) /\ Cardinality(Acquired) \in Nat
    /\ \A ip : IsFiniteSet(AcquiredFrom(ip)) /\ Cardinality(AcquiredFrom(ip)) \in Nat
<1>1. Acquired \in SUBSET Conn /\ \A ip : AcquiredFrom(ip) \in SUBSET Conn
  BY DEF Acquired, AcquiredFrom
<1> QED BY <1>1, ConnAssumption, FS_Subset, FS_CardinalityType

\* One element more or less changes the size of a finite set by one.
LEMMA CountOne ==
    ASSUME NEW S, NEW e, IsFiniteSet(S)
    PROVE  /\ e \notin S => Cardinality(S \cup {e}) = Cardinality(S) + 1
           /\ e \in S => Cardinality(S \ {e}) = Cardinality(S) - 1 /\ Cardinality(S) # 0
<1>1. e \notin S => Cardinality(S \cup {e}) = Cardinality(S) + 1 BY FS_AddElement, Zenon
<1>2. e \in S => Cardinality(S \ {e}) = Cardinality(S) - 1 BY FS_RemoveElement, Zenon
<1>3. e \in S => Cardinality(S) # 0 BY FS_EmptySet, Zenon
<1> QED BY <1>1, <1>2, <1>3, Zenon

\* Such a step keeps the accounting of the limiter.
LEMMA UpdateLimiter ==
    ASSUME IInv, NEW c \in Conn, NEW p, NEW x, NEW a, Update(c, p, x, a)
    PROVE  (LimiterTypes /\ LimiterAccounting)'
<1>1. /\ s \in [Conn -> Session] /\ x \in Session
      /\ s' = [s EXCEPT ![c] = x]
  BY DEF IInv, SessionInv, SessionTypes, Update
<1>2. s[c].ip \in Ip /\ x.ip \in Ip BY <1>1 DEF Session
<1>0. PICK i \in Ip : i = s[c].ip BY <1>2
<1>3. LimiterTypes /\ LimiterAccounting BY DEF IInv
<1>4. /\ MaxConnections \in Nat /\ MaxPerIp \in Nat BY LimitAssumption
<1>5. CASE x.acquired = s[c].acquired /\ (x.acquired => x.ip = s[c].ip) /\ UNCHANGED limiter
  <2>1. Acquired' = Acquired /\ \A ip : AcquiredFrom(ip)' = AcquiredFrom(ip)
    BY <1>1, <1>5, <1>0, SlotSets, Zenon
  <2> QED BY <1>3, <1>5, <2>1 DEF limiter, LimiterTypes, LimiterAccounting
<1>6. CASE ~s[c].acquired /\ x.acquired /\ TryAcquire(x.ip)
  <2>1. c \notin Acquired /\ Acquired' = Acquired \cup {c} BY <1>1, <1>6, <1>0, SlotSets, Zenon
  <2>2. c \notin AcquiredFrom(x.ip) /\ AcquiredFrom(x.ip)' = AcquiredFrom(x.ip) \cup {c}
    BY <1>1, <1>6, <1>0, SlotSets, Zenon
  <2>3. \A ip \in Ip \ {x.ip} : AcquiredFrom(ip)' = AcquiredFrom(ip)
    BY <1>1, <1>6, <1>0, SlotSets, Zenon
  <2>4. Cardinality(Acquired') = activeTotal + 1
    BY <1>3, <2>1, AcquiredFinite, CountOne, Zenon DEF LimiterAccounting
  <2>5. Cardinality(AcquiredFrom(x.ip)') = activeByIp[x.ip] + 1
    <3>1. IsFiniteSet(AcquiredFrom(x.ip)) BY AcquiredFinite, Zenon
    <3>2. Cardinality(AcquiredFrom(x.ip) \cup {c}) = Cardinality(AcquiredFrom(x.ip)) + 1 BY <2>2, <3>1, CountOne, Zenon
    <3>3. Cardinality(AcquiredFrom(x.ip)) = activeByIp[x.ip] BY <1>2, <1>3, Zenon DEF LimiterAccounting
    <3> QED BY <2>2, <3>2, <3>3, Zenon
  <2>6. /\ activeTotal < MaxConnections /\ activeByIp[x.ip] < MaxPerIp
        /\ activeTotal' = activeTotal + 1 /\ metric' = activeTotal + 1
        /\ activeByIp' = [activeByIp EXCEPT ![x.ip] = activeByIp[x.ip] + 1]
    BY <1>6 DEF TryAcquire
  <2>7. LimiterTypes' BY <1>2, <1>3, <2>6 DEF LimiterTypes
  <2>8. \A ip \in Ip : activeByIp'[ip] = Cardinality(AcquiredFrom(ip)') /\ activeByIp'[ip] <= MaxPerIp
    <3> TAKE ip \in Ip
    <3>1. CASE ip = x.ip
      <4>1. activeByIp[ip] \in Nat /\ activeByIp'[ip] = activeByIp[ip] + 1
        BY <1>3, <2>6, <3>1 DEF LimiterTypes
      <4> QED BY <1>4, <2>5, <2>6, <3>1, <4>1
    <3>2. CASE ip # x.ip
      <4>1. activeByIp'[ip] = activeByIp[ip] BY <1>3, <2>6, <3>2 DEF LimiterTypes
      <4> QED BY <1>3, <2>3, <3>2, <4>1 DEF LimiterAccounting
    <3> QED BY <3>1, <3>2
  <2>9. activeTotal \in Nat /\ activeTotal' <= MaxConnections
    BY <1>3, <1>4, <2>6 DEF LimiterTypes
  <2> QED BY <2>4, <2>6, <2>7, <2>8, <2>9 DEF LimiterAccounting
<1>7. CASE s[c].acquired /\ ~x.acquired /\ Release(s[c].ip)
  <2>1. c \in Acquired /\ Acquired' = Acquired \ {c} BY <1>1, <1>7, <1>0, SlotSets, Zenon
  <2>2. c \in AcquiredFrom(i) /\ AcquiredFrom(i)' = AcquiredFrom(i) \ {c}
    BY <1>1, <1>7, <1>0, SlotSets, Zenon
  <2>3. \A ip \in Ip \ {i} : AcquiredFrom(ip)' = AcquiredFrom(ip)
    BY <1>1, <1>7, <1>0, SlotSets, Zenon
  <2>4. Cardinality(Acquired') = activeTotal - 1
    BY <1>3, <2>1, AcquiredFinite, CountOne, Zenon DEF LimiterAccounting
  <2>5. Cardinality(AcquiredFrom(i)') = activeByIp[i] - 1
    <3>1. IsFiniteSet(AcquiredFrom(i)) BY AcquiredFinite, Zenon
    <3>2. Cardinality(AcquiredFrom(i) \ {c}) = Cardinality(AcquiredFrom(i)) - 1 BY <2>2, <3>1, CountOne, Zenon
    <3>3. Cardinality(AcquiredFrom(i)) = activeByIp[i] BY <1>3, Zenon DEF LimiterAccounting
    <3> QED BY <2>2, <3>2, <3>3, Zenon
  <2>6. activeByIp[i] # 0 BY <1>3, <2>2, AcquiredFinite, CountOne, Zenon DEF LimiterAccounting
  <2>7. activeTotal # 0 BY <1>3, <2>1, AcquiredFinite, CountOne, Zenon DEF LimiterAccounting
  <2>8. activeByIp[i] \in Nat /\ activeTotal \in Nat
    BY <1>3 DEF LimiterTypes
  <2>9. /\ activeTotal' = activeTotal - 1 /\ metric' = activeTotal - 1
        /\ activeByIp' = [activeByIp EXCEPT ![i] = activeByIp[i] - 1]
    BY <1>7, <1>0, <2>6, <2>8 DEF Release
  <2>10. activeTotal - 1 \in Nat /\ activeByIp[i] - 1 \in Nat BY <2>6, <2>7, <2>8
  <2>11. LimiterTypes' BY <1>3, <2>8, <2>9, <2>10 DEF LimiterTypes
  <2>12. \A ip \in Ip : activeByIp'[ip] = Cardinality(AcquiredFrom(ip)') /\ activeByIp'[ip] <= MaxPerIp
    <3> TAKE ip \in Ip
    <3>1. CASE ip = i
      <4>1. activeByIp'[ip] = activeByIp[i] - 1 BY <1>3, <2>9, <3>1 DEF LimiterTypes
      <4>2. activeByIp[i] <= MaxPerIp BY <1>3, <2>8 DEF LimiterAccounting
      <4> QED BY <1>4, <2>5, <2>8, <3>1, <4>1, <4>2
    <3>2. CASE ip # i
      <4>1. activeByIp'[ip] = activeByIp[ip] BY <1>3, <2>9, <3>2 DEF LimiterTypes
      <4> QED BY <1>3, <2>3, <3>2, <4>1 DEF LimiterAccounting
    <3> QED BY <3>1, <3>2
  <2>13. activeTotal' <= MaxConnections BY <1>3, <1>4, <2>8, <2>9 DEF LimiterAccounting
  <2> QED BY <2>4, <2>9, <2>11, <2>12, <2>13 DEF LimiterAccounting
<1> QED BY <1>5, <1>6, <1>7 DEF Update, SlotChange

-----------------------------------------------------------------------------
(* The theorems.                                                           *)

\* Nobody is connected when the server starts.
LEMMA InitInv == Init => IInv
<1> SUFFICES ASSUME Init PROVE IInv
  OBVIOUS
<1>1. now = 0 /\ now \in Time BY TimeAssumption DEF Init, Time
<1>2. PICK i \in Ip : s = [c \in Conn |-> NewSession(i)] BY DEF Init
<1>3. <<>> \in Seq(Time) /\ Window(<<>>, <<>>, now) BY DEF Window, Sorted, Spaced
<1>4. /\ NewSession(i) \in Session /\ NewSession(i).acquired = FALSE
      /\ NewSession(i).stamps = <<>>
  BY <1>1, <1>3, TimeAssumption DEF NewSession, Session
<1>5. SessionTypes BY <1>1, <1>2, <1>3, <1>4 DEF Init, SessionTypes, Phase
<1>6. \A c \in Conn : Good(phase[c], s[c], accepted[c], now)
  BY <1>2, <1>3, <1>4 DEF Init, Good, Timely
<1>7. LimiterTypes BY DEF Init, LimiterTypes
<1>8. Acquired = {} /\ \A ip : AcquiredFrom(ip) = {} BY <1>2, <1>4 DEF Acquired, AcquiredFrom
<1>9. LimiterAccounting
  <2>1. Cardinality(Acquired) = 0 /\ \A ip : Cardinality(AcquiredFrom(ip)) = 0
    BY <1>8, FS_EmptySet
  <2>2. 0 <= MaxConnections /\ 0 <= MaxPerIp BY LimitAssumption
  <2>3. activeTotal = 0 /\ metric = 0 /\ \A ip \in Ip : activeByIp[ip] = 0 BY DEF Init
  <2> QED BY <2>1, <2>2, <2>3 DEF LimiterAccounting
<1> QED BY <1>5, <1>6, <1>7, <1>9 DEF IInv, SessionInv

\* Every step keeps the invariant.
LEMMA NextInv == IInv /\ [Next]_vars => IInv'
<1> SUFFICES ASSUME IInv, [Next]_vars PROVE IInv'
  OBVIOUS
<1>1. SessionInv BY DEF IInv
<1>0. PopsOld
  <2>1. now \in Time BY <1>1 DEF SessionInv, SessionTypes
  <2> QED BY <2>1, StalePrefix, Zenon DEF PopsOld
<1>2. ASSUME NEW c \in Conn, \E p, y, b : Update(c, p, y, b) PROVE IInv'
  <2>1. PICK p, y, b : Update(c, p, y, b) BY <1>2
  <2> QED BY <1>1, <2>1, UpdateSessions, UpdateLimiter DEF IInv
<1>3. ASSUME NEW c \in Conn, NEW ip \in Ip, Open(c, ip) PROVE IInv'
  BY <1>1, <1>2, <1>3, OpenUpdates
<1>4. ASSUME NEW c \in Conn, NEW n \in 0..MaxFrames, Chunk(c, n) PROVE IInv'
  BY <1>1, <1>2, <1>4, ChunkUpdates
<1>5. ASSUME NEW c \in Conn, UploadTimesOut(c) \/ IdleTimesOut(c) \/ ReadAgain(c) \/ Disconnect(c)
      PROVE  IInv'
  BY <1>1, <1>2, <1>5, TimeoutUpdates
<1>6. ASSUME NEW c \in Conn, RateLimited(c) \/ ControlRequest(c) PROVE IInv'
  BY <1>0, <1>1, <1>2, <1>6, RequestUpdates
<1>7. ASSUME NEW c \in Conn, Refusal(c) \/ SilentFrame(c) \/ UploadPacket(c) PROVE IInv'
  BY <1>1, <1>2, <1>7, PacketUpdates
<1>8. ASSUME NEW c \in Conn, Sent(c) \/ Closed(c) PROVE IInv'
  BY <1>1, <1>2, <1>8, SentUpdates
<1>9. CASE Tick \/ UNCHANGED vars
  <2>1. UNCHANGED <<limiter, s>> BY <1>9 DEF Tick, vars, limiter
  <2>2. (LimiterTypes /\ LimiterAccounting)'
    BY <2>1 DEF IInv, limiter, LimiterTypes, LimiterAccounting, Acquired, AcquiredFrom
  <2>3. SessionInv'
    <3>1. CASE Tick BY <1>1, <3>1, TickKeeps
    <3>2. CASE UNCHANGED vars BY <1>1, <3>2 DEF vars, SessionInv, SessionTypes
    <3> QED BY <1>9, <3>1, <3>2
  <2> QED BY <2>2, <2>3 DEF IInv
<1> QED BY <1>3, <1>4, <1>5, <1>6, <1>7, <1>8, <1>9 DEF Next

\* The invariant holds in every reachable state.
THEOREM Invariance == Spec => []IInv
BY InitInv, NextInv, PTL DEF Spec

\* Every variable keeps its type: the frame counter never goes below zero and the
\* limiter's counts stay natural numbers.
THEOREM ConnectionTypes == Spec => []TypeOK
<1>1. IInv => TypeOK BY DEF IInv, SessionInv, SessionTypes, LimiterTypes, TypeOK
<1> QED BY <1>1, Invariance, PTL

\* ConnectionLimiter counts exactly the admitted connections and keeps both limits,
\* for any number of connections and addresses.
THEOREM LimiterCounts == Spec => []LimiterAccounting
<1>1. IInv => LimiterAccounting BY DEF IInv
<1> QED BY <1>1, Invariance, PTL

\* No connection waits for data unverified past the handshake timeout and one read,
\* whatever it sends.
THEOREM HandshakeIsBounded == Spec => []HandshakeBound
<1>1. ASSUME IInv PROVE HandshakeBound
  <2> SUFFICES ASSUME NEW c \in Conn, phase[c] = "reading", s[c].handshake # "verified"
               PROVE  now < s[c].connectedAt + HandshakeTimeout + ReadTimeout
    BY DEF HandshakeBound
  <2>1. s[c] \in Session /\ now \in Int /\ Good(phase[c], s[c], accepted[c], now)
    BY <1>1, SessionFacts DEF IInv
  <2>2. s[c].connectedAt \in Int /\ s[c].readAt \in Int BY <2>1 DEF Session, Time
  <2>3. now <= s[c].readAt + ReadTimeout /\ s[c].readAt - s[c].connectedAt < HandshakeTimeout
    BY <2>1 DEF Good, Timely
  <2> QED BY <2>1, <2>2, <2>3, TimeAssumption
<1> QED BY <1>1, Invariance, PTL

\* No silent connection without an upload waits for data past the idle timeout and
\* one read.
THEOREM IdlenessIsBounded == Spec => []IdleBound
<1>1. ASSUME IInv PROVE IdleBound
  <2> SUFFICES ASSUME NEW c \in Conn, phase[c] = "reading", ~s[c].active
               PROVE  now < s[c].lastActivity + IdleTimeout + ReadTimeout
    BY DEF IdleBound
  <2>1. s[c] \in Session /\ now \in Int /\ Good(phase[c], s[c], accepted[c], now)
    BY <1>1, SessionFacts DEF IInv
  <2>2. s[c].lastActivity \in Int /\ s[c].readAt \in Int BY <2>1 DEF Session, Time
  <2>3. now <= s[c].readAt + ReadTimeout /\ s[c].readAt - s[c].lastActivity < IdleTimeout
    BY <2>1 DEF Good, Timely
  <2> QED BY <2>1, <2>2, <2>3, TimeAssumption
<1> QED BY <1>1, Invariance, PTL

\* No connection gets more than MaxReqPerWindow limited requests handled in any
\* closed interval of ReqWindow, although the deque forgets the old ones.
THEOREM RequestsAreBounded == Spec => []RateBound
<1>1. ASSUME IInv PROVE RateBound
  <2>1. \A c \in Conn : Spaced(accepted[c]) BY <1>1, SessionFacts, Zenon DEF IInv, Good, Window
  <2> QED BY <2>1 DEF Spaced, RateBound
<1> QED BY <1>1, Invariance, PTL

=============================================================================
