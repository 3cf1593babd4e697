----------------------------- MODULE Connection -----------------------------
(***************************************************************************)
(* The life of a connection of the Python server: handle_client of         *)
(* server_async.py with ConnectionLimiter, the handshake of requests 829   *)
(* and 830, the request-rate window of ClientSession and the timeouts,     *)
(* under a clock.                                                          *)
(*                                                                         *)
(* A task of the event loop runs without interruption up to an await that  *)
(* suspends.  Those are the read of the next chunk, which ends after       *)
(* ReadTimeout at the latest, the drain of a send and wait_closed, which   *)
(* may take any time; the locks of the limiter and of the metrics are only *)
(* held between two such awaits and never suspend.  Computation takes no   *)
(* time: the clock stands still while a task can run and does not pass the *)
(* deadline of a read.  Upload frames count here for what they do to       *)
(* upload_active and last_upload_progress_ts; module UploadServer has them *)
(* in full.                                                                *)
(***************************************************************************)
EXTENDS Integers, Sequences, FiniteSets

CONSTANTS
    Conn, Ip,
    MaxConnections, MaxPerIp,                       \* ConnectionLimiter
    ReadTimeout, HandshakeTimeout, IdleTimeout, UploadTimeout,
    MaxReqPerWindow, ReqWindow,                     \* allow_request_now
    MaxFrames,      \* frames one chunk completes
    MaxTime         \* ticks of the clock

\* What Config and ConnectionLimiter.__init__ demand.
ASSUME LimitAssumption ==
    /\ MaxConnections \in Nat \ {0} /\ MaxPerIp \in Nat \ {0}
    /\ MaxPerIp <= MaxConnections
ASSUME TimeAssumption ==
    /\ ReadTimeout \in Nat \ {0} /\ HandshakeTimeout \in Nat \ {0}
    /\ IdleTimeout \in Nat \ {0} /\ UploadTimeout \in Nat \ {0}
    /\ MaxReqPerWindow \in Nat \ {0} /\ ReqWindow \in Nat \ {0}
    /\ MaxFrames \in Nat /\ MaxTime \in Nat
ASSUME ConnAssumption == IsFiniteSet(Conn)

VARIABLES
    now,            \* time.monotonic()
    activeTotal, activeByIp,                        \* ConnectionLimiter
    metric,         \* RuntimeMetrics.active_connections
    phase,          \* where the task of a connection is suspended
    s,              \* the session and the locals of handle_client
    accepted        \* per connection: when its limited requests were accepted

vars == <<now, activeTotal, activeByIp, metric, phase, s, accepted>>
limiter == <<activeTotal, activeByIp, metric>>

(***************************************************************************)
(*   gone      no task                                                     *)
(*   reading   in wait_for(reader.read)                                    *)
(*   frames    about to handle the next frame of a chunk                   *)
(*   sending   in the drain of an answer                                   *)
(*   closing   in wait_closed, after the finally block released the slot   *)
(***************************************************************************)
Phase == {"gone", "reading", "frames", "sending", "closing"}
Time == 0..MaxTime

Session ==
    [ip : Ip, acquired : BOOLEAN, connectedAt : Time, lastActivity : Time, readAt : Time,
     handshake : {"none", "hello", "verified"},
     active : BOOLEAN, progress : Time,             \* upload_active, last_upload_progress_ts
     stamps : Seq(Time),                            \* request_timestamps
     left : 0..MaxFrames,                           \* frames of the chunk still to handle
     after : {"keep", "reset", "close"}]            \* what follows the send

NewSession(ip) ==
    [ip |-> ip, acquired |-> FALSE, connectedAt |-> now, lastActivity |-> now, readAt |-> now,
     handshake |-> "none", active |-> FALSE, progress |-> 0, stamps |-> <<>>,
     left |-> 0, after |-> "keep"]

\* A session that nothing looks at any more.
Discarded(x) ==
    [x EXCEPT !.acquired = FALSE, !.connectedAt = 0, !.lastActivity = 0, !.readAt = 0,
              !.handshake = "none", !.active = FALSE, !.progress = 0, !.left = 0,
              !.after = "keep"]

Init ==
    /\ now = 0
    /\ activeTotal = 0 /\ activeByIp = [i \in Ip |-> 0] /\ metric = 0
    /\ phase = [c \in Conn |-> "gone"]
    /\ \E i \in Ip : s = [c \in Conn |-> NewSession(i)]
    /\ accepted = [c \in Conn |-> <<>>]

Go(c, p) == phase' = [phase EXCEPT ![c] = p]

-----------------------------------------------------------------------------
(* Admission and cleanup.                                                  *)

TryAcquire(ip) ==
    /\ activeTotal < MaxConnections
    /\ activeByIp[ip] < MaxPerIp
    /\ activeTotal' = activeTotal + 1
    /\ activeByIp' = [activeByIp EXCEPT ![ip] = @ + 1]
    /\ metric' = activeTotal + 1

Release(ip) ==
    IF activeByIp[ip] <= 0 THEN UNCHANGED limiter
    ELSE /\ activeTotal' = activeTotal - 1
         /\ activeByIp' = [activeByIp EXCEPT ![ip] = @ - 1]
         /\ metric' = activeTotal - 1

\* handle_client up to its first read: a connection that gets no slot is closed.
Open(c, ip) ==
    /\ phase[c] = "gone"
    /\ accepted' = [accepted EXCEPT ![c] = <<>>]
    /\ \/ /\ TryAcquire(ip)
          /\ s' = [s EXCEPT ![c] = [NewSession(ip) EXCEPT !.acquired = TRUE]]
          /\ Go(c, "reading")
       \/ /\ activeTotal >= MaxConnections \/ activeByIp[ip] >= MaxPerIp
          /\ s' = [s EXCEPT ![c] = Discarded(NewSession(ip))]
          /\ Go(c, "closing")
          /\ UNCHANGED limiter
    /\ UNCHANGED now

\* Faulty variant: the slot is given back without looking at connection_acquired,
\* also by a connection that was refused.
RefusedIsReleased(c) ==
    /\ phase[c] = "closing"
    /\ Go(c, "gone")
    /\ IF s[c].acquired THEN UNCHANGED limiter ELSE Release(s[c].ip)
    /\ UNCHANGED <<now, s, accepted>>

\* The finally block up to wait_closed.
Cleanup(c) ==
    /\ Go(c, "closing")
    /\ s' = [s EXCEPT ![c] = Discarded(@)]
    /\ IF s[c].acquired THEN Release(s[c].ip) ELSE UNCHANGED limiter
    /\ UNCHANGED now

Closed(c) ==
    /\ phase[c] = "closing"
    /\ Go(c, "gone")
    /\ s' = [s EXCEPT ![c].stamps = <<>>]
    /\ accepted' = [accepted EXCEPT ![c] = <<>>]
    /\ UNCHANGED <<now, limiter>>

-----------------------------------------------------------------------------
(* The read loop.                                                          *)

\* Faulty variant: measured from the last activity.
HandshakeIdle(x) == x.handshake # "verified" /\ now - x.lastActivity >= HandshakeTimeout

HandshakeLate(x) == x.handshake # "verified" /\ now - x.connectedAt >= HandshakeTimeout

\* The top of the loop: x is the session as the last iteration left it.
LoopTop(c, x) ==
    IF HandshakeLate(x)
    THEN Cleanup(c)
    ELSE /\ Go(c, "reading")
         /\ s' = [s EXCEPT ![c] = [x EXCEPT !.readAt = now]]
         /\ UNCHANGED <<now, limiter>>

\* A chunk arrives; the framer finds n complete frames in what it has.
Chunk(c, n) ==
    /\ phase[c] = "reading"
    /\ LET x == [s[c] EXCEPT !.lastActivity = now, !.left = n] IN
         IF n = 0 THEN LoopTop(c, x)
         ELSE /\ Go(c, "frames")
              /\ s' = [s EXCEPT ![c] = x]
              /\ UNCHANGED <<now, limiter>>
    /\ UNCHANGED accepted

\* End of file, a reset, a failed send, a payload the framer refuses, or the
\* cancellation of the task when the server stops.  (What the frames left in the
\* chunk do after a failed send is in UploadServer.)
Disconnect(c) ==
    /\ phase[c] \in {"reading", "sending"}
    /\ Cleanup(c)
    /\ UNCHANGED accepted

ReadExpired(c) == phase[c] = "reading" /\ now - s[c].readAt >= ReadTimeout
UploadStalled(c) == s[c].active /\ now - s[c].progress >= UploadTimeout
Idle(c) == ~s[c].active /\ now - s[c].lastActivity >= IdleTimeout

\* The upload is answered with 1607 before it ends.
UploadTimesOut(c) ==
    /\ ReadExpired(c)
    /\ UploadStalled(c)
    /\ Go(c, "sending")
    /\ s' = [s EXCEPT ![c].after = "close"]
    /\ UNCHANGED <<now, limiter, accepted>>

IdleTimesOut(c) ==
    /\ ReadExpired(c)
    /\ Idle(c)
    /\ Cleanup(c)
    /\ UNCHANGED accepted

ReadAgain(c) ==
    /\ ReadExpired(c)
    /\ ~UploadStalled(c) /\ ~Idle(c)
    /\ LoopTop(c, s[c])
    /\ UNCHANGED accepted

-----------------------------------------------------------------------------
(* The frames of a chunk.                                                  *)

\* The next frame is handled or, after the last one, the loop starts over.
NextFrame(c, x) ==
    IF x.left = 0 THEN LoopTop(c, x)
    ELSE /\ Go(c, "frames")
         /\ s' = [s EXCEPT ![c] = x]
         /\ UNCHANGED <<now, limiter>>

\* The session with the frame taken off the chunk.
Taken(c) == [s[c] EXCEPT !.left = @ - 1]

Answer(c, x, after) ==
    /\ Go(c, "sending")
    /\ s' = [s EXCEPT ![c] = [x EXCEPT !.after = after]]
    /\ UNCHANGED <<now, limiter>>

\* Faulty variant: a request of exactly ReqWindow ago is dropped.
StaleOrDue(stamps) ==
    CHOOSE k \in 0..Len(stamps) :
        /\ \A i \in 1..k : stamps[i] <= now - ReqWindow
        /\ k < Len(stamps) => stamps[k + 1] > now - ReqWindow

\* How many timestamps allow_request_now pops: those at the front of the deque that
\* are older than the window.
Stale(stamps) ==
    CHOOSE k \in 0..Len(stamps) :
        /\ \A i \in 1..k : stamps[i] < now - ReqWindow
        /\ k < Len(stamps) => stamps[k + 1] >= now - ReqWindow

Recent(stamps) == SubSeq(stamps, Stale(stamps) + 1, Len(stamps))
AllowRequestNow(c) == Len(Recent(s[c].stamps)) < MaxReqPerWindow

RateLimited(c) ==
    /\ phase[c] = "frames"
    /\ ~AllowRequestNow(c)
    /\ Answer(c, [Taken(c) EXCEPT !.stamps = Recent(@)], "close")
    /\ UNCHANGED accepted

Stamped(c) == [Taken(c) EXCEPT !.stamps = Append(Recent(@), now)]

\* A limited request that the window admits: 829 starts the handshake, 830 ends it
\* without an answer, 825, 826 and 827 answer, and 900, 901 and 902 answer and may
\* end an upload.  Every request out of its turn is answered with 1607.
ControlRequest(c) ==
    /\ phase[c] = "frames"
    /\ AllowRequestNow(c)
    /\ accepted' = [accepted EXCEPT ![c] = Append(@, now)]
    /\ LET x == Stamped(c) IN
         \/ x.handshake = "none" /\ Answer(c, [x EXCEPT !.handshake = "hello"], "keep")
         \/ x.handshake = "hello" /\ NextFrame(c, [x EXCEPT !.handshake = "verified"])
         \/ Answer(c, x, "keep")
         \/ x.handshake = "verified" /\ Answer(c, x, "reset")

\* A frame without limit before the handshake, or one that is refused after it.
Refusal(c) ==
    /\ phase[c] = "frames"
    /\ \/ Answer(c, Taken(c), "keep")
       \/ s[c].handshake = "verified" /\ Answer(c, Taken(c), "reset")
    /\ UNCHANGED accepted

\* A frame that is handled without an answer and without progress: the IV packet of
\* an upload, or an 828 whose file name has no end, which also resets the upload.
SilentFrame(c) ==
    /\ phase[c] = "frames"
    /\ s[c].handshake = "verified"
    /\ \E on \in {s[c].active, FALSE} : NextFrame(c, [Taken(c) EXCEPT !.active = on])
    /\ UNCHANGED accepted

\* A data packet of an upload: the last one is answered with 1603.
UploadPacket(c) ==
    /\ phase[c] = "frames"
    /\ s[c].handshake = "verified"
    /\ LET x == [Taken(c) EXCEPT !.active = TRUE, !.progress = now, !.lastActivity = now] IN
         NextFrame(c, x) \/ Answer(c, x, "keep")
    /\ UNCHANGED accepted

\* Faulty variant: on_frame_sent does not mark the activity.
SentUnmarked(c) ==
    /\ phase[c] = "sending"
    /\ IF s[c].after = "close" THEN Cleanup(c)
       ELSE LET x == [s[c] EXCEPT !.after = "keep", !.active = @ /\ s[c].after = "keep"]
            IN NextFrame(c, x)
    /\ UNCHANGED accepted

Sent(c) ==
    /\ phase[c] = "sending"
    /\ IF s[c].after = "close" THEN Cleanup(c)
       ELSE LET x == [s[c] EXCEPT !.lastActivity = now, !.after = "keep",
                                  !.active = @ /\ s[c].after = "keep"]
            IN NextFrame(c, x)
    /\ UNCHANGED accepted

-----------------------------------------------------------------------------
Tick ==
    /\ now < MaxTime
    /\ \A c \in Conn : phase[c] # "frames" /\ ~ReadExpired(c)
    /\ now' = now + 1
    /\ UNCHANGED <<limiter, phase, s, accepted>>

Next ==
    \/ \E c \in Conn :
         \/ \E ip \in Ip : Open(c, ip)
         \/ \E n \in 0..MaxFrames : Chunk(c, n)
         \/ UploadTimesOut(c) \/ IdleTimesOut(c) \/ ReadAgain(c) \/ Disconnect(c)
         \/ RateLimited(c) \/ ControlRequest(c) \/ Refusal(c) \/ SilentFrame(c)
         \/ UploadPacket(c)
         \/ Sent(c) \/ Closed(c)
    \/ Tick

Spec == Init /\ [][Next]_vars

-----------------------------------------------------------------------------
TypeOK ==
    /\ now \in Time
    /\ activeTotal \in Nat /\ activeByIp \in [Ip -> Nat] /\ metric \in Nat
    /\ phase \in [Conn -> Phase]
    /\ s \in [Conn -> Session]
    /\ accepted \in [Conn -> Seq(Time)]

Acquired == {c \in Conn : s[c].acquired}
AcquiredFrom(ip) == {c \in Acquired : s[c].ip = ip}

\* ConnectionLimiter counts the connections that were admitted and not yet cleaned
\* up, in total and per address, and never more than its limits; a refused
\* connection gives nothing back.  The metric shows the same number.
LimiterAccounting ==
    /\ activeTotal = Cardinality(Acquired) /\ activeTotal <= MaxConnections
    /\ \A ip \in Ip : /\ activeByIp[ip] = Cardinality(AcquiredFrom(ip))
                      /\ activeByIp[ip] <= MaxPerIp
    /\ metric = activeTotal

\* A connection that did not complete the handshake waits for data less than the
\* handshake timeout and one read, however often it sends something.
HandshakeBound ==
    \A c \in Conn :
        phase[c] = "reading" /\ s[c].handshake # "verified"
            => now < s[c].connectedAt + HandshakeTimeout + ReadTimeout

\* A connection without an upload that is silent waits for data less than the
\* idle timeout and one read.
IdleBound ==
    \A c \in Conn :
        phase[c] = "reading" /\ ~s[c].active
            => now < s[c].lastActivity + IdleTimeout + ReadTimeout

\* In no closed interval of ReqWindow does a connection get more than
\* MaxReqPerWindow limited requests handled, whatever the deque has dropped.
RateBound ==
    \A c \in Conn : \A i \in 1..Len(accepted[c]) :
        i + MaxReqPerWindow <= Len(accepted[c])
            => accepted[c][i + MaxReqPerWindow] - accepted[c][i] > ReqWindow

\* An active upload without progress is cut off after the upload timeout and one
\* read.
StalledUploadIsCutOff ==
    \A c \in Conn :
        phase[c] = "reading" /\ s[c].active
            => now <= s[c].progress + UploadTimeout + ReadTimeout

=============================================================================
