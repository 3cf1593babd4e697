------------------------------ MODULE Transfer ------------------------------
(***************************************************************************)
(* The client's upload loop (send_single_file, request_828_retry and       *)
(* request_828_streaming of client_main.cpp) composed with the server of   *)
(* UploadServer: every connection has a client process at its other end,   *)
(* and every request a handler takes is one that a client has written.     *)
(*                                                                         *)
(* The client writes all packets of a file before it reads anything; then  *)
(* it reads the verdict, answers it, and reads one more answer before the  *)
(* next file.  Answers carry nothing that ties them to a request, so the   *)
(* two queues of a connection are all that keeps client and server in      *)
(* step.  Both are bounded: the client's write waits while the way to the  *)
(* server is full, the server's drain while too many answers are unread.   *)
(* Files have Packets chunks of one unit each, and different CRCs.         *)
(***************************************************************************)
EXTENDS UploadServer

CONSTANTS
    ClientOf,    \* the client id a connection logged in with
    Packets,     \* the chunks of a file
    MaxFiles,    \* the files of a batch
    Requests,    \* requests that the buffers between client and server hold
    Answers,     \* unread answers with which drain() still returns
    Faults       \* which faults happen: a subset of FaultKind

FaultKind == {"link",    \* a connection breaks, at either end
              "rotate",  \* 827 on another connection replaces the AES key
              "disk",    \* the server cannot write its temporary file
              "file",    \* the client cannot read its file
              "rate"}    \* the request rate limit strikes

ASSUME TransferAssumption ==
    /\ ClientOf \in [Conn -> Enrolled]
    /\ Packets \in 1..MaxPackets
    /\ Packets <= MaxSize
    /\ MaxFiles \in Nat
    /\ Requests \in Nat \ {0} /\ Answers \in Nat
    /\ Faults \subseteq FaultKind

VARIABLES
    at,        \* per connection: where the client process is
    todo,      \* per connection: the files still to send, the current one first
    next,      \* per connection: the next packet to write
    retries,   \* per connection: mismatches so far for this file
    result,    \* per connection: what the last send_single_file returned
    since,     \* per connection: the last row when it was called (history)
    refused,   \* per connection: a file was refused or given up half-way (history)
    toServer,  \* per connection: requests written and not yet handled
    toClient,  \* per connection: answers sent and not yet read
    down,      \* per connection: no longer carries anything new
    rotated,   \* the clients whose stored AES key is not the one they loaded
    staleKey   \* per connection: session.upload_aes_key is such a key

client == <<at, todo, next, retries, result, since, refused>>
wire == <<toServer, toClient, down>>
keys == <<rotated, staleKey>>
tvars == <<vars, client, wire, keys>>

MaxRetries == 4

\* The CRC of a content that was decrypted with another key.
Garbled == "garbled"

\* The connections are logged in and hold the stored key.
TransferInit ==
    /\ Init
    /\ at = [c \in Conn |-> "idle"]
    /\ todo \in [Conn -> UNION {[1..n -> File] : n \in 1..MaxFiles}]
    /\ next = [c \in Conn |-> 0]
    /\ retries = [c \in Conn |-> 0]
    /\ result = [c \in Conn |-> "none"]
    /\ since = [c \in Conn |-> 0]
    /\ refused = [c \in Conn |-> FALSE]
    /\ toServer = [c \in Conn |-> <<>>]
    /\ toClient = [c \in Conn |-> <<>>]
    /\ down = [c \in Conn |-> FALSE]
    /\ rotated = {}
    /\ staleKey = [c \in Conn |-> FALSE]

-----------------------------------------------------------------------------
(* The client.                                                             *)

\* A write reaches the other end unless the connection is down: there it throws, or
\* it still succeeds and nothing arrives.
Write(c, r) ==
    toServer' = IF down[c] THEN toServer ELSE [toServer EXCEPT ![c] = Append(@, r)]

Packet828(c, n) == [code |-> 828, num |-> n, file |-> Head(todo[c])]
Verdict(c, code) == [code |-> code, num |-> 0, file |-> Head(todo[c])]

\* send_single_file finds the file and calls request_828_retry.
StartFile(c) ==
    /\ at[c] = "idle" /\ todo[c] # <<>>
    /\ at' = [at EXCEPT ![c] = "stream"]
    /\ next' = [next EXCEPT ![c] = 0]
    /\ retries' = [retries EXCEPT ![c] = 0]
    /\ result' = [result EXCEPT ![c] = "none"]
    /\ since' = [since EXCEPT ![c] = rows]
    /\ UNCHANGED <<vars, todo, refused, wire, keys>>

\* The batch goes on with the next file.
Return(c, r) ==
    /\ at' = [at EXCEPT ![c] = "idle"]
    /\ todo' = [todo EXCEPT ![c] = Tail(@)]
    /\ result' = [result EXCEPT ![c] = r]

\* The path names no regular file: nothing is written.
FileMissing(c) ==
    /\ "file" \in Faults
    /\ at[c] = "idle" /\ todo[c] # <<>>
    /\ since' = [since EXCEPT ![c] = rows]
    /\ Return(c, "failed")
    /\ UNCHANGED <<vars, next, retries, refused, wire, keys>>

\* The write waits for room, or fails.
SendPacket(c) ==
    /\ at[c] = "stream" /\ next[c] <= Packets
    /\ Len(toServer[c]) < Requests \/ down[c]
    /\ Write(c, Packet828(c, next[c]))
    /\ next' = [next EXCEPT ![c] = @ + 1]
    /\ UNCHANGED <<vars, at, todo, retries, result, since, refused, toClient, down, keys>>

StreamingDone(c) ==
    /\ at[c] = "stream" /\ next[c] = Packets + 1
    /\ at' = [at EXCEPT ![c] = "verdict"]
    /\ UNCHANGED <<vars, todo, next, retries, result, since, refused, wire, keys>>

\* request_828_streaming throws (too large, cannot be opened or read, or the
\* write fails): it returns nullopt, request_828_retry returns, and
\* send_single_file goes on to its last read.
StreamingFails(c) ==
    /\ at[c] = "stream" /\ next[c] <= Packets
    /\ "file" \in Faults \/ down[c]
    /\ at' = [at EXCEPT ![c] = "final"]
    /\ refused' = [refused EXCEPT ![c] = TRUE]
    /\ UNCHANGED <<vars, todo, next, retries, result, since, wire, keys>>

Reads(c) ==
    /\ toClient[c] # <<>>
    /\ toClient' = [toClient EXCEPT ![c] = Tail(@)]

\* Faulty variant: 901 without counting.
MismatchUncounted(c) ==
    /\ Write(c, Verdict(c, 901))
    /\ at' = [at EXCEPT ![c] = "stream"]
    /\ next' = [next EXCEPT ![c] = 0]
    /\ UNCHANGED retries

\* The CRCs differ, or the answer was no 1603 and crc_ok is still false.
Mismatch(c) ==
    IF retries[c] + 1 < MaxRetries
    THEN /\ Write(c, Verdict(c, 901))
         /\ at' = [at EXCEPT ![c] = "stream"]
         /\ next' = [next EXCEPT ![c] = 0]
         /\ retries' = [retries EXCEPT ![c] = @ + 1]
    ELSE /\ Write(c, Verdict(c, 902))
         /\ at' = [at EXCEPT ![c] = "final"]
         /\ UNCHANGED <<next, retries>>

\* Faulty variant: any 1603 is confirmed.
VerdictUnchecked(c) ==
    /\ at[c] = "verdict" /\ Reads(c)
    /\ at' = [at EXCEPT ![c] = "final"]
    /\ IF Head(toClient[c]).code = 1603 THEN Write(c, Verdict(c, 900)) ELSE UNCHANGED toServer
    /\ UNCHANGED <<vars, todo, next, retries, result, since, refused, down, keys>>

\* The answer_manager call of request_828_retry.
ReadVerdict(c) ==
    /\ at[c] = "verdict" /\ Reads(c)
    /\ LET a == Head(toClient[c]) IN
         \/ /\ a.code = 1607
            /\ at' = [at EXCEPT ![c] = "final"]
            /\ UNCHANGED <<next, retries, toServer>>
         \/ /\ a.code = 1603 /\ a.crc = Head(todo[c])
            /\ Write(c, Verdict(c, 900))
            /\ at' = [at EXCEPT ![c] = "final"]
            /\ UNCHANGED <<next, retries>>
         \/ /\ a.code # 1607 /\ a.crc # Head(todo[c])
            /\ Mismatch(c)
    /\ UNCHANGED <<vars, todo, result, since, refused, down, keys>>

\* The connection ends under that read: send_single_file catches the exception.
VerdictEof(c) ==
    /\ at[c] = "verdict" /\ down[c] /\ toClient[c] = <<>>
    /\ Return(c, "failed")
    /\ UNCHANGED <<vars, next, retries, since, refused, wire, keys>>

\* Faulty variant: the last answer is left unread.
FinalUnread(c) ==
    /\ at[c] = "final"
    /\ Return(c, "sent")
    /\ UNCHANGED <<vars, next, retries, since, refused, wire, keys>>

\* The last read of send_single_file: any answer but an error counts, a 1603
\* included (its crc_ok is null).
ReadFinal(c) ==
    /\ at[c] = "final" /\ Reads(c)
    /\ Return(c, IF Head(toClient[c]).code = 1607 THEN "failed" ELSE "sent")
    /\ UNCHANGED <<vars, next, retries, since, refused, toServer, down, keys>>

\* The connection ends under that read: nothing catches the exception.
FinalEof(c) ==
    /\ at[c] = "final" /\ down[c] /\ toClient[c] = <<>>
    /\ at' = [at EXCEPT ![c] = "dead"]
    /\ UNCHANGED <<vars, todo, next, retries, result, since, refused, wire, keys>>

\* The batch is over: disconnect_socket.
EndBatch(c) ==
    /\ at[c] = "idle" /\ todo[c] = <<>>
    /\ at' = [at EXCEPT ![c] = "ended"]
    /\ down' = [down EXCEPT ![c] = TRUE]
    /\ UNCHANGED <<vars, todo, next, retries, result, since, refused, toServer, toClient, keys>>

ClientStep(c) ==
    \/ StartFile(c) \/ SendPacket(c) \/ StreamingDone(c) \/ ReadVerdict(c)
    \/ VerdictEof(c) \/ ReadFinal(c) \/ FinalEof(c) \/ EndBatch(c)
ClientFault(c) == FileMissing(c) \/ StreamingFails(c)

-----------------------------------------------------------------------------
(* The server: the handlers of UploadServer on the requests of the client. *)

\* An answer is written before the handler suspends in drain().
Respond(c, a) ==
    toClient' = IF down[c] THEN toClient ELSE [toClient EXCEPT ![c] = Append(@, a)]

Ok == [code |-> 1604, crc |-> None]
Error == [code |-> 1607, crc |-> None]
CrcResult(crc) == [code |-> 1603, crc |-> crc]
Silent == UNCHANGED toClient

TakeRequest(c) ==
    /\ toServer[c] # <<>>
    /\ toServer' = [toServer EXCEPT ![c] = Tail(@)]
    /\ UNCHANGED <<at, todo, next, retries, result, since, down, rotated>>

\* The session reads the stored key with the first packet it sees.
KeyIsStale(c) ==
    IF xfer[c].owner = None THEN ClientOf[c] \in rotated ELSE staleKey[c]

\* The only packet a file's upload answers is its last one: an answer to another
\* one is a refusal, and the next packets will get theirs.
Refused(c) ==
    /\ Head(toServer[c]).num < Packets
    /\ Len(toClient'[c]) > Len(toClient[c])

\* A right key never fails on the padding or the size of a packet the client made;
\* a wrong one may pass both and give another CRC.
Handle828(c) ==
    /\ toServer[c] # <<>> /\ Head(toServer[c]).code = 828
    /\ TakeRequest(c)
    /\ staleKey' = [staleKey EXCEPT ![c] = KeyIsStale(c)]
    /\ LET f == Head(toServer[c]).file
           p == [client |-> ClientOf[c], num |-> Head(toServer[c]).num,
                 total |-> Packets, size |-> Packets, len |-> 1] IN
         \/ IvAccepted(c, p) /\ Silent
         \/ PacketStreamed(c, p, f) /\ Silent
         \/ /\ IvRejected(c, p) \/ DataRejected(c, p) \/ UploadRefused(c, p)
            /\ Respond(c, Error)
         \/ /\ OutOfOrder(c, p) \/ KeyIsStale(c)
            /\ PacketFails(c, p, f)
            /\ Respond(c, Error)
         \/ /\ FilePublished(c, p, f)
            /\ Respond(c, CrcResult(IF KeyIsStale(c) THEN Garbled ELSE f))
         \/ /\ "disk" \in Faults
            /\ OpenRaises(c, p, f) \/ WriteRaises(c, p, f)
            /\ Respond(c, Error)
    /\ refused' = [refused EXCEPT ![c] = @ \/ Refused(c)]

\* Requests 900 and 902 answer 1604 when they concern the session's upload.
HandleVerdict(c) ==
    /\ toServer[c] # <<>>
    /\ TakeRequest(c)
    /\ LET f == Head(toServer[c]).file IN
         \/ /\ Head(toServer[c]).code = 900 /\ Request900(c, f)
            /\ Respond(c, IF xfer[c].crc # <<>> /\ xfer[c].file = f THEN Ok ELSE Error)
         \/ /\ Head(toServer[c]).code = 901 /\ Request901(c, f)
            /\ IF xfer[c].file = f THEN Silent ELSE Respond(c, Error)
         \/ /\ Head(toServer[c]).code = 902 /\ Request902(c, f)
            /\ Respond(c, IF xfer[c].file = f THEN Ok ELSE Error)
    /\ UNCHANGED <<refused, staleKey>>

\* 900, 901 and 902 count as control requests; the frame is not handled.
HandleRateLimited(c) ==
    /\ "rate" \in Faults
    /\ toServer[c] # <<>> /\ Head(toServer[c]).code # 828
    /\ RateLimited(c)
    /\ Respond(c, Error)
    /\ UNCHANGED <<client, toServer, down, keys>>

\* The other end is waiting and nothing is on its way: only then do the timeouts
\* of the server, tens of seconds long, strike on an unbroken connection.
Quiet(c) ==
    /\ at[c] \in {"verdict", "final"}
    /\ toServer[c] = <<>> /\ toClient[c] = <<>>

TimesOut(c) ==
    /\ Quiet(c) /\ ~down[c]
    /\ UploadTimeout(c)
    /\ Respond(c, Error)
    /\ UNCHANGED <<client, toServer, down, keys>>

\* EOF after everything the client wrote, the idle timeout, or the close after a
\* timeout or the rate limit.
CloseConnection(c) ==
    /\ Disconnect(c)
    /\ \/ pc[c] = "close"
       \/ pc[c] = "read" /\ down[c] /\ toServer[c] = <<>>
       \/ pc[c] = "read" /\ Quiet(c) /\ ~xfer[c].active
    /\ toServer' = [toServer EXCEPT ![c] = <<>>]
    /\ down' = [down EXCEPT ![c] = TRUE]
    /\ UNCHANGED <<client, toClient, keys>>

\* A send on a broken connection; what the loop had read is still handled.
SendBreaks(c) ==
    /\ down[c]
    /\ SendFails(c)
    /\ pending'[c] <= Len(toServer[c])
    /\ toServer' = [toServer EXCEPT ![c] = SubSeq(@, 1, pending'[c])]
    /\ UNCHANGED <<client, toClient, down, keys>>

\* drain() returns when enough has been read.
SendCompletes(c) ==
    /\ Len(toClient[c]) <= Answers \/ down[c]
    /\ SendOk(c)
    /\ UNCHANGED <<client, wire, keys>>

OpenSession(c) == Open(c) /\ UNCHANGED <<client, wire, keys>>

ServerStep(c) ==
    \/ OpenSession(c) \/ Handle828(c) \/ HandleVerdict(c) \/ HandleRateLimited(c)
    \/ TimesOut(c) \/ CloseConnection(c) \/ SendBreaks(c) \/ SendCompletes(c)

-----------------------------------------------------------------------------
(* The environment.                                                        *)

\* The connection breaks; each end keeps a prefix of what was on its way to it.
LinkBreaks(c) ==
    /\ "link" \in Faults /\ ~down[c]
    /\ down' = [down EXCEPT ![c] = TRUE]
    /\ \E n \in 0..Len(toServer[c]) : toServer' = [toServer EXCEPT ![c] = SubSeq(@, 1, n)]
    /\ \E n \in 0..Len(toClient[c]) : toClient' = [toClient EXCEPT ![c] = SubSeq(@, 1, n)]
    /\ UNCHANGED <<vars, client, keys>>

\* Request 827 of the same client on another connection.
KeyRotates(k) ==
    /\ "rotate" \in Faults /\ k \notin rotated
    /\ rotated' = rotated \cup {k}
    /\ UNCHANGED <<vars, client, wire, staleKey>>

TransferNext ==
    \/ \E c \in Conn : ClientStep(c) \/ ClientFault(c) \/ ServerStep(c) \/ LinkBreaks(c)
    \/ \E k \in Enrolled : KeyRotates(k)

TransferSpec == TransferInit /\ [][TransferNext]_tvars

\* The client process and the event loop run; timeouts and closes come, faults need
\* not.
FairTransferSpec ==
    /\ TransferSpec
    /\ \A c \in Conn : WF_tvars(ClientStep(c)) /\ WF_tvars(ServerStep(c))

-----------------------------------------------------------------------------
(* Properties.                                                             *)

\* The rows the last call of send_single_file made.
RowsOfCall(c) == {u \in UploadId : u > since[c] /\ u <= rows /\ uploads[u].conn = c}

\* docs/architecture/client_design.md: success is an explicit conclusion based on
\* CRC agreement, and the client does not assume that a request succeeded until the
\* corresponding answer is parsed.  A file that send_single_file reports as sent has
\* been completed by this call.
SentIsCompleted ==
    \A c \in Conn : result[c] = "sent" =>
        \E u \in RowsOfCall(c) : uploads[u].status = "completed"

\* The client is between two files, none of them was refused and the server is not
\* closing the connection.
Between(c) == at[c] = "idle" /\ ~refused[c] /\ ~down[c] /\ pc[c] # "close"

\* Between two files nothing is on its way in either direction: the next answer the
\* client reads belongs to the next file.
InStep ==
    \A c \in Conn : Between(c) => toServer[c] = <<>> /\ toClient[c] = <<>>

\* A call makes at most four attempts, and when the connection survived it leaves no
\* row in_progress: the last attempt is completed or failed, all others crc_mismatch.
CallIsSettled ==
    \A c \in Conn : Between(c) =>
        /\ Cardinality(RowsOfCall(c)) <= MaxRetries
        /\ \A u \in RowsOfCall(c) :
             IF \E v \in RowsOfCall(c) : v > u
             THEN uploads[u].status = "crc_mismatch"
             ELSE uploads[u].status \in {"completed", "failed"}

\* Until an upload is refused, the client's report fits the server's record.  A file
\* reported as sent was completed, or given up with 902 after four mismatches: 1604
\* answers 900 and 902 alike.  A file reported as failed was not completed by this
\* call, so sending it again is no duplicate.
ReportIsRight ==
    \A c \in Conn : ~refused[c] =>
        /\ result[c] = "sent" =>
             \/ \E u \in RowsOfCall(c) : uploads[u].status = "completed"
             \/ /\ Cardinality(RowsOfCall(c)) = MaxRetries
                /\ \E u \in RowsOfCall(c) : uploads[u].status = "failed"
        /\ result[c] = "failed" =>
             \A u \in RowsOfCall(c) : uploads[u].status # "completed"

\* A row whose content was decrypted with another key than the client's is never
\* completed.
CompletedIsAgreed ==
    [][\A u \in UploadId :
         uploads[u].status # "completed" /\ uploads'[u].status = "completed"
           => ~staleKey[uploads[u].conn]]_tvars

\* A refused file's answers, unread, fill the buffers: the server waits in drain() and
\* the client for room to write its next packet.
BothWait(c) == at[c] = "stream" /\ refused[c] /\ Len(toClient[c]) > Answers

\* Every batch ends, with the exit code or with the uncaught exception of the last
\* read: the retries are bounded, and whenever client and server have lost step a
\* timeout of the server ends the wait.  The one exception is that both wait for
\* each other, for drain() has no timeout.
BatchesEnd == \A c \in Conn : <>(at[c] \in {"ended", "dead"}) \/ <>[]BothWait(c)
=============================================================================
