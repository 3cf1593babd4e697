---------------------------- MODULE UploadServer ----------------------------
(***************************************************************************)
(* The upload half of the Python server: the sessions of server_async.py,  *)
(* the upload paths of router.py and handlers.py (828, 900, 901, 902), the *)
(* UploadLimiter, the Uploads table of the Store and the files under       *)
(* data/uploads.                                                           *)
(*                                                                         *)
(* The server is one asyncio event loop.  A handler runs without           *)
(* interruption until it awaits something that suspends: the limiter and   *)
(* the metrics never do (their locks are never held across a suspension),  *)
(* so the only suspension points are the read of the next chunk and the    *)
(* drain() in ClientSession.send.  One action below is therefore the code  *)
(* between two of those points, and pc[c] names what the code still has to *)
(* do once the pending send is over.                                       *)
(*                                                                         *)
(* Sessions modelled here have completed the handshake.                    *)
(***************************************************************************)
EXTENDS Integers, Sequences, FiniteSets

CONSTANTS
    Conn,        \* connection ids; uuid4 in the code, so never reused
    Client,      \* client ids registered in the store
    Enrolled,    \* the registered clients that have an AES key
    Stranger,    \* a client id the store does not know
    File,        \* file names
    None,        \* the None of the code
    MaxSlots,    \* config.max_concurrent_uploads
    MaxPackets,  \* config.max_packets
    MaxSize,     \* config.max_file_size, in units of one chunk
    MaxChunk,    \* config.max_chunk_size, in the same units
    MaxRows,     \* bound: rows of the Uploads table
    MaxBatch,    \* bound: complete frames found in one chunk read
    MaxCrashes   \* bound: server crashes

ASSUME ConnAssumption == IsFiniteSet(Conn)
ASSUME ClientAssumption ==
    /\ Enrolled \subseteq Client
    /\ Stranger \notin Client
    /\ None \notin Client \cup {Stranger} \cup File
ASSUME BoundAssumption ==
    /\ MaxSlots \in Nat \ {0}
    /\ MaxPackets \in Nat \ {0}
    /\ MaxSize \in Nat \ {0}
    /\ MaxChunk \in Nat \ {0}
    /\ MaxRows \in Nat
    /\ MaxBatch \in Nat
    /\ MaxCrashes \in Nat

VARIABLES
    pc,             \* per connection: "new", "read", "closed" or an Awaiting value
    lost,           \* a send has failed: the transport is gone
    pending,        \* frames left in the chunk being handled when that happened
    hasSlot,        \* session.has_upload_slot
    xfer,           \* the fields reset_transfer_state clears
    activeUploads,  \* upload_limiter.active_uploads
    uploads,        \* the Uploads table
    rows,           \* the id of its last row
    disk,           \* the files at their final paths
    tmpFiles,       \* the temporary files on disk
    crashes         \* crashes so far

vars == <<pc, lost, pending, hasSlot, xfer, activeUploads, uploads, rows,
          disk, tmpFiles, crashes>>

(***************************************************************************)
(* What follows the send a handler is suspended in.                        *)
(*   answer       nothing                                                  *)
(*   abort        release_upload_slot, reset_transfer_state                *)
(*   abortAlways  the same, even when the send raises                      *)
(*   reset        reset_transfer_state                                     *)
(*   unknownCode  reset_transfer_state if upload_active (router.py)        *)
(*   routerReset  the same, in the router's except clause                  *)
(*   close        leave the frame loop and clean up (server_async.py)      *)
(***************************************************************************)
Awaiting == {"answer", "abort", "abortAlways", "reset", "unknownCode",
             "routerReset", "close"}

UploadId == 1..MaxRows
Settled == {"completed", "failed", "crc_mismatch"}

\* One accepted 828 packet as it appears in the plaintext: which upload it
\* belongs to, its number and whether it was the last one.
Piece == [id : UploadId, num : 1..MaxPackets, last : BOOLEAN]

Row == [status : {"none", "in_progress"} \cup Settled,
        client : Client \cup {None}, file : File \cup {None},
        conn : Conn \cup {None}, crc : Seq(Piece)]
NoRow == [status |-> "none", client |-> None, file |-> None,
          conn |-> None, crc |-> <<>>]

\* None is 0 for the numbers, <<>> for the CRC.  The CRC of a plaintext is
\* modelled by the plaintext itself: CRC32 without collisions.
Transfer == [iv : BOOLEAN, owner : Client \cup {None}, active : BOOLEAN,
             file : File \cup {None}, expected : 0..(MaxPackets + 1),
             total : 0..MaxPackets, size : 0..MaxSize, received : 0..MaxSize,
             id : UploadId \cup {0}, tmp : BOOLEAN,
             plain : Seq(Piece), crc : Seq(Piece)]
NoTransfer == [iv |-> FALSE, owner |-> None, active |-> FALSE, file |-> None,
               expected |-> 0, total |-> 0, size |-> 0, received |-> 0,
               id |-> 0, tmp |-> FALSE, plain |-> <<>>, crc |-> <<>>]

\* The fields of an 828 payload that its checks read.  content_size and
\* orig_file_size always travel together and are one size; len is the length of the
\* chunk, 0 when it is no whole number of AES blocks.
Packet == [client : Client \cup {Stranger}, num : 0..MaxPackets,
           total : 0..MaxPackets, size : 0..MaxSize, len : 0..(MaxChunk + 1)]

TypeOK ==
    /\ pc \in [Conn -> {"new", "read", "closed"} \cup Awaiting]
    /\ lost \in [Conn -> BOOLEAN]
    /\ pending \in [Conn -> 0..MaxBatch]
    /\ hasSlot \in [Conn -> BOOLEAN]
    /\ xfer \in [Conn -> Transfer]
    /\ activeUploads \in Nat
    /\ uploads \in [UploadId -> Row]
    /\ rows \in 0..MaxRows
    /\ disk \in [Client \X File -> Seq(Piece)]
    /\ tmpFiles \subseteq Client \X File \X Conn
    /\ crashes \in 0..MaxCrashes

Init ==
    /\ pc = [c \in Conn |-> "new"]
    /\ lost = [c \in Conn |-> FALSE]
    /\ pending = [c \in Conn |-> 0]
    /\ hasSlot = [c \in Conn |-> FALSE]
    /\ xfer = [c \in Conn |-> NoTransfer]
    /\ activeUploads = 0
    /\ uploads = [u \in UploadId |-> NoRow]
    /\ rows = 0
    /\ disk = [p \in Client \X File |-> <<>>]
    /\ tmpFiles = {}
    /\ crashes = 0

-----------------------------------------------------------------------------
(* Session and limiter operations.                                         *)

TmpPath(c) == <<xfer[c].owner, xfer[c].file, c>>

ReleaseUploadSlot(c) ==
    /\ hasSlot' = [hasSlot EXCEPT ![c] = FALSE]
    /\ activeUploads' = IF hasSlot[c] /\ activeUploads > 0
                        THEN activeUploads - 1 ELSE activeUploads

ResetTransferState(c) ==
    /\ xfer' = [xfer EXCEPT ![c] = NoTransfer]
    /\ tmpFiles' = IF xfer[c].tmp THEN tmpFiles \ {TmpPath(c)} ELSE tmpFiles

ResetIfActive(c) ==
    IF xfer[c].active THEN ResetTransferState(c) ELSE UNCHANGED <<xfer, tmpFiles>>

\* Faulty variant: the finally clause forgets the slot.
CleanupKeepsSlot(c) ==
    /\ UNCHANGED <<hasSlot, activeUploads>>
    /\ xfer' = [xfer EXCEPT ![c] = NoTransfer]
    /\ tmpFiles' = IF xfer[c].active /\ xfer[c].tmp
                   THEN tmpFiles \ {TmpPath(c)} ELSE tmpFiles
    /\ pc' = [pc EXCEPT ![c] = "closed"]
    /\ lost' = [lost EXCEPT ![c] = FALSE]
    /\ pending' = [pending EXCEPT ![c] = 0]

\* The session object is dropped; its temporary file only goes when the
\* upload was active.
Cleanup(c) ==
    /\ ReleaseUploadSlot(c)
    /\ xfer' = [xfer EXCEPT ![c] = NoTransfer]
    /\ tmpFiles' = IF xfer[c].active /\ xfer[c].tmp
                   THEN tmpFiles \ {TmpPath(c)} ELSE tmpFiles
    /\ pc' = [pc EXCEPT ![c] = "closed"]
    /\ lost' = [lost EXCEPT ![c] = FALSE]
    /\ pending' = [pending EXCEPT ![c] = 0]

SetStatus(u, status) == [uploads EXCEPT ![u].status = status]

FailUpload(u, status) == IF u # 0 THEN SetStatus(u, status) ELSE uploads

-----------------------------------------------------------------------------
(* The connection loop.                                                    *)

Open(c) ==
    /\ pc[c] = "new"
    /\ pc' = [pc EXCEPT ![c] = "read"]
    /\ UNCHANGED <<lost, pending, hasSlot, xfer, activeUploads, uploads, rows,
                   disk, tmpFiles, crashes>>

\* The frame loop has a frame to handle: one of any number of frames while the
\* transport lives, one of the frames it had already read afterwards.
TakeFrame(c) ==
    /\ pc[c] = "read"
    /\ lost[c] => pending[c] > 0
    /\ pending' = IF lost[c] THEN [pending EXCEPT ![c] = @ - 1] ELSE pending

\* The loop is back at reader.read.
Reading(c) == pc[c] = "read" /\ pending[c] = 0

\* Suspend in a send; what is left is named by next.
Await(c, next) == pc' = [pc EXCEPT ![c] = next]

-----------------------------------------------------------------------------
(* Request 828.  The guards below are the checks of request_828 in its     *)
(* order: each action assumes that the earlier checks passed, those on the *)
(* identity and the header of p in Request828 below.                       *)

fileVars == <<uploads, rows, disk>>

\* Line 365: no NUL after the name.  Nothing is sent.
NameUnterminated(c) ==
    /\ TakeFrame(c)
    /\ ReleaseUploadSlot(c)
    /\ ResetTransferState(c)
    /\ UNCHANGED <<pc, lost, fileVars, crashes>>

NameNotUtf8(c) ==
    /\ TakeFrame(c)
    /\ Await(c, "abort")
    /\ UNCHANGED <<lost, hasSlot, xfer, activeUploads, fileVars, tmpFiles, crashes>>

\* Line 387: the lookup by client id finds nothing.  Nothing is sent.
UnknownClient(c) ==
    /\ TakeFrame(c)
    /\ xfer[c].owner = None
    /\ ReleaseUploadSlot(c)
    /\ ResetTransferState(c)
    /\ UNCHANGED <<pc, lost, fileVars, crashes>>

\* Lines 394 and 410: no AES key for a new upload, or a packet of another client
\* during one.
WrongClient(c, k) ==
    /\ TakeFrame(c)
    /\ IF xfer[c].owner = None
       THEN k \in Client \ Enrolled ELSE k # xfer[c].owner
    /\ Await(c, "abort")
    /\ UNCHANGED <<lost, hasSlot, xfer, activeUploads, fileVars, tmpFiles, crashes>>

Identified(c, k) ==
    IF xfer[c].owner = None THEN k \in Enrolled ELSE k = xfer[c].owner

\* validate_header; request_828 goes on only with a packet that passes it.
ValidHeader(p) ==
    /\ p.total > 0 /\ p.total <= MaxPackets
    /\ p.num <= p.total
    /\ p.size > 0 /\ p.size <= MaxSize

ValidPacket == {p \in Packet : ValidHeader(p)}

\* The session as the checks after line 409 see it.
Owned(c, k) == [xfer[c] EXCEPT !.owner = k]

BadHeader(c, k) ==
    /\ TakeFrame(c)
    /\ Identified(c, k)
    /\ xfer' = [xfer EXCEPT ![c] = Owned(c, k)]
    /\ Await(c, "abortAlways")
    /\ UNCHANGED <<lost, hasSlot, activeUploads, fileVars, tmpFiles, crashes>>

IvRejected(c, p) ==
    /\ TakeFrame(c)
    /\ p.num = 0
    /\ xfer[c].active \/ xfer[c].iv \/ p.len = 0
    /\ xfer' = [xfer EXCEPT ![c] = Owned(c, p.client)]
    /\ Await(c, "abort")
    /\ UNCHANGED <<lost, hasSlot, activeUploads, fileVars, tmpFiles, crashes>>

IvAccepted(c, p) ==
    /\ TakeFrame(c)
    /\ p.num = 0
    /\ ~xfer[c].active /\ ~xfer[c].iv /\ p.len # 0
    /\ xfer' = [xfer EXCEPT ![c] =
                  [Owned(c, p.client) EXCEPT !.iv = TRUE, !.expected = 1, !.total = p.total,
                                      !.size = p.size, !.received = 0]]
    /\ UNCHANGED <<pc, lost, hasSlot, activeUploads, fileVars, tmpFiles, crashes>>

\* Lines 452 to 487: the packet does not continue the announced transfer.
Mismatched(c, p) ==
    ~ /\ xfer[c].iv /\ xfer[c].expected # 0
      /\ p.total = xfer[c].total /\ p.size = xfer[c].size
      /\ p.len <= MaxChunk

DataRejected(c, p) ==
    /\ TakeFrame(c)
    /\ p.num > 0 /\ Mismatched(c, p)
    /\ xfer' = [xfer EXCEPT ![c] = Owned(c, p.client)]
    /\ uploads' = FailUpload(xfer[c].id, "failed")
    /\ Await(c, "abort")
    /\ UNCHANGED <<lost, hasSlot, activeUploads, rows, disk, tmpFiles, crashes>>

TryAcquireFails(c) == ~hasSlot[c] /\ activeUploads >= MaxSlots

UploadRefused(c, p) ==
    /\ TakeFrame(c)
    /\ p.num > 0 /\ ~Mismatched(c, p) /\ p.num = 1
    /\ TryAcquireFails(c)
    /\ Await(c, "reset")
    /\ UNCHANGED <<lost, hasSlot, xfer, activeUploads, fileVars, tmpFiles, crashes>>

\* A packet that reaches the streaming part.  Packet 1 takes a slot unless the
\* session already has one and inserts a row; that happens before the checks
\* on overflow and order.
Streaming(c, p) ==
    /\ TakeFrame(c)
    /\ p.num > 0 /\ ~Mismatched(c, p)
    /\ p.num = 1 => ~TryAcquireFails(c) /\ rows < MaxRows

\* Faulty variant: acquires although the session has a slot.
StartAcquiresAgain(c, p) ==
    IF p.num = 1
    THEN /\ hasSlot' = [hasSlot EXCEPT ![c] = TRUE]
         /\ activeUploads' = activeUploads + 1
         /\ rows' = rows + 1
    ELSE UNCHANGED <<hasSlot, activeUploads, rows>>

StartUpload(c, p) ==
    IF p.num = 1
    THEN /\ hasSlot' = [hasSlot EXCEPT ![c] = TRUE]
         /\ activeUploads' = IF hasSlot[c] THEN activeUploads ELSE activeUploads + 1
         /\ rows' = rows + 1
    ELSE UNCHANGED <<hasSlot, activeUploads, rows>>

\* The session and the Uploads table after lines 488 to 544.
Started(c, p, f) ==
    IF p.num = 1
    THEN [xfer[c] EXCEPT !.active = TRUE, !.file = f, !.id = rows + 1,
                         !.tmp = TRUE, !.plain = <<>>]
    ELSE xfer[c]

TableWithRow(c, p, f, status) ==
    IF p.num = 1
    THEN [uploads EXCEPT ![rows + 1] =
            [NoRow EXCEPT !.status = status, !.client = p.client, !.file = f,
                          !.conn = c]]
    ELSE IF status = "in_progress" THEN uploads ELSE FailUpload(xfer[c].id, status)

TmpOpened(c, p, f) ==
    IF p.num = 1 THEN tmpFiles \cup {<<p.client, f, c>>} ELSE tmpFiles

\* Faulty variant: the packet number is not checked.
OrderUnchecked(c, p) == xfer[c].received + p.len > xfer[c].size

OutOfOrder(c, p) ==
    \/ xfer[c].received + p.len > xfer[c].size
    \/ p.num # xfer[c].expected

\* Lines 583 to 619.  Whether the padding is valid and the plaintext has the declared
\* length depends on bytes the model does not have.
LastIsShort(c, p) == p.num = p.total /\ xfer[c].received + p.len # xfer[c].size

PacketFails(c, p, f) ==
    /\ Streaming(c, p)
    /\ OutOfOrder(c, p) \/ p.len = 0 \/ p.num = p.total
    /\ StartUpload(c, p)
    /\ xfer' = [xfer EXCEPT ![c] = Started(c, p, f)]
    /\ uploads' = TableWithRow(c, p, f, "failed")
    /\ tmpFiles' = TmpOpened(c, p, f)
    /\ Await(c, "abort")
    /\ UNCHANGED <<lost, disk, crashes>>

PieceOf(x, p) == [id |-> x.id, num |-> p.num, last |-> p.num = p.total]

PacketStreamed(c, p, f) ==
    /\ Streaming(c, p)
    /\ ~OutOfOrder(c, p) /\ p.len # 0 /\ p.num # p.total
    /\ StartUpload(c, p)
    /\ LET x == Started(c, p, f) IN
         xfer' = [xfer EXCEPT ![c] =
                    [x EXCEPT !.expected = @ + 1, !.received = @ + p.len,
                              !.plain = Append(@, PieceOf(x, p))]]
    /\ uploads' = TableWithRow(c, p, f, "in_progress")
    /\ tmpFiles' = TmpOpened(c, p, f)
    /\ UNCHANGED <<pc, lost, disk, crashes>>

\* Faulty variant: publishes with any packet.
PublishedEarly(c, p, f) ==
    /\ Streaming(c, p)
    /\ ~OutOfOrder(c, p) /\ p.len # 0
    /\ StartUpload(c, p)
    /\ LET x == Started(c, p, f)
           plain == Append(x.plain, PieceOf(x, p)) IN
         /\ xfer' = [xfer EXCEPT ![c] =
                       [x EXCEPT !.expected = @ + 1, !.received = @ + p.len,
                                 !.plain = plain, !.crc = plain, !.tmp = FALSE]]
         /\ disk' = [disk EXCEPT ![<<x.owner, x.file>>] = plain]
         /\ tmpFiles' = TmpOpened(c, p, f) \ {<<x.owner, x.file, c>>}
    /\ uploads' = TableWithRow(c, p, f, "in_progress")
    /\ Await(c, "answer")
    /\ UNCHANGED <<lost, crashes>>

\* Faulty variant: the row is completed without waiting for the verdict.
PublishedCompleted(c, p, f) ==
    /\ Streaming(c, p)
    /\ ~OutOfOrder(c, p) /\ p.len # 0 /\ p.num = p.total
    /\ ~LastIsShort(c, p)
    /\ StartUpload(c, p)
    /\ LET x == Started(c, p, f)
           plain == Append(x.plain, PieceOf(x, p)) IN
         /\ xfer' = [xfer EXCEPT ![c] =
                       [x EXCEPT !.expected = @ + 1, !.received = @ + p.len,
                                 !.plain = plain, !.crc = plain, !.tmp = FALSE]]
         /\ disk' = [disk EXCEPT ![<<x.owner, x.file>>] = plain]
         /\ tmpFiles' = TmpOpened(c, p, f) \ {<<x.owner, x.file, c>>}
    /\ uploads' = TableWithRow(c, p, f, "completed")
    /\ Await(c, "answer")
    /\ UNCHANGED <<lost, crashes>>

\* The last packet: the temporary file replaces the final one, then 1603.
FilePublished(c, p, f) ==
    /\ Streaming(c, p)
    /\ ~OutOfOrder(c, p) /\ p.len # 0 /\ p.num = p.total
    /\ ~LastIsShort(c, p)
    /\ StartUpload(c, p)
    /\ LET x == Started(c, p, f)
           plain == Append(x.plain, PieceOf(x, p)) IN
         /\ xfer' = [xfer EXCEPT ![c] =
                       [x EXCEPT !.expected = @ + 1, !.received = @ + p.len,
                                 !.plain = plain, !.crc = plain, !.tmp = FALSE]]
         /\ disk' = [disk EXCEPT ![<<x.owner, x.file>>] = plain]
         /\ tmpFiles' = TmpOpened(c, p, f) \ {<<x.owner, x.file, c>>}
    /\ uploads' = TableWithRow(c, p, f, "in_progress")
    /\ Await(c, "answer")
    /\ UNCHANGED <<lost, crashes>>

\* open() of the temporary file raises: the row and the slot stay.
OpenRaises(c, p, f) ==
    /\ Streaming(c, p)
    /\ p.num = 1
    /\ StartUpload(c, p)
    /\ xfer' = [xfer EXCEPT ![c] = Started(c, p, f)]
    /\ uploads' = TableWithRow(c, p, f, "in_progress")
    /\ Await(c, "routerReset")
    /\ UNCHANGED <<lost, disk, tmpFiles, crashes>>

\* A write, or os.replace for the last packet, raises an OSError.
WriteRaises(c, p, f) ==
    /\ Streaming(c, p)
    /\ ~OutOfOrder(c, p) /\ p.len # 0
    /\ StartUpload(c, p)
    /\ xfer' = [xfer EXCEPT ![c] = Started(c, p, f)]
    /\ uploads' = TableWithRow(c, p, f, "in_progress")
    /\ tmpFiles' = TmpOpened(c, p, f)
    /\ Await(c, "routerReset")
    /\ UNCHANGED <<lost, disk, crashes>>

-----------------------------------------------------------------------------
(* Requests 900, 901 and 902, the CRC verdicts, and the router.            *)

\* Faulty variant: 900 does not reset the session.
Request900Unreset(c, f) ==
    /\ TakeFrame(c)
    /\ LET x == xfer[c]
           known == x.id # 0 /\ x.crc # <<>> /\ x.file = f IN
         uploads' = IF known
                    THEN [uploads EXCEPT ![x.id].status = "completed", ![x.id].crc = x.crc]
                    ELSE uploads
    /\ Await(c, "answer")
    /\ UNCHANGED <<lost, hasSlot, xfer, activeUploads, rows, disk, tmpFiles, crashes>>

\* The update of a row returns False only when the row is missing, which
\* RowOfSession below excludes; an sqlite error is HandlerRaises.
Request900(c, f) ==
    /\ TakeFrame(c)
    /\ LET x == xfer[c]
           known == x.id # 0 /\ x.crc # <<>> /\ x.file = f IN
         uploads' = IF known
                    THEN [uploads EXCEPT ![x.id].status = "completed", ![x.id].crc = x.crc]
                    ELSE uploads
    /\ Await(c, "abort")
    /\ UNCHANGED <<lost, hasSlot, xfer, activeUploads, rows, disk, tmpFiles, crashes>>

\* Faulty variant: 901 releases the slot and keeps the upload.
Request901Unreset(c, f) ==
    /\ TakeFrame(c)
    /\ IF xfer[c].file = f
       THEN /\ uploads' = FailUpload(xfer[c].id, "crc_mismatch")
            /\ ReleaseUploadSlot(c)
            /\ UNCHANGED <<pc, xfer, tmpFiles>>
       ELSE /\ Await(c, "abort")
            /\ UNCHANGED <<uploads, hasSlot, activeUploads, xfer, tmpFiles>>
    /\ UNCHANGED <<lost, rows, disk, crashes>>

\* Faulty variant: 901 marks the row as 902 does.
Request901Failed(c, f) ==
    /\ TakeFrame(c)
    /\ IF xfer[c].file = f
       THEN /\ uploads' = FailUpload(xfer[c].id, "failed")
            /\ ReleaseUploadSlot(c)
            /\ ResetTransferState(c)
            /\ UNCHANGED pc
       ELSE /\ Await(c, "abort")
            /\ UNCHANGED <<uploads, hasSlot, activeUploads, xfer, tmpFiles>>
    /\ UNCHANGED <<lost, rows, disk, crashes>>

Request901(c, f) ==
    /\ TakeFrame(c)
    /\ IF xfer[c].file = f
       THEN /\ uploads' = FailUpload(xfer[c].id, "crc_mismatch")
            /\ ReleaseUploadSlot(c)
            /\ ResetTransferState(c)
            /\ UNCHANGED pc
       ELSE /\ Await(c, "abort")
            /\ UNCHANGED <<uploads, hasSlot, activeUploads, xfer, tmpFiles>>
    /\ UNCHANGED <<lost, rows, disk, crashes>>

\* Faulty variant: 902 does not reset the session.
Request902Unreset(c, f) ==
    /\ TakeFrame(c)
    /\ uploads' = IF xfer[c].file = f THEN FailUpload(xfer[c].id, "failed") ELSE uploads
    /\ Await(c, "answer")
    /\ UNCHANGED <<lost, hasSlot, xfer, activeUploads, rows, disk, tmpFiles, crashes>>

Request902(c, f) ==
    /\ TakeFrame(c)
    /\ uploads' = IF xfer[c].file = f THEN FailUpload(xfer[c].id, "failed") ELSE uploads
    /\ Await(c, "abort")
    /\ UNCHANGED <<lost, hasSlot, xfer, activeUploads, rows, disk, tmpFiles, crashes>>

UnknownCode(c) ==
    /\ TakeFrame(c)
    /\ Await(c, "unknownCode")
    /\ UNCHANGED <<lost, hasSlot, xfer, activeUploads, fileVars, tmpFiles, crashes>>

\* A request that is answered and leaves the transfer alone: 825, 826, 827, and 829
\* or 830 after the handshake.
OtherRequest(c) ==
    /\ TakeFrame(c)
    /\ Await(c, "answer")
    /\ UNCHANGED <<lost, hasSlot, xfer, activeUploads, fileVars, tmpFiles, crashes>>

\* Any exception a handler lets out before it changes anything (a payload that does
\* not decode, an sqlite error).
HandlerRaises(c) ==
    /\ TakeFrame(c)
    /\ Await(c, "routerReset")
    /\ UNCHANGED <<lost, hasSlot, xfer, activeUploads, fileVars, tmpFiles, crashes>>

\* The frame loop stops at a frame over the request rate.
RateLimited(c) ==
    /\ pc[c] = "read"
    /\ lost[c] => pending[c] > 0
    /\ Await(c, "close")
    /\ UNCHANGED <<lost, pending, hasSlot, xfer, activeUploads, fileVars, tmpFiles, crashes>>

\* The read times out and the upload has made no progress for too long.
UploadTimeout(c) ==
    /\ Reading(c) /\ ~lost[c] /\ xfer[c].active
    /\ Await(c, "close")
    /\ UNCHANGED <<lost, pending, hasSlot, xfer, activeUploads, fileVars, tmpFiles,
                   crashes>>

-----------------------------------------------------------------------------
(* The end of a send, of a connection, of the process.                     *)

SendOk(c) ==
    /\ pc[c] \in Awaiting /\ ~lost[c]
    /\ \/ /\ pc[c] = "answer"
          /\ UNCHANGED <<hasSlot, activeUploads, xfer, tmpFiles>>
       \/ /\ pc[c] \in {"abort", "abortAlways"}
          /\ ReleaseUploadSlot(c)
          /\ ResetTransferState(c)
       \/ /\ pc[c] = "reset"
          /\ ResetTransferState(c)
          /\ UNCHANGED <<hasSlot, activeUploads>>
       \/ /\ pc[c] \in {"unknownCode", "routerReset"}
          /\ ResetIfActive(c)
          /\ UNCHANGED <<hasSlot, activeUploads>>
    /\ Await(c, "read")
    /\ UNCHANGED <<lost, pending, fileVars, crashes>>

\* The send raises ConnectionResetError or BrokenPipeError.  on_frame_bad has
\* overwritten disconnect_reason when the router compares it with "send_error", so
\* the exception ends there: the router's own 1607 fails as well, an active upload
\* is reset, and the frame loop goes on with the next frame.
SendFails(c) ==
    /\ pc[c] \in Awaiting \ {"close"}
    /\ lost' = [lost EXCEPT ![c] = TRUE]
    /\ IF lost[c] THEN UNCHANGED pending
       ELSE \E n \in 0..MaxBatch : pending' = [pending EXCEPT ![c] = n]
    /\ IF pc[c] = "abortAlways"
       THEN ReleaseUploadSlot(c) /\ ResetTransferState(c)
       ELSE ResetIfActive(c) /\ UNCHANGED <<hasSlot, activeUploads>>
    /\ Await(c, "read")
    /\ UNCHANGED <<fileVars, crashes>>

\* The finally clause of handle_client: after the last send, whether it failed or
\* not; after EOF, a reset, an idle timeout or an oversized frame; or on
\* cancellation, which can hit any suspended send.
Disconnect(c) ==
    /\ pc[c] \in Awaiting \/ Reading(c)
    /\ Cleanup(c)
    /\ UNCHANGED <<fileVars, crashes>>

\* The process dies; the store, the files and the temporary files stay.
Crash ==
    /\ crashes < MaxCrashes
    /\ crashes' = crashes + 1
    /\ pc' = [c \in Conn |-> IF pc[c] = "new" THEN "new" ELSE "closed"]
    /\ lost' = [c \in Conn |-> FALSE]
    /\ pending' = [c \in Conn |-> 0]
    /\ hasSlot' = [c \in Conn |-> FALSE]
    /\ xfer' = [c \in Conn |-> NoTransfer]
    /\ activeUploads' = 0
    /\ UNCHANGED <<fileVars, tmpFiles>>

Request828(c) ==
    \/ NameUnterminated(c) \/ NameNotUtf8(c) \/ UnknownClient(c)
    \/ \E k \in Client \cup {Stranger} : WrongClient(c, k) \/ BadHeader(c, k)
    \/ /\ pc[c] = "read"
       /\ \E p \in ValidPacket :
            /\ Identified(c, p.client)
            /\ \/ IvRejected(c, p) \/ IvAccepted(c, p) \/ DataRejected(c, p)
               \/ /\ p.num > 0 /\ ~Mismatched(c, p)
                  /\ \/ UploadRefused(c, p)
                     \/ \E f \in File :
                          \/ PacketFails(c, p, f) \/ PacketStreamed(c, p, f)
                          \/ FilePublished(c, p, f)
                          \/ OpenRaises(c, p, f) \/ WriteRaises(c, p, f)

Next ==
    \/ \E c \in Conn :
         \/ Open(c)
         \/ Request828(c)
         \/ \E f \in File : Request900(c, f) \/ Request901(c, f) \/ Request902(c, f)
         \/ UnknownCode(c) \/ OtherRequest(c) \/ HandlerRaises(c)
         \/ RateLimited(c) \/ UploadTimeout(c)
         \/ SendOk(c) \/ SendFails(c) \/ Disconnect(c)
    \/ Crash

Spec == Init /\ [][Next]_vars

-----------------------------------------------------------------------------
(* Properties.                                                             *)

SlotHolders == {c \in Conn : hasSlot[c]}

\* UploadLimiter.active_uploads is exactly the number of sessions that hold a
\* slot and never exceeds max_concurrent_uploads, whatever the order in which
\* handlers, failed sends, timeouts, cancellations and crashes interleave: no
\* path acquires twice or releases twice.
SlotAccounting ==
    /\ activeUploads = Cardinality(SlotHolders)
    /\ activeUploads <= MaxSlots

\* An upload the server is receiving holds a slot for as long as it is active: no
\* interleaving leaves a session streaming to disk outside the limit.  A
\* temporary file path is held only by an active upload, which is what lets the
\* finally clause of handle_client skip the reset of an inactive session.
ActiveUploadHoldsSlot ==
    \A c \in Conn : /\ xfer[c].active => hasSlot[c]
                    /\ xfer[c].tmp => xfer[c].active

\* Between two frames, the row a session's upload_id points to exists, belongs
\* to the client and file of the session and is still in_progress; and no two
\* sessions point to one row.  The updates by id of complete_upload_record and
\* fail_upload_record test none of this.
RowOfSession ==
    /\ \A c \in Conn : xfer[c].id # 0 =>
         LET r == uploads[xfer[c].id] IN
           /\ r.client = xfer[c].owner /\ r.file = xfer[c].file /\ r.conn = c
           /\ pc[c] = "read" => r.status = "in_progress"
    /\ \A c, d \in Conn : c # d => xfer[c].id # xfer[d].id \/ xfer[c].id = 0

\* s is the plaintext of upload u: its packets from 1 to the last, in order, with
\* no gap, no repetition and nothing from another upload.
PlaintextOf(s, u) ==
    /\ s # <<>>
    /\ \A i \in 1..Len(s) : s[i] = [id |-> u, num |-> i, last |-> i = Len(s)]

\* A completed row carries the CRC of the whole plaintext of its own upload.
CompletedIsWhole ==
    \A u \in UploadId :
        uploads[u].status = "completed" => PlaintextOf(uploads[u].crc, u)

\* A file at a final path is the whole plaintext of one upload of that client
\* under that name: a reader of data/uploads never sees a partial or mixed file.
DiskIsWhole ==
    \A k \in Client, f \in File : disk[<<k, f>>] # <<>> =>
        \E u \in UploadId : /\ uploads[u].client = k /\ uploads[u].file = f
                            /\ PlaintextOf(disk[<<k, f>>], u)

\* Once a row is completed, failed or crc_mismatch no later request, retry or
\* duplicate changes it.
SettledRowsAreFinal ==
    [][\A u \in UploadId : uploads[u].status \in Settled => uploads'[u] = uploads[u]]_vars

\* The upload path implements UploadLifecycle: the slots are the holders, a row
\* is settled only by the connection that created it, while that connection
\* still has the slot it took at packet 1, and at most once.
LC == INSTANCE UploadLifecycle WITH
        holders <- SlotHolders,
        status <- [u \in UploadId |-> uploads[u].status],
        by <- [u \in UploadId |-> uploads[u].conn]
ImplementsLifecycle == LC!LifecycleSpec

\* When a send has failed the session handles what it had read, ends and gives
\* its slot back.
LostIsCleanedUp ==
    \A c \in Conn : lost[c] ~> pc[c] = "closed" /\ ~hasSlot[c]

\* The event loop runs every ready task: a frame already read is handled, a send
\* on a dead transport fails, a read from it ends.
Progress(c) ==
    \/ Request828(c) \/ UnknownCode(c) \/ OtherRequest(c) \/ HandlerRaises(c) \/ RateLimited(c)
    \/ \E f \in File : Request900(c, f) \/ Request901(c, f) \/ Request902(c, f)
    \/ SendFails(c) \/ Disconnect(c)

FairSpec == Spec /\ \A c \in Conn : WF_vars(lost[c] /\ Progress(c))

-----------------------------------------------------------------------------
(* What the repository says of the program and the code does not do.       *)

\* tests/server/test_router.py (test_send_error_reraises): an error in a send
\* leaves handle_frame, so the connection ends without handling another frame.
SendErrorEndsFrames ==
    [][\A c \in Conn : lost[c] /\ pc'[c] # "closed" => pending'[c] = pending[c]]_vars
=============================================================================
