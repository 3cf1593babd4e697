------------------------ MODULE UploadContentProofs ------------------------
(***************************************************************************)
(* What an upload leaves behind: SettledRowsAreFinal, CompletedIsWhole and *)
(* DiskIsWhole.  The invariant is about the content of a transfer: the     *)
(* plaintext written so far is the packets 1 to expected_packet_num - 1 of *)
(* this upload, and the CRC, once there is one, is that of all of them.    *)
(***************************************************************************)
EXTENDS UploadSessionProofs


\* s is the packets 1 to Len(s) of upload u, of which t is the last.
Pieces(s, u, t) == \A i \in 1..Len(s) : s[i] = [id |-> u, num |-> i, last |-> i = t]

\* The content of the transfer x.
Content(x) ==
    /\ x.id = 0 => x.plain = <<>>
    /\ x.iv => x.expected = Len(x.plain) + 1
    /\ Pieces(x.plain, x.id, x.total)
    /\ x.crc # <<>> => x.crc = x.plain /\ Len(x.plain) = x.total

\* A session that waits to be reset may mix two uploads: packet 1 during an upload
\* takes a new row before its number is refused.
ContentOK(x, at) == at \in Quiet \/ ~x.active => Content(x)

ContentInv ==
    /\ \A c \in Conn : ContentOK(xfer[c], pc[c])
    /\ CompletedIsWhole
    /\ DiskIsWhole

-----------------------------------------------------------------------------
(* The rows of the table.                                                  *)

\* A step of a session leaves every settled row as it is.
LEMMA SettledStep ==
    ASSUME TypeInv, SessionInv, NEW c \in Conn, SessionStep(c),
           NEW u \in UploadId, uploads[u].status \in Settled
    PROVE  uploads'[u] = uploads[u]
<1>1. SessionEffect(c) BY StepEffect
<1>2. uploads \in [UploadId -> Row] /\ rows \in 0..MaxRows /\ xfer[c].id \in UploadId \cup {0}
  BY DEF TypeInv, TypeOK, Transfer
<1>3. CASE UNCHANGED uploads BY <1>3
<1>4. CASE RowSettled(c)
  <2>1. uploads[xfer[c].id].status = "in_progress"
    BY <1>4 DEF RowSettled, SessionInv, SessionOK, Quiet
  <2>2. u # xfer[c].id BY <2>1 DEF Settled
  <2> QED BY <1>2, <1>4, <2>2 DEF RowSettled
<1>5. CASE RowInserted(c)
  <2>1. rows + 1 \in UploadId /\ rows + 1 > rows
    BY <1>2, <1>5, BoundAssumption DEF RowInserted, UploadId
  <2>2. uploads[rows + 1].status = "none" BY <2>1 DEF SessionInv, FreshRows, NoRow
  <2>3. u # rows + 1 BY <2>2 DEF Settled
  <2> QED BY <1>2, <1>5, <2>3 DEF RowInserted
<1> QED BY <1>1, <1>3, <1>4, <1>5 DEF SessionEffect

\* The client and the name of a row, once it is inserted, stay.
LEMMA RowNames ==
    ASSUME TypeInv, SessionInv, NEW c \in Conn, SessionStep(c),
           NEW u \in UploadId, uploads[u].client # None
    PROVE  uploads'[u].client = uploads[u].client /\ uploads'[u].file = uploads[u].file
<1>1. SessionEffect(c) BY StepEffect
<1>2. uploads \in [UploadId -> Row] /\ rows \in 0..MaxRows /\ xfer[c].id \in UploadId \cup {0}
  BY DEF TypeInv, TypeOK, Transfer
<1>3. CASE UNCHANGED uploads BY <1>3
<1>4. CASE RowSettled(c) BY <1>2, <1>4 DEF RowSettled, Row
<1>5. CASE RowInserted(c)
  <2>1. rows + 1 \in UploadId /\ rows + 1 > rows
    BY <1>2, <1>5, BoundAssumption DEF RowInserted, UploadId
  <2>2. uploads[rows + 1].client = None BY <2>1 DEF SessionInv, FreshRows, NoRow
  <2> QED BY <1>2, <1>5, <2>2 DEF RowInserted
<1> QED BY <1>1, <1>3, <1>4, <1>5 DEF SessionEffect

\* Only 900 completes a row: that of its session, with the session's CRC.
LEMMA CompletedBy900 ==
    ASSUME TypeInv, NEW c \in Conn, SessionStep(c), NEW u \in UploadId,
           uploads'[u].status = "completed", uploads[u].status # "completed"
    PROVE  /\ pc[c] = "read" /\ xfer[c].crc # <<>>
           /\ u = xfer[c].id /\ uploads'[u].crc = xfer[c].crc
<1>1. /\ uploads \in [UploadId -> Row] /\ rows \in 0..MaxRows
      /\ xfer[c] \in Transfer /\ xfer[c].id \in UploadId \cup {0}
  BY DEF TypeInv, TypeOK, Transfer
<1>2. \A s \in {"failed", "crc_mismatch"} : uploads' # FailUpload(xfer[c].id, s)
  BY <1>1 DEF FailUpload, SetStatus, Row
<1>3. uploads' # uploads OBVIOUS
<1>4. ASSUME NEW p, NEW f, NEW s \in {"in_progress", "failed"}
      PROVE  uploads' # TableWithRow(c, p, f, s)
  <2>1. CASE p.num # 1 BY <1>2, <1>3, <2>1 DEF TableWithRow
  <2>2. CASE p.num = 1
    <3>1. [NoRow EXCEPT !.status = s, !.client = p.client, !.file = f, !.conn = c].status = s
      BY DEF NoRow
    <3> QED BY <1>1, <2>2, <3>1, Zenon DEF TableWithRow
  <2> QED BY <2>1, <2>2
<1>5. ~Request828(c)
  <2>1. ~(NameUnterminated(c) \/ NameNotUtf8(c) \/ UnknownClient(c))
    BY <1>3 DEF NameUnterminated, NameNotUtf8, UnknownClient, fileVars
  <2>2. \A k : ~(WrongClient(c, k) \/ BadHeader(c, k))
    BY <1>3 DEF WrongClient, BadHeader, fileVars
  <2>3. \A p : ~(IvRejected(c, p) \/ IvAccepted(c, p) \/ DataRejected(c, p) \/ UploadRefused(c, p))
    BY <1>2, <1>3 DEF IvRejected, IvAccepted, DataRejected, UploadRefused, fileVars
  <2>4. \A p, f : ~(\/ PacketFails(c, p, f) \/ PacketStreamed(c, p, f) \/ FilePublished(c, p, f)
                    \/ OpenRaises(c, p, f) \/ WriteRaises(c, p, f))
    BY <1>4 DEF PacketFails, PacketStreamed, FilePublished, OpenRaises, WriteRaises
  <2> QED BY <2>1, <2>2, <2>3, <2>4 DEF Request828
<1>6. \A f : ~(Request901(c, f) \/ Request902(c, f))
  BY <1>2, <1>3 DEF Request901, Request902
<1>7. ~(\/ Open(c) \/ UnknownCode(c) \/ OtherRequest(c) \/ HandlerRaises(c) \/ RateLimited(c)
        \/ UploadTimeout(c) \/ SendOk(c) \/ SendFails(c) \/ Disconnect(c))
  BY <1>3 DEF Open, UnknownCode, OtherRequest, HandlerRaises, RateLimited, UploadTimeout,
              SendOk, SendFails, Disconnect, fileVars
<1>8. PICK f \in File : Request900(c, f) BY <1>5, <1>6, <1>7 DEF SessionStep
<1>9. pc[c] = "read" BY <1>8 DEF Request900, TakeFrame
<1>10. /\ xfer[c].id # 0 /\ xfer[c].crc # <<>>
       /\ uploads' = [uploads EXCEPT ![xfer[c].id].status = "completed",
                                     ![xfer[c].id].crc = xfer[c].crc]
  BY <1>3, <1>8 DEF Request900
<1>11. u = xfer[c].id BY <1>1, <1>10
<1> QED BY <1>1, <1>9, <1>10, <1>11 DEF Row

-----------------------------------------------------------------------------
(* The content of the session that takes the step.                         *)

\* An empty transfer has no content.
LEMMA NoContent == Content(NoTransfer)
BY DEF Content, NoTransfer, Pieces

\* Content is about seven fields of the transfer.
LEMMA SameContent ==
    ASSUME NEW x \in Transfer, NEW y \in Transfer, NEW at, NEW at2, ContentOK(x, at),
           y.id = x.id, y.iv = x.iv, y.expected = x.expected, y.plain = x.plain,
           y.total = x.total, y.crc = x.crc, y.active = x.active,
           at2 \in Quiet => at \in Quiet \/ ~x.active
    PROVE  ContentOK(y, at2)
BY DEF ContentOK, Content

\* A step that leaves the transfer alone, or only records its owner.
LEMMA KeepContent ==
    ASSUME TypeOK, NEW c \in Conn, ContentOK(xfer[c], pc[c]), NEW k,
           \/ UNCHANGED xfer
           \/ Identified(c, k) /\ xfer' = [xfer EXCEPT ![c] = Owned(c, k)],
           pc'[c] \in Quiet => pc[c] \in Quiet \/ ~xfer[c].active
    PROVE  ContentOK(xfer'[c], pc'[c])
<1>1. xfer \in [Conn -> Transfer] BY DEF TypeOK
<1>2. CASE UNCHANGED xfer BY <1>1, <1>2, SameContent
<1>3. CASE Identified(c, k) /\ xfer' = [xfer EXCEPT ![c] = Owned(c, k)]
  <2> DEFINE y == Owned(c, k)
  <2>1. y \in Transfer BY <1>3, OwnedType
  <2>2. /\ y.id = xfer[c].id /\ y.iv = xfer[c].iv /\ y.expected = xfer[c].expected
        /\ y.plain = xfer[c].plain /\ y.total = xfer[c].total /\ y.crc = xfer[c].crc
        /\ y.active = xfer[c].active
    BY <1>1 DEF Owned, Transfer
  <2>3. xfer'[c] = y BY <1>1, <1>3
  <2> HIDE DEF y
  <2> QED BY <1>1, <2>1, <2>2, <2>3, SameContent
<1> QED BY <1>2, <1>3

\* A step that resets the transfer, unless that is not active.
LEMMA ResetContent ==
    ASSUME TypeOK, NEW c \in Conn, ContentOK(xfer[c], pc[c]),
           ResetTransferState(c) \/ Cleanup(c) \/ ResetIfActive(c)
    PROVE  ContentOK(xfer'[c], pc'[c])
<1>1. xfer \in [Conn -> Transfer] BY DEF TypeOK
<1>2. CASE xfer'[c] = NoTransfer BY <1>2, NoContent DEF ContentOK
<1>3. CASE xfer'[c] # NoTransfer
  <2>1. ~xfer[c].active /\ UNCHANGED xfer
    BY <1>1, <1>3 DEF ResetTransferState, Cleanup, ResetIfActive
  <2> QED BY <1>1, <2>1, SameContent
<1> QED BY <1>2, <1>3

\* A packet 0 that is accepted announces a transfer of which nothing has come.
LEMMA IvContent ==
    ASSUME TypeOK, NEW c \in Conn, Kept(c), ContentOK(xfer[c], pc[c]),
           NEW p \in ValidPacket, IvAccepted(c, p)
    PROVE  ContentOK(xfer'[c], pc'[c])
<1> DEFINE x == xfer[c]
           y == xfer'[c]
<1>1. xfer \in [Conn -> Transfer] /\ x \in Transfer BY DEF TypeOK
<1>2. ~x.active BY DEF IvAccepted
<1>3. x.id = 0 /\ Content(x) BY <1>2 DEF Kept, SessionOK, ContentOK
<1>4. x.plain = <<>> /\ x.crc = <<>> BY <1>3 DEF Content
<1>5. y.id = x.id /\ y.plain = x.plain /\ y.crc = x.crc /\ y.expected = 1
  BY <1>1 DEF IvAccepted, Owned, Transfer
<1>6. Len(y.plain) = 0 BY <1>4, <1>5
<1> HIDE DEF y
<1>7. Content(y) BY <1>3, <1>4, <1>5, <1>6 DEF Content, Pieces
<1> QED BY <1>7 DEF y, ContentOK

\* What a sequence is, and what it is with one more element.
LEMMA SeqLength == ASSUME NEW T, NEW s \in Seq(T) PROVE Len(s) \in Nat
OBVIOUS

\* What Append does to the length and to the elements.
LEMMA SeqAppend ==
    ASSUME NEW T, NEW s \in Seq(T), NEW e \in T
    PROVE  /\ Append(s, e) \in Seq(T) /\ Len(Append(s, e)) = Len(s) + 1
           /\ \A i \in 1..Len(s) : Append(s, e)[i] = s[i]
           /\ Append(s, e)[Len(s) + 1] = e
OBVIOUS

\* The session x in which packet p is streamed, and the content s it then has.
Extended(c, p, f, x, s) == x = Started(c, p, f) /\ s = Append(x.plain, PieceOf(x, p))

\* A packet that passes the check of its number is the next piece of the plaintext:
\* packet 1 of a new upload, or the successor of the last one of the same upload.
LEMMA NextPiece ==
    ASSUME TypeOK, NEW c \in Conn, Content(xfer[c]),
           NEW p \in ValidPacket, NEW f \in File, Streaming(c, p), ~OutOfOrder(c, p),
           NEW x, NEW s, Extended(c, p, f, x, s)
    PROVE  /\ x \in Transfer /\ x.id # 0 /\ x.crc = <<>>
           /\ x.expected = p.num /\ x.total = p.total
           /\ Len(s) = p.num
           /\ Pieces(s, x.id, p.total)
<1>0. x = Started(c, p, f) /\ s = Append(x.plain, PieceOf(x, p)) BY DEF Extended
<1>1. xfer[c] \in Transfer /\ rows \in Nat BY BoundAssumption DEF TypeOK
<1>2. /\ xfer[c].iv /\ p.total = xfer[c].total /\ p.num = xfer[c].expected
      /\ p.num > 0 /\ p.num \in Nat /\ p.total \in Nat /\ p.num <= p.total /\ p.total <= MaxPackets
  <2>1. p \in Packet /\ p.num <= p.total /\ p.total <= MaxPackets BY DEF ValidPacket, ValidHeader
  <2>2. p.num \in Nat /\ p.total \in Nat BY <2>1, BoundAssumption DEF Packet
  <2> QED BY <2>1, <2>2 DEF Streaming, Mismatched, OutOfOrder
<1>3. xfer[c].plain \in Seq(Piece) /\ Len(xfer[c].plain) \in Nat BY <1>1, SeqLength DEF Transfer
<1>4. p.num = Len(xfer[c].plain) + 1 BY <1>2 DEF Content
<1>5. xfer[c].crc = <<>> BY <1>2, <1>3, <1>4 DEF Content
<1>6. x \in Transfer BY <1>0, StartedType DEF Streaming
<1>7. x.crc = <<>> /\ x.expected = p.num /\ x.total = p.total
  BY <1>0, <1>1, <1>2, <1>5 DEF Started, Transfer
<1>8. /\ x.id # 0 /\ Len(x.plain) + 1 = p.num
      /\ Pieces(x.plain, x.id, p.total)
  <2>1. CASE p.num = 1
    <3>1. x.id = rows + 1 /\ x.plain = <<>> BY <1>0, <1>1, <2>1 DEF Started, Transfer
    <3>2. Pieces(<<>>, x.id, p.total) BY DEF Pieces
    <3> QED BY <1>1, <2>1, <3>1, <3>2
  <2>2. CASE p.num # 1
    <3>1. x = xfer[c] BY <1>0, <2>2 DEF Started
    <3>2. xfer[c].plain # <<>> BY <1>3, <1>4, <2>2
    <3> QED BY <1>2, <1>4, <3>1, <3>2 DEF Content
  <2> QED BY <2>1, <2>2
<1>9. /\ Len(s) = Len(x.plain) + 1 /\ s[Len(x.plain) + 1] = PieceOf(x, p)
      /\ \A i \in 1..Len(x.plain) : s[i] = x.plain[i]
  <2>1. x.plain \in Seq(Piece) BY <1>6 DEF Transfer
  <2>2. x.id \in UploadId BY <1>6, <1>8 DEF Transfer
  <2>3. p.num \in 1..MaxPackets
    <3>1. MaxPackets \in Nat BY BoundAssumption, Zenon
    <3> QED BY <1>2, <3>1
  <2>4. PieceOf(x, p) \in Piece BY <2>2, <2>3 DEF PieceOf, Piece
  <2> QED BY <1>0, <2>1, <2>4, SeqAppend
<1>10. PieceOf(x, p) = [id |-> x.id, num |-> p.num, last |-> p.num = p.total] BY DEF PieceOf
<1>11. ASSUME NEW i \in 1..Len(s) PROVE s[i] = [id |-> x.id, num |-> i, last |-> i = p.total]
  <2>1. i \in 1..Len(x.plain) \/ i = p.num BY <1>2, <1>8, <1>9
  <2> QED BY <1>8, <1>9, <1>10, <2>1 DEF Pieces
<1>12. Pieces(s, x.id, p.total) BY <1>11 DEF Pieces
<1> QED BY <1>6, <1>7, <1>8, <1>9, <1>12

\* A packet in the streaming part: when it is streamed or published it continues the
\* content; otherwise the session only waits to be reset.
LEMMA StreamContent ==
    ASSUME TypeOK, NEW c \in Conn, ContentOK(xfer[c], pc[c]),
           NEW p \in ValidPacket, NEW f \in File,
           \/ PacketFails(c, p, f) \/ PacketStreamed(c, p, f) \/ FilePublished(c, p, f)
           \/ OpenRaises(c, p, f) \/ WriteRaises(c, p, f)
    PROVE  ContentOK(xfer'[c], pc'[c])
<1>6. PICK x : x = Started(c, p, f) OBVIOUS
<1>7. PICK s : s = Append(x.plain, PieceOf(x, p)) BY Zenon
<1> DEFINE y == xfer'[c]
<1>0. /\ xfer \in [Conn -> Transfer] /\ xfer[c] \in Transfer
      /\ pc \in [Conn -> {"new", "read", "closed"} \cup Awaiting]
  BY DEF TypeOK
<1>1. Streaming(c, p)
  BY DEF PacketFails, PacketStreamed, FilePublished, OpenRaises, WriteRaises
<1>2. pc[c] = "read" /\ pc[c] \in Quiet BY <1>1 DEF Streaming, TakeFrame, Quiet
<1>3. Content(xfer[c]) BY <1>2 DEF ContentOK
<1>4. CASE PacketFails(c, p, f) \/ OpenRaises(c, p, f) \/ WriteRaises(c, p, f)
  <2>1. y = x /\ pc'[c] \notin Quiet
    BY <1>0, <1>4, <1>6 DEF PacketFails, OpenRaises, WriteRaises, Await, Quiet
  <2>2. CASE p.num = 1
    <3>1. x.active BY <1>0, <1>6, <2>2 DEF Started, Transfer
    <3> QED BY <2>1, <3>1 DEF ContentOK
  <2>3. CASE p.num # 1 BY <1>3, <1>6, <2>1, <2>3 DEF Started, ContentOK
  <2> QED BY <2>2, <2>3
<1>5. CASE PacketStreamed(c, p, f) \/ FilePublished(c, p, f)
  <2>1. ~OutOfOrder(c, p) BY <1>5 DEF PacketStreamed, FilePublished
  <2>2. /\ x \in Transfer /\ x.id # 0 /\ x.crc = <<>>
        /\ x.expected = p.num /\ x.total = p.total
        /\ Len(s) = p.num
        /\ Pieces(s, x.id, p.total)
    <3>1. Extended(c, p, f, x, s) BY <1>6, <1>7, Zenon DEF Extended
    <3> QED BY <1>1, <1>3, <2>1, <3>1, NextPiece, Zenon
  <2>3. CASE PacketStreamed(c, p, f)
    <3>1. y = [x EXCEPT !.expected = @ + 1, !.received = @ + p.len, !.plain = s]
      BY <1>0, <1>6, <1>7, <2>3 DEF PacketStreamed
    <3> HIDE DEF y
    <3>2. /\ y.id = x.id /\ y.crc = x.crc /\ y.total = x.total /\ y.expected = x.expected + 1
          /\ y.plain = s
      BY <2>2, <3>1 DEF Transfer
    <3>3. Content(y) BY <2>2, <3>2 DEF Content
    <3> QED BY <3>3 DEF y, ContentOK
  <2>4. CASE FilePublished(c, p, f)
    <3>1. y = [x EXCEPT !.expected = @ + 1, !.received = @ + p.len,
                        !.plain = s, !.crc = s, !.tmp = FALSE]
      BY <1>0, <1>6, <1>7, <2>4 DEF FilePublished
    <3>2. p.num = p.total BY <2>4 DEF FilePublished
    <3> HIDE DEF y
    <3>3. /\ y.id = x.id /\ y.crc = s /\ y.total = x.total /\ y.expected = x.expected + 1
          /\ y.plain = s
      BY <2>2, <3>1 DEF Transfer
    <3>4. Content(y) BY <2>2, <3>2, <3>3 DEF Content
    <3> QED BY <3>4 DEF y, ContentOK
  <2> QED BY <1>5, <2>3, <2>4
<1> QED BY <1>4, <1>5

\* Every step of a session keeps ContentOK of its transfer.
LEMMA ContentStep ==
    ASSUME TypeInv, NEW c \in Conn, Kept(c), ContentOK(xfer[c], pc[c]), SessionStep(c)
    PROVE  ContentOK(xfer'[c], pc'[c])
<1>0. TypeOK /\ pc \in [Conn -> {"new", "read", "closed"} \cup Awaiting] BY DEF TypeInv, TypeOK
<1>1. CASE Request828(c)
  <2>1. CASE NameUnterminated(c) \/ UnknownClient(c)
    BY <1>0, <2>1, ResetContent DEF NameUnterminated, UnknownClient
  <2>2. ASSUME NameNotUtf8(c) \/ \E k : WrongClient(c, k) PROVE ContentOK(xfer'[c], pc'[c])
    <3>1. pc[c] = "read" /\ UNCHANGED xfer BY <2>2 DEF NameNotUtf8, WrongClient, TakeFrame
    <3> QED BY <1>0, <3>1, KeepContent DEF Quiet
  <2>3. ASSUME NEW k, BadHeader(c, k) PROVE ContentOK(xfer'[c], pc'[c])
    <3>1. /\ pc[c] = "read" /\ Identified(c, k)
          /\ xfer' = [xfer EXCEPT ![c] = Owned(c, k)]
      BY <2>3 DEF BadHeader, TakeFrame
    <3> QED BY <1>0, <3>1, KeepContent, Zenon DEF Quiet
  <2>4. ASSUME NEW p \in ValidPacket, Identified(c, p.client),
               IvRejected(c, p) \/ DataRejected(c, p) \/ UploadRefused(c, p)
        PROVE  ContentOK(xfer'[c], pc'[c])
    <3>1. pc[c] = "read" BY <2>4 DEF IvRejected, DataRejected, UploadRefused, TakeFrame
    <3>2. UNCHANGED xfer \/ xfer' = [xfer EXCEPT ![c] = Owned(c, p.client)]
      BY <2>4 DEF IvRejected, DataRejected, UploadRefused
    <3> QED BY <1>0, <2>4, <3>1, <3>2, KeepContent DEF Quiet
  <2>5. ASSUME NEW p \in ValidPacket, IvAccepted(c, p) PROVE ContentOK(xfer'[c], pc'[c])
    BY <1>0, <2>5, IvContent
  <2>6. ASSUME NEW p \in ValidPacket, NEW f \in File,
               \/ PacketFails(c, p, f) \/ PacketStreamed(c, p, f) \/ FilePublished(c, p, f)
               \/ OpenRaises(c, p, f) \/ WriteRaises(c, p, f)
        PROVE  ContentOK(xfer'[c], pc'[c])
    BY <1>0, <2>6, StreamContent
  <2> QED BY <1>1, <2>1, <2>2, <2>3, <2>4, <2>5, <2>6 DEF Request828
<1>2. ASSUME NEW f, Request900(c, f) \/ Request901(c, f) \/ Request902(c, f)
      PROVE  ContentOK(xfer'[c], pc'[c])
  <2>1. pc[c] = "read" /\ (UNCHANGED xfer \/ ResetTransferState(c))
    BY <1>2 DEF Request900, Request901, Request902, TakeFrame
  <2> QED BY <1>0, <2>1, KeepContent, ResetContent DEF Quiet
<1>3. CASE \/ Open(c) \/ UnknownCode(c) \/ OtherRequest(c) \/ HandlerRaises(c)
           \/ RateLimited(c) \/ UploadTimeout(c)
  <2>1. pc[c] \in Quiet /\ UNCHANGED xfer
    BY <1>3 DEF Open, UnknownCode, OtherRequest, HandlerRaises, RateLimited, UploadTimeout,
                TakeFrame, Reading, Quiet
  <2> QED BY <1>0, <2>1, KeepContent
<1>4. CASE SendOk(c)
  <2>1. \/ pc[c] = "answer" /\ UNCHANGED xfer
        \/ ResetTransferState(c) \/ ResetIfActive(c)
    BY <1>4 DEF SendOk
  <2> QED BY <1>0, <2>1, KeepContent, ResetContent DEF Quiet
<1>5. CASE SendFails(c) \/ Disconnect(c)
  <2>1. ResetTransferState(c) \/ ResetIfActive(c) \/ Cleanup(c)
    BY <1>5 DEF SendFails, Disconnect
  <2> QED BY <1>0, <2>1, ResetContent
<1> QED BY <1>1, <1>2, <1>3, <1>4, <1>5 DEF SessionStep

-----------------------------------------------------------------------------
(* What a step leaves in the table and on the disk.                        *)

\* A step of a session completes only a row whose plaintext is whole.
LEMMA CompletedStep ==
    ASSUME TypeInv, SessionInv, ContentInv, NEW c \in Conn, SessionStep(c)
    PROVE  CompletedIsWhole'
<1> SUFFICES ASSUME NEW u \in UploadId, uploads'[u].status = "completed"
             PROVE  PlaintextOf(uploads'[u].crc, u)
  BY DEF CompletedIsWhole
<1>1. CASE uploads[u].status = "completed"
  <2>1. uploads'[u] = uploads[u] BY <1>1, SettledStep DEF Settled
  <2> QED BY <1>1, <2>1 DEF ContentInv, CompletedIsWhole
<1>2. CASE uploads[u].status # "completed"
  <2> DEFINE x == xfer[c]
  <2>1. /\ pc[c] = "read" /\ x.crc # <<>> /\ u = x.id /\ uploads'[u].crc = x.crc
    BY <1>2, CompletedBy900
  <2>2. Content(x) BY <2>1 DEF ContentInv, ContentOK, Quiet
  <2>3. x.crc = x.plain /\ Len(x.plain) = x.total /\ Pieces(x.plain, x.id, x.total)
    BY <2>1, <2>2 DEF Content
  <2> QED BY <2>1, <2>3 DEF PlaintextOf, Pieces
<1> QED BY <1>1, <1>2

\* Only the last packet of an upload changes a file at its final path.
LEMMA DiskEffect ==
    ASSUME NEW c \in Conn, SessionStep(c)
    PROVE  \/ UNCHANGED disk
           \/ \E p \in ValidPacket, f \in File : FilePublished(c, p, f)
<1>1. CASE Request828(c)
  <2>1. NameUnterminated(c) \/ NameNotUtf8(c) \/ UnknownClient(c) => UNCHANGED disk
    BY DEF NameUnterminated, NameNotUtf8, UnknownClient, fileVars
  <2>2. \A k : WrongClient(c, k) \/ BadHeader(c, k) => UNCHANGED disk
    BY DEF WrongClient, BadHeader, fileVars
  <2>3. \A p : IvRejected(c, p) \/ IvAccepted(c, p) \/ DataRejected(c, p) \/ UploadRefused(c, p)
                 => UNCHANGED disk
    BY DEF IvRejected, IvAccepted, DataRejected, UploadRefused, fileVars
  <2>4. \A p, f : PacketFails(c, p, f) \/ PacketStreamed(c, p, f) \/ OpenRaises(c, p, f)
                  \/ WriteRaises(c, p, f) => UNCHANGED disk
    BY DEF PacketFails, PacketStreamed, OpenRaises, WriteRaises
  <2> QED BY <1>1, <2>1, <2>2, <2>3, <2>4 DEF Request828
<1>2. \A f : Request900(c, f) \/ Request901(c, f) \/ Request902(c, f) => UNCHANGED disk
  BY DEF Request900, Request901, Request902
<1>3. \/ Open(c) \/ UnknownCode(c) \/ OtherRequest(c) \/ HandlerRaises(c) \/ RateLimited(c)
      \/ UploadTimeout(c) \/ SendOk(c) \/ SendFails(c) \/ Disconnect(c)
      => UNCHANGED disk
  BY DEF Open, UnknownCode, OtherRequest, HandlerRaises, RateLimited, UploadTimeout,
         SendOk, SendFails, Disconnect, fileVars
<1> QED BY <1>1, <1>2, <1>3 DEF SessionStep

\* The published file is the plaintext of the upload of the session, whose row names
\* the client and the file of its path.
LEMMA PublishedIsWhole ==
    ASSUME TypeOK, TypeOK', SessionInv', NEW c \in Conn, ContentOK(xfer[c], pc[c]),
           NEW p \in ValidPacket, NEW f \in File, FilePublished(c, p, f)
    PROVE  \E k, g, s : \E u \in UploadId :
             /\ disk' = [disk EXCEPT ![<<k, g>>] = s] /\ PlaintextOf(s, u)
             /\ uploads'[u].client = k /\ uploads'[u].file = g
<1>1. PICK x : x = Started(c, p, f) OBVIOUS
<1>2. PICK s : s = Append(x.plain, PieceOf(x, p)) BY Zenon
<1>3. Streaming(c, p) /\ ~OutOfOrder(c, p) /\ p.num = p.total BY DEF FilePublished
<1>4. Content(xfer[c]) BY <1>3 DEF Streaming, TakeFrame, ContentOK, Quiet
<1>5. /\ x \in Transfer /\ x.id # 0 /\ Len(s) = p.num /\ Pieces(s, x.id, p.total)
  <2>1. Extended(c, p, f, x, s) BY <1>1, <1>2, Zenon DEF Extended
  <2> QED BY <1>3, <1>4, <2>1, NextPiece
<1>6. /\ xfer' = [xfer EXCEPT ![c] =
                    [x EXCEPT !.expected = @ + 1, !.received = @ + p.len,
                              !.plain = s, !.crc = s, !.tmp = FALSE]]
      /\ disk' = [disk EXCEPT ![<<x.owner, x.file>>] = s]
  BY <1>1, <1>2 DEF FilePublished
<1>7. xfer'[c].id = x.id /\ xfer'[c].owner = x.owner /\ xfer'[c].file = x.file
  BY <1>5, <1>6 DEF TypeOK, Transfer
<1>8. uploads'[x.id].client = x.owner /\ uploads'[x.id].file = x.file
  <2>1. SessionOK(c, xfer'[c], hasSlot'[c], pc'[c], uploads', rows') BY Zenon DEF SessionInv
  <2> QED BY <1>5, <1>7, <2>1, Zenon DEF SessionOK
<1>9. x.id \in UploadId BY <1>5 DEF Transfer
<1>10. PlaintextOf(s, x.id)
  <2>1. s # <<>> BY <1>3, <1>5 DEF Streaming
  <2> QED BY <1>3, <1>5, <2>1 DEF PlaintextOf, Pieces
<1> QED BY <1>6, <1>8, <1>9, <1>10, Zenon

\* A step of a session publishes only a file that is whole.
LEMMA DiskStep ==
    ASSUME TypeInv, SessionInv, ContentInv, TypeInv', SessionInv', NEW c \in Conn, SessionStep(c)
    PROVE  DiskIsWhole'
<1>0. TypeOK /\ TypeOK' /\ disk \in [Client \X File -> Seq(Piece)] BY Zenon DEF TypeInv, TypeOK
<1> SUFFICES ASSUME NEW k \in Client, NEW f \in File, disk'[<<k, f>>] # <<>>
             PROVE  \E u \in UploadId : /\ uploads'[u].client = k /\ uploads'[u].file = f
                                        /\ PlaintextOf(disk'[<<k, f>>], u)
  BY Zenon DEF DiskIsWhole
<1>1. CASE disk'[<<k, f>>] = disk[<<k, f>>]
  <2>1. PICK u \in UploadId : /\ uploads[u].client = k /\ uploads[u].file = f
                              /\ PlaintextOf(disk[<<k, f>>], u)
    BY <1>1 DEF ContentInv, DiskIsWhole
  <2>2. uploads[u].client # None BY <2>1, ClientAssumption
  <2>3. uploads'[u].client = uploads[u].client /\ uploads'[u].file = uploads[u].file
    BY <2>2, RowNames
  <2> QED BY <1>1, <2>1, <2>3
<1>2. CASE disk'[<<k, f>>] # disk[<<k, f>>]
  <2>1. PICK p \in ValidPacket, g \in File : FilePublished(c, p, g)
    BY <1>2, DiskEffect
  <2>2. PICK l, h, s : \E u \in UploadId :
             /\ disk' = [disk EXCEPT ![<<l, h>>] = s] /\ PlaintextOf(s, u)
             /\ uploads'[u].client = l /\ uploads'[u].file = h
    BY <1>0, <2>1, PublishedIsWhole, Zenon DEF ContentInv
  <2>3. <<k, f>> \in Client \X File OBVIOUS
  <2>4. <<k, f>> = <<l, h>> BY <1>0, <1>2, <2>2, <2>3
  <2>5. k = l /\ f = h /\ disk'[<<k, f>>] = s BY <1>0, <2>2, <2>3, <2>4
  <2> QED BY <2>2, <2>5
<1> QED BY <1>1, <1>2

-----------------------------------------------------------------------------
(* The theorems.                                                           *)

\* In every reachable state the content of every transfer, completed row and
\* published file is that of one upload.
THEOREM ContentHolds == Spec => []ContentInv
<1>1. Init => ContentInv
  <2> SUFFICES ASSUME Init PROVE ContentInv OBVIOUS
  <2>1. \A c \in Conn : ContentOK(xfer[c], pc[c]) BY NoContent DEF Init, ContentOK
  <2>2. CompletedIsWhole BY DEF Init, NoRow, CompletedIsWhole
  <2>3. DiskIsWhole BY DEF Init, DiskIsWhole
  <2> QED BY <2>1, <2>2, <2>3 DEF ContentInv
<1>2. TypeInv /\ TypeInv' /\ SessionInv /\ SessionInv' /\ ContentInv /\ [Next]_vars => ContentInv'
  <2> SUFFICES ASSUME TypeInv, TypeInv', SessionInv, SessionInv', ContentInv, [Next]_vars
               PROVE  ContentInv'
    OBVIOUS
  <2>1. ASSUME NEW c \in Conn, SessionStep(c) PROVE ContentInv'
    <3>1. CompletedIsWhole' /\ DiskIsWhole' BY <2>1, CompletedStep, DiskStep
    <3>2. ASSUME NEW d \in Conn PROVE ContentOK(xfer'[d], pc'[d])
      <4>1. ContentOK(xfer[d], pc[d]) BY DEF ContentInv
      <4>2. CASE d = c
        <5>1. Kept(c) BY DEF SessionInv, Kept
        <5> QED BY <2>1, <4>1, <4>2, <5>1, ContentStep
      <4>3. CASE d # c
        <5>1. xfer'[d] = xfer[d] /\ pc'[d] = pc[d] BY <2>1, <4>3, Frames DEF TypeInv
        <5> QED BY <4>1, <5>1
      <4> QED BY <4>2, <4>3
    <3> QED BY <3>1, <3>2 DEF ContentInv
  <2>2. CASE Crash
    <3>1. \A c \in Conn : xfer'[c] = NoTransfer BY <2>2 DEF Crash
    <3>2. \A c \in Conn : ContentOK(xfer'[c], pc'[c]) BY <3>1, NoContent DEF ContentOK
    <3>3. UNCHANGED <<uploads, disk>> BY <2>2 DEF Crash, fileVars
    <3> QED BY <3>2, <3>3 DEF ContentInv, CompletedIsWhole, DiskIsWhole
  <2>3. CASE UNCHANGED vars
    BY <2>3 DEF vars, ContentInv, CompletedIsWhole, DiskIsWhole
  <2> QED BY <2>1, <2>2, <2>3 DEF Next, SessionStep
<1> QED BY <1>1, <1>2, TypeCorrect, SessionsTied, PTL DEF Spec

\* A completed row carries the CRC of the whole plaintext of its own upload,
\* for any number of sessions and packets.
THEOREM CompletedAreWhole == Spec => []CompletedIsWhole
<1>1. ContentInv => CompletedIsWhole BY DEF ContentInv
<1> QED BY <1>1, ContentHolds, PTL

\* A file at a final path is the whole plaintext of one upload of that client under
\* that name, whatever sessions publish to the same path.
THEOREM DiskAlwaysWhole == Spec => []DiskIsWhole
<1>1. ContentInv => DiskIsWhole BY DEF ContentInv
<1> QED BY <1>1, ContentHolds, PTL

\* No step changes a row that is completed, failed or crc_mismatch.
THEOREM SettledRowsStay == Spec => SettledRowsAreFinal
<1>1. TypeInv /\ SessionInv /\ [Next]_vars =>
        [\A u \in UploadId : uploads[u].status \in Settled => uploads'[u] = uploads[u]]_vars
  <2> SUFFICES ASSUME TypeInv, SessionInv, Next, NEW u \in UploadId, uploads[u].status \in Settled
               PROVE  uploads'[u] = uploads[u]
    OBVIOUS
  <2>1. ASSUME NEW c \in Conn, SessionStep(c) PROVE uploads'[u] = uploads[u]
    BY <2>1, SettledStep
  <2>2. CASE Crash BY <2>2 DEF Crash, fileVars
  <2> QED BY <2>1, <2>2 DEF Next, SessionStep
<1> QED BY <1>1, TypeCorrect, SessionsTied, PTL DEF Spec, SettledRowsAreFinal

-----------------------------------------------------------------------------
(* Slots.  A step leaves the slots alone, releases the slot of one session *)
(* (if it has one), lets one session take a slot under the limit (if it    *)
(* has none), or is the crash.                                             *)

INSTANCE FiniteSetTheorems

SlotEffect ==
    \/ UNCHANGED <<hasSlot, activeUploads>>
    \/ \E c \in Conn : ReleaseUploadSlot(c) \/ Acquired(c)
    \/ hasSlot' = [c \in Conn |-> FALSE] /\ activeUploads' = 0

\* Every step has one of these effects on the slots.
LEMMA NextSlotEffect ==
    ASSUME TypeOK, [Next]_vars
    PROVE  SlotEffect
<1>1. ASSUME NEW c \in Conn, Request828(c) PROVE SlotEffect
  <2>1. CASE NameUnterminated(c) \/ NameNotUtf8(c) \/ UnknownClient(c)
    BY <2>1 DEF NameUnterminated, NameNotUtf8, UnknownClient, SlotEffect
  <2>2. ASSUME NEW k, WrongClient(c, k) \/ BadHeader(c, k) PROVE SlotEffect
    BY <2>2 DEF WrongClient, BadHeader, SlotEffect
  <2>3. ASSUME NEW p, \/ IvRejected(c, p) \/ IvAccepted(c, p)
                      \/ DataRejected(c, p) \/ UploadRefused(c, p)
        PROVE  SlotEffect
    BY <2>3 DEF IvRejected, IvAccepted, DataRejected, UploadRefused, SlotEffect
  <2>4. ASSUME NEW p, NEW f,
               \/ PacketFails(c, p, f) \/ PacketStreamed(c, p, f) \/ FilePublished(c, p, f)
               \/ OpenRaises(c, p, f) \/ WriteRaises(c, p, f)
        PROVE  SlotEffect
    <3>1. Streaming(c, p) /\ StartUpload(c, p)
      BY <2>4 DEF PacketFails, PacketStreamed, FilePublished, OpenRaises, WriteRaises
    <3> QED BY <3>1, StartEffect DEF SlotEffect
  <2> QED BY <1>1, <2>1, <2>2, <2>3, <2>4 DEF Request828
<1>2. ASSUME NEW c \in Conn, NEW f, Request900(c, f) \/ Request901(c, f) \/ Request902(c, f)
      PROVE  SlotEffect
  BY <1>2 DEF Request900, Request901, Request902, SlotEffect
<1>3. ASSUME NEW c \in Conn,
             \/ Open(c) \/ UnknownCode(c) \/ OtherRequest(c) \/ HandlerRaises(c) \/ RateLimited(c)
             \/ UploadTimeout(c) \/ SendOk(c) \/ SendFails(c) \/ Disconnect(c)
      PROVE  SlotEffect
  BY <1>3 DEF Open, UnknownCode, OtherRequest, HandlerRaises, RateLimited, UploadTimeout, SendOk, SendFails,
              Disconnect, Cleanup, SlotEffect
<1>4. CASE Crash BY <1>4 DEF Crash, SlotEffect
<1>5. CASE UNCHANGED vars BY <1>5 DEF vars, SlotEffect
<1> QED BY <1>1, <1>2, <1>3, <1>4, <1>5 DEF Next

\* The limiter's counter is the number of sessions that hold a slot, and never more
\* than MaxSlots, for any number of connections and any interleaving.
THEOREM SlotsAccounted == Spec => []SlotAccounting
<1>1. Init => SlotAccounting
  <2> SUFFICES ASSUME Init PROVE SlotAccounting OBVIOUS
  <2>1. SlotHolders = {} /\ activeUploads = 0 BY DEF Init, SlotHolders
  <2> QED BY <2>1, FS_EmptySet, BoundAssumption DEF SlotAccounting
<1>2. TypeOK /\ SlotAccounting /\ [Next]_vars => SlotAccounting'
  <2> SUFFICES ASSUME TypeOK, SlotAccounting, SlotEffect PROVE SlotAccounting'
    BY NextSlotEffect
  <2>1. IsFiniteSet(SlotHolders) BY ConnAssumption, FS_Subset DEF SlotHolders
  <2>2. Cardinality(SlotHolders) \in Nat BY <2>1, FS_CardinalityType
  <2>3. hasSlot \in [Conn -> BOOLEAN] /\ activeUploads \in Nat /\ MaxSlots \in Nat
    BY BoundAssumption DEF TypeOK
  <2>4. CASE UNCHANGED <<hasSlot, activeUploads>>
    BY <2>4 DEF SlotAccounting, SlotHolders
  <2>5. ASSUME NEW c \in Conn, ReleaseUploadSlot(c) PROVE SlotAccounting'
    <3>1. SlotHolders' = SlotHolders \ {c} BY <2>3, <2>5 DEF SlotHolders, ReleaseUploadSlot
    <3>2. CASE hasSlot[c]
      <4>1. c \in SlotHolders BY <3>2 DEF SlotHolders
      <4>2. Cardinality(SlotHolders \ {c}) = Cardinality(SlotHolders) - 1
            /\ Cardinality(SlotHolders \ {c}) \in Nat
        BY <2>1, <4>1, FS_RemoveElement, FS_CardinalityType
      <4>3. activeUploads > 0 BY <2>2, <4>2 DEF SlotAccounting
      <4>4. activeUploads' = activeUploads - 1 BY <2>5, <3>2, <4>3 DEF ReleaseUploadSlot
      <4> QED BY <2>2, <2>3, <3>1, <4>2, <4>4 DEF SlotAccounting
    <3>3. CASE ~hasSlot[c]
      <4>1. SlotHolders' = SlotHolders BY <3>1, <3>3 DEF SlotHolders
      <4>2. activeUploads' = activeUploads BY <2>5, <3>3 DEF ReleaseUploadSlot
      <4> QED BY <4>1, <4>2 DEF SlotAccounting
    <3> QED BY <3>2, <3>3
  <2>6. ASSUME NEW c \in Conn, Acquired(c) PROVE SlotAccounting'
    <3>1. SlotHolders' = SlotHolders \cup {c} BY <2>3, <2>6 DEF SlotHolders, Acquired
    <3>2. CASE hasSlot[c]
      <4>1. SlotHolders' = SlotHolders BY <3>1, <3>2 DEF SlotHolders
      <4>2. activeUploads' = activeUploads BY <2>6, <3>2 DEF Acquired
      <4> QED BY <4>1, <4>2 DEF SlotAccounting
    <3>3. CASE ~hasSlot[c]
      <4>1. c \notin SlotHolders BY <3>3 DEF SlotHolders
      <4>2. Cardinality(SlotHolders \cup {c}) = Cardinality(SlotHolders) + 1
        BY <2>1, <4>1, FS_AddElement
      <4>3. activeUploads' = activeUploads + 1 /\ activeUploads < MaxSlots
        BY <2>6, <3>3 DEF Acquired
      <4> QED BY <2>2, <2>3, <3>1, <4>2, <4>3 DEF SlotAccounting
    <3> QED BY <3>2, <3>3
  <2>7. CASE hasSlot' = [c \in Conn |-> FALSE] /\ activeUploads' = 0
    <3>1. SlotHolders' = {} BY <2>7 DEF SlotHolders
    <3> QED BY <2>3, <2>7, <3>1, FS_EmptySet DEF SlotAccounting
  <2> QED BY <2>4, <2>5, <2>6, <2>7 DEF SlotEffect
<1> QED BY <1>1, <1>2, TypeInvariance, PTL DEF Spec

-----------------------------------------------------------------------------
(* Refinement.                                                             *)

StatusOf == [u \in UploadId |-> uploads[u].status]
ConnOf == [u \in UploadId |-> uploads[u].conn]

\* What a release, an acquisition and the rest do to the set of holders.
LEMMA HolderSteps ==
    ASSUME TypeOK, NEW c \in Conn
    PROVE  /\ UNCHANGED <<hasSlot, activeUploads>> => SlotHolders' = SlotHolders
           /\ ReleaseUploadSlot(c) => SlotHolders' = SlotHolders \ {c}
           /\ Acquired(c) => SlotHolders' = SlotHolders \cup {c}
<1>1. hasSlot \in [Conn -> BOOLEAN] BY DEF TypeOK
<1>2. UNCHANGED <<hasSlot, activeUploads>> => SlotHolders' = SlotHolders BY DEF SlotHolders
<1>3. ReleaseUploadSlot(c) => SlotHolders' = SlotHolders \ {c}
  BY <1>1 DEF SlotHolders, ReleaseUploadSlot
<1>4. Acquired(c) => SlotHolders' = SlotHolders \cup {c} BY <1>1 DEF SlotHolders, Acquired
<1> QED BY <1>2, <1>3, <1>4

\* Every step of a session is a step of UploadLifecycle or changes nothing there.
LEMMA SessionStepRefines ==
    ASSUME TypeOK, SessionInv, SlotAccounting, NEW c \in Conn, SessionEffect(c)
    PROVE  [LC!LifecycleNext]_(LC!lifecycleVars)
<1>1. /\ hasSlot \in [Conn -> BOOLEAN] /\ uploads \in [UploadId -> Row] /\ rows \in Nat
      /\ xfer[c].id \in UploadId \cup {0}
  BY BoundAssumption DEF TypeOK, Transfer
<1>2. CASE UNCHANGED <<uploads, rows>>
  <2>1. StatusOf' = StatusOf /\ ConnOf' = ConnOf BY <1>2 DEF StatusOf, ConnOf
  <2>2. CASE UNCHANGED <<hasSlot, activeUploads>>
    <3>1. SlotHolders' = SlotHolders BY <2>2, HolderSteps
    <3> QED BY <2>1, <3>1 DEF LC!lifecycleVars, StatusOf, ConnOf
  <2>3. CASE ReleaseUploadSlot(c)
    <3>1. SlotHolders' = SlotHolders \ {c} BY <2>3, HolderSteps
    <3>2. LC!Release(c) BY <2>1, <3>1 DEF LC!Release, StatusOf, ConnOf
    <3> QED BY <3>2 DEF LC!LifecycleNext
  <2>4. ~(RowInserted(c) /\ Acquired(c))
    <3>1. rows' # rows + 1 BY <1>1, <1>2
    <3> QED BY <3>1, Zenon DEF RowInserted
  <2>5. ~RowSettled(c) \/ UNCHANGED <<hasSlot, activeUploads>> \/ ReleaseUploadSlot(c)
    BY <2>4 DEF SessionEffect
  <2> QED BY <2>2, <2>3, <2>4, <2>5 DEF SessionEffect
<1>3. CASE RowSettled(c) /\ (UNCHANGED <<hasSlot, activeUploads>> \/ ReleaseUploadSlot(c))
  <2>0. xfer[c].id \in UploadId BY <1>1, <1>3 DEF RowSettled
  <2> PICK u \in UploadId : u = xfer[c].id BY <2>0
  <2>1. u \in UploadId /\ pc[c] = "read" BY <1>3 DEF RowSettled
  <2>2. c \in SlotHolders /\ uploads[u].conn = c /\ uploads[u].status = "in_progress"
    <3>1. SessionOK(c, xfer[c], hasSlot[c], pc[c], uploads, rows) BY DEF SessionInv
    <3>2. u # 0 BY <1>3 DEF RowSettled
    <3> QED BY <2>1, <3>1, <3>2 DEF SessionOK, Quiet, SlotHolders
  <2>3. PICK s \in Settled, crc \in Seq(Piece) :
          uploads' = [uploads EXCEPT ![u] = [@ EXCEPT !.status = s, !.crc = crc]]
    BY <1>3, Zenon DEF RowSettled
  <2>4. StatusOf' = [StatusOf EXCEPT ![u] = s] BY <1>1, <2>1, <2>3, Zenon DEF StatusOf, Row
  <2>5. ConnOf' = ConnOf BY <1>1, <2>1, <2>3 DEF ConnOf, Row
  <2>6. SlotHolders' \in {SlotHolders, SlotHolders \ {c}} BY <1>3, HolderSteps
  <2>7. StatusOf[u] = "in_progress" /\ ConnOf[u] = c BY <2>1, <2>2 DEF StatusOf, ConnOf
  <2>8. LC!Settle(c, u)
    BY <2>2, <2>4, <2>5, <2>6, <2>7, Zenon DEF LC!Settle, LC!Outcome, StatusOf, ConnOf, Settled
  <2> QED BY <2>1, <2>8 DEF LC!LifecycleNext
<1>4. CASE RowInserted(c) /\ Acquired(c)
  <2>0. rows + 1 \in UploadId BY <1>1, <1>4, BoundAssumption DEF RowInserted, UploadId
  <2> PICK u \in UploadId : u = rows + 1 BY <2>0
  <2>1. u \in UploadId OBVIOUS
  <2>2. uploads[u] = NoRow BY <1>1 DEF SessionInv, FreshRows
  <2>3. PICK s \in {"in_progress", "failed"}, k \in Client, f \in File :
          uploads' = [uploads EXCEPT ![u] =
                        [NoRow EXCEPT !.status = s, !.client = k, !.file = f, !.conn = c]]
    BY <1>4, Zenon DEF RowInserted
  <2>4. StatusOf' = [StatusOf EXCEPT ![u] = s] BY <1>1, <2>1, <2>3, Zenon DEF StatusOf, NoRow
  <2>5. ConnOf' = [ConnOf EXCEPT ![u] = c] BY <1>1, <2>1, <2>3, Zenon DEF ConnOf, NoRow
  <2>6. SlotHolders' = SlotHolders \cup {c} BY <1>4, HolderSteps
  <2>7. StatusOf[u] = "none" BY <2>1, <2>2 DEF StatusOf, NoRow
  <2>8. c \in SlotHolders \/ Cardinality(SlotHolders) < MaxSlots
    BY <1>4 DEF Acquired, SlotHolders, SlotAccounting
  <2>9. c \in SlotHolders \/ LC!Cardinality(SlotHolders) < MaxSlots
    <3>1. LC!Cardinality(SlotHolders) = Cardinality(SlotHolders)
      BY Zenon DEF Cardinality, LC!Cardinality
    <3> QED BY <2>8, <3>1
  <2>10. LC!Begin(c, u)
    BY <2>4, <2>5, <2>6, <2>7, <2>9, Zenon DEF LC!Begin, StatusOf, ConnOf
  <2> QED BY <2>1, <2>10 DEF LC!LifecycleNext
<1> QED BY <1>2, <1>3, <1>4 DEF SessionEffect

\* The server implements UploadLifecycle: for any connections, clients, files and
\* limits, every behaviour of the sessions, maps to a behaviour of the abstract
\* specification, failed sends, timeouts, cancellations and crashes included.
THEOREM LifecycleImplemented == Spec => ImplementsLifecycle
<1>1. Init => LC!LifecycleInit
  <2> SUFFICES ASSUME Init PROVE LC!LifecycleInit OBVIOUS
  <2>1. SlotHolders = {} BY DEF Init, SlotHolders
  <2>2. \A u \in UploadId : uploads[u].status = "none" /\ uploads[u].conn = None
    BY DEF Init, NoRow
  <2> QED BY <2>1, <2>2 DEF LC!LifecycleInit
<1>2. TypeInv /\ SessionInv /\ SlotAccounting /\ [Next]_vars
        => [LC!LifecycleNext]_(LC!lifecycleVars)
  <2> SUFFICES ASSUME TypeInv, SessionInv, SlotAccounting, [Next]_vars
               PROVE  [LC!LifecycleNext]_(LC!lifecycleVars)
    OBVIOUS
  <2>1. ASSUME NEW c \in Conn, SessionStep(c) PROVE [LC!LifecycleNext]_(LC!lifecycleVars)
    BY <2>1, StepEffect, SessionStepRefines DEF TypeInv
  <2>2. CASE Crash
    <3>1. SlotHolders' = {} /\ UNCHANGED uploads BY <2>2 DEF Crash, SlotHolders, fileVars
    <3>2. LC!Restart BY <3>1 DEF LC!Restart
    <3> QED BY <3>2 DEF LC!LifecycleNext
  <2>3. CASE UNCHANGED vars
    BY <2>3 DEF vars, LC!lifecycleVars, SlotHolders
  <2> QED BY <2>1, <2>2, <2>3 DEF Next, SessionStep
<1> QED BY <1>1, <1>2, TypeCorrect, SessionsTied, SlotsAccounted, PTL
        DEF Spec, ImplementsLifecycle, LC!LifecycleSpec
=============================================================================
