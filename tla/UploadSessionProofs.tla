------------------------ MODULE UploadSessionProofs ------------------------
(***************************************************************************)
(* Proofs about UploadServer, for every set of connections, clients and    *)
(* files and every value of the limits and bounds: the types, the          *)
(* invariant that ties a session to its slot and its row of the Uploads    *)
(* table, and what follows from it: ActiveUploadHoldsSlot, RowOfSession.   *)
(***************************************************************************)
EXTENDS UploadServer, TLAPS

\* Only an upload with a row has got past packet 1.
StartedHasRow == \A c \in Conn : xfer[c].expected > 1 => xfer[c].id # 0

TypeInv == TypeOK /\ StartedHasRow

-----------------------------------------------------------------------------
(* What the helpers return.                                                *)

\* The reset session is a transfer, and an empty row is a row.
LEMMA EmptyTypes == NoTransfer \in Transfer /\ NoRow \in Row
BY BoundAssumption DEF NoTransfer, Transfer, NoRow, Row

\* Releasing a slot keeps its variables well-typed.
LEMMA ReleaseTypes ==
    ASSUME TypeOK, NEW c \in Conn, ReleaseUploadSlot(c)
    PROVE  hasSlot' \in [Conn -> BOOLEAN] /\ activeUploads' \in Nat
<1>1. hasSlot' \in [Conn -> BOOLEAN] BY DEF TypeOK, ReleaseUploadSlot
<1>2. activeUploads' \in {activeUploads, activeUploads - 1}
      /\ (activeUploads' # activeUploads => activeUploads > 0)
  BY DEF ReleaseUploadSlot
<1>3. activeUploads \in Nat BY DEF TypeOK
<1> QED BY <1>1, <1>2, <1>3

\* Resetting the transfer state, or resetting it only when active, keeps its variables
\* well-typed.
LEMMA ResetTypes ==
    ASSUME TypeOK, NEW c \in Conn,
           ResetTransferState(c) \/ ResetIfActive(c) \/ Cleanup(c)
    PROVE  xfer' \in [Conn -> Transfer] /\ tmpFiles' \subseteq Client \X File \X Conn
<1>1. xfer' \in {xfer, [xfer EXCEPT ![c] = NoTransfer]}
  BY DEF ResetTransferState, ResetIfActive, Cleanup
<1>2. tmpFiles' \subseteq tmpFiles
  BY DEF ResetTransferState, ResetIfActive, Cleanup
<1>3. xfer \in [Conn -> Transfer] /\ tmpFiles \subseteq Client \X File \X Conn
  BY DEF TypeOK
<1> QED BY <1>1, <1>2, <1>3, EmptyTypes

\* A request on a session that knows its client gives the session a well-typed
\* transfer with that client as the owner.
LEMMA OwnedType ==
    ASSUME TypeOK, NEW c \in Conn, NEW k, Identified(c, k)
    PROVE  k \in Client /\ Owned(c, k) \in Transfer
<1>1. xfer[c] \in Transfer BY DEF TypeOK
<1>2. k \in Client BY <1>1, ClientAssumption DEF Identified, Transfer
<1>3. Owned(c, k) \in Transfer BY <1>1, <1>2 DEF Owned, Transfer
<1> QED BY <1>2, <1>3

\* The session is a well-typed transfer once packet 1 has announced the upload.
LEMMA StartedType ==
    ASSUME TypeOK, NEW c \in Conn, NEW p, NEW f \in File, p.num = 1 => rows < MaxRows
    PROVE  Started(c, p, f) \in Transfer
<1>. xfer[c] \in Transfer /\ rows \in 0..MaxRows BY DEF TypeOK
<1>1. CASE p.num = 1
  <2>. rows + 1 \in UploadId BY <1>1, BoundAssumption DEF UploadId
  <2>. <<>> \in Seq(Piece) OBVIOUS
  <2> QED BY <1>1, Zenon DEF Started, Transfer
<1>2. CASE p.num # 1 BY <1>2 DEF Started
<1> QED BY <1>1, <1>2

\* An update of a status by upload id keeps the table well-typed.
LEMMA FailType ==
    ASSUME TypeOK, NEW u \in UploadId \cup {0}, NEW s \in {"in_progress"} \cup Settled
    PROVE  FailUpload(u, s) \in [UploadId -> Row]
<1>1. uploads \in [UploadId -> Row] BY DEF TypeOK
<1> QED BY <1>1, Zenon DEF FailUpload, SetStatus, Row

\* ... and so does a row that is completed with its CRC.
LEMMA CompletedType ==
    ASSUME NEW tbl \in [UploadId -> Row], NEW u, NEW k \in Seq(Piece)
    PROVE  [tbl EXCEPT ![u].status = "completed", ![u].crc = k] \in [UploadId -> Row]
<1>1. "completed" \in {"none", "in_progress"} \cup Settled BY DEF Settled
<1> QED BY <1>1, Zenon DEF Row

\* The Uploads table stays well-typed when packet 1 inserts a row or an update by id
\* changes a status.
LEMMA TableTypes ==
    ASSUME TypeOK, NEW c \in Conn, NEW p \in Packet, NEW f \in File,
           p.client \in Client,
           NEW s \in {"in_progress"} \cup Settled
    PROVE  TableWithRow(c, p, f, s) \in [UploadId -> Row]
<1>1. uploads \in [UploadId -> Row] BY DEF TypeOK
<1>2. xfer[c].id \in UploadId \cup {0} BY DEF TypeOK, Transfer
<1>3. <<>> \in Seq(Piece) OBVIOUS
<1>4. [NoRow EXCEPT !.status = s, !.client = p.client, !.file = f, !.conn = c] \in Row
  BY <1>3, Zenon DEF NoRow, Row
<1> QED BY <1>1, <1>2, <1>4, FailType, Zenon DEF TableWithRow

\* What packet 1 does to the slot and the row counter is well-typed.
LEMMA StartTypes ==
    ASSUME TypeOK, NEW c \in Conn, NEW p, StartUpload(c, p), p.num = 1 => rows < MaxRows
    PROVE  hasSlot' \in [Conn -> BOOLEAN] /\ activeUploads' \in Nat /\ rows' \in 0..MaxRows
<1>1. /\ hasSlot \in [Conn -> BOOLEAN] /\ activeUploads \in Nat /\ rows \in 0..MaxRows
  BY DEF TypeOK
<1>2. activeUploads' \in {activeUploads, activeUploads + 1} BY DEF StartUpload
<1>3. hasSlot' \in [Conn -> BOOLEAN] BY <1>1, Zenon DEF StartUpload
<1>4. rows' \in 0..MaxRows BY <1>1, BoundAssumption DEF StartUpload
<1> QED BY <1>1, <1>2, <1>3, <1>4

\* A temporary file that packet 1 opens has a well-typed path.
LEMMA TmpTypes ==
    ASSUME TypeOK, NEW c \in Conn, NEW p, p.client \in Client, NEW f \in File
    PROVE  TmpOpened(c, p, f) \subseteq Client \X File \X Conn
BY DEF TypeOK, TmpOpened

\* An in-order packet leaves the counters and the plaintext of the session well-typed.
LEMMA StreamedType ==
    ASSUME TypeInv, NEW c \in Conn, NEW p \in Packet, NEW f \in File,
           p.num > 0, ~Mismatched(c, p), ~OutOfOrder(c, p), ValidHeader(p),
           p.num = 1 => rows < MaxRows
    PROVE  LET x == Started(c, p, f) IN
             /\ x.id \in UploadId
             /\ x.expected + 1 \in 2..(MaxPackets + 1)
             /\ x.received + p.len \in 0..MaxSize
             /\ PieceOf(x, p) \in Piece
             /\ Append(x.plain, PieceOf(x, p)) \in Seq(Piece)
<1> DEFINE x == Started(c, p, f)
<1>1. xfer[c] \in Transfer /\ x \in Transfer BY StartedType DEF TypeInv, TypeOK
<1>2. x.expected = xfer[c].expected /\ x.received = xfer[c].received /\ x.size = xfer[c].size
  BY <1>1 DEF Started, Transfer
<1>3. xfer[c].expected = p.num /\ p.num \in 1..MaxPackets /\ p.len \in Nat
  BY BoundAssumption DEF OutOfOrder, Packet
<1>4. x.expected + 1 \in 2..(MaxPackets + 1)
  BY <1>2, <1>3, BoundAssumption
<1>5. x.received + p.len \in 0..MaxSize
  <2>1. xfer[c].received \in 0..MaxSize /\ xfer[c].size \in 0..MaxSize BY <1>1 DEF Transfer
  <2>2. ~(xfer[c].received + p.len > xfer[c].size) BY DEF OutOfOrder
  <2> QED BY <1>2, <1>3, <2>1, <2>2, BoundAssumption
<1>6. x.id \in UploadId
  <2>1. CASE p.num = 1
    <3>1. x.id = rows + 1 BY <1>1, <2>1 DEF Started, Transfer
    <3> QED BY <2>1, <3>1, BoundAssumption DEF TypeInv, TypeOK, UploadId
  <2>2. CASE p.num # 1
    <3>1. x.id = xfer[c].id BY <2>2 DEF Started
    <3>2. xfer[c].id # 0 BY <1>3, <2>2, BoundAssumption DEF TypeInv, StartedHasRow
    <3> QED BY <1>1, <3>1, <3>2 DEF Transfer
  <2> QED BY <2>1, <2>2
<1>7. PieceOf(x, p) \in Piece BY <1>3, <1>6 DEF PieceOf, Piece
<1>8. x.plain \in Seq(Piece) BY <1>1 DEF Transfer
<1> QED BY <1>4, <1>5, <1>6, <1>7, <1>8

-----------------------------------------------------------------------------
(* Type correctness.                                                       *)

\* Replacing the transfer of one session keeps StartedHasRow when the new transfer
\* has a row or has not got past packet 1.
LEMMA StartedHasRowStep ==
    ASSUME TypeInv, NEW c \in Conn, NEW t \in Transfer,
           t.expected > 1 => t.id # 0,
           xfer' \in {xfer, [xfer EXCEPT ![c] = t]}
    PROVE  StartedHasRow'
BY Zenon DEF TypeInv, TypeOK, StartedHasRow

\* A reset session has no packet number past 1, so it needs no row.
LEMMA ResetHasRow ==
    ASSUME TypeInv, NEW c \in Conn,
           ResetTransferState(c) \/ ResetIfActive(c) \/ Cleanup(c)
    PROVE  StartedHasRow'
<1>1. xfer' \in {xfer, [xfer EXCEPT ![c] = NoTransfer]}
  BY DEF ResetTransferState, ResetIfActive, Cleanup
<1>2. ~(NoTransfer.expected > 1) BY DEF NoTransfer
<1> QED BY <1>1, <1>2, EmptyTypes, StartedHasRowStep

\* Taking a frame changes pending only, within its bound.
LEMMA TakeFrameTypes ==
    ASSUME TypeOK, NEW c \in Conn, TakeFrame(c)
    PROVE  pending' \in [Conn -> 0..MaxBatch]
<1>1. pending \in [Conn -> 0..MaxBatch] BY DEF TypeOK
<1>2. pending[c] > 0 => pending[c] - 1 \in 0..MaxBatch BY <1>1, BoundAssumption
<1> QED BY <1>1, <1>2 DEF TakeFrame

\* Suspending in a send keeps pc well-typed.
LEMMA AwaitTypes ==
    ASSUME TypeOK, NEW c \in Conn, NEW a \in Awaiting \cup {"read"}, Await(c, a)
    PROVE  pc' \in [Conn -> {"new", "read", "closed"} \cup Awaiting]
BY DEF TypeOK, Await

\* The requests of 828 that end before packet 1 does anything.
LEMMA EarlyTypes ==
    ASSUME TypeInv, NEW c \in Conn
    PROVE  /\ NameUnterminated(c) \/ NameNotUtf8(c) \/ UnknownClient(c) => TypeInv'
           /\ \A k : WrongClient(c, k) \/ BadHeader(c, k) => TypeInv'
<1>1. CASE NameUnterminated(c) \/ UnknownClient(c)
  <2>1. TakeFrame(c) /\ ReleaseUploadSlot(c) /\ ResetTransferState(c)
        /\ UNCHANGED <<pc, lost, fileVars, crashes>>
    BY <1>1 DEF NameUnterminated, UnknownClient
  <2> QED BY <2>1, TakeFrameTypes, ReleaseTypes, ResetTypes, ResetHasRow, Zenon
          DEF TypeInv, TypeOK, fileVars
<1>2. ASSUME TakeFrame(c), Await(c, "abort"),
             UNCHANGED <<lost, hasSlot, xfer, activeUploads, fileVars, tmpFiles, crashes>>
      PROVE  TypeInv'
  BY <1>2, TakeFrameTypes, AwaitTypes DEF TypeInv, TypeOK, fileVars, Awaiting, StartedHasRow
<1>3. ASSUME NEW k, BadHeader(c, k) PROVE TypeInv'
  <2>1. Owned(c, k) \in Transfer BY <1>3, OwnedType DEF TypeInv, BadHeader
  <2>2. Owned(c, k).expected = xfer[c].expected /\ Owned(c, k).id = xfer[c].id
    BY DEF TypeInv, TypeOK, Transfer, Owned
  <2>3. StartedHasRow' BY <1>3, <2>1, <2>2, StartedHasRowStep DEF BadHeader, TypeInv, StartedHasRow
  <2>4. xfer' \in [Conn -> Transfer] BY <1>3, <2>1 DEF BadHeader, TypeInv, TypeOK
  <2> QED BY <1>3, <2>3, <2>4, TakeFrameTypes, AwaitTypes
          DEF BadHeader, TypeInv, TypeOK, fileVars, Awaiting
<1> QED BY <1>1, <1>2, <1>3 DEF NameNotUtf8, WrongClient

\* The requests of 828 with a valid header that stop before the streaming part.
LEMMA PacketTypes ==
    ASSUME TypeInv, NEW c \in Conn, NEW p \in ValidPacket, Identified(c, p.client),
           \/ IvRejected(c, p) \/ IvAccepted(c, p)
           \/ DataRejected(c, p) \/ UploadRefused(c, p)
    PROVE  TypeInv'
<1> DEFINE o == Owned(c, p.client)
<1>1. o \in Transfer /\ xfer[c] \in Transfer BY OwnedType DEF TypeInv, TypeOK
<1>2. o.expected = xfer[c].expected /\ o.id = xfer[c].id
  BY <1>1 DEF Transfer, Owned
<1>3. p \in Packet /\ p.total \in 0..MaxPackets /\ p.size \in 0..MaxSize
  BY DEF ValidPacket, Packet
<1>4. [xfer EXCEPT ![c] = o] \in [Conn -> Transfer] BY <1>1 DEF TypeInv, TypeOK
<1>5. xfer' = [xfer EXCEPT ![c] = o] => StartedHasRow'
  BY <1>1, <1>2, StartedHasRowStep DEF TypeInv, StartedHasRow
<1>6. TakeFrame(c)
  BY DEF IvRejected, IvAccepted, DataRejected, UploadRefused
<1>7. CASE IvRejected(c, p)
  BY <1>4, <1>5, <1>7, TakeFrameTypes, AwaitTypes
     DEF IvRejected, TypeInv, TypeOK, fileVars, Awaiting
<1>8. CASE IvAccepted(c, p)
  <2> DEFINE n == p.total
             z == p.size
             e == 1
             r == 0
             t == [o EXCEPT !.iv = TRUE, !.expected = e, !.total = n, !.size = z,
                            !.received = r]
  <2>1. n \in 0..MaxPackets /\ z \in 0..MaxSize /\ e \in 0..(MaxPackets + 1) /\ r \in 0..MaxSize
    BY <1>3, BoundAssumption
  <2>2. xfer' = [xfer EXCEPT ![c] = t] BY <1>8 DEF IvAccepted
  <2> HIDE DEF n, z, e, r, o
  <2>3. t \in Transfer /\ t.expected = e BY <1>1, <2>1, Zenon DEF Transfer
  <2> HIDE DEF t
  <2>5. StartedHasRow'
    <3>1. t.expected > 1 => t.id # 0 BY <2>3 DEF e
    <3> QED BY <2>2, <2>3, <3>1, StartedHasRowStep, Zenon
  <2>4. xfer' \in [Conn -> Transfer] BY <2>2, <2>3 DEF TypeInv, TypeOK
  <2> QED BY <1>8, <2>4, <2>5, TakeFrameTypes DEF IvAccepted, TypeInv, TypeOK, fileVars
<1>9. CASE DataRejected(c, p)
  <2>1. p.client \in Client BY OwnedType DEF TypeInv
  <2>2. FailUpload(xfer[c].id, "failed") \in [UploadId -> Row]
    <3>1. xfer[c].id \in UploadId \cup {0} BY <1>1 DEF Transfer
    <3> QED BY <3>1, FailType DEF TypeInv, Settled
  <2> QED BY <1>4, <1>5, <1>9, <2>2, TakeFrameTypes, AwaitTypes
          DEF DataRejected, TypeInv, TypeOK, Awaiting
<1>10. CASE UploadRefused(c, p)
  BY <1>10, TakeFrameTypes, AwaitTypes
     DEF UploadRefused, TypeInv, TypeOK, fileVars, Awaiting, StartedHasRow
<1> QED BY <1>7, <1>8, <1>9, <1>10

\* The requests of 828 that reach the streaming part.
LEMMA StreamingTypes ==
    ASSUME TypeInv, NEW c \in Conn, NEW p \in ValidPacket, NEW f \in File,
           Identified(c, p.client),
           \/ PacketFails(c, p, f) \/ PacketStreamed(c, p, f) \/ FilePublished(c, p, f)
           \/ OpenRaises(c, p, f) \/ WriteRaises(c, p, f)
    PROVE  TypeInv'
<1> DEFINE x == Started(c, p, f)
<1> HIDE DEF x
<1>1. /\ TakeFrame(c) /\ p.num > 0 /\ ~Mismatched(c, p) /\ StartUpload(c, p)
      /\ p.num = 1 => rows < MaxRows
  BY DEF PacketFails, PacketStreamed, FilePublished, OpenRaises, WriteRaises, Streaming
<1>2. p \in Packet /\ ValidHeader(p) /\ p.client \in Client
  BY OwnedType DEF ValidPacket, TypeInv
<1>3. x \in Transfer BY <1>1, StartedType DEF TypeInv, x
<1>4. x.expected > 1 => x.id # 0
  <2>1. CASE p.num = 1
    <3>1. x.id = rows + 1 BY <2>1 DEF x, Started, TypeInv, TypeOK, Transfer
    <3> QED BY <3>1, BoundAssumption DEF TypeInv, TypeOK
  <2>2. CASE p.num # 1 BY <2>2 DEF x, Started, TypeInv, StartedHasRow
  <2> QED BY <2>1, <2>2
<1>5. /\ pending' \in [Conn -> 0..MaxBatch] /\ hasSlot' \in [Conn -> BOOLEAN]
      /\ activeUploads' \in Nat /\ rows' \in 0..MaxRows
  BY <1>1, TakeFrameTypes, StartTypes DEF TypeInv
<1>6. /\ TableWithRow(c, p, f, "failed") \in [UploadId -> Row]
      /\ TableWithRow(c, p, f, "in_progress") \in [UploadId -> Row]
      /\ TmpOpened(c, p, f) \subseteq Client \X File \X Conn
  BY <1>2, TableTypes, TmpTypes DEF TypeInv, Settled
<1>7. xfer' = [xfer EXCEPT ![c] = x] => xfer' \in [Conn -> Transfer] /\ StartedHasRow'
  BY <1>3, <1>4, StartedHasRowStep, Zenon DEF TypeInv, TypeOK
<1>13. ASSUME ~OutOfOrder(c, p)
       PROVE  /\ x.id \in UploadId /\ x.expected + 1 \in 0..(MaxPackets + 1)
              /\ x.received + p.len \in 0..MaxSize
              /\ Append(x.plain, PieceOf(x, p)) \in Seq(Piece)
  <2>1. /\ x.id \in UploadId /\ x.expected + 1 \in 2..(MaxPackets + 1)
        /\ x.received + p.len \in 0..MaxSize
        /\ Append(x.plain, PieceOf(x, p)) \in Seq(Piece)
    BY <1>1, <1>2, <1>13, StreamedType, Zenon DEF x
  <2>2. \A n \in 2..(MaxPackets + 1) : n \in 0..(MaxPackets + 1) BY BoundAssumption
  <2> QED BY <2>1, <2>2, Zenon
<1>8. CASE PacketFails(c, p, f)
  BY <1>5, <1>6, <1>7, <1>8, AwaitTypes DEF PacketFails, TypeInv, TypeOK, Awaiting, x
<1>9. CASE OpenRaises(c, p, f)
  BY <1>5, <1>6, <1>7, <1>9, AwaitTypes DEF OpenRaises, TypeInv, TypeOK, Awaiting, x
<1>10. CASE WriteRaises(c, p, f)
  BY <1>5, <1>6, <1>7, <1>10, AwaitTypes DEF WriteRaises, TypeInv, TypeOK, Awaiting, x
<1>11. CASE PacketStreamed(c, p, f)
  <2> DEFINE e == x.expected + 1
             r == x.received + p.len
             plain == Append(x.plain, PieceOf(x, p))
             t == [x EXCEPT !.expected = e, !.received = r, !.plain = plain]
  <2>1. /\ x.id \in UploadId /\ e \in 0..(MaxPackets + 1) /\ r \in 0..MaxSize
        /\ plain \in Seq(Piece)
    <3>1. ~OutOfOrder(c, p) BY <1>11 DEF PacketStreamed
    <3> QED BY <1>13, <3>1, Zenon
  <2>2. xfer' = [xfer EXCEPT ![c] = t] BY <1>11 DEF PacketStreamed, x
  <2> HIDE DEF e, r, plain
  <2>3. t \in Transfer /\ t.id = x.id BY <1>3, <2>1, Zenon DEF Transfer
  <2>4. t.id # 0 BY <2>1, <2>3, BoundAssumption DEF UploadId
  <2> HIDE DEF t
  <2>5. StartedHasRow' BY <2>2, <2>3, <2>4, StartedHasRowStep, Zenon
  <2>6. xfer' \in [Conn -> Transfer] BY <2>2, <2>3 DEF TypeInv, TypeOK
  <2> QED BY <1>5, <1>6, <1>11, <2>5, <2>6 DEF PacketStreamed, TypeInv, TypeOK
<1>12. CASE FilePublished(c, p, f)
  <2> DEFINE e == x.expected + 1
             r == x.received + p.len
             plain == Append(x.plain, PieceOf(x, p))
             t == [x EXCEPT !.expected = e, !.received = r, !.plain = plain,
                            !.crc = plain, !.tmp = FALSE]
  <2>1. /\ x.id \in UploadId /\ e \in 0..(MaxPackets + 1) /\ r \in 0..MaxSize
        /\ plain \in Seq(Piece)
    <3>1. ~OutOfOrder(c, p) BY <1>12 DEF FilePublished
    <3> QED BY <1>13, <3>1, Zenon
  <2>2. xfer' = [xfer EXCEPT ![c] = t] BY <1>12 DEF FilePublished, x
  <2>9. disk' = [disk EXCEPT ![<<x.owner, x.file>>] = plain] BY <1>12 DEF FilePublished, x
  <2> HIDE DEF e, r, plain
  <2>3. t \in Transfer /\ t.id = x.id BY <1>3, <2>1, Zenon DEF Transfer
  <2>4. t.id # 0 BY <2>1, <2>3, BoundAssumption DEF UploadId
  <2> HIDE DEF t
  <2>5. StartedHasRow' BY <2>2, <2>3, <2>4, StartedHasRowStep, Zenon
  <2>6. xfer' \in [Conn -> Transfer] BY <2>2, <2>3 DEF TypeInv, TypeOK
  <2>7. disk' \in [Client \X File -> Seq(Piece)]
    BY <2>1, <2>9, Zenon DEF TypeInv, TypeOK
  <2>8. tmpFiles' \subseteq Client \X File \X Conn BY <1>6, <1>12 DEF FilePublished
  <2> QED BY <1>5, <1>6, <1>12, <2>5, <2>6, <2>7, <2>8, AwaitTypes, Zenon
          DEF FilePublished, TypeInv, TypeOK, Awaiting
<1> QED BY <1>8, <1>9, <1>10, <1>11, <1>12

\* The verdicts of the client on the CRC.
LEMMA VerdictTypes ==
    ASSUME TypeInv, NEW c \in Conn, NEW f \in File,
           Request900(c, f) \/ Request901(c, f) \/ Request902(c, f)
    PROVE  TypeInv'
<1>1. xfer[c] \in Transfer /\ uploads \in [UploadId -> Row] /\ TypeOK BY DEF TypeInv, TypeOK
<1>2. xfer[c].id \in UploadId \cup {0} /\ xfer[c].crc \in Seq(Piece) BY <1>1 DEF Transfer
<1>3. \A s \in Settled : FailUpload(xfer[c].id, s) \in [UploadId -> Row]
  BY <1>1, <1>2, FailType, Zenon
<1>4. CASE Request900(c, f)
  <2> DEFINE u == xfer[c].id
             crc == xfer[c].crc
             Done == [uploads EXCEPT ![u].status = "completed", ![u].crc = crc]
  <2>1. crc \in Seq(Piece) BY <1>2
  <2>2. uploads' \in {uploads, Done} BY <1>4 DEF Request900
  <2> HIDE DEF u, crc
  <2>3. Done \in [UploadId -> Row] BY <1>1, <2>1, CompletedType, Zenon
  <2>4. uploads' \in [UploadId -> Row] BY <1>1, <2>2, <2>3, Zenon
  <2> QED BY <1>1, <1>4, <2>4, TakeFrameTypes, AwaitTypes
          DEF Request900, TypeInv, TypeOK, Awaiting, StartedHasRow
<1>5. CASE Request901(c, f)
  <2>1. TakeFrame(c) /\ UNCHANGED <<lost, rows, disk, crashes>> BY <1>5 DEF Request901
  <2>2. CASE xfer[c].file = f
    <3>1. uploads' \in [UploadId -> Row] BY <1>3, <1>5, <2>2 DEF Request901, Settled
    <3>2. ReleaseUploadSlot(c) /\ ResetTransferState(c) /\ UNCHANGED pc
      BY <1>5, <2>2 DEF Request901
    <3> QED BY <1>1, <2>1, <3>1, <3>2, TakeFrameTypes, ReleaseTypes, ResetTypes, ResetHasRow
            DEF TypeInv, TypeOK
  <2>3. CASE xfer[c].file # f
    <3>1. Await(c, "abort") /\ UNCHANGED <<uploads, hasSlot, activeUploads, xfer, tmpFiles>>
      BY <1>5, <2>3 DEF Request901
    <3> QED BY <1>1, <2>1, <3>1, TakeFrameTypes, AwaitTypes
            DEF TypeInv, TypeOK, Awaiting, StartedHasRow
  <2> QED BY <2>2, <2>3
<1>6. CASE Request902(c, f)
  <2>1. uploads' \in [UploadId -> Row] BY <1>1, <1>3, <1>6 DEF Request902, Settled
  <2> QED BY <1>1, <1>6, <2>1, TakeFrameTypes, AwaitTypes
          DEF Request902, TypeInv, TypeOK, Awaiting, StartedHasRow
<1> QED BY <1>4, <1>5, <1>6

\* The router's errors, the rate limit, the timeout and a new connection.
LEMMA RouterTypes ==
    ASSUME TypeInv, NEW c \in Conn,
           \/ Open(c) \/ UnknownCode(c) \/ OtherRequest(c) \/ HandlerRaises(c)
           \/ RateLimited(c) \/ UploadTimeout(c)
    PROVE  TypeInv'
<1>1. TypeOK /\ StartedHasRow BY DEF TypeInv
<1>2. UNCHANGED <<lost, hasSlot, xfer, activeUploads, fileVars, tmpFiles, crashes>>
  BY Zenon DEF Open, UnknownCode, OtherRequest, HandlerRaises, RateLimited, UploadTimeout, fileVars
<1>3. pending' \in [Conn -> 0..MaxBatch]
  <2>1. TakeFrame(c) \/ UNCHANGED pending
    BY DEF Open, UnknownCode, OtherRequest, HandlerRaises, RateLimited, UploadTimeout
  <2> QED BY <1>1, <2>1, TakeFrameTypes DEF TypeOK
<1>4. Await(c, "read") \/ Await(c, "answer") \/ Await(c, "unknownCode") \/ Await(c, "routerReset") \/ Await(c, "close")
  BY DEF Open, UnknownCode, OtherRequest, HandlerRaises, RateLimited, UploadTimeout, Await
<1>5. pc' \in [Conn -> {"new", "read", "closed"} \cup Awaiting]
  BY <1>1, <1>4, AwaitTypes DEF Awaiting
<1> QED BY <1>1, <1>2, <1>3, <1>5 DEF TypeInv, TypeOK, fileVars, StartedHasRow

\* The end of a send, of a session and of the process.
LEMMA EndTypes ==
    ASSUME TypeInv
    PROVE  /\ \A c \in Conn : SendOk(c) \/ SendFails(c) \/ Disconnect(c) => TypeInv'
           /\ Crash => TypeInv'
<1>0. TypeOK /\ StartedHasRow BY DEF TypeInv
<1>1. ASSUME NEW c \in Conn, SendOk(c) PROVE TypeInv'
  <2>1. /\ Await(c, "read") /\ UNCHANGED <<lost, pending, fileVars, crashes>>
    BY <1>1 DEF SendOk
  <2>2. /\ ReleaseUploadSlot(c) \/ UNCHANGED <<hasSlot, activeUploads>>
        /\ ResetTransferState(c) \/ ResetIfActive(c) \/ UNCHANGED <<xfer, tmpFiles>>
    BY <1>1 DEF SendOk
  <2>3. hasSlot' \in [Conn -> BOOLEAN] /\ activeUploads' \in Nat
    BY <1>0, <2>2, ReleaseTypes DEF TypeOK
  <2>4. /\ xfer' \in [Conn -> Transfer] /\ tmpFiles' \subseteq Client \X File \X Conn
        /\ StartedHasRow'
    BY <1>0, <2>2, ResetTypes, ResetHasRow DEF TypeOK, StartedHasRow
  <2> QED BY <1>0, <2>1, <2>3, <2>4, AwaitTypes DEF TypeInv, TypeOK, fileVars
<1>2. ASSUME NEW c \in Conn, SendFails(c) PROVE TypeInv'
  <2>1. Await(c, "read") /\ UNCHANGED <<fileVars, crashes>> /\ lost' = [lost EXCEPT ![c] = TRUE]
    BY <1>2 DEF SendFails
  <2>2. /\ ReleaseUploadSlot(c) \/ UNCHANGED <<hasSlot, activeUploads>>
        /\ ResetTransferState(c) \/ ResetIfActive(c)
    BY <1>2 DEF SendFails
  <2>3. hasSlot' \in [Conn -> BOOLEAN] /\ activeUploads' \in Nat
    BY <1>0, <2>2, ReleaseTypes DEF TypeOK
  <2>4. /\ xfer' \in [Conn -> Transfer] /\ tmpFiles' \subseteq Client \X File \X Conn
        /\ StartedHasRow'
    BY <1>0, <2>2, ResetTypes, ResetHasRow
  <2>5. pending' \in [Conn -> 0..MaxBatch] BY <1>0, <1>2, Zenon DEF SendFails, TypeOK
  <2> QED BY <1>0, <2>1, <2>3, <2>4, <2>5, AwaitTypes, Zenon DEF TypeInv, TypeOK, fileVars
<1>3. ASSUME NEW c \in Conn, Disconnect(c) PROVE TypeInv'
  <2>1. Cleanup(c) /\ UNCHANGED <<fileVars, crashes>> BY <1>3 DEF Disconnect
  <2>2. ReleaseUploadSlot(c) BY <2>1 DEF Cleanup
  <2>3. /\ pc' \in [Conn -> {"new", "read", "closed"} \cup Awaiting]
        /\ lost' \in [Conn -> BOOLEAN] /\ pending' \in [Conn -> 0..MaxBatch]
    BY <1>0, <2>1, BoundAssumption DEF Cleanup, TypeOK
  <2> QED BY <1>0, <2>1, <2>2, <2>3, ReleaseTypes, ResetTypes, ResetHasRow, Zenon
          DEF TypeInv, TypeOK, fileVars
<1>4. ASSUME Crash PROVE TypeInv'
  <2>1. xfer' = [c \in Conn |-> NoTransfer] BY <1>4 DEF Crash
  <2>2. StartedHasRow' BY <2>1 DEF StartedHasRow, NoTransfer
  <2>3. crashes' \in 0..MaxCrashes BY <1>0, <1>4, BoundAssumption DEF Crash, TypeOK
  <2>4. /\ pc' \in [Conn -> {"new", "read", "closed"} \cup Awaiting]
        /\ lost' \in [Conn -> BOOLEAN] /\ pending' \in [Conn -> 0..MaxBatch]
        /\ hasSlot' \in [Conn -> BOOLEAN] /\ activeUploads' \in Nat
    BY <1>4, BoundAssumption DEF Crash
  <2> QED BY <1>0, <1>4, <2>1, <2>2, <2>3, <2>4, EmptyTypes DEF Crash, TypeInv, TypeOK, fileVars
<1> QED BY <1>1, <1>2, <1>3, <1>4

\* Every variable keeps its type, and a session past packet 1 has a row, in every
\* reachable state.
THEOREM TypeCorrect == Spec => []TypeInv
<1>1. Init => TypeInv
  <2> SUFFICES ASSUME Init PROVE TypeInv OBVIOUS
  <2>1. \A c \in Conn : xfer[c] = NoTransfer BY DEF Init
  <2>2. StartedHasRow BY <2>1 DEF StartedHasRow, NoTransfer
  <2>3. <<>> \in Seq(Piece) OBVIOUS
  <2>4. xfer \in [Conn -> Transfer] /\ uploads \in [UploadId -> Row]
    BY EmptyTypes DEF Init
  <2>5. activeUploads \in Nat /\ rows \in 0..MaxRows /\ crashes \in 0..MaxCrashes
        /\ pending \in [Conn -> 0..MaxBatch]
    BY BoundAssumption DEF Init
  <2> QED BY <2>2, <2>3, <2>4, <2>5 DEF Init, TypeInv, TypeOK
<1>2. TypeInv /\ [Next]_vars => TypeInv'
  <2> SUFFICES ASSUME TypeInv, [Next]_vars PROVE TypeInv' OBVIOUS
  <2>1. ASSUME NEW c \in Conn, Request828(c) PROVE TypeInv'
    BY <2>1, EarlyTypes, PacketTypes, StreamingTypes DEF Request828
  <2>2. CASE UNCHANGED vars BY <2>2 DEF vars, TypeInv, TypeOK, StartedHasRow
  <2> QED BY <2>1, <2>2, VerdictTypes, RouterTypes, EndTypes DEF Next
<1> QED BY <1>1, <1>2, PTL DEF Spec

\* TypeOK is an invariant of the server for all values of the constants.
THEOREM TypeInvariance == Spec => []TypeOK
<1>1. TypeInv => TypeOK BY DEF TypeInv
<1> QED BY <1>1, TypeCorrect, PTL

-----------------------------------------------------------------------------
(* A session, its slot and its row.                                        *)

\* The session takes a slot under the limit, unless it has one.
Acquired(c) ==
    /\ hasSlot[c] \/ activeUploads < MaxSlots
    /\ hasSlot' = [hasSlot EXCEPT ![c] = TRUE]
    /\ activeUploads' = IF hasSlot[c] THEN activeUploads ELSE activeUploads + 1

\* A packet that reaches the streaming part either is not packet 1 or takes a slot
\* under the limit.
LEMMA StartEffect ==
    ASSUME TypeOK, NEW c \in Conn, NEW p, Streaming(c, p), StartUpload(c, p)
    PROVE  IF p.num = 1 THEN Acquired(c) ELSE UNCHANGED <<hasSlot, activeUploads>>
<1>1. activeUploads \in Nat /\ MaxSlots \in Nat BY BoundAssumption DEF TypeOK
<1>2. p.num = 1 => hasSlot[c] \/ activeUploads < MaxSlots
  BY <1>1 DEF Streaming, TryAcquireFails
<1> QED BY <1>2 DEF StartUpload, Acquired

\* Where the row of a session is still in progress.
Quiet == {"new", "read", "answer"}

\* What holds of the session of c: x is its transfer, slot its has_upload_slot, at
\* where it is, tbl the Uploads table and n the id of the last row.
SessionOK(c, x, slot, at, tbl, n) ==
    /\ x.active => slot /\ x.id # 0 /\ x.iv
    /\ x.id # 0 => x.active
    /\ x.tmp => x.active
    /\ x.iv => x.owner # None
    /\ x.id <= n
    /\ x.id # 0 => /\ tbl[x.id].conn = c
                   /\ tbl[x.id].client = x.owner
                   /\ tbl[x.id].file = x.file
                   /\ at \in Quiet => tbl[x.id].status = "in_progress"

\* Rows beyond the last id are empty.
FreshRows == \A u \in UploadId : u > rows => uploads[u] = NoRow

SessionInv ==
    /\ FreshRows
    /\ \A c \in Conn : SessionOK(c, xfer[c], hasSlot[c], pc[c], uploads, rows)

-----------------------------------------------------------------------------
(* What a step does to the Uploads table.                                  *)

RowSettled(c) ==
    /\ pc[c] = "read" /\ xfer[c].id # 0
    /\ rows' = rows
    /\ \E s \in Settled, crc \in Seq(Piece) :
         uploads' = [uploads EXCEPT ![xfer[c].id] = [@ EXCEPT !.status = s, !.crc = crc]]

RowInserted(c) ==
    /\ rows < MaxRows /\ rows' = rows + 1
    /\ \E s \in {"in_progress", "failed"}, k \in Client, f \in File :
         uploads' = [uploads EXCEPT ![rows + 1] =
                       [NoRow EXCEPT !.status = s, !.client = k, !.file = f, !.conn = c]]

\* The step of a session c: the table stays, or the row of c is settled, or a row
\* is inserted and c takes a slot.
SessionEffect(c) ==
    \/ /\ UNCHANGED <<uploads, rows>>
       /\ UNCHANGED <<hasSlot, activeUploads>> \/ ReleaseUploadSlot(c)
    \/ /\ RowSettled(c)
       /\ UNCHANGED <<hasSlot, activeUploads>> \/ ReleaseUploadSlot(c)
    \/ RowInserted(c) /\ Acquired(c)

\* An update of the session's own row by a handler is RowSettled, or no update when
\* the session has no row.
LEMMA FailEffect ==
    ASSUME TypeOK, NEW c \in Conn, NEW s \in Settled, pc[c] = "read",
           uploads' = FailUpload(xfer[c].id, s), rows' = rows
    PROVE  UNCHANGED <<uploads, rows>> \/ RowSettled(c)
<1>1. uploads \in [UploadId -> Row] /\ xfer[c].id \in UploadId \cup {0} BY DEF TypeOK, Transfer
<1>2. CASE xfer[c].id = 0 BY <1>2 DEF FailUpload
<1>3. CASE xfer[c].id # 0
  <2> DEFINE u == xfer[c].id
             crc == uploads[u].crc
  <2>1. crc \in Seq(Piece) BY <1>1, <1>3 DEF Row
  <2>2. uploads' = [uploads EXCEPT ![u] = [@ EXCEPT !.status = s]]
    BY <1>3 DEF FailUpload, SetStatus
  <2>3. [uploads[u] EXCEPT !.status = s] = [uploads[u] EXCEPT !.status = s, !.crc = crc]
    BY <1>1, <1>3, Zenon DEF Row
  <2>4. uploads' = [uploads EXCEPT ![u] = [@ EXCEPT !.status = s, !.crc = crc]]
    BY <2>2, <2>3, Zenon
  <2> HIDE DEF crc
  <2>5. \E t \in Settled, q \in Seq(Piece) :
          uploads' = [uploads EXCEPT ![xfer[c].id] = [@ EXCEPT !.status = t, !.crc = q]]
    BY <2>1, <2>4, Zenon
  <2> QED BY <1>3, <2>5, Zenon DEF RowSettled
<1> QED BY <1>2, <1>3

\* A packet in the streaming part inserts a row and takes a slot, or it is not
\* packet 1 and at most settles the row of the session.
LEMMA StreamingEffect ==
    ASSUME TypeInv, NEW c \in Conn, NEW p \in ValidPacket, NEW f \in File,
           Identified(c, p.client), Streaming(c, p), StartUpload(c, p),
           NEW s \in {"in_progress", "failed"}, uploads' = TableWithRow(c, p, f, s)
    PROVE  SessionEffect(c)
<1>1. TypeOK /\ rows \in 0..MaxRows BY DEF TypeInv, TypeOK
<1>2. p.client \in Client BY <1>1, OwnedType
<1>3. CASE p.num = 1
  <2>1. Acquired(c) BY <1>1, <1>3, StartEffect
  <2>2. rows < MaxRows /\ rows' = rows + 1 BY <1>3 DEF Streaming, StartUpload
  <2>3. uploads' = [uploads EXCEPT ![rows + 1] =
                      [NoRow EXCEPT !.status = s, !.client = p.client, !.file = f, !.conn = c]]
    BY <1>3 DEF TableWithRow
  <2>4. \E t \in {"in_progress", "failed"}, k \in Client, g \in File :
          uploads' = [uploads EXCEPT ![rows + 1] =
                        [NoRow EXCEPT !.status = t, !.client = k, !.file = g, !.conn = c]]
    BY <1>2, <2>3, Zenon
  <2> QED BY <2>1, <2>2, <2>4, Zenon DEF SessionEffect, RowInserted
<1>4. CASE p.num # 1
  <2>1. UNCHANGED <<hasSlot, activeUploads, rows>> BY <1>4 DEF StartUpload
  <2>2. pc[c] = "read" BY DEF Streaming, TakeFrame
  <2>3. CASE s = "in_progress"
    BY <1>4, <2>1, <2>3 DEF TableWithRow, SessionEffect
  <2>4. CASE s = "failed"
    <3>1. uploads' = FailUpload(xfer[c].id, "failed") BY <1>4, <2>4 DEF TableWithRow
    <3>2. UNCHANGED <<uploads, rows>> \/ RowSettled(c)
      BY <1>1, <2>1, <2>2, <3>1, FailEffect DEF Settled
    <3> QED BY <2>1, <3>2 DEF SessionEffect
  <2> QED BY <2>3, <2>4
<1> QED BY <1>3, <1>4

\* The steps of one session.
SessionStep(c) ==
    \/ Open(c) \/ Request828(c)
    \/ \E f \in File : Request900(c, f) \/ Request901(c, f) \/ Request902(c, f)
    \/ UnknownCode(c) \/ OtherRequest(c) \/ HandlerRaises(c) \/ RateLimited(c) \/ UploadTimeout(c)
    \/ SendOk(c) \/ SendFails(c) \/ Disconnect(c)

\* Every step of a session has one of the effects of SessionEffect.
LEMMA StepEffect ==
    ASSUME TypeInv, NEW c \in Conn, SessionStep(c)
    PROVE  SessionEffect(c)
<1>0. TypeOK BY DEF TypeInv
<1>1. CASE Request828(c)
  <2>1. CASE NameUnterminated(c) \/ NameNotUtf8(c) \/ UnknownClient(c)
    BY <2>1 DEF NameUnterminated, NameNotUtf8, UnknownClient, fileVars, SessionEffect
  <2>2. ASSUME NEW k, WrongClient(c, k) \/ BadHeader(c, k) PROVE SessionEffect(c)
    BY <2>2 DEF WrongClient, BadHeader, fileVars, SessionEffect
  <2>3. ASSUME NEW p, IvRejected(c, p) \/ IvAccepted(c, p) \/ UploadRefused(c, p)
        PROVE  SessionEffect(c)
    BY <2>3 DEF IvRejected, IvAccepted, UploadRefused, fileVars, SessionEffect
  <2>4. ASSUME NEW p, DataRejected(c, p) PROVE SessionEffect(c)
    <3>1. /\ pc[c] = "read" /\ uploads' = FailUpload(xfer[c].id, "failed")
          /\ UNCHANGED <<hasSlot, activeUploads, rows>>
      BY <2>4 DEF DataRejected, TakeFrame
    <3>2. UNCHANGED <<uploads, rows>> \/ RowSettled(c) BY <1>0, <3>1, FailEffect DEF Settled
    <3> QED BY <3>1, <3>2 DEF SessionEffect
  <2>5. ASSUME NEW p \in ValidPacket, NEW f \in File, Identified(c, p.client),
               \/ PacketFails(c, p, f) \/ PacketStreamed(c, p, f) \/ FilePublished(c, p, f)
               \/ OpenRaises(c, p, f) \/ WriteRaises(c, p, f)
        PROVE  SessionEffect(c)
    <3>1. Streaming(c, p) /\ StartUpload(c, p)
      BY <2>5 DEF PacketFails, PacketStreamed, FilePublished, OpenRaises, WriteRaises
    <3>2. uploads' = TableWithRow(c, p, f, "in_progress") \/ uploads' = TableWithRow(c, p, f, "failed")
      BY <2>5 DEF PacketFails, PacketStreamed, FilePublished, OpenRaises, WriteRaises
    <3> QED BY <2>5, <3>1, <3>2, StreamingEffect
  <2> QED BY <1>1, <2>1, <2>2, <2>3, <2>4, <2>5 DEF Request828
<1>2. ASSUME NEW f \in File, Request900(c, f) PROVE SessionEffect(c)
  <2> DEFINE u == xfer[c].id
             crc == xfer[c].crc
  <2>1. pc[c] = "read" /\ UNCHANGED <<hasSlot, activeUploads, rows>>
    BY <1>2 DEF Request900, TakeFrame
  <2>2. crc \in Seq(Piece) /\ u \in UploadId \cup {0} /\ uploads \in [UploadId -> Row]
    BY <1>0 DEF TypeOK, Transfer
  <2>3. CASE u # 0 /\ crc # <<>> /\ xfer[c].file = f
    <3>1. uploads' = [uploads EXCEPT ![u].status = "completed", ![u].crc = crc]
      BY <1>2, <2>3 DEF Request900
    <3> HIDE DEF crc
    <3>2. uploads' = [uploads EXCEPT ![u] = [@ EXCEPT !.status = "completed", !.crc = crc]]
      BY <2>2, <2>3, <3>1, Zenon
    <3>3. \E t \in Settled, q \in Seq(Piece) :
            uploads' = [uploads EXCEPT ![xfer[c].id] = [@ EXCEPT !.status = t, !.crc = q]]
      BY <2>2, <3>2, Zenon DEF Settled
    <3> QED BY <2>1, <2>3, <3>3, Zenon DEF RowSettled, SessionEffect
  <2>4. CASE ~(u # 0 /\ crc # <<>> /\ xfer[c].file = f)
    BY <1>2, <2>1, <2>4 DEF Request900, SessionEffect
  <2> QED BY <2>3, <2>4
<1>3. ASSUME NEW f \in File, Request901(c, f) \/ Request902(c, f) PROVE SessionEffect(c)
  <2>1. pc[c] = "read" /\ rows' = rows BY <1>3 DEF Request901, Request902, TakeFrame
  <2>2. \/ UNCHANGED uploads
        \/ uploads' = FailUpload(xfer[c].id, "crc_mismatch")
        \/ uploads' = FailUpload(xfer[c].id, "failed")
    BY <1>3 DEF Request901, Request902
  <2>3. UNCHANGED <<uploads, rows>> \/ RowSettled(c)
    BY <1>0, <2>1, <2>2, FailEffect DEF Settled
  <2>4. UNCHANGED <<hasSlot, activeUploads>> \/ ReleaseUploadSlot(c)
    BY <1>3 DEF Request901, Request902
  <2> QED BY <2>3, <2>4 DEF SessionEffect
<1>4. CASE Open(c) \/ UnknownCode(c) \/ OtherRequest(c) \/ HandlerRaises(c) \/ RateLimited(c) \/ UploadTimeout(c)
  BY <1>4 DEF Open, UnknownCode, OtherRequest, HandlerRaises, RateLimited, UploadTimeout, fileVars,
              SessionEffect
<1>5. CASE SendOk(c) \/ SendFails(c) \/ Disconnect(c)
  BY <1>5 DEF SendOk, SendFails, Disconnect, Cleanup, fileVars, SessionEffect
<1> QED BY <1>1, <1>2, <1>3, <1>4, <1>5 DEF SessionStep

-----------------------------------------------------------------------------
(* SessionOK of the session that takes the step.                           *)

\* A reset session has nothing to be wrong about.
LEMMA ResetOK ==
    ASSUME NEW c, NEW slot, NEW at, NEW tbl, NEW n \in Nat
    PROVE  SessionOK(c, NoTransfer, slot, at, tbl, n)
<1>1. /\ NoTransfer.active = FALSE /\ NoTransfer.id = 0 /\ NoTransfer.tmp = FALSE
      /\ NoTransfer.iv = FALSE
  BY DEF NoTransfer
<1>2. 0 <= n OBVIOUS
<1> QED BY <1>1, <1>2, Zenon DEF SessionOK

\* The step keeps the row and the identity of the upload.
LEMMA KeepOK ==
    ASSUME NEW c, NEW x \in Transfer, NEW slot, NEW at, NEW tbl, NEW n,
           SessionOK(c, x, slot, at, tbl, n),
           NEW y \in Transfer, y.active = x.active, y.id = x.id, y.file = x.file,
           y.tmp => x.tmp, x.iv => y.iv, y.iv => y.owner # None,
           x.iv => y.owner = x.owner,
           NEW at2, at2 \in Quiet => at \in Quiet
    PROVE  SessionOK(c, y, slot, at2, tbl, n)
BY DEF SessionOK

\* Once the row is settled the session only waits to be reset.
LEMMA SettleOK ==
    ASSUME TypeOK, NEW c \in Conn,
           SessionOK(c, xfer[c], hasSlot[c], pc[c], uploads, rows), RowSettled(c),
           NEW at, at \notin Quiet
    PROVE  SessionOK(c, xfer[c], hasSlot[c], at, uploads', rows')
<1> DEFINE u == xfer[c].id
<1>1. u \in UploadId /\ uploads \in [UploadId -> Row] BY DEF TypeOK, Transfer, RowSettled
<1>2. /\ uploads'[u].conn = uploads[u].conn /\ uploads'[u].client = uploads[u].client
      /\ uploads'[u].file = uploads[u].file
  BY <1>1 DEF RowSettled, Row
<1>3. rows' = rows BY DEF RowSettled
<1> QED BY <1>2, <1>3 DEF SessionOK

\* The next row of a table that is not full, and that it is not the last one.
LEMMA NextRow ==
    /\ \A n \in 0..MaxRows : n < MaxRows => n + 1 \in UploadId
    /\ \A n \in Nat : n # n + 1
BY BoundAssumption DEF UploadId

\* Packet 1 ties the session to the row it inserts.
LEMMA InsertOK ==
    ASSUME TypeInv, NEW c \in Conn, NEW p \in ValidPacket, NEW f \in File,
           SessionOK(c, xfer[c], hasSlot[c], pc[c], uploads, rows),
           Identified(c, p.client), Streaming(c, p), StartUpload(c, p), p.num = 1,
           NEW s \in {"in_progress", "failed"}, uploads' = TableWithRow(c, p, f, s),
           NEW at, at \in Quiet => s = "in_progress"
    PROVE  SessionOK(c, Started(c, p, f), hasSlot'[c], at, uploads', rows')
<1> DEFINE x == Started(c, p, f)
<1>1. xfer[c] \in Transfer /\ rows \in 0..MaxRows /\ uploads \in [UploadId -> Row]
      /\ hasSlot \in [Conn -> BOOLEAN]
  BY DEF TypeInv, TypeOK
<1>2. rows < MaxRows /\ rows' = rows + 1 /\ hasSlot'[c] BY <1>1 DEF Streaming, StartUpload
<1>3. /\ x.active /\ x.id = rows + 1 /\ x.file = f /\ x.iv = xfer[c].iv
      /\ x.owner = xfer[c].owner
  BY <1>1 DEF Started, Transfer
<1>4. xfer[c].iv /\ xfer[c].owner # None BY DEF Streaming, Mismatched, SessionOK
<1>5. p.client = xfer[c].owner BY <1>4 DEF Identified
<1>6. rows + 1 \in UploadId BY <1>1, <1>2, NextRow, Zenon
<1>7. uploads'[rows + 1] =
        [NoRow EXCEPT !.status = s, !.client = p.client, !.file = f, !.conn = c]
  BY <1>1, <1>6 DEF TableWithRow
<1>8. /\ uploads'[rows + 1].conn = c /\ uploads'[rows + 1].client = p.client
      /\ uploads'[rows + 1].file = f /\ uploads'[rows + 1].status = s
  BY <1>7 DEF NoRow
<1>9. x.id # 0 /\ x.id <= rows' BY <1>1, <1>2, <1>3, BoundAssumption
<1> HIDE DEF x
<1>10. /\ uploads'[x.id].conn = c /\ uploads'[x.id].client = x.owner
       /\ uploads'[x.id].file = x.file /\ (at \in Quiet => uploads'[x.id].status = "in_progress")
  <2>1. PICK r : r = uploads'[rows + 1] OBVIOUS
  <2>2. r = uploads'[x.id] BY <1>3, <2>1, Zenon
  <2>3. r.conn = c /\ r.client = x.owner /\ r.file = x.file /\ r.status = s
    BY <1>3, <1>5, <1>8, <2>1, Zenon
  <2> QED BY <2>2, <2>3, Zenon
<1>11. x.active /\ x.iv /\ x.owner # None BY <1>3, <1>4, Zenon
<1>12. SessionOK(c, x, hasSlot'[c], at, uploads', rows')
  BY <1>2, <1>9, <1>10, <1>11, Zenon DEF SessionOK
<1> QED BY <1>12 DEF x

\* The session of c after its step.
Kept(c) == SessionOK(c, xfer[c], hasSlot[c], pc[c], uploads, rows)

\* A step that leaves the session, its slot and the table alone and suspends.
LEMMA SuspendOK ==
    ASSUME TypeOK, NEW c \in Conn, Kept(c), pc[c] = "read", NEW k, NEW a \in Awaiting,
           Await(c, a), a # "answer",
           \/ UNCHANGED xfer
           \/ Identified(c, k) /\ xfer' = [xfer EXCEPT ![c] = Owned(c, k)],
           hasSlot' = hasSlot, UNCHANGED rows,
           UNCHANGED uploads \/ uploads' = FailUpload(xfer[c].id, "failed")
    PROVE  Kept(c)'
<1>1. xfer[c] \in Transfer BY DEF TypeOK
<1>2. pc'[c] = a /\ a \notin Quiet BY DEF Await, TypeOK, Awaiting, Quiet
<1>3. UNCHANGED <<uploads, rows>> \/ RowSettled(c) BY FailEffect DEF Settled
<1>4. SessionOK(c, xfer[c], hasSlot[c], a, uploads', rows')
  <2>1. CASE UNCHANGED <<uploads, rows>>
    BY <1>1, <1>2, <2>1 DEF Kept, SessionOK
  <2>2. CASE RowSettled(c) BY <1>2, <2>2, SettleOK DEF Kept
  <2> QED BY <1>3, <2>1, <2>2
<1>5. CASE UNCHANGED xfer BY <1>2, <1>4, <1>5 DEF Kept
<1>6. CASE Identified(c, k) /\ xfer' = [xfer EXCEPT ![c] = Owned(c, k)]
  <2> DEFINE y == Owned(c, k)
  <2>1. k \in Client /\ y \in Transfer BY <1>6, OwnedType
  <2>2. /\ y.active = xfer[c].active /\ y.id = xfer[c].id /\ y.file = xfer[c].file
        /\ y.tmp = xfer[c].tmp /\ y.iv = xfer[c].iv /\ y.owner = k
    BY <1>1 DEF Owned, Transfer
  <2>3. k # None BY <2>1, ClientAssumption
  <2>4. xfer[c].iv => y.owner = xfer[c].owner
    BY <1>4, <1>6, <2>2 DEF SessionOK, Identified
  <2>5. xfer'[c] = y BY <1>6 DEF TypeOK
  <2> HIDE DEF y
  <2>6. SessionOK(c, y, hasSlot[c], a, uploads', rows')
    BY <1>1, <1>4, <2>1, <2>2, <2>3, <2>4, KeepOK
  <2> QED BY <1>2, <2>5, <2>6 DEF Kept
<1> QED BY <1>5, <1>6

\* A step that resets the session or leaves an inactive one alone, and settles its
\* row or leaves the table alone.
LEMMA ResetStepOK ==
    ASSUME TypeOK, NEW c \in Conn, Kept(c), rows' \in Nat,
           ResetTransferState(c) \/ Cleanup(c) \/ (ResetIfActive(c) /\ UNCHANGED <<uploads, rows>>)
    PROVE  Kept(c)'
<1>1. xfer[c] \in Transfer /\ xfer \in [Conn -> Transfer] BY DEF TypeOK
<1>2. CASE xfer'[c] = NoTransfer BY <1>2, ResetOK DEF Kept
<1>3. CASE xfer'[c] # NoTransfer
  <2>1. ResetIfActive(c) /\ UNCHANGED <<uploads, rows>> /\ ~xfer[c].active /\ UNCHANGED xfer
    BY <1>1, <1>3 DEF ResetTransferState, Cleanup, ResetIfActive
  <2> QED BY <1>1, <2>1 DEF Kept, SessionOK
<1> QED BY <1>2, <1>3

\* The requests of 828 that stop before the streaming part keep SessionOK.
LEMMA EarlyOK ==
    ASSUME TypeInv, NEW c \in Conn, Kept(c)
    PROVE  /\ NameUnterminated(c) \/ NameNotUtf8(c) \/ UnknownClient(c) => Kept(c)'
           /\ \A k : WrongClient(c, k) \/ BadHeader(c, k) => Kept(c)'
           /\ \A p \in ValidPacket :
                (/\ Identified(c, p.client)
                 /\ \/ IvRejected(c, p) \/ IvAccepted(c, p)
                    \/ DataRejected(c, p) \/ UploadRefused(c, p)) => Kept(c)'
<1>0. TypeOK /\ rows \in Nat /\ xfer[c] \in Transfer BY BoundAssumption DEF TypeInv, TypeOK
<1>1. ASSUME NameUnterminated(c) \/ UnknownClient(c) PROVE Kept(c)'
  <2>1. ResetTransferState(c) /\ rows' = rows
    BY <1>1 DEF NameUnterminated, UnknownClient, fileVars
  <2> QED BY <1>0, <2>1, ResetStepOK
<1>2. ASSUME NameNotUtf8(c) PROVE Kept(c)'
  BY <1>0, <1>2, SuspendOK DEF NameNotUtf8, TakeFrame, fileVars, Awaiting
<1>3. ASSUME NEW k, WrongClient(c, k) PROVE Kept(c)'
  BY <1>0, <1>3, SuspendOK DEF WrongClient, TakeFrame, fileVars, Awaiting
<1>4. ASSUME NEW k, BadHeader(c, k) PROVE Kept(c)'
  BY <1>0, <1>4, SuspendOK, Zenon DEF BadHeader, TakeFrame, fileVars, Awaiting
<1>5. ASSUME NEW p \in ValidPacket, Identified(c, p.client),
             IvRejected(c, p) \/ DataRejected(c, p) \/ UploadRefused(c, p)
      PROVE  Kept(c)'
  <2>1. pc[c] = "read" /\ hasSlot' = hasSlot /\ rows' = rows
    BY <1>5 DEF IvRejected, DataRejected, UploadRefused, TakeFrame, fileVars
  <2>2. UNCHANGED uploads \/ uploads' = FailUpload(xfer[c].id, "failed")
    BY <1>5 DEF IvRejected, DataRejected, UploadRefused, fileVars
  <2>3. UNCHANGED xfer \/ xfer' = [xfer EXCEPT ![c] = Owned(c, p.client)]
    BY <1>5 DEF IvRejected, DataRejected, UploadRefused
  <2>4. Await(c, "abort") \/ Await(c, "reset")
    BY <1>5 DEF IvRejected, DataRejected, UploadRefused
  <2> QED BY <1>0, <1>5, <2>1, <2>2, <2>3, <2>4, SuspendOK DEF Awaiting
<1>6. ASSUME NEW p \in ValidPacket, Identified(c, p.client), IvAccepted(c, p)
      PROVE  Kept(c)'
  <2> DEFINE y == xfer'[c]
  <2>1. p.client \in Client /\ p.client # None BY <1>0, <1>6, OwnedType, ClientAssumption
  <2>2. /\ y.active = xfer[c].active /\ y.id = xfer[c].id /\ y.tmp = xfer[c].tmp
        /\ y.owner = p.client
    BY <1>0, <1>6 DEF IvAccepted, Owned, Transfer, TypeOK
  <2>3. ~xfer[c].active /\ UNCHANGED <<hasSlot, pc, uploads, rows>>
    BY <1>6 DEF IvAccepted, fileVars
  <2> QED BY <2>1, <2>2, <2>3 DEF Kept, SessionOK
<1> QED BY <1>1, <1>2, <1>3, <1>4, <1>5, <1>6

\* The session as packet 1, or any other packet, leaves it before the chunk is
\* processed satisfies SessionOK at the place the handler goes to next.
LEMMA StartedOK ==
    ASSUME TypeInv, NEW c \in Conn, NEW p \in ValidPacket, NEW f \in File, Kept(c),
           Identified(c, p.client), Streaming(c, p), StartUpload(c, p),
           NEW s \in {"in_progress", "failed"}, uploads' = TableWithRow(c, p, f, s),
           NEW at, at \in Quiet => s = "in_progress"
    PROVE  SessionOK(c, Started(c, p, f), hasSlot'[c], at, uploads', rows')
<1>0. TypeOK /\ xfer[c] \in Transfer BY DEF TypeInv, TypeOK
<1>1. CASE p.num = 1 BY <1>1, InsertOK DEF Kept
<1>2. CASE p.num # 1
  <2>1. Started(c, p, f) = xfer[c] /\ UNCHANGED <<hasSlot, rows>>
    BY <1>2 DEF Started, StartUpload
  <2>2. pc[c] = "read" BY DEF Streaming, TakeFrame
  <2>3. CASE s = "in_progress"
    <3>1. UNCHANGED uploads BY <1>2, <2>3 DEF TableWithRow
    <3> QED BY <2>1, <2>2, <3>1 DEF Kept, SessionOK, Quiet
  <2>4. CASE s = "failed"
    <3>1. uploads' = FailUpload(xfer[c].id, "failed") BY <1>2, <2>4 DEF TableWithRow
    <3>2. UNCHANGED <<uploads, rows>> \/ RowSettled(c)
      BY <1>0, <2>1, <2>2, <3>1, FailEffect DEF Settled
    <3>3. at \notin Quiet BY <2>4
    <3>4. CASE UNCHANGED <<uploads, rows>> BY <2>1, <2>2, <3>3, <3>4 DEF Kept, SessionOK
    <3>5. CASE RowSettled(c) BY <1>0, <2>1, <3>3, <3>5, SettleOK DEF Kept
    <3> QED BY <3>2, <3>4, <3>5
  <2> QED BY <2>3, <2>4
<1> QED BY <1>1, <1>2

\* The requests of 828 that reach the streaming part keep SessionOK.
LEMMA StreamingOK ==
    ASSUME TypeInv, NEW c \in Conn, NEW p \in ValidPacket, NEW f \in File, Kept(c),
           Identified(c, p.client), TypeOK',
           \/ PacketFails(c, p, f) \/ PacketStreamed(c, p, f) \/ FilePublished(c, p, f)
           \/ OpenRaises(c, p, f) \/ WriteRaises(c, p, f)
    PROVE  Kept(c)'
<1> DEFINE x == Started(c, p, f)
<1>0. /\ TypeOK /\ xfer \in [Conn -> Transfer] /\ xfer[c] \in Transfer /\ xfer'[c] \in Transfer
      /\ pc \in [Conn -> {"new", "read", "closed"} \cup Awaiting]
  BY DEF TypeInv, TypeOK
<1>1. Streaming(c, p) /\ StartUpload(c, p)
  BY DEF PacketFails, PacketStreamed, FilePublished, OpenRaises, WriteRaises
<1>2. pc[c] = "read" BY <1>1 DEF Streaming, TakeFrame
<1>3. x \in Transfer BY <1>0, <1>1, StartedType DEF Streaming
<1>4. CASE PacketFails(c, p, f)
  <2>1. SessionOK(c, x, hasSlot'[c], "abort", uploads', rows')
    BY <1>1, <1>4, StartedOK, Zenon DEF PacketFails, Quiet
  <2>2. xfer'[c] = x /\ pc'[c] = "abort" BY <1>0, <1>4 DEF PacketFails, Await
  <2> QED BY <2>1, <2>2 DEF Kept
<1>5. CASE OpenRaises(c, p, f) \/ WriteRaises(c, p, f)
  <2>1. SessionOK(c, x, hasSlot'[c], "routerReset", uploads', rows')
    BY <1>1, <1>5, StartedOK DEF OpenRaises, WriteRaises, Quiet
  <2>2. xfer'[c] = x /\ pc'[c] = "routerReset" BY <1>0, <1>5 DEF OpenRaises, WriteRaises, Await
  <2> QED BY <2>1, <2>2 DEF Kept
<1>6. CASE PacketStreamed(c, p, f) \/ FilePublished(c, p, f)
  <2> DEFINE y == xfer'[c]
  <2>1. SessionOK(c, x, hasSlot'[c], "read", uploads', rows')
    BY <1>1, <1>6, StartedOK, Zenon DEF PacketStreamed, FilePublished
  <2> HIDE DEF x
  <2>6. "read" \in Quiet BY DEF Quiet
  <2>2. /\ y.active = x.active /\ y.id = x.id /\ y.file = x.file /\ y.iv = x.iv
        /\ y.owner = x.owner /\ (y.tmp => x.tmp)
    <3>1. CASE PacketStreamed(c, p, f)
      <4>1. y = [x EXCEPT !.expected = @ + 1, !.received = @ + p.len,
                          !.plain = Append(@, PieceOf(x, p))]
        BY <1>0, <3>1 DEF PacketStreamed, x
      <4> QED BY <1>3, <4>1 DEF Transfer
    <3>2. CASE FilePublished(c, p, f)
      <4>1. y = [x EXCEPT !.expected = @ + 1, !.received = @ + p.len,
                          !.plain = Append(x.plain, PieceOf(x, p)),
                          !.crc = Append(x.plain, PieceOf(x, p)), !.tmp = FALSE]
        BY <1>0, <3>2 DEF FilePublished, x
      <4> QED BY <1>3, <4>1 DEF Transfer
    <3> QED BY <1>6, <3>1, <3>2
  <2>3. pc'[c] \in Quiet
    BY <1>0, <1>2, <1>6 DEF PacketStreamed, FilePublished, Await, Quiet
  <2>4. y \in Transfer BY <1>0
  <2> HIDE DEF y
  <2>5. SessionOK(c, y, hasSlot'[c], pc'[c], uploads', rows')
    <3>1. x.iv => x.owner # None BY <2>1 DEF SessionOK
    <3> QED BY <1>3, <2>1, <2>2, <2>3, <2>4, <2>6, <3>1, KeepOK
  <2> QED BY <2>5, Zenon DEF y, Kept
<1> QED BY <1>4, <1>5, <1>6

\* The verdicts, the router's errors and the ends of sends and sessions keep SessionOK.
LEMMA OtherOK ==
    ASSUME TypeInv, TypeOK', NEW c \in Conn, Kept(c),
           \/ \E f \in File : Request900(c, f) \/ Request901(c, f) \/ Request902(c, f)
           \/ Open(c) \/ UnknownCode(c) \/ OtherRequest(c) \/ HandlerRaises(c) \/ RateLimited(c) \/ UploadTimeout(c)
           \/ SendOk(c) \/ SendFails(c) \/ Disconnect(c)
    PROVE  Kept(c)'
<1>0. /\ TypeOK /\ rows \in Nat /\ rows' \in Nat /\ xfer[c] \in Transfer
      /\ pc \in [Conn -> {"new", "read", "closed"} \cup Awaiting]
  BY BoundAssumption DEF TypeInv, TypeOK
<1>1. ASSUME NEW f \in File, Request900(c, f) PROVE Kept(c)'
  <2>1. UNCHANGED <<xfer, hasSlot>> /\ rows' = rows /\ pc'[c] = "abort"
    BY <1>0, <1>1 DEF Request900, Await
  <2>2. UNCHANGED <<uploads, rows>> \/ RowSettled(c)
    <3>1. SessionEffect(c) BY <1>1, StepEffect DEF SessionStep
    <3>2. rows' # rows + 1 BY <1>0, <2>1, NextRow, Zenon
    <3> QED BY <3>1, <3>2, Zenon DEF SessionEffect, RowInserted
  <2>3. CASE UNCHANGED <<uploads, rows>> BY <2>1, <2>3, Zenon DEF Kept, SessionOK, Quiet
  <2>4. CASE RowSettled(c) BY <1>0, <2>1, <2>4, SettleOK, Zenon DEF Kept, Quiet
  <2> QED BY <2>2, <2>3, <2>4
<1>2. ASSUME NEW f \in File, Request901(c, f) PROVE Kept(c)'
  <2>1. CASE xfer[c].file = f
    <3>1. ResetTransferState(c) BY <1>2, <2>1 DEF Request901
    <3> QED BY <1>0, <3>1, ResetStepOK
  <2>2. CASE xfer[c].file # f
    BY <1>0, <1>2, <2>2, SuspendOK DEF Request901, TakeFrame, Awaiting
  <2> QED BY <2>1, <2>2
<1>3. ASSUME NEW f \in File, Request902(c, f) PROVE Kept(c)'
  BY <1>0, <1>3, SuspendOK DEF Request902, TakeFrame, Awaiting
<1>4. ASSUME Open(c) PROVE Kept(c)'
  BY <1>0, <1>4, Zenon DEF Open, Kept, SessionOK, Quiet
<1>5. ASSUME UnknownCode(c) \/ OtherRequest(c) \/ HandlerRaises(c) \/ RateLimited(c) \/ UploadTimeout(c)
      PROVE  Kept(c)'
  <2>1. UNCHANGED <<xfer, hasSlot, uploads, rows>> /\ pc[c] = "read"
    BY <1>5, Zenon DEF UnknownCode, OtherRequest, HandlerRaises, RateLimited, UploadTimeout, TakeFrame, Reading, fileVars
  <2> QED BY <1>0, <2>1, Zenon DEF Kept, SessionOK, Quiet
<1>6. ASSUME SendOk(c) PROVE Kept(c)'
  <2>1. UNCHANGED <<uploads, rows>> BY <1>6, Zenon DEF SendOk, fileVars
  <2>2. CASE pc[c] = "answer"
    BY <1>0, <1>6, <2>1, <2>2, Zenon DEF SendOk, Await, Kept, SessionOK, Quiet
  <2>3. CASE pc[c] # "answer"
    <3>1. ResetTransferState(c) \/ ResetIfActive(c) BY <1>6, <2>3, Zenon DEF SendOk
    <3> QED BY <1>0, <2>1, <3>1, ResetStepOK
  <2> QED BY <2>2, <2>3
<1>7. ASSUME SendFails(c) PROVE Kept(c)'
  <2>1. UNCHANGED <<uploads, rows>> /\ (ResetTransferState(c) \/ ResetIfActive(c))
    BY <1>7 DEF SendFails, fileVars
  <2> QED BY <1>0, <2>1, ResetStepOK
<1>8. ASSUME Disconnect(c) PROVE Kept(c)'
  BY <1>0, <1>8, ResetStepOK DEF Disconnect
<1> QED BY <1>1, <1>2, <1>3, <1>4, <1>5, <1>6, <1>7, <1>8

-----------------------------------------------------------------------------
(* The other sessions, and the invariant.                                  *)

\* A step of one session changes no other session.
LEMMA Frames ==
    ASSUME TypeOK, NEW c \in Conn, SessionStep(c), NEW d \in Conn, d # c
    PROVE  xfer'[d] = xfer[d] /\ pc'[d] = pc[d]
<1>1. xfer \in [Conn -> Transfer] /\ pc \in [Conn -> {"new", "read", "closed"} \cup Awaiting]
  BY DEF TypeOK
<1>2. CASE Request828(c)
  <2>1. CASE NameUnterminated(c) \/ NameNotUtf8(c) \/ UnknownClient(c)
    BY <1>1, <2>1 DEF NameUnterminated, NameNotUtf8, UnknownClient, ResetTransferState, Await
  <2>2. ASSUME NEW k, WrongClient(c, k) \/ BadHeader(c, k)
        PROVE  xfer'[d] = xfer[d] /\ pc'[d] = pc[d]
    BY <1>1, <2>2 DEF WrongClient, BadHeader, Await
  <2>3. ASSUME NEW p, \/ IvRejected(c, p) \/ IvAccepted(c, p)
                      \/ DataRejected(c, p) \/ UploadRefused(c, p)
        PROVE  xfer'[d] = xfer[d] /\ pc'[d] = pc[d]
    BY <1>1, <2>3 DEF IvRejected, IvAccepted, DataRejected, UploadRefused, Await
  <2>4. ASSUME NEW p, NEW f,
               \/ PacketFails(c, p, f) \/ PacketStreamed(c, p, f) \/ FilePublished(c, p, f)
               \/ OpenRaises(c, p, f) \/ WriteRaises(c, p, f)
        PROVE  xfer'[d] = xfer[d] /\ pc'[d] = pc[d]
    BY <1>1, <2>4 DEF PacketFails, PacketStreamed, FilePublished, OpenRaises, WriteRaises, Await
  <2> QED BY <1>2, <2>1, <2>2, <2>3, <2>4, Zenon DEF Request828
<1>3. ASSUME NEW f, Request900(c, f) \/ Request901(c, f) \/ Request902(c, f)
      PROVE  xfer'[d] = xfer[d] /\ pc'[d] = pc[d]
  BY <1>1, <1>3 DEF Request900, Request901, Request902, ResetTransferState, Await
<1>4. CASE Open(c) \/ UnknownCode(c) \/ OtherRequest(c) \/ HandlerRaises(c) \/ RateLimited(c) \/ UploadTimeout(c)
  BY <1>1, <1>4 DEF Open, UnknownCode, OtherRequest, HandlerRaises, RateLimited, UploadTimeout, Await
<1>5. CASE SendOk(c) \/ SendFails(c) \/ Disconnect(c)
  BY <1>1, <1>5 DEF SendOk, SendFails, Disconnect, ResetTransferState, ResetIfActive, Cleanup, Await
<1> QED BY <1>2, <1>3, <1>4, <1>5, Zenon DEF SessionStep

\* Neither the slot of another session nor the row it points to changes: rows are
\* told apart by the connection that inserted them.
LEMMA OthersOK ==
    ASSUME TypeOK, SessionInv, NEW c \in Conn, NEW d \in Conn, d # c, SessionEffect(c),
           xfer'[d] = xfer[d], pc'[d] = pc[d]
    PROVE  Kept(d)'
<1> DEFINE u == xfer[d].id
<1>1. /\ u \in UploadId \cup {0} /\ xfer[c].id \in UploadId \cup {0} /\ rows \in Nat
      /\ uploads \in [UploadId -> Row] /\ hasSlot \in [Conn -> BOOLEAN]
  <2>1. xfer[c] \in Transfer /\ xfer[d] \in Transfer BY DEF TypeOK
  <2>2. rows \in Nat BY BoundAssumption DEF TypeOK
  <2>3. u \in UploadId \cup {0} /\ xfer[c].id \in UploadId \cup {0} BY <2>1 DEF Transfer
  <2> QED BY <2>2, <2>3 DEF TypeOK
<1>2. u <= rows /\ (u # 0 => uploads[u].conn = d) BY DEF SessionInv, SessionOK
<1>3. xfer[c].id # 0 => uploads[xfer[c].id].conn = c BY DEF SessionInv, SessionOK
<1>4. u # 0 => u # xfer[c].id BY <1>2, <1>3
<1>5. u # 0 => uploads'[u] = uploads[u]
  <2>1. u # rows + 1 BY <1>1, <1>2, BoundAssumption DEF UploadId
  <2> QED BY <1>1, <1>4, <2>1, Zenon DEF SessionEffect, RowSettled, RowInserted
<1>6. hasSlot'[d] = hasSlot[d]
  BY <1>1 DEF SessionEffect, ReleaseUploadSlot, Acquired
<1>7. rows' = rows \/ rows' = rows + 1 BY Zenon DEF SessionEffect, RowSettled, RowInserted
<1>8. u <= rows' BY <1>1, <1>2, <1>7, BoundAssumption DEF UploadId
<1>9. SessionOK(d, xfer[d], hasSlot[d], pc[d], uploads, rows) BY DEF SessionInv
<1> QED BY <1>5, <1>6, <1>8, <1>9 DEF Kept, SessionOK

\* Rows stay empty until their id is given out.
LEMMA FreshStep ==
    ASSUME TypeOK, SessionInv, NEW c \in Conn, SessionEffect(c)
    PROVE  FreshRows'
<1>1. /\ xfer[c].id \in UploadId \cup {0} /\ rows \in Nat /\ uploads \in [UploadId -> Row]
  <2>1. xfer[c] \in Transfer /\ uploads \in [UploadId -> Row] BY DEF TypeOK
  <2>2. rows \in Nat BY BoundAssumption DEF TypeOK
  <2> QED BY <2>1, <2>2 DEF Transfer
<1>2. xfer[c].id <= rows BY DEF SessionInv, SessionOK
<1>3. ASSUME NEW u \in UploadId, u > rows' PROVE uploads'[u] = NoRow
  <2>1. rows' = rows \/ rows' = rows + 1 BY Zenon DEF SessionEffect, RowSettled, RowInserted
  <2>2. u > rows /\ u # xfer[c].id BY <1>1, <1>2, <1>3, <2>1, BoundAssumption DEF UploadId
  <2>3. uploads[u] = NoRow BY <2>2 DEF SessionInv, FreshRows
  <2>4. RowInserted(c) => u # rows + 1 BY <1>1, <1>3, BoundAssumption DEF RowInserted, UploadId
  <2> QED BY <1>1, <2>2, <2>3, <2>4, Zenon DEF SessionEffect, RowSettled, RowInserted
<1> QED BY <1>3 DEF FreshRows

\* In every reachable state every session is tied to its slot and its row.
THEOREM SessionsTied == Spec => []SessionInv
<1>1. Init => SessionInv
  <2> SUFFICES ASSUME Init PROVE SessionInv OBVIOUS
  <2>1. FreshRows BY DEF Init, FreshRows
  <2>2. ASSUME NEW c \in Conn PROVE SessionOK(c, xfer[c], hasSlot[c], pc[c], uploads, rows)
    <3>1. xfer[c] = NoTransfer /\ rows \in Nat BY DEF Init
    <3> QED BY <3>1, ResetOK
  <2> QED BY <2>1, <2>2 DEF SessionInv
<1>2. TypeInv /\ TypeInv' /\ SessionInv /\ [Next]_vars => SessionInv'
  <2> SUFFICES ASSUME TypeInv, TypeInv', SessionInv, [Next]_vars PROVE SessionInv' OBVIOUS
  <2>0. TypeOK /\ TypeOK' BY DEF TypeInv
  <2>1. ASSUME NEW c \in Conn, SessionStep(c) PROVE SessionInv'
    <3>1. SessionEffect(c) BY <2>1, StepEffect
    <3>2. Kept(c) BY DEF SessionInv, Kept
    <3>3. Kept(c)'
      <4>1. CASE Request828(c)
        BY <2>0, <3>2, <4>1, EarlyOK, StreamingOK DEF Request828
      <4>2. CASE ~Request828(c)
        BY <2>0, <2>1, <3>2, <4>2, OtherOK DEF SessionStep
      <4> QED BY <4>1, <4>2
    <3>4. ASSUME NEW d \in Conn, d # c PROVE Kept(d)'
      BY <2>0, <2>1, <3>1, <3>4, Frames, OthersOK
    <3>5. FreshRows' BY <2>0, <3>1, FreshStep
    <3> QED BY <3>3, <3>4, <3>5 DEF SessionInv, Kept
  <2>2. CASE Crash
    <3>1. \A c \in Conn : xfer'[c] = NoTransfer BY <2>2 DEF Crash
    <3>2. UNCHANGED <<uploads, rows>> BY <2>2 DEF Crash, fileVars
    <3>3. rows \in Nat BY <2>0, BoundAssumption DEF TypeOK
    <3>4. ASSUME NEW c \in Conn
          PROVE  SessionOK(c, xfer[c], hasSlot[c], pc[c], uploads, rows)'
      BY <3>1, <3>2, <3>3, ResetOK
    <3> QED BY <3>2, <3>4 DEF SessionInv, FreshRows
  <2>3. CASE UNCHANGED vars BY <2>3 DEF vars, SessionInv, FreshRows
  <2> QED BY <2>1, <2>2, <2>3 DEF Next, SessionStep
<1> QED BY <1>1, <1>2, TypeCorrect, PTL DEF Spec

\* An active upload holds a slot, and a session with a temporary file is active.
THEOREM ActiveUploadsHoldSlots == Spec => []ActiveUploadHoldsSlot
<1>1. SessionInv => ActiveUploadHoldsSlot
  BY DEF SessionInv, SessionOK, ActiveUploadHoldsSlot
<1> QED BY <1>1, SessionsTied, PTL

\* The row of a session is its own, still in progress between two frames, and
\* shared with no other session.
THEOREM RowsOfSessions == Spec => []RowOfSession
<1>1. SessionInv => RowOfSession
  <2> SUFFICES ASSUME SessionInv PROVE RowOfSession OBVIOUS
  <2>1. \A c \in Conn : xfer[c].id # 0 =>
          LET r == uploads[xfer[c].id] IN
            /\ r.client = xfer[c].owner /\ r.file = xfer[c].file /\ r.conn = c
            /\ pc[c] = "read" => r.status = "in_progress"
    BY DEF SessionInv, SessionOK, Quiet
  <2>2. \A c, d \in Conn : c # d => xfer[c].id # xfer[d].id \/ xfer[c].id = 0
    BY <2>1
  <2> QED BY <2>1, <2>2 DEF RowOfSession
<1> QED BY <1>1, SessionsTied, PTL

=============================================================================
