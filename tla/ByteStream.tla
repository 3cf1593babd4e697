----------------------------- MODULE ByteStream -----------------------------
(***************************************************************************)
(* The bytes of an upload, from the client's file to the server's          *)
(* temporary file: request_828_streaming reads the file in buffers, pads   *)
(* and encrypts it block by block and cuts the ciphertext into packets;    *)
(* the connection carries bytes; the server reads them in pieces that      *)
(* respect no boundary, Framer.feed puts frames together again, and the    *)
(* handler of 828 decrypts and writes all but a last block held back.      *)
(*                                                                         *)
(* The other end of the connection is either that client, or any peer that *)
(* writes frames, well-formed or with an oversized payload.  A number of   *)
(* the protocol is one unit of the stream; UploadServer models what the    *)
(* handler does with a packet besides its bytes.                           *)
(***************************************************************************)
EXTENDS Integers, Sequences, FiniteSets, SequencesExt

CONSTANTS
    HeaderLen,   \* HEADER_LEN; the payload size is the header's last unit
    MaxPayload,  \* config.max_payload_size
    ReadSize,    \* the most that one reader.read returns
    Block,       \* the AES block size
    PlainBuf,    \* the client's read buffer, a number of blocks
    MinChunk,    \* the client's smallest chunk
    ChunkUnit,   \* chunks are multiples of this, itself a number of blocks
    MaxPackets,  \* 65535, on both sides
    MaxFileSize, \* config.max_file_size
    MaxChunkSize,\* config.max_chunk_size
    FileSizes,   \* the sizes of files the client sends
    Payload,     \* the payloads any other peer writes
    MaxFrames    \* bound on the frames such a peer writes

ASSUME StreamAssumption ==
    /\ {HeaderLen, MaxPayload, ReadSize, Block, PlainBuf, MinChunk, ChunkUnit, MaxPackets,
        MaxFileSize, MaxChunkSize} \subseteq Nat \ {0}
    /\ PlainBuf % Block = 0 /\ ChunkUnit % Block = 0
    /\ FileSizes \subseteq Nat /\ Payload \subseteq Seq(Nat)
    /\ MaxFrames \in Nat

VARIABLES
    peer,      \* who is at the other end: "client" or "other"
    size,      \* the size the client's file had when file_size was called
    content,   \* what the client reads from it
    client,    \* the locals of request_828_streaming
    frames,    \* the payloads written so far (history)
    wire,      \* bytes written and not yet read by the server
    buf,       \* Framer._buf
    conn,      \* the read loop: "open", or "refused" after feed raised
    got,       \* the payloads handed to the handlers (history)
    before,    \* bytes read before the last read (history)
    upload,    \* the upload fields of the session
    published  \* the files that os.replace put in place

peerVars == <<peer, size, content, client, frames>>
serverVars == <<buf, conn, got, before, upload, published>>
vars == <<peerVars, wire, serverVars>>

Take(s, n) == SubSeq(s, 1, n)
Drop(s, n) == SubSeq(s, n + 1, Len(s))
Minimum(a, b) == IF a < b THEN a ELSE b

-----------------------------------------------------------------------------
(* Sizes: padded_cbc_size, choose_upload_chunk_size and total_packets.     *)

padded_cbc_size(n) == n + Block - (n % Block)

Ceiling(a, b) == (a + b - 1) \div b

\* Rounding down instead of up.
choose_upload_chunk_size_Floor(cipher) ==
    LET min == cipher \div MaxPackets
    IN  ((IF min > MinChunk THEN min ELSE MinChunk) \div ChunkUnit) * ChunkUnit

choose_upload_chunk_size(cipher) ==
    LET min == Ceiling(cipher, MaxPackets)
    IN  Ceiling(IF min > MinChunk THEN min ELSE MinChunk, ChunkUnit) * ChunkUnit

CHUNK_SIZE == choose_upload_chunk_size(padded_cbc_size(size))
total_packets == Ceiling(padded_cbc_size(size), CHUNK_SIZE)

\* CBC ties a block to its place in the chain: block k of the chain deciphers
\* only as block k.  Plain units are below Mark.
Mark == 100
Encipher(plain, from) ==
    [i \in DOMAIN plain |-> plain[i] + Mark * ((from + i - 1) \div Block + 1)]
Decipher(cipher, from) ==
    [i \in DOMAIN cipher |->
        LET b == cipher[i] - Mark * ((from + i - 1) \div Block + 1)
        IN  IF b \in 0..(Mark - 1) THEN b ELSE 0]

-----------------------------------------------------------------------------
(* What the client writes.                                                 *)

\* A frame: its header ends with the payload's size.
Header(p) == [i \in 1..HeaderLen |-> IF i = HeaderLen THEN Len(p) ELSE 0]
Encoded(ps) == FlattenSeq([i \in DOMAIN ps |-> Header(ps[i]) \o ps[i]])

Write(ps) ==
    /\ frames' = frames \o ps
    /\ wire' = IF conn = "open" THEN wire \o Encoded(ps) ELSE <<>>

\* 828 packet 0 carries the IV, packet k a chunk; the sizes that every packet
\* repeats are those of the variable size.
Packet(num, chunk) == <<num>> \o chunk

\* append_cipher_bytes: cut full chunks off the pending ciphertext.  A packet beyond
\* the announced number throws.
append_cipher_bytes(cl, data) ==
    LET pending == cl.pendingCipher \o data
        n       == Len(pending) \div CHUNK_SIZE
        fits    == Minimum(n, total_packets + 1 - cl.num)
    IN  [packets |-> [i \in 1..fits |->
            Packet(cl.num + i - 1, SubSeq(pending, (i - 1) * CHUNK_SIZE + 1, i * CHUNK_SIZE))],
         thrown  |-> fits < n,
         client  |-> [cl EXCEPT !.pendingCipher = Drop(pending, n * CHUNK_SIZE),
                                !.num = @ + fits,
                                !.sent = @ + fits * CHUNK_SIZE]]

\* Too many packets for the 16-bit field: nothing is sent.
StartUpload ==
    /\ peer = "client" /\ client.at = "start"
    /\ Write(IF total_packets > MaxPackets THEN <<>> ELSE <<Packet(0, <<>>)>>)
    /\ client' = [client EXCEPT !.at = IF total_packets > MaxPackets THEN "thrown" ELSE "read"]
    /\ UNCHANGED <<peer, size, content, serverVars>>

\* One pass of the loop over the file: the full blocks are encrypted, the
\* rest stays in pending_plain.
ReadFile ==
    /\ peer = "client" /\ client.at = "read" /\ client.pos < Len(content)
    /\ LET read  == SubSeq(content, client.pos + 1, Minimum(client.pos + PlainBuf, Len(content)))
           plain == client.pendingPlain \o read
           full  == (Len(plain) \div Block) * Block
           out   == append_cipher_bytes(client, Encipher(Take(plain, full), client.enciphered))
       IN  /\ Write(out.packets)
           /\ client' = [out.client EXCEPT !.pos = @ + Len(read),
                                           !.pendingPlain = Drop(plain, full),
                                           !.enciphered = @ + full,
                                           !.at = IF out.thrown THEN "thrown" ELSE "read"]
    /\ UNCHANGED <<peer, size, content, serverVars>>

\* The end of the file: padding, the last packets, and the checks on what was sent.
FinishUpload ==
    /\ peer = "client" /\ client.at = "read" /\ client.pos = Len(content)
    /\ LET len   == Block - (Len(client.pendingPlain) % Block)
           plain == client.pendingPlain \o [i \in 1..len |-> len]
           out   == append_cipher_bytes(client, Encipher(plain, client.enciphered))
           cl    == out.client
           rest  == IF cl.pendingCipher # <<>> /\ cl.num <= total_packets
                      THEN <<Packet(cl.num, cl.pendingCipher)>> ELSE <<>>
           sent  == cl.sent + (IF rest = <<>> THEN 0 ELSE Len(cl.pendingCipher))
           good  == /\ ~ out.thrown
                    /\ cl.pendingCipher = <<>> \/ rest # <<>>
                    /\ sent = padded_cbc_size(size)
                    /\ cl.num + Len(rest) = total_packets + 1
       IN  /\ Write(IF out.thrown THEN out.packets ELSE out.packets \o rest)
           /\ client' = [cl EXCEPT !.at = IF good THEN "done" ELSE "thrown"]
    /\ UNCHANGED <<peer, size, content, serverVars>>

\* Any other peer writes a frame; it does not know the server's limits.
WriteFrame ==
    /\ peer = "other" /\ Len(frames) < MaxFrames
    /\ \E p \in Payload : Write(<<p>>)
    /\ UNCHANGED <<peer, size, content, client, serverVars>>

-----------------------------------------------------------------------------
(* The server's Framer.                                                    *)

\* No limit.
TooLarge_Never(n) == FALSE

TooLarge(n) == n > MaxPayload

\* feed's loop over the buffer.  An oversized header drops the buffer, and
\* the raise drops the frames this call had found.
RECURSIVE ExtractFrames(_, _)
ExtractFrames(b, found) ==
    IF Len(b) < HeaderLen THEN [frames |-> found, buf |-> b, raised |-> FALSE]
    ELSE IF TooLarge(b[HeaderLen]) THEN [frames |-> <<>>, buf |-> <<>>, raised |-> TRUE]
    ELSE IF Len(b) < HeaderLen + b[HeaderLen]
      THEN [frames |-> found, buf |-> b, raised |-> FALSE]
      ELSE LET end == HeaderLen + b[HeaderLen]
           IN  ExtractFrames(Drop(b, end), Append(found, SubSeq(b, HeaderLen + 1, end)))

\* A framer with an if for the while: one frame for each read.
feed_OneFrame(chunk) ==
    LET b   == buf \o chunk
        out == ExtractFrames(b, <<>>)
    IN  IF Len(out.frames) < 2 THEN out
        ELSE [frames |-> Take(out.frames, 1), raised |-> FALSE,
              buf |-> Drop(b, HeaderLen + Len(out.frames[1]))]

feed(chunk) == ExtractFrames(buf \o chunk, <<>>)

-----------------------------------------------------------------------------
(* The upload fields of the session, and what 828 does to the bytes.       *)

NoUpload == [iv |-> FALSE, expected |-> 0, received |-> 0, tail |-> <<>>, written |-> <<>>]

\* validate_header, on the sizes that the client announces.
ValidHeader(num) ==
    /\ total_packets > 0 /\ num <= total_packets
    /\ padded_cbc_size(size) > 0 /\ size > 0
    /\ total_packets <= MaxPackets
    /\ size <= MaxFileSize /\ padded_cbc_size(size) <= MaxFileSize

ValidPadding(s) ==
    /\ s # <<>> /\ Len(s) % Block = 0
    /\ Last(s) \in 1..Block
    /\ \A i \in (Len(s) - Last(s) + 1)..Len(s) : s[i] = Last(s)

\* _process_streaming_cipher_chunk: the last block decrypted so far is held
\* back until it is known whether it carries the padding.
HoldBack(combined) == IF Len(combined) <= Block THEN 0 ELSE Len(combined) - Block

\* The block held back is forgotten.
ProcessChunk_NoTail(u, chunk, last) ==
    LET plain == Decipher(chunk, u.received)
        write == IF last THEN Len(plain) - Last(plain) ELSE HoldBack(plain)
    IN  [u EXCEPT !.written  = @ \o Take(plain, write),
                  !.tail     = IF last THEN <<>> ELSE Drop(plain, write),
                  !.expected = @ + 1,
                  !.received = @ + Len(chunk)]

ProcessChunk(u, chunk, last) ==
    LET combined == u.tail \o Decipher(chunk, u.received)
        write    == IF last THEN Len(combined) - Last(combined) ELSE HoldBack(combined)
    IN  [u EXCEPT !.written  = @ \o Take(combined, write),
                  !.tail     = IF last THEN <<>> ELSE Drop(combined, write),
                  !.expected = @ + 1,
                  !.received = @ + Len(chunk)]

\* The checks on the last packet: all the ciphertext, and a plaintext of the
\* announced size.
Complete_CipherOnly(u) == u.received = padded_cbc_size(size)
Complete(u) == u.received = padded_cbc_size(size) /\ Len(u.written) = size

\* One packet of the client at the handler of 828: the upload fields it leaves,
\* and the file, if this packet published it.  A refusal resets the fields.
request_828(st, p) ==
    LET num    == p[1]
        chunk  == Drop(p, 1)
        u      == st.upload
        last   == num = total_packets
        next   == ProcessChunk(u, chunk, last)
        failed == [st EXCEPT !.upload = NoUpload]
    IN  IF ~ ValidHeader(num) THEN failed
        ELSE IF num = 0
          THEN IF u.iv THEN failed
               ELSE [st EXCEPT !.upload = [NoUpload EXCEPT !.iv = TRUE, !.expected = 1]]
        ELSE IF \/ ~ u.iv
                \/ Len(chunk) > MaxChunkSize
                \/ u.received + Len(chunk) > padded_cbc_size(size)
                \/ num # u.expected
                \/ chunk = <<>> \/ Len(chunk) % Block # 0
                \/ last /\ ~ ValidPadding(u.tail \o Decipher(chunk, u.received))
          THEN failed
        ELSE IF ~ last THEN [st EXCEPT !.upload = next]
        ELSE IF Complete(next) THEN [upload |-> next, files |-> Append(st.files, next.written)]
        ELSE failed

-----------------------------------------------------------------------------
(* The read loop of handle_client.                                         *)

\* One read returns what has arrived, at most ReadSize; every frame it
\* completes is handled before the next read.  A raise of feed ends the connection.
Read ==
    /\ conn = "open" /\ wire # <<>>
    /\ \E k \in 1..Minimum(ReadSize, Len(wire)) :
         LET out == feed(Take(wire, k))
             st  == IF peer = "client"
                      THEN FoldLeft(request_828, [upload |-> upload, files |-> published], out.frames)
                      ELSE [upload |-> upload, files |-> published]
         IN  /\ buf' = out.buf
             /\ got' = got \o out.frames
             /\ before' = Len(Encoded(frames)) - Len(wire)
             /\ conn' = IF out.raised THEN "refused" ELSE "open"
             /\ wire' = IF out.raised THEN <<>> ELSE Drop(wire, k)
             /\ upload' = st.upload
             /\ published' = st.files
    /\ UNCHANGED peerVars

NoClient == [at |-> "none", pos |-> 0, pendingPlain |-> <<>>, pendingCipher |-> <<>>,
             enciphered |-> 0, num |-> 1, sent |-> 0]

\* The file's units are 1, 2, ...: some look like padding.  It may have grown
\* or shrunk between file_size and the reads.
Init ==
    /\ \/ peer = "client" /\ client = [NoClient EXCEPT !.at = "start"]
          /\ size \in FileSizes
          /\ content \in {[i \in 1..n |-> i] : n \in FileSizes}
       \/ peer = "other" /\ client = NoClient /\ size = 0 /\ content = <<>>
    /\ frames = <<>> /\ wire = <<>>
    /\ buf = <<>> /\ conn = "open" /\ got = <<>> /\ before = 0
    /\ upload = NoUpload /\ published = <<>>

Next == StartUpload \/ ReadFile \/ FinishUpload \/ WriteFrame \/ Read

Spec == Init /\ [][Next]_vars

-----------------------------------------------------------------------------
(* Properties.                                                             *)

Finished == client.at \in {"done", "thrown"} /\ wire = <<>>

FramesWithin(n) ==
    Cardinality({j \in 1..Len(frames) : Len(Encoded(Take(frames, j))) <= n})

\* However reads cut the stream, feed hands over exactly the frames whose last
\* byte has been read, in order and unchanged; when it raises, the frames that
\* were complete before the read it raised in, and those only.  It raises for an
\* oversized frame alone, and the client's packets are never oversized.
Delivered ==
    /\ got = Take(frames, FramesWithin(IF conn = "open" THEN Len(Encoded(frames)) - Len(wire)
                                                        ELSE before))
    /\ conn = "refused" =>
         peer = "other" /\ \E i \in DOMAIN frames : Len(frames[i]) > MaxPayload

\* Between two reads the framer holds less than one frame of the largest size,
\* whatever sizes the headers announce.
BufferBound == Len(buf) < HeaderLen + MaxPayload

\* What 828 has written to the temporary file is at every moment a prefix of
\* the client's file: no padding, and no block of a wrong place in the chain.
WrittenIsPrefix ==
    peer = "client" => IsPrefix(upload.written, content)

\* request_828_streaming returns normally only if it sent the announced number of
\* packets and bytes, and for a file that keeps its size it always does.
ClientKeepsPromise ==
    /\ client.at = "done" =>
         /\ Len(frames) = total_packets + 1
         /\ padded_cbc_size(Len(content)) = padded_cbc_size(size)
    /\ client.at = "thrown" => Len(content) # size

\* Once everything is read, the file is published, whole, exactly if it kept its
\* size, is not empty, and its padded size is within the server's limit.
UploadArrives ==
    /\ published \in {<<>>, <<content>>}
    /\ Finished => (published # <<>> <=>
         size = Len(content) /\ size > 0 /\ padded_cbc_size(size) <= MaxFileSize)
=============================================================================
