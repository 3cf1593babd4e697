---------------------------- MODULE MCByteStream ----------------------------
(***************************************************************************)
(* Instances of ByteStream for TLC.                                        *)
(***************************************************************************)
EXTENDS ByteStream

MCFileSizes == 0..13

\* Payloads of every size up to one more than the limit, of two contents.
MCPayload == UNION {{[i \in 1..n |-> b] : b \in {0, MaxPayload + 1}} : n \in 0..(MaxPayload + 1)}
=============================================================================
