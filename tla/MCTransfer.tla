----------------------------- MODULE MCTransfer -----------------------------
(* Instances of Transfer for TLC.                                          *)
EXTENDS Transfer, TLC

\* All connections belong to one client id.
OneClient == [c \in Conn |-> CHOOSE k \in Enrolled : TRUE]

\* Connections are interchangeable, and so are file names.
TransferSymmetry == Permutations(Conn) \cup Permutations(File)
=============================================================================
