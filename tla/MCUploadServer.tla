--------------------------- MODULE MCUploadServer ---------------------------
(* Instances of UploadServer for TLC.                                      *)
EXTENDS UploadServer, TLC

\* Connections and file names are interchangeable.
Symmetry == Permutations(Conn) \cup Permutations(File)
=============================================================================
