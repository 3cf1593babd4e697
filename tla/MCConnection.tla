---------------------------- MODULE MCConnection ----------------------------
(* Connection on small instances.  Connections are interchangeable, and    *)
(* so are addresses.                                                       *)
EXTENDS Connection, TLC

ConnSymmetry == Permutations(Conn) \cup Permutations(Ip)

=============================================================================
