--------------------------- MODULE MCServerProcess --------------------------
(***************************************************************************)
(* Instances of ServerProcess for TLC.                                     *)
(***************************************************************************)
EXTENDS ServerProcess

Default == [port |-> 1256, uploads |-> 10, connections |-> 10, perIp |-> 10, workers |-> 4,
            inFlight |-> 8, payload |-> 10000000, metrics |-> FALSE]

\* The default with metrics, one without that serves nobody, and two that fail.
MCConfig ==
    {[Default EXCEPT !.metrics = TRUE],
     [Default EXCEPT !.payload = 0],
     [Default EXCEPT !.port = 65536],
     [Default EXCEPT !.inFlight = 2]}
=============================================================================
