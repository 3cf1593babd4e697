-------------------------- MODULE UploadLifecycle --------------------------
(***************************************************************************)
(* What the upload path promises to the operator of the server, without    *)
(* sessions, packets or files: at most MaxSlots connections upload at a    *)
(* time, an upload record is created by a connection that holds a slot,    *)
(* only that connection settles it while it still holds the slot, and a    *)
(* settled record never changes.  UploadServer is shown to implement it.   *)
(***************************************************************************)
EXTENDS Naturals, FiniteSets

CONSTANTS Conn, UploadId, None, MaxSlots

VARIABLES
    holders,  \* the connections that hold an upload slot
    status,   \* the status of every upload record
    by        \* the connection that created it

lifecycleVars == <<holders, status, by>>

Outcome == {"completed", "failed", "crc_mismatch"}

LifecycleInit ==
    /\ holders = {}
    /\ status = [u \in UploadId |-> "none"]
    /\ by = [u \in UploadId |-> None]

\* A record is created, possibly for an upload that fails with its first packet.
Begin(c, u) ==
    /\ status[u] = "none"
    /\ c \in holders \/ Cardinality(holders) < MaxSlots
    /\ holders' = holders \cup {c}
    /\ \E s \in {"in_progress", "failed"} : status' = [status EXCEPT ![u] = s]
    /\ by' = [by EXCEPT ![u] = c]

\* The record gets its verdict from the connection that created it, which may
\* give its slot back in the same step.
Settle(c, u) ==
    /\ c \in holders /\ by[u] = c
    /\ status[u] = "in_progress"
    /\ holders' \in {holders, holders \ {c}}
    /\ \E s \in Outcome : status' = [status EXCEPT ![u] = s]
    /\ UNCHANGED by

Release(c) ==
    /\ holders' = holders \ {c}
    /\ UNCHANGED <<status, by>>

\* The process restarts with no connection; the records stay.
Restart ==
    /\ holders' = {}
    /\ UNCHANGED <<status, by>>

LifecycleNext ==
    \/ \E c \in Conn : \/ Release(c)
                       \/ \E u \in UploadId : Begin(c, u) \/ Settle(c, u)
    \/ Restart

LifecycleSpec == LifecycleInit /\ [][LifecycleNext]_lifecycleVars
=============================================================================
