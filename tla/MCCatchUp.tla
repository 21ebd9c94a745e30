----------------------------- MODULE MCCatchUp -----------------------------
(***************************************************************************)
(* How a follower catches up, for TLC: append requests (Replication), the  *)
(* snapshots of a server (Snapshot), their transfer (SnapshotTransfer) and *)
(* the log store (LogStore).  They are explored side by side: part says    *)
(* which of them a behaviour is about, and the others stay in a state in   *)
(* which nothing has to happen.                                            *)
(***************************************************************************)
EXTENDS MCReplication, Snapshot, SnapshotTransfer, LogStore

VARIABLE part

catchUpVars == <<vars, snapVars, transferVars, store, part>>

\* A configuration entry within the reach of the first snapshots.
MCConfAt == {1, 3}

Init ==
    /\ part \in {"replication", "snapshot", "transfer", "store"}
    /\ ReplicationInit /\ SnapInit /\ TransferInit /\ StoreInit
    /\ part # "transfer" => lead.joining /\ ~lead.bg

Next ==
    /\ UNCHANGED part
    /\ \/ /\ part = "replication" /\ MCNext
          /\ UNCHANGED <<snapVars, transferVars, store>>
       \/ /\ part = "snapshot" /\ SnapNext
          /\ UNCHANGED <<vars, transferVars, store>>
       \/ /\ part = "transfer" /\ TransferNext
          /\ UNCHANGED <<vars, snapVars, store>>
       \/ /\ part = "store" /\ StoreNext
          /\ UNCHANGED <<vars, snapVars, transferVars>>

CatchUpSpec ==
    /\ Init /\ [][Next]_catchUpVars
    /\ MCFairness /\ SnapFairness /\ TransferFairness
=============================================================================
