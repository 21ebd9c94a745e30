--------------------------- MODULE MCClientResult ---------------------------
(* TLC instances of ClientResult.  How often the leadership changes and how *)
(* many configuration entries come in is bounded; in a steady reign the     *)
(* leader may step down, but no server is elected and no configuration      *)
(* changes.                                                                 *)
EXTENDS ClientResult, TLC

CONSTANTS c1, c2, MaxElections, MaxConfs

VARIABLES elections, confs, steady

mcvars == <<vars, elections, confs, steady>>

MCClients == {c1, c2}
MCBatch == (c1 :> 1) @@ (c2 :> 2)

MCInit == Init /\ elections = 0 /\ confs = 0 /\ steady \in BOOLEAN

MCNext ==
    /\ UNCHANGED <<blocking, steady>>
    /\ \/ /\ \/ \E c \in Clients : ClientStep(c)
             \/ CommitStep
             \/ StepDown
             \/ \E k \in Indices : QuorumCommit(k)
             \/ Follow
          /\ UNCHANGED <<elections, confs>>
       \/ /\ BecomeLeader /\ ~steady /\ elections < MaxElections
          /\ elections' = elections + 1 /\ UNCHANGED confs
       \/ /\ AppendConf /\ ~steady /\ confs < MaxConfs
          /\ confs' = confs + 1 /\ UNCHANGED elections

MCSpec == MCInit /\ [][MCNext]_mcvars

(* The commit thread runs whenever it has work, and so does the thread     *)
(* that steps down, once it has given up the role.                         *)
MCFairSpec ==
    /\ MCSpec
    /\ WF_mcvars(CommitStep /\ UNCHANGED <<blocking, elections, confs, steady>>)
    /\ WF_mcvars((DropAll \/ \E e \in cancelling : CancelAsync(e))
                    /\ UNCHANGED <<blocking, elections, confs, steady>>)

-----------------------------------------------------------------------------
(* In a steady reign no entry is executed before pre_commit was called on    *)
(* it (handle_cli_req, commit_in_bg_exec).                                   *)
SteadyPreCommitFirst == steady => PreCommitFirst

(* In a steady reign the result of a committed and registered request is set *)
(* in the end, for a blocked and for an asynchronous client                  *)
(* (commit_app_log, drop_all_pending_commit_elems).                          *)
SteadyResultIsSet == steady => CommitResultIsSet
=============================================================================
