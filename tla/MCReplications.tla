--------------------------- MODULE MCReplications ---------------------------
(***************************************************************************)
(* Two instances of Replication for TLC, one scene each: "terms", whose    *)
(* constants the configuration gives, in which three servers elect leaders *)
(* that compete through three terms; and "slots", in which two servers     *)
(* take client requests while responses wait for lock_ and an RPC fails, a *)
(* server restarts or a leader resigns.                                    *)
(***************************************************************************)
EXTENDS MCReplication

VARIABLE scene

Slots == INSTANCE MCReplication WITH
    Server <- Candidates, TakeTurns <- FALSE, MaxTerm <- 2, MaxLog <- 3,
    MaxClientLog <- 2, MaxAppendSize <- 4, MaxWaiting <- 2, MaxFailures <- 1

ScenesInit ==
    \/ scene = "terms" /\ ReplicationInit
    \/ scene = "slots" /\ Slots!ReplicationInit

ScenesNext ==
    /\ UNCHANGED scene
    /\ \/ scene = "terms" /\ MCNext
       \/ scene = "slots" /\ Slots!MCNext

ScenesSpec == ScenesInit /\ [][ScenesNext]_<<vars, scene>>

-----------------------------------------------------------------------------
(* Logs that agree on one entry agree on all before it: the check log_okay   *)
(* of handle_append_entries is enough to keep them so, whatever orphans of   *)
(* old requests arrive.                                                      *)
LogsMatch == IF scene = "terms" THEN LogMatching ELSE Slots!LogMatching

(* handle_append_entries ignores a request of the leader's own term with the *)
(* remark "there must be a bug": no such request is ever on its way.         *)
OneLeaderAppends == IF scene = "terms" THEN NoRivalLeader ELSE Slots!NoRivalLeader

(* Committed entries never differ and stay in the logs of a commit quorum,   *)
(* as long as get_expected_committed_log_idx never met a quorum at an entry  *)
(* of an older term.                                                         *)
CommitIsSafe == IF scene = "terms" THEN CommitSafety ELSE Slots!CommitSafety

(* What a leader counts when it commits is really there: each peer has the   *)
(* leader's entries up to matched_idx_, although become_leader does not      *)
(* reset that index and responses of older terms may set it.                 *)
CountedIsStored ==
    IF scene = "terms" THEN MatchedIsStored ELSE Slots!MatchedIsStored

(* create_append_entries_req exits the process (N8) when a peer's next index *)
(* is past the leader's end of log; a leader never gets there, although      *)
(* responses that waited for lock_ and answers to other leaders set it.      *)
NextIsInLog == IF scene = "terms" THEN NextIndexInLog ELSE Slots!NextIndexInLog

(* "should not happen in Raft though" (handle_append_entries takes the       *)
(* commit index back): but for a restart it never does, as long as only      *)
(* entries of the leader's own term were counted.                            *)
CommitNeverGoesBack ==
    [][scene = "terms" =>
          \A i \in Server : commit'[i] < commit[i] => oldCounted]_<<vars, scene>>
=============================================================================
