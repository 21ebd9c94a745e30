---------------------------- MODULE MCElections ----------------------------
(***************************************************************************)
(* Two instances of Election for TLC, one scene each: "rounds", whose      *)
(* constants the configuration gives, in which the timers of two servers   *)
(* expire, pre-votes overlap and an RPC or a server fails; and "transfer", *)
(* in which leadership is handed over while a server of priority zero      *)
(* times out and the log of another one is behind.                         *)
(***************************************************************************)
EXTENDS MCElection

VARIABLE scene

Transfer == INSTANCE MCElection WITH
    Lagging <- {s2}, AllowZeroPriority <- TRUE, MaxWaiting <- 1,
    Starters <- {s3}, MaxTimeouts <- 2, MaxFailures <- 0, MaxTransfers <- 1

ScenesInit ==
    \/ scene = "rounds" /\ MCInit
    \/ scene = "transfer" /\ Transfer!MCInit

ScenesNext ==
    /\ UNCHANGED scene
    /\ \/ scene = "rounds" /\ MCNext
       \/ scene = "transfer" /\ Transfer!MCNext

ScenesSpec == ScenesInit /\ [][ScenesNext]_<<mcVars, scene>>

-----------------------------------------------------------------------------
(* "Once the vote initiator receives acceptance from a majority of servers"  *)
(* (docs/prevote_protocol.md): pre_vote_.done_ is set only after a majority  *)
(* of different servers, the initiator included, said that they lost the     *)
(* leader.  (With a response that waits for lock_, which the scene           *)
(* "transfer" has, a server can be counted twice.)                           *)
MajorityPreVotes == scene = "rounds" => PreVoteByMajority

(* Whatever the pre-vote, the priorities and the transfer of leadership      *)
(* decide, every step of the servers is a step of Voting or leaves terms,    *)
(* votes and roles alone (handle_vote.cxx, handle_timeout.cxx,               *)
(* handle_priority.cxx): what is proved of Voting holds of Election.         *)
TransferIsVoting ==
    /\ VotingInit
    /\ [][scene = "transfer" => [VotingNext]_voteVars]_<<mcVars, scene>>
=============================================================================
