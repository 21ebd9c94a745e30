------------------------------ MODULE MCVoting ------------------------------
(***************************************************************************)
(* Model values, symmetry and a smaller next-state relation for the TLC    *)
(* run of Voting.  MCNext sends every vote request to all the peers and    *)
(* has no LoseBallot: a request or a response that is never handled is a   *)
(* lost one, so for safety nothing is left out.                            *)
(***************************************************************************)
EXTENDS Voting, TLC

CONSTANTS
    s1, s2, s3,
    MaxCampaigns    \* bound on the votes started in a behaviour

MCServer == {s1, s2, s3}

\* Servers are compared for equality only.
MCSymmetry == Permutations(MCServer)

MCNext ==
    \/ /\ Cardinality({c \in cast : c[1] = c[3]}) < MaxCampaigns
       /\ \E i \in Server, info \in VoteInfo :
             InitiateVote(i, Server \ {i}, info)
    \/ \E m \in ballots, okay \in BOOLEAN : HandleVoteReq(m, okay)
    \/ \E m \in ballots : HandleVoteResp(m)
    \/ \E i \in Server, t \in Term : ObserveTerm(i, t)
    \/ \E i \in Server : BecomeFollower(i)
    \/ \E i \in Server : BecomeCandidate(i)
    \/ \E i \in Server : Restart(i)

\* No action of Voting but the two that set it reads role, so states that
\* differ in role alone have the same futures.
MCView == <<term, votedFor, stored, countVars, ballots, histVars>>

MCSpec == VotingInit /\ [][MCNext]_voteVars
=============================================================================
