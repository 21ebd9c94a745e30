---------------------------- MODULE MCMembership ----------------------------
(***************************************************************************)
(* Membership for TLC, side by side with Voting as MCVoting explores it:   *)
(* part says which of the two a behaviour is about.  MemberNext leaves out *)
(* heartbeats that tell a peer nothing new and votes beyond the quorum.    *)
(***************************************************************************)
EXTENDS MCVoting, Membership

CONSTANTS n1, n2, n3,
          Parts         \* the parts to explore

VARIABLE part

MCNode == {n1, n2, n3}

\* n1 leads at the start; the others are compared for equality only.
PairSymmetry == MCSymmetry \cup Permutations({n2, n3})

News(i, p) ==
    \/ ~IsPrefix(srv[i].log, srv[p].log)
    \/ srv[p].commit < srv[i].commit
    \/ srv[i].matched[p] < Len(srv[i].log)
    \/ p = srv[i].srvToLeave

MemberStep ==
    \/ \E i, p \in Node : \/ HandleAddSrvReq(i, p) \/ HandleRmSrvReq(i, p)
                          \/ LeavingPeerFails(i, p)
                          \/ News(i, p) /\ AppendEntries(i, p)
    \/ \E m \in net : Handle(m) \/ RpcError(m)
    \/ \E i \in Node : \/ SetPriority(i) \/ CommitConf(i) \/ StepDown(i)
                       \/ SrvToLeaveTimeout(i) \/ RestartNode(i)
    \/ \E i \in Node : \E quorum \in kSubset(Quorum(srv[i]), srv[i].peers) :
          Elect(i, quorum)

MemberNext == MemberStep /\ Settle

PairInit == part \in Parts /\ VotingInit /\ Init

PairNext ==
    /\ UNCHANGED part
    /\ \/ part = "voting" /\ MCNext /\ UNCHANGED vars
       \/ part = "membership" /\ MemberNext /\ UNCHANGED voteVars

PairSpec == PairInit /\ [][PairNext]_<<voteVars, vars, part>>

PairView == <<MCView, vars, part>>
=============================================================================
