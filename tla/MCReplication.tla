--------------------------- MODULE MCReplication ---------------------------
(* Model values and symmetry for the TLC runs of Replication.               *)
EXTENDS Replication, TLC

CONSTANTS
    Candidates,     \* the servers that may start an election
    TakeTurns,      \* a candidate waits for a newer term before its next try,
                    \* and does not vote for another candidate
    MaxClientLog    \* clients append up to this log length

\* Servers are compared for equality only, and candidates are alike.
MCSymmetry == Permutations(Candidates) \cup Permutations(Server \ Candidates)

\* A heartbeat that has nothing to tell is left out.
MCNext ==
    \/ \E i \in Candidates :
          (TakeTurns => votedFor[i] # i) /\ StartElection(i)
    \/ \E i, j \in Server :
          (TakeTurns => j \notin Candidates) /\ GrantVote(j, i)
    \/ \E i, j \in Server : LearnTerm(i, j)
    \/ \E i \in Server : \E reconn \in SUBSET Broken(i) : WinElection(i, reconn)
    \/ \E i \in Server : Resign(i)
    \/ \E i \in Server : Len(log[i]) < MaxClientLog /\ ClientRequest(i)
    \/ \E i \in Server : AppendEntriesInBg(i)
    \/ \E i, j \in Server : /\ i # j
                            /\ \/ peer[i][j].matched < Len(log[i])
                               \/ commit[j] < commit[i]
                            /\ Heartbeat(i, j)
    \/ \E m \in appends : HandleAppendEntries(m)
    \/ \E m \in appends : SetFree(m)
    \/ \E m \in appends : HandleAppendEntriesResp(m)
    \/ \E i, j \in Server : RpcError(i, j)
    \/ \E i \in Server : Crash(i)

MCSpec == ReplicationInit /\ [][MCNext]_vars

\* The heartbeat timer is rescheduled as long as the server leads, the append
\* thread wakes up when it is told to, and a message that is neither lost nor
\* handled is handled in the end.
MCFairness ==
    /\ \A i \in Server : WF_vars(AppendEntriesInBg(i))
    /\ \A i, j \in Server :
          /\ WF_vars(i # j /\ Heartbeat(i, j))
          /\ WF_vars(\E m \in appends : m.src = i /\ m.dst = j
                                        /\ HandleAppendEntries(m))
          /\ WF_vars(\E m \in appends : m.src = i /\ m.dst = j
                                        /\ HandleAppendEntriesResp(m))

MCLiveSpec == MCSpec /\ MCFairness
=============================================================================
