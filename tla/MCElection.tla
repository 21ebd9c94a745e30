----------------------------- MODULE MCElection -----------------------------
(* Election for TLC: three servers, failures counted, the servers           *)
(* that may time out chosen.                                                 *)
EXTENDS Election, TLC

CONSTANTS
    s1, s2, s3,
    Starters,       \* the servers whose election timer expires
    MaxTimeouts,    \* bound on election timeouts
    MaxFailures,    \* bound on RPC errors and crashes
    MaxTransfers    \* bound on leadership transfers and resignations

VARIABLES timeouts, failures, transfers, stopped

mcVars == <<electionVars, timeouts, failures, transfers, stopped>>

MCPriority == [i \in Server |-> IF i = s1 THEN 30 ELSE IF i = s2 THEN 3 ELSE 0]

MCInit ==
    /\ ElectionInit
    /\ timeouts = 0 /\ failures = 0 /\ transfers = 0
    /\ stopped = FALSE

Counted(n, max) == n < max /\ n' = n + 1
Calm == UNCHANGED <<timeouts, failures, transfers, stopped>>
Failing == Counted(failures, MaxFailures) /\ UNCHANGED <<timeouts, transfers, stopped>>
Yielding == Counted(transfers, MaxTransfers) /\ UNCHANGED <<timeouts, failures, stopped>>

\* The RPC clients renewed by a pre-vote: all after a heartbeat, later the
\* broken ones or, after a long silence, all.
Broken(i) == {j \in Server : slot[i][j].kind = "broken"}
Renewals(i) == IF hbAlive[i] THEN {Peers(i)} ELSE {Broken(i), Peers(i)}

Timeout(i) ==
    /\ Counted(timeouts, MaxTimeouts) /\ UNCHANGED <<failures, transfers, stopped>>
    /\ \E renewed \in Renewals(i), late \in {FALSE, AllowZeroPriority} : ElectionTimeout(i, renewed, late)

MCNext ==
    \/ \E i \in Starters : Timeout(i)
    \/ Calm /\ \E m \in notices : HandlePreVoteReq(m)
    \/ Calm /\ \E m \in notices : SetFree(m)
    \/ Calm /\ \E m \in notices, late \in {FALSE, AllowZeroPriority} : HandlePreVoteResp(m, late)
    \/ Calm /\ \E m \in ballots : VoteReq(m)
    \/ Calm /\ \E m \in ballots : VoteResp(m)
    \/ Calm /\ \E m \in ballots : StaleVoteResp(m)
    \/ Calm /\ \E i, j \in Server : HearLeader(i, j, TRUE)
    \/ Calm /\ \E i \in Server : LeaderTick(i)
    \/ Calm /\ \E m \in notices : TakeOver(m)
    \/ Calm /\ \E i, j \in Server : EmptyResp(i, j)
    \/ Yielding /\ \E i \in Server : Resign(i)
    \/ Yielding /\ \E i, j \in Server : TransferTo(i, j)
    \/ Failing /\ \E i, j \in Server : RpcError(i, j)
    \/ Failing /\ \E i \in Server : RestartServer(i)

MCSpec == MCInit /\ [][MCNext]_mcVars

-----------------------------------------------------------------------------
(* Liveness: only s1 campaigns until it stops for good, as a leader or       *)
(* before; then the timers of the others expire again and again.             *)
Up(i) == i = s1 <=> ~stopped

UpTimeout(i) ==
    /\ Calm /\ Up(i)
    /\ ElectionTimeout(i, IF hbAlive[i] THEN Peers(i) ELSE Broken(i), FALSE)

Answers(i) == i # s1 \/ ~stopped

LivePreVoteReq(i) ==
    Calm /\ Answers(i) /\ \E m \in notices : m.dst = i /\ HandlePreVoteReq(m)
LivePreVoteResp(i, j) ==
    /\ Calm /\ Answers(i)
    /\ \E m \in notices : m.dst = i /\ m.src = j /\ HandlePreVoteResp(m, FALSE)
LiveVoteReq(i) ==
    Calm /\ Answers(i) /\ \E m \in ballots : m.dst = i /\ VoteReq(m)
LiveVoteResp(i) ==
    Calm /\ Answers(i) /\ \E m \in ballots : m.dst = i /\ VoteResp(m)

LiveStep ==
    \/ ~stopped /\ stopped' = TRUE /\ UNCHANGED <<electionVars, timeouts, failures, transfers>>
    \/ \E i \in Server : UpTimeout(i)
    \/ \E i \in Server : LivePreVoteReq(i)
    \/ \E i, j \in Server : LivePreVoteResp(i, j)
    \/ \E i \in Server : LiveVoteReq(i)
    \/ \E i \in Server : LiveVoteResp(i)
    \/ Calm /\ \E m \in ballots : StaleVoteResp(m)
    \/ Calm /\ ~stopped /\ \E i, j \in Server : HearLeader(i, j, TRUE)
    \/ Calm /\ ~stopped /\ LeaderTick(s1)
    \/ Failing /\ stopped /\ \E j \in Server : RpcError(s2, j)

\* The behaviour is followed until the next vote has started.
Started(t) == \E i \in Server \ {s1} : term[i] > t \/ role[i] = "leader"
LiveNext == ~Started(term[s1]) /\ LiveStep

\* The timer of a server that is up is rescheduled, and a message that is
\* neither lost nor handled is handled in the end.
LiveFairness ==
    \A i \in Server \ {s1} :
        /\ WF_mcVars(UpTimeout(i))
        /\ WF_mcVars(LivePreVoteReq(i))
        /\ WF_mcVars(LiveVoteReq(i))
        /\ WF_mcVars(LiveVoteResp(i))
        /\ \A j \in Server : WF_mcVars(LivePreVoteResp(i, j))

LiveSpec == MCInit /\ [][LiveNext]_mcVars /\ LiveFairness

(* When the leader stops, the target priority decays and the pre-votes pass  *)
(* until another server has started the vote of a later term or leads,       *)
(* although its priority is far below the leader's and an RPC may fail       *)
(* (handle_election_timeout, decay_target_priority, request_prevote,         *)
(* handle_prevote_resp).                                                     *)
NextVoteStarts ==
    \A t \in 0..(MaxTerm - 1) :
        (stopped /\ term[s1] = t) ~> Started(t)
=============================================================================
