------------------------------ MODULE Election ------------------------------
(***************************************************************************)
(* When NuRaft starts a vote: the election timer, the pre-vote round,      *)
(* priorities and the RPC slots (src/src/handle_vote.cxx,                  *)
(* handle_timeout.cxx, handle_priority.cxx).  The module refines Voting:   *)
(* it keeps Voting's variables and decides the parameters of its actions.  *)
(*                                                                         *)
(* Logs do not change here: some are complete, those of Lagging are not.   *)
(* A heartbeat is one step of leader and follower.  A peer                 *)
(* object has one slot for requests; the slot is busy until the response   *)
(* comes back on the RPC client that sent the request.                     *)
(***************************************************************************)
EXTENDS Voting, FiniteSetsExt

CONSTANTS
    Priority,           \* srv_config::priority_ of each server
    Lagging,            \* the servers whose log is behind that of the others
    AllowZeroPriority,  \* raft_params::allow_temporary_zero_priority_leader_
    RejectionLimit,     \* raft_limits_.pre_vote_rejection_limit_
    MaxWaiting          \* bound on the responses that wait for lock_

ASSUME ElectionAssumption ==
    /\ Priority \in [Server -> Nat] /\ Lagging \subseteq Server
    /\ AllowZeroPriority \in BOOLEAN
    /\ RejectionLimit \in Nat \ {0} /\ MaxWaiting \in Nat
    /\ VoteInfo = BOOLEAN   \* force_vote of initiate_vote

VARIABLES
    hbAlive,    \* hb_alive_
    leaderId,   \* leader_
    preVote,    \* pre_vote_: term_, done_, live_, dead_
    rejects,    \* pre_vote_.quorum_reject_count_
    target,     \* target_priority_
    slot,       \* slot[i][j]: the request that occupies i's peer object for j
    notices,    \* pre-vote and takeover messages on live RPC clients
    exited      \* the servers that called system_exit(N22)

(* History variable. *)
VARIABLE
    accepts     \* accepts[i]: the servers counted in preVote[i].dead

preVars == <<hbAlive, leaderId, preVote, rejects, target, slot, notices,
             exited, accepts>>
electionVars == <<voteVars, preVars>>

Peers(i) == Server \ {i}

Slot == [kind : {"free", "broken", "prevote", "vote", "reconnect", "takeover"},
         term : Term]
Free == [kind |-> "free", term |-> 0]

NoticeRequest ==
    [type : {"pre_vote_request", "leadership_takeover"},
     src : Server, dst : Server, term : Term]

\* freed: handle_rpc_result has freed the slot, handle_peer_resp waits for
\* lock_.
PreVoteResponse ==
    [type : {"pre_vote_response"}, src : Server, dst : Server, term : Term,
     accepted : BOOLEAN, freed : BOOLEAN]

ElectionTypeOK ==
    /\ hbAlive \in [Server -> BOOLEAN]
    /\ leaderId \in [Server -> Server \cup {Nil}]
    /\ preVote \in [Server -> [term : Term, done : BOOLEAN, live : Nat, dead : Nat]]
    /\ rejects \in [Server -> Nat]
    /\ target \in [Server -> 1..Max({1} \cup {Priority[i] : i \in Server})]
    /\ slot \in [Server -> [Server -> Slot]]
    /\ notices \subseteq NoticeRequest \cup PreVoteResponse
    /\ exited \subseteq Server
    /\ accepts \in [Server -> SUBSET Server]

\* pre_vote_status_t::reset.
FreshPreVote(t) == [term |-> t, done |-> FALSE, live |-> 0, dead |-> 0]

ElectionInit ==
    /\ VotingInit
    /\ hbAlive = [i \in Server |-> FALSE]
    /\ leaderId = [i \in Server |-> Nil]
    /\ preVote = [i \in Server |-> FreshPreVote(0)]
    /\ rejects = [i \in Server |-> 0]
    /\ target = [i \in Server |-> 1]
    /\ slot = [i \in Server |-> [j \in Server |-> Free]]
    /\ notices = {}
    /\ exited = {}
    /\ accepts = [i \in Server |-> {}]

-----------------------------------------------------------------------------
(* Priorities.                                                               *)

\* Slip: a fifth is taken off, which is nothing below 5.
DecayedByFifth(p) == Max({1, p - p \div 5})

\* decay_target_priority.
Decayed(p) == Max({1, p - Max({10, p \div 5})})

\* update_target_priority, without its effect on hb_alive_ and pre_vote_.
TargetPriority ==
    LET top == Max({Priority[i] : i \in Server})
    IN  IF top > 0 THEN top ELSE 1

\* i's priority lets it start a (pre-)vote; late: priority_change_timer_ has
\* run for 20 heartbeats (check_cond_for_zp_election).
MayCampaign(i, tgt, late) ==
    \/ Priority[i] >= tgt
    \/ AllowZeroPriority /\ tgt = 1 /\ Priority[i] = 0 /\ late

\* log_okay: the log of j is at least as recent as that of i.
LogOkay(j, i) == j \in Lagging => i \in Lagging

\* handle_vote_req does not refuse the candidate for its priority.
PriorityOkay(m, tgt) ==
    m.info \/ Priority[m.src] = 0 \/ Priority[m.src] >= tgt

-----------------------------------------------------------------------------
(* RPC slots.                                                                *)

FreePeers(i, slots) == {j \in Peers(i) : slots[j].kind = "free"}

Occupy(slots, dsts, kind, t) ==
    [j \in Server |-> IF j \in dsts THEN [kind |-> kind, term |-> t] ELSE slots[j]]

\* The messages that die with i's RPC clients to the peers in dead.
OnClients(i, dead) ==
    {m \in notices :
        \/ m.type # "pre_vote_response" /\ m.src = i /\ m.dst \in dead
        \/ m.type = "pre_vote_response" /\ m.dst = i /\ m.src \in dead /\ ~m.freed}

-----------------------------------------------------------------------------
(* Starting a vote.                                                          *)

\* initiate_vote(force) of i with target priority tgt and the peer objects
\* slots.  The requests go to the peers that are free.
InitiateVoteAt(i, tgt, slots, force, late) ==
    LET dsts == FreePeers(i, slots)
        go == \/ force
              \/ MayCampaign(i, tgt, late)
              \/ QuorumForElection = 0 /\ Priority[i] > 0
        won == go /\ 1 > QuorumForElection
    IN  /\ IF go THEN InitiateVote(i, dsts, force) ELSE UNCHANGED voteVars
        /\ slot' = [slot EXCEPT ![i] = IF go /\ ~won
                                       THEN Occupy(slots, dsts, "vote", term[i] + 1)
                                       ELSE slots]
        /\ hbAlive' = IF won THEN hbAlive ELSE [hbAlive EXCEPT ![i] = FALSE]
        /\ leaderId' = [leaderId EXCEPT ![i] = IF won THEN i ELSE Nil]

\* Slip: the votes of the last round are kept.
RequestPreVoteKeeping(i, tgt, renewed, late) ==
    LET slots == Occupy(slot[i], renewed, "free", 0)
        dsts == IF MayCampaign(i, tgt, late) THEN FreePeers(i, slots) ELSE {}
    IN  /\ IF role[i] = "follower" THEN BecomeCandidate(i) ELSE UNCHANGED voteVars
        /\ hbAlive' = [hbAlive EXCEPT ![i] = FALSE]
        /\ leaderId' = [leaderId EXCEPT ![i] = Nil]
        /\ preVote' = [preVote EXCEPT ![i].term = term[i], ![i].dead = @ + 1]
        /\ accepts' = [accepts EXCEPT ![i] = @ \cup {i}]
        /\ slot' = [slot EXCEPT ![i] = Occupy(slots, dsts, "prevote", term[i])]
        /\ notices' = (notices \ OnClients(i, renewed)) \cup
              {[type |-> "pre_vote_request", src |-> i, dst |-> j,
                term |-> term[i]] : j \in dsts}
        /\ UNCHANGED <<rejects, exited>>

\* request_prevote.  renewed: the peers whose RPC client is replaced; all of
\* them after a heartbeat, the broken and the inactive ones later, and each
\* only when its back-off timer has expired.
RequestPreVote(i, tgt, renewed, late) ==
    LET slots == Occupy(slot[i], renewed, "free", 0)
        dsts == IF MayCampaign(i, tgt, late) THEN FreePeers(i, slots) ELSE {}
    IN  /\ IF role[i] = "follower" THEN BecomeCandidate(i) ELSE UNCHANGED voteVars
        /\ hbAlive' = [hbAlive EXCEPT ![i] = FALSE]
        /\ leaderId' = [leaderId EXCEPT ![i] = Nil]
        /\ preVote' = [preVote EXCEPT ![i] = [FreshPreVote(term[i]) EXCEPT !.dead = 1]]
        /\ accepts' = [accepts EXCEPT ![i] = {i}]
        /\ slot' = [slot EXCEPT ![i] = Occupy(slots, dsts, "prevote", term[i])]
        /\ notices' = (notices \ OnClients(i, renewed)) \cup
              {[type |-> "pre_vote_request", src |-> i, dst |-> j,
                term |-> term[i]] : j \in dsts}
        /\ UNCHANGED <<rejects, exited>>

\* handle_election_timeout.
ElectionTimeout(i, renewed, late) ==
    LET tgt == IF hbAlive[i] THEN target[i] ELSE Decayed(target[i])
        stale == preVote[i].term # term[i]
        done == ~stale /\ preVote[i].done
    IN  /\ i \notin exited
        /\ role[i] # "leader"
        /\ target' = [target EXCEPT ![i] = tgt]
        /\ IF done \/ QuorumForElection = 0
           THEN /\ InitiateVoteAt(i, tgt, slot[i], FALSE, late)
                /\ preVote' = IF stale
                              THEN [preVote EXCEPT ![i] = FreshPreVote(term[i])]
                              ELSE preVote
                /\ accepts' = IF stale THEN [accepts EXCEPT ![i] = {}] ELSE accepts
                /\ UNCHANGED <<rejects, notices, exited>>
           ELSE RequestPreVote(i, tgt, renewed, late)

\* handle_prevote_req: answered without a look at terms, logs or roles.
HandlePreVoteReq(m) ==
    /\ m \in notices
    /\ m.type = "pre_vote_request"
    /\ m.dst \notin exited
    /\ notices' = (notices \ {m}) \cup
          {[type |-> "pre_vote_response", src |-> m.dst, dst |-> m.src,
            term |-> m.term, accepted |-> ~hbAlive[m.dst], freed |-> FALSE]}
    /\ UNCHANGED <<voteVars, hbAlive, leaderId, preVote, rejects, target, slot,
                   exited, accepts>>

\* handle_rpc_result frees the slot, the handler still waits for lock_.
SetFree(m) ==
    /\ m \in notices
    /\ m.type = "pre_vote_response"
    /\ ~m.freed
    /\ Cardinality({n \in notices : n.type = "pre_vote_response" /\ n.freed})
          < MaxWaiting
    /\ notices' = (notices \ {m}) \cup {[m EXCEPT !.freed = TRUE]}
    /\ slot' = [slot EXCEPT ![m.dst][m.src] = Free]
    /\ UNCHANGED <<voteVars, hbAlive, leaderId, preVote, rejects, target, exited,
                   accepts>>

\* send_reconnect_request of a server that knows lead as the leader.
SendReconnect(i, lead, slots) ==
    /\ slot' = [slot EXCEPT ![i] =
                  IF lead \in FreePeers(i, slots)
                  THEN Occupy(slots, {lead}, "reconnect", 0) ELSE slots]
    /\ exited' = IF lead = Nil THEN exited \cup {i} ELSE exited

\* handle_prevote_resp.  A majority of acceptances starts the vote, a majority
\* of denials counts as a rejection, and too many of those ask the leader for
\* a new connection.
HandlePreVoteResp(m, late) ==
    LET i == m.dst
        slots == IF m.freed THEN slot[i] ELSE [slot[i] EXCEPT ![m.src] = Free]
        pv == IF m.accepted THEN [preVote[i] EXCEPT !.dead = @ + 1]
              ELSE [preVote[i] EXCEPT !.live = @ + 1]
        wins == pv.dead >= QuorumForElection + 1 /\ ~pv.done
        rejected == pv.live >= QuorumForElection + 1
        tooMany == rejected /\ rejects[i] + 1 >= RejectionLimit
    IN  /\ m \in notices
        /\ m.type = "pre_vote_response"
        /\ i \notin exited
        /\ notices' = notices \ {m}
        /\ IF m.term # preVote[i].term
           THEN /\ slot' = [slot EXCEPT ![i] = slots]
                /\ UNCHANGED <<voteVars, hbAlive, leaderId, preVote, rejects, exited,
                               accepts>>
           ELSE /\ preVote' = [preVote EXCEPT ![i] = [pv EXCEPT !.done = @ \/ wins]]
                /\ accepts' = IF m.accepted
                              THEN [accepts EXCEPT ![i] = @ \cup {m.src}]
                              ELSE accepts
                /\ rejects' = IF rejected THEN [rejects EXCEPT ![i] = @ + 1]
                              ELSE rejects
                /\ \/ /\ wins
                      /\ InitiateVoteAt(i, target[i], slots, FALSE, late)
                      /\ UNCHANGED exited
                   \/ /\ ~wins /\ tooMany
                      /\ SendReconnect(i, leaderId[i], slots)
                      /\ UNCHANGED <<voteVars, hbAlive, leaderId>>
                   \/ /\ ~wins /\ ~tooMany
                      /\ slot' = [slot EXCEPT ![i] = slots]
                      /\ UNCHANGED <<voteVars, hbAlive, leaderId, exited>>
        /\ UNCHANGED target

-----------------------------------------------------------------------------
(* Voting.                                                                   *)

\* become_follower as a part of update_term.
RejectsAfter(i, newer) == IF newer THEN [rejects EXCEPT ![i] = 0] ELSE rejects

\* process_req for a vote request.
VoteReq(m) ==
    LET i == m.dst
        newer == NewerTerm(i, m.term)
        tgt == IF newer /\ ~hbAlive[i] THEN Decayed(target[i]) ELSE target[i]
    IN  /\ i \notin exited
        /\ HandleVoteReq(m, LogOkay(m.src, i) /\ PriorityOkay(m, tgt))
        /\ target' = [target EXCEPT ![i] = tgt]
        /\ rejects' = RejectsAfter(i, newer)
        /\ UNCHANGED <<hbAlive, leaderId, preVote, slot, notices, exited, accepts>>

\* A vote response on the RPC client that still waits for it.
VoteResp(m) ==
    LET i == m.dst
    IN  /\ i \notin exited
        /\ m.type = "request_vote_response"
        /\ slot[i][m.src] = [kind |-> "vote", term |-> m.req]
        /\ HandleVoteResp(m)
        /\ slot' = [slot EXCEPT ![i][m.src] = Free]
        /\ rejects' = RejectsAfter(i, NewerTerm(i, m.term) \/ leaders' # leaders)
        /\ leaderId' = IF leaders' # leaders THEN [leaderId EXCEPT ![i] = i]
                       ELSE leaderId
        /\ UNCHANGED <<hbAlive, preVote, target, notices, exited, accepts>>

\* A vote response on an RPC client that has been replaced, or to nobody.
StaleVoteResp(m) ==
    /\ m.type = "request_vote_response"
    /\ slot[m.dst][m.src] # [kind |-> "vote", term |-> m.req]
    /\ LoseBallot(m)
    /\ UNCHANGED preVars

-----------------------------------------------------------------------------
(* The leader.                                                               *)

\* update_target_priority.
UpdateTargetPriority(i, t) ==
    /\ target' = [target EXCEPT ![i] = TargetPriority]
    /\ hbAlive' = [hbAlive EXCEPT ![i] = TRUE]
    /\ preVote' = [preVote EXCEPT ![i] = FreshPreVote(t)]
    /\ accepts' = [accepts EXCEPT ![i] = {}]

\* append_entries of leader i at j, and the response.  leader_ is written only
\* when the logs match.
HearLeader(i, j, logOkay) ==
    /\ role[i] = "leader"
    /\ i # j /\ i \notin exited /\ j \notin exited
    /\ slot[i][j] = Free
    /\ \/ /\ ObserveTerm(j, term[i])
          /\ UpdateTargetPriority(j, term[i])
          /\ leaderId' = IF logOkay THEN [leaderId EXCEPT ![j] = i] ELSE leaderId
          /\ rejects' = [rejects EXCEPT ![j] = 0]
       \/ /\ term[j] = term[i] /\ role[j] = "candidate"
          /\ BecomeFollower(j)
          /\ leaderId' = IF logOkay THEN [leaderId EXCEPT ![j] = i] ELSE leaderId
          /\ rejects' = [rejects EXCEPT ![j] = 0]
          /\ UNCHANGED <<target, hbAlive, preVote, accepts>>
       \/ /\ term[j] = term[i] /\ role[j] = "follower"
          /\ UpdateTargetPriority(j, term[j])
          /\ leaderId' = IF logOkay THEN [leaderId EXCEPT ![j] = i] ELSE leaderId
          /\ UNCHANGED <<voteVars, rejects>>
       \/ /\ ObserveTerm(i, term[j])
          /\ rejects' = [rejects EXCEPT ![i] = 0]
          /\ UNCHANGED <<target, hbAlive, preVote, accepts, leaderId>>
    /\ UNCHANGED <<slot, notices, exited>>

\* handle_hb_timeout, for the leader's own state.
LeaderTick(i) ==
    /\ role[i] = "leader" /\ i \notin exited
    /\ UpdateTargetPriority(i, term[i])
    /\ UNCHANGED <<voteVars, leaderId, rejects, slot, notices, exited>>

\* yield_leadership(true), the resignation of handle_hb_timeout and the expiry
\* of check_leadership_validity.
Resign(i) ==
    /\ role[i] = "leader" /\ i \notin exited
    /\ BecomeFollower(i)
    /\ leaderId' = [leaderId EXCEPT ![i] = Nil]
    /\ hbAlive' = [hbAlive EXCEPT ![i] = FALSE]
    /\ rejects' = [rejects EXCEPT ![i] = 0]
    /\ UNCHANGED <<preVote, target, slot, notices, exited, accepts>>

\* The resignation of handle_append_entries_resp: j has the whole log and is
\* told to take over.
TransferTo(i, j) ==
    /\ role[i] = "leader" /\ i \notin exited /\ j # i
    /\ LogOkay(j, i)
    /\ slot[i][j] = Free
    /\ BecomeFollower(i)
    /\ leaderId' = [leaderId EXCEPT ![i] = Nil]
    /\ hbAlive' = [hbAlive EXCEPT ![i] = FALSE]
    /\ rejects' = [rejects EXCEPT ![i] = 0]
    /\ slot' = [slot EXCEPT ![i][j] = [kind |-> "takeover", term |-> term[i]]]
    /\ notices' = notices \cup {[type |-> "leadership_takeover", src |-> i,
                                 dst |-> j, term |-> term[i]]}
    /\ UNCHANGED <<preVote, target, exited, accepts>>

\* Slip: the successor leads without a vote.
TakeOverAtOnce(m) ==
    /\ m \in notices
    /\ m.type = "leadership_takeover"
    /\ m.dst \notin exited
    /\ role' = [role EXCEPT ![m.dst] = "leader"]
    /\ notices' = notices \ {m}
    /\ UNCHANGED <<term, votedFor, stored, countVars, ballots, histVars, slot, hbAlive,
                   leaderId, preVote, rejects, target, exited, accepts>>

\* handle_leadership_takeover: a forced vote without a pre-vote, whatever the
\* term of the request.
TakeOver(m) ==
    /\ m \in notices
    /\ m.type = "leadership_takeover"
    /\ m.dst \notin exited
    /\ IF role[m.dst] = "leader"
       THEN UNCHANGED <<voteVars, slot, hbAlive, leaderId>>
       ELSE InitiateVoteAt(m.dst, target[m.dst], slot[m.dst], TRUE, FALSE)
    /\ notices' = notices \ {m}
    /\ UNCHANGED <<preVote, rejects, target, exited, accepts>>

-----------------------------------------------------------------------------
(* Failures.                                                                 *)

\* The request in the slot fails: handle_rpc_result drops the RPC client.
RpcError(i, j) ==
    /\ slot[i][j].kind \notin {"free", "broken"}
    /\ slot' = [slot EXCEPT ![i][j] = [kind |-> "broken", term |-> 0]]
    /\ notices' = notices \ OnClients(i, {j})
    /\ UNCHANGED <<voteVars, hbAlive, leaderId, preVote, rejects, target, exited,
                   accepts>>

\* The response to a reconnect or a takeover request: it only frees the slot.
EmptyResp(i, j) ==
    /\ slot[i][j].kind \in {"reconnect", "takeover"}
    /\ \A m \in notices : m.type = "leadership_takeover" => <<m.src, m.dst>> # <<i, j>>
    /\ slot' = [slot EXCEPT ![i][j] = Free]
    /\ UNCHANGED <<voteVars, hbAlive, leaderId, preVote, rejects, target, notices,
                   exited, accepts>>

\* A crash and the constructor.
RestartServer(i) ==
    /\ i \notin exited
    /\ Restart(i)
    /\ hbAlive' = [hbAlive EXCEPT ![i] = FALSE]
    /\ leaderId' = [leaderId EXCEPT ![i] = Nil]
    /\ preVote' = [preVote EXCEPT ![i] = FreshPreVote(0)]
    /\ rejects' = [rejects EXCEPT ![i] = 0]
    /\ target' = [target EXCEPT ![i] = 1]
    /\ slot' = [slot EXCEPT ![i] = [j \in Server |-> Free]]
    /\ notices' = {m \in notices : i \notin {m.src, m.dst}}
    /\ accepts' = [accepts EXCEPT ![i] = {}]
    /\ UNCHANGED exited

ElectionNext ==
    \/ \E i \in Server, renewed \in SUBSET Server, late \in {FALSE, AllowZeroPriority} :
          renewed \subseteq Peers(i) /\ ElectionTimeout(i, renewed, late)
    \/ \E m \in notices : HandlePreVoteReq(m)
    \/ \E m \in notices : SetFree(m)
    \/ \E m \in notices, late \in {FALSE, AllowZeroPriority} : HandlePreVoteResp(m, late)
    \/ \E m \in ballots : VoteReq(m)
    \/ \E m \in ballots : VoteResp(m)
    \/ \E m \in ballots : StaleVoteResp(m)
    \/ \E i, j \in Server, logOkay \in BOOLEAN : HearLeader(i, j, logOkay)
    \/ \E i \in Server : LeaderTick(i)
    \/ \E i \in Server : Resign(i)
    \/ \E i, j \in Server : TransferTo(i, j)
    \/ \E m \in notices : TakeOver(m)
    \/ \E i, j \in Server : RpcError(i, j)
    \/ \E i, j \in Server : EmptyResp(i, j)
    \/ \E i \in Server : RestartServer(i)

ElectionSpec == ElectionInit /\ [][ElectionNext]_electionVars

-----------------------------------------------------------------------------
(* "Once the vote initiator receives acceptance from a majority of servers"  *)
(* (docs/prevote_protocol.md): pre_vote_.done_ is set only after a majority  *)
(* of different servers, the initiator included, said that they lost the     *)
(* leader, although the counter keeps no identities.                         *)
PreVoteByMajority ==
    \A i \in Server :
        preVote[i].done => Cardinality(accepts[i]) >= QuorumForElection + 1

(* A server whose pre-votes are rejected too often asks the leader for a new *)
(* connection ("we should re-establish the network connection",              *)
(* handle_prevote_resp): it knows a leader it can ask.                       *)
RejectedServerReconnects == exited = {}
=============================================================================
