------------------------------- MODULE Voting -------------------------------
(***************************************************************************)
(* The voting part of NuRaft's leader election: terms, votes, the two      *)
(* vote counters and the persisted server state (src/src/handle_vote.cxx,  *)
(* update_term and become_follower of src/src/raft_server.cxx).            *)
(*                                                                         *)
(* What decides WHEN a vote starts (timers, the pre-vote round,            *)
(* priorities) and WHETHER a log is recent enough is left to the caller,   *)
(* as the parameters dsts, info and okay of the actions, so that what is   *)
(* proved of VotingSpec holds of every such policy.                        *)
(*                                                                         *)
(* A handler runs under raft_server::lock_, so it is one action.           *)
(***************************************************************************)
EXTENDS Naturals, FiniteSets

CONSTANTS
    Server,                 \* the voting members
    Nil,                    \* the value -1 of voted_for_ and leader_
    CustomElectionQuorum,   \* raft_params::custom_election_quorum_size_
    VoteInfo,               \* what a vote request carries besides its term
    MaxTerm                 \* bound on the terms of a behaviour

NumVotingMembers == Cardinality(Server)

\* The quorum EXCLUDING the candidate itself.
QuorumForElection ==
    IF CustomElectionQuorum = 0 \/ CustomElectionQuorum > NumVotingMembers
    THEN NumVotingMembers \div 2
    ELSE CustomElectionQuorum - 1

ASSUME ServerAssumption == IsFiniteSet(Server) /\ Nil \notin Server
ASSUME BoundAssumption == MaxTerm \in Nat /\ CustomElectionQuorum \in Nat

\* Two election quorums meet: true of the default size, and what an operator
\* who sets custom_election_quorum_size_ has to respect.
ASSUME QuorumAssumption == 2 * (QuorumForElection + 1) > NumVotingMembers

VARIABLES
    term,       \* srv_state::term_
    votedFor,   \* srv_state::voted_for_
    stored,     \* the <<term_, voted_for_>> that save_state last wrote
    role,       \* role_
    granted,    \* votes_granted_
    responded,  \* votes_responded_
    completed,  \* election_completed_
    ballots     \* vote requests and responses in flight

(* History variables: nothing reads them. *)
VARIABLES
    voters,     \* voters[i]: the servers whose votes granted[i] counts
    cast,       \* every vote ever given: <<voter, term, candidate>>
    leaders     \* every leadership ever won: <<server, term>>

countVars == <<granted, responded, completed, voters>>
histVars == <<cast, leaders>>
voteVars == <<term, votedFor, stored, role, countVars, ballots, histVars>>

Role == {"follower", "candidate", "leader"}
Term == 0..MaxTerm

VoteRequest ==
    [type : {"request_vote_request"}, src : Server, dst : Server,
     term : Term, info : VoteInfo]

\* req is the term of the request being answered: the RPC layer hands a
\* response to the callback of its own request.
VoteResponse ==
    [type : {"request_vote_response"}, src : Server, dst : Server,
     term : Term, accepted : BOOLEAN, req : Term]

TypeOK ==
    /\ term \in [Server -> Term]
    /\ votedFor \in [Server -> Server \cup {Nil}]
    /\ stored \in [Server -> Term \X (Server \cup {Nil})]
    /\ role \in [Server -> Role]
    /\ granted \in [Server -> Nat]
    /\ responded \in [Server -> Nat]
    /\ completed \in [Server -> BOOLEAN]
    /\ voters \in [Server -> SUBSET Server]
    /\ ballots \subseteq VoteRequest \cup VoteResponse
    /\ cast \subseteq Server \X Term \X Server
    /\ leaders \subseteq Server \X Term

-----------------------------------------------------------------------------
(* A fresh cluster: srv_state() has term 0 and voted for nobody. *)
VotingInit ==
    /\ term = [i \in Server |-> 0]
    /\ votedFor = [i \in Server |-> Nil]
    /\ stored = [i \in Server |-> <<0, Nil>>]
    /\ role = [i \in Server |-> "follower"]
    /\ granted = [i \in Server |-> 0]
    /\ responded = [i \in Server |-> 0]
    /\ completed = [i \in Server |-> TRUE]
    /\ voters = [i \in Server |-> {}]
    /\ ballots = {}
    /\ cast = {}
    /\ leaders = {}

-----------------------------------------------------------------------------
(* update_term(t) at i, as a change of every variable it writes. *)
NewerTerm(i, t) == t > term[i]

UpdateTerm(i, t) ==
    /\ NewerTerm(i, t)
    /\ term' = [term EXCEPT ![i] = t]
    /\ votedFor' = [votedFor EXCEPT ![i] = Nil]
    /\ stored' = [stored EXCEPT ![i] = <<t, Nil>>]
    /\ role' = [role EXCEPT ![i] = "follower"]
    /\ granted' = [granted EXCEPT ![i] = 0]
    /\ responded' = [responded EXCEPT ![i] = 0]
    /\ completed' = [completed EXCEPT ![i] = FALSE]
    /\ voters' = [voters EXCEPT ![i] = {}]

\* Slip: the quorum without the candidate is taken for the whole quorum.
ElectedByTooFew(g) == g >= QuorumForElection

\* i wins with g votes.
Elected(g) == g >= QuorumForElection + 1

\* request_vote: one request to every peer in dsts (a peer whose RPC slot is
\* busy is skipped, so dsts is any set of peers).
VoteRequestsTo(i, dsts, t, info) ==
    {[type |-> "request_vote_request", src |-> i, dst |-> j,
      term |-> t, info |-> info] : j \in dsts}

\* initiate_vote followed by request_vote: a new term, a vote for itself that
\* is saved before anything is sent, and the requests; a candidate that needs
\* no other vote is the leader at once.
InitiateVote(i, dsts, info) ==
    LET t == term[i] + 1
        won == 1 > QuorumForElection
    IN  /\ term[i] < MaxTerm
        /\ dsts \subseteq Server \ {i}
        /\ term' = [term EXCEPT ![i] = t]
        /\ votedFor' = [votedFor EXCEPT ![i] = i]
        /\ stored' = [stored EXCEPT ![i] = <<t, i>>]
        /\ granted' = [granted EXCEPT ![i] = 1]
        /\ responded' = [responded EXCEPT ![i] = 1]
        /\ voters' = [voters EXCEPT ![i] = {i}]
        /\ cast' = cast \cup {<<i, t, i>>}
        /\ completed' = [completed EXCEPT ![i] = won]
        /\ role' = [role EXCEPT ![i] = IF won THEN "leader" ELSE "candidate"]
        /\ leaders' = IF won THEN leaders \cup {<<i, t>>} ELSE leaders
        /\ ballots' = IF won THEN ballots
                      ELSE ballots \cup VoteRequestsTo(i, dsts, t, info)

\* handle_vote_req's decision at a server in term t that has voted for v.
\* okay: the log is recent enough and no priority rule refuses the candidate.
Grants(m, t, v, okay) == m.term = t /\ okay /\ v \in {Nil, m.src}

\* process_req for a vote request: update_term, then handle_vote_req.  The
\* vote is saved before the response leaves.
HandleVoteReq(m, okay) ==
    LET i == m.dst
        newer == NewerTerm(i, m.term)
        t == IF newer THEN m.term ELSE term[i]
        v == IF newer THEN Nil ELSE votedFor[i]
        grant == Grants(m, t, v, okay)
    IN  /\ m \in ballots
        /\ m.type = "request_vote_request"
        /\ term' = [term EXCEPT ![i] = t]
        /\ votedFor' = [votedFor EXCEPT ![i] = IF grant THEN m.src ELSE v]
        /\ stored' = IF newer \/ grant
                     THEN [stored EXCEPT ![i] =
                             <<t, IF grant THEN m.src ELSE v>>]
                     ELSE stored
        /\ IF newer
           THEN /\ role' = [role EXCEPT ![i] = "follower"]
                /\ granted' = [granted EXCEPT ![i] = 0]
                /\ responded' = [responded EXCEPT ![i] = 0]
                /\ completed' = [completed EXCEPT ![i] = FALSE]
                /\ voters' = [voters EXCEPT ![i] = {}]
           ELSE UNCHANGED <<role, countVars>>
        /\ ballots' = (ballots \ {m}) \cup
              {[type |-> "request_vote_response", src |-> i, dst |-> m.src,
                term |-> t, accepted |-> grant, req |-> m.term]}
        /\ cast' = IF grant THEN cast \cup {<<i, t, m.src>>} ELSE cast
        /\ UNCHANGED leaders

\* The response counts: the election of this very term is still open.
Counts(i, m) == ~completed[i] /\ m.term = term[i]

\* handle_peer_resp for a vote response: a newer term ends the handler
\* (update_term), otherwise handle_vote_resp.  There is no check of the role.
HandleVoteResp(m) ==
    LET i == m.dst
        g == granted[i] + (IF m.accepted THEN 1 ELSE 0)
        r == responded[i] + 1
    IN  /\ m \in ballots
        /\ m.type = "request_vote_response"
        /\ ballots' = ballots \ {m}
        /\ \/ /\ UpdateTerm(i, m.term)
              /\ UNCHANGED histVars
           \/ /\ ~NewerTerm(i, m.term)
              /\ ~Counts(i, m)
              /\ UNCHANGED <<term, votedFor, stored, role, countVars, histVars>>
           \/ /\ ~NewerTerm(i, m.term)
              /\ Counts(i, m)
              /\ granted' = [granted EXCEPT ![i] = g]
              /\ responded' = [responded EXCEPT ![i] = r]
              /\ voters' = IF m.accepted
                           THEN [voters EXCEPT ![i] = @ \cup {m.src}]
                           ELSE voters
              /\ completed' = [completed EXCEPT
                                 ![i] = r >= NumVotingMembers \/ Elected(g)]
              /\ role' = IF Elected(g) THEN [role EXCEPT ![i] = "leader"]
                         ELSE role
              /\ leaders' = IF Elected(g) THEN leaders \cup {<<i, term[i]>>}
                            ELSE leaders
              /\ UNCHANGED <<term, votedFor, stored, cast>>

\* Any other request or response of a newer term (append_entries,
\* install_snapshot) goes through update_term as well.  A term in a message
\* is, or was, the term of its sender.
ObserveTerm(i, t) ==
    /\ \E j \in Server : t <= term[j]
    /\ UpdateTerm(i, t)
    /\ UNCHANGED <<ballots, histVars>>

\* become_follower without a new term: a candidate hears the leader of its
\* term, a leader resigns or its leadership expires.
BecomeFollower(i) ==
    /\ role[i] # "follower"
    /\ role' = [role EXCEPT ![i] = "follower"]
    /\ UNCHANGED <<term, votedFor, stored, countVars, ballots, histVars>>

\* request_prevote makes the server a candidate of its current term and leaves
\* the vote counters as they are.
BecomeCandidate(i) ==
    /\ role[i] = "follower"
    /\ role' = [role EXCEPT ![i] = "candidate"]
    /\ UNCHANGED <<term, votedFor, stored, countVars, ballots, histVars>>

\* A crash and the constructor: only what save_state wrote survives.
Restart(i) ==
    /\ term' = [term EXCEPT ![i] = stored[i][1]]
    /\ votedFor' = [votedFor EXCEPT ![i] = stored[i][2]]
    /\ role' = [role EXCEPT ![i] = "follower"]
    /\ granted' = [granted EXCEPT ![i] = 0]
    /\ responded' = [responded EXCEPT ![i] = 0]
    /\ completed' = [completed EXCEPT ![i] = TRUE]
    /\ voters' = [voters EXCEPT ![i] = {}]
    /\ UNCHANGED <<stored, ballots, histVars>>

\* The connection broke, or the response came back on an RPC client that has
\* been replaced since (peer::handle_rpc_result ignores it).
LoseBallot(m) ==
    /\ m \in ballots
    /\ ballots' = ballots \ {m}
    /\ UNCHANGED <<term, votedFor, stored, role, countVars, histVars>>

VotingNext ==
    \/ \E i \in Server, dsts \in SUBSET Server, info \in VoteInfo :
          InitiateVote(i, dsts, info)
    \/ \E m \in ballots, okay \in BOOLEAN : HandleVoteReq(m, okay)
    \/ \E m \in ballots : HandleVoteResp(m)
    \/ \E i \in Server, t \in Term : ObserveTerm(i, t)
    \/ \E i \in Server : BecomeFollower(i)
    \/ \E i \in Server : BecomeCandidate(i)
    \/ \E i \in Server : Restart(i)
    \/ \E m \in ballots : LoseBallot(m)

VotingSpec == VotingInit /\ [][VotingNext]_voteVars

-----------------------------------------------------------------------------
(* No two servers ever become leader of the same term, at the same time or   *)
(* one after the other, whatever crashes, late responses and lost messages   *)
(* come between request_vote, handle_vote_req and handle_vote_resp.          *)
ElectionSafety ==
    \A a, b \in leaders : a[2] = b[2] => a[1] = b[1]

(* A server votes for at most one candidate in a term, also when it crashes  *)
(* and restarts after answering: handle_vote_req saves the vote before the   *)
(* response is sent.                                                         *)
VotesOnce ==
    \A a, b \in cast : a[1] = b[1] /\ a[2] = b[2] => a[3] = b[3]

(* No step lowers a server's term, a crash and restart included: update_term *)
(* and request_vote save the state before they return.                       *)
TermsNeverDecrease ==
    [][\A i \in Server : term'[i] >= term[i]]_voteVars

-----------------------------------------------------------------------------
(* The inductive strengthening of ElectionSafety.                            *)

Requests == {m \in ballots : m.type = "request_vote_request"}
Responses == {m \in ballots : m.type = "request_vote_response"}

(* Between two handlers memory and disk agree: every handler that changes    *)
(* the term or the vote also saves it.                                       *)
DurableInv == \A i \in Server : stored[i] = <<term[i], votedFor[i]>>

(* Of a candidate's current term there is one request per peer, and its      *)
(* answer is neither in flight nor counted yet.                              *)
RequestInv ==
    \A m \in Requests :
        /\ m.src # m.dst
        /\ m.term <= term[m.src]
        /\ m.term = term[m.src] =>
              /\ m.dst \notin voters[m.src]
              /\ \A n \in Requests :
                    n.src = m.src /\ n.dst = m.dst /\ n.term = m.term => n = m
              /\ \A r \in Responses :
                    r.src = m.dst /\ r.dst = m.src => r.req # m.term

(* A granting response stands for a vote that was cast and is not counted.   *)
ResponseInv ==
    \A r \in Responses :
        /\ r.src # r.dst
        /\ r.req <= term[r.dst]
        /\ r.accepted => /\ r.term = r.req
                         /\ <<r.src, r.term, r.dst>> \in cast
                         /\ r.term = term[r.dst] => r.src \notin voters[r.dst]

(* A vote is of the voter's present or of a past term, and the vote of the   *)
(* present term is the one the server remembers.                             *)
CastInv ==
    \A c \in cast :
        /\ c[2] <= term[c[1]]
        /\ c[2] = term[c[1]] => votedFor[c[1]] = c[3]

(* votes_granted_ is the number of servers that voted for i in i's term: no  *)
(* vote is counted twice although the counter keeps no identities.           *)
CountInv ==
    \A i \in Server :
        /\ granted[i] = Cardinality(voters[i])
        /\ \A j \in voters[i] : <<j, term[i], i>> \in cast

(* Every leadership was given by a quorum of the term.                       *)
LeaderInv ==
    \A l \in leaders :
        \E Q \in SUBSET Server :
            /\ Cardinality(Q) >= QuorumForElection + 1
            /\ \A j \in Q : <<j, l[2], l[1]>> \in cast

(* The inductive invariant of VotingSpec: what update_term, request_vote,    *)
(* handle_vote_req and handle_vote_resp together keep true.                  *)
VotingInv ==
    /\ TypeOK
    /\ DurableInv
    /\ RequestInv
    /\ ResponseInv
    /\ CastInv
    /\ VotesOnce
    /\ CountInv
    /\ LeaderInv

=============================================================================
