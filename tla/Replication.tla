---------------------------- MODULE Replication ----------------------------
(***************************************************************************)
(* NuRaft's log replication (src/src/handle_append_entries.cxx), with the  *)
(* parts of raft_server.cxx and handle_commit.cxx it rests on:             *)
(* become_leader, process_req, handle_peer_resp and commit, and the RPC    *)
(* slot of class peer (src/src/peer.cxx).                                  *)
(*                                                                         *)
(* A log is the sequence of the terms of its entries: two entries of one   *)
(* index and term come from the same leader, hence are the same entry.     *)
(*                                                                         *)
(* The vote messages, their loss and the vote counters are Voting's        *)
(* subject.  Here a candidate's votes are the set of those who voted for   *)
(* it, a vote is one step of the voter, and the delay of the response is   *)
(* the delay of WinElection.  Term and vote are saved before any message   *)
(* leaves (Voting's DurableInv), so a crash keeps them.                    *)
(***************************************************************************)
EXTENDS Naturals, Sequences, FiniteSets, FiniteSetsExt

CONSTANTS
    Server,             \* the voting members
    Nil,                \* the value -1 of voted_for_
    MaxTerm,            \* bound on the terms
    MaxLog,             \* bound on the length of a log
    MaxAppendSize,      \* raft_params::max_append_size_
    MaxWaiting,         \* bound on the responses that wait for lock_
    MaxFailures         \* bound on the RPC errors, restarts and resignations

\* get_quorum_for_election and get_quorum_for_commit with their default
\* parameters: the quorum EXCLUDING the server itself.
Quorum == Cardinality(Server) \div 2

ASSUME ReplicationAssumption ==
    /\ IsFiniteSet(Server) /\ Nil \notin Server
    /\ Cardinality(Server) > 1
    /\ MaxTerm \in Nat
    /\ MaxLog \in Nat
    /\ MaxAppendSize \in Nat \ {0}
    /\ MaxWaiting \in Nat
    /\ MaxFailures \in Nat

VARIABLES
    term,       \* srv_state::term_
    votedFor,   \* srv_state::voted_for_
    role,       \* role_
    votes,      \* the servers that voted for i in i's term
    log,        \* log_store_
    commit,     \* quick_commit_index_
    precommit,  \* precommit_index_
    peer,       \* peer[i][j]: what i keeps in its peer object for j
    urgent,     \* bg_append_ea_: appended entries wait for the append thread
    appends,    \* append_entries requests and responses in flight
    failures,   \* RPC errors, restarts and resignations so far
    committed,  \* history: every <<index, term>> some server committed
    oldCounted  \* history: a commit was decided by counting the copies of an
                \* entry of an older term

electVars == <<term, votedFor, role, votes>>
histVars == <<committed, oldCounted>>
replVars == <<log, commit, precommit, peer, urgent, appends, failures, histVars>>
vars == <<electVars, replVars>>

Role == {"follower", "candidate", "leader"}
Term == 0..MaxTerm
Index == 0..MaxLog

\* rpc: "free", "busy" (a request is outstanding), or "broken" (rpc_ is null).
Peer == [next : 0..MaxLog + 1, matched : Index, pending : BOOLEAN,
         rpc : {"free", "busy", "broken"}]

\* live: the sender still waits for the answer on this very RPC client.
AppendRequest ==
    [type : {"append_entries_request"}, src : Server, dst : Server, term : Term,
     prevIdx : Index, prevTerm : Term, entries : Seq(Term), commit : Index,
     live : BOOLEAN]

\* freed: handle_rpc_result has freed the slot, handle_peer_resp waits for
\* lock_.
AppendResponse ==
    [type : {"append_entries_response"}, src : Server, dst : Server, term : Term,
     accepted : BOOLEAN, next : 1..MaxLog + 1, freed : BOOLEAN]

ReplicationTypeOK ==
    /\ term \in [Server -> Term]
    /\ votedFor \in [Server -> Server \cup {Nil}]
    /\ role \in [Server -> Role]
    /\ votes \in [Server -> SUBSET Server]
    /\ log \in [Server -> Seq(Term)]
    /\ commit \in [Server -> Index]
    /\ precommit \in [Server -> Index]
    /\ peer \in [Server -> [Server -> Peer]]
    /\ urgent \in [Server -> BOOLEAN]
    /\ appends \subseteq AppendRequest \cup AppendResponse
    /\ failures \in 0..MaxFailures
    /\ committed \subseteq Index \X Term
    /\ oldCounted \in BOOLEAN

NewPeer == [next |-> 0, matched |-> 0, pending |-> FALSE, rpc |-> "free"]

ReplicationInit ==
    /\ term = [i \in Server |-> 0]
    /\ votedFor = [i \in Server |-> Nil]
    /\ role = [i \in Server |-> "follower"]
    /\ votes = [i \in Server |-> {}]
    /\ log = [i \in Server |-> <<>>]
    /\ commit = [i \in Server |-> 0]
    /\ precommit = [i \in Server |-> 0]
    /\ peer = [i \in Server |-> [j \in Server |-> NewPeer]]
    /\ urgent = [i \in Server |-> FALSE]
    /\ appends = {}
    /\ failures = 0
    /\ committed = {}
    /\ oldCounted = FALSE

-----------------------------------------------------------------------------
(* Operators on logs.                                                        *)

\* term_for_log: 0 where there is no entry.
TermForLog(L, k) == IF k \in 1..Len(L) THEN L[k] ELSE 0

LastTerm(L) == TermForLog(L, Len(L))

\* Slip: a longer log is taken for a more recent one.
LengthOkayForVote(C, L) == Len(L) <= Len(C)

\* handle_vote_req: the candidate's log C is at least as recent as L.
LogOkayForVote(C, L) ==
    \/ LastTerm(C) > LastTerm(L)
    \/ LastTerm(C) = LastTerm(L) /\ Len(L) <= Len(C)

\* Slip: the term of the entry before the sent ones is not compared.
LogLongEnough(L, m) == m.prevIdx <= Len(L)

\* handle_append_entries: the entry before the sent ones is in the log.
LogOkay(L, m) ==
    \/ m.prevIdx = 0
    \/ /\ m.prevIdx \in 1..Len(L)
       /\ m.prevTerm = L[m.prevIdx]

\* The sent entries that the log does not hold yet.
Missing(L, m) ==
    {n \in 1..Len(m.entries) :
        m.prevIdx + n > Len(L) \/ L[m.prevIdx + n] # m.entries[n]}

\* Index of the first entry that is overwritten or appended.
WriteFrom(L, m) == m.prevIdx + Min(Missing(L, m))

\* Skip what is there, then write_at (which truncates) and append.
LogAfter(L, m) ==
    IF Missing(L, m) = {} THEN L
    ELSE SubSeq(L, 1, WriteFrom(L, m) - 1)
         \o SubSeq(m.entries, Min(Missing(L, m)), Len(m.entries))

\* A rollback below the commit index takes the commit index back.
CommitAfterRollback(L, c, m) ==
    IF Missing(L, m) # {} /\ WriteFrom(L, m) <= Len(L) /\ c >= WriteFrom(L, m)
    THEN WriteFrom(L, m) - 1
    ELSE c

MinOf(a, b) == IF a <= b THEN a ELSE b
MaxOf(a, b) == IF a >= b THEN a ELSE b

\* What a server with log L and commit index c has committed.
CommittedIn(L, c) == {<<k, L[k]>> : k \in 1..MinOf(c, Len(L))}

-----------------------------------------------------------------------------
(* The peers of a server, as functions of its peer objects ps.               *)

\* Slip: the leader's own copy counts twice.
IndexOfTooFew(i, ps, own) ==
    Max({k \in Index :
            Cardinality({j \in Server :
                (IF j = i THEN own ELSE ps[j].matched) >= k}) >= Quorum})

\* The largest index that a commit quorum has: element quorum_idx of the
\* indexes in descending order.  Nothing is said about the entry's term.
ExpectedCommittedLogIdx(i, ps, own) ==
    Max({k \in Index :
            Cardinality({j \in Server :
                (IF j = i THEN own ELSE ps[j].matched) >= k}) > Quorum})

\* request_append_entries(p) and create_append_entries_req for every peer in
\* dsts: a busy peer is skipped; a broken one in reconn (its back-off is over)
\* gets a new RPC client and its indexes are forgotten.
AfterRequest(ps, dsts, reconn, last) ==
    [j \in Server |->
        IF j \notin dsts \/ ps[j].rpc = "busy" THEN ps[j]
        ELSE LET renew == ps[j].rpc = "broken" /\ j \in reconn
             IN  [ps[j] EXCEPT
                    !.next = IF renew \/ @ = 0 THEN last + 1 ELSE @,
                    !.matched = IF renew /\ ps[j].next # 0 THEN 0 ELSE @,
                    !.rpc = IF renew \/ @ = "free" THEN "busy" ELSE "broken"]]

\* The requests that leave i when its peer objects go from ps to qs.
NewRequests(i, ps, qs, t, L, c) ==
    {[type |-> "append_entries_request", src |-> i, dst |-> j, term |-> t,
      prevIdx |-> qs[j].next - 1,
      prevTerm |-> TermForLog(L, qs[j].next - 1),
      entries |-> SubSeq(L, qs[j].next,
                         MinOf(Len(L), qs[j].next - 1 + MaxAppendSize)),
      commit |-> c, live |-> TRUE] :
        j \in {k \in Server : qs[k].rpc = "busy" /\ ps[k].rpc # "busy"}}

\* set_pending_commit for the peers that were busy.
PendBusy(ps, qs) ==
    [j \in Server |->
        IF ps[j].rpc = "busy" THEN [qs[j] EXCEPT !.pending = TRUE] ELSE qs[j]]

\* Slip: the next index is taken for the last one the peer has.
AfterAcceptOffByOne(p, next) == [p EXCEPT !.next = next + 1, !.matched = next]

\* handle_append_entries_resp: the peer has everything before next.
AfterAccept(p, next) == [p EXCEPT !.next = next, !.matched = next - 1]

\* The peer's log ends before next, or differs there: jump back or step back.
AfterDecline(p, next) ==
    [p EXCEPT !.next = IF @ > next THEN next ELSE IF @ # 0 THEN @ - 1 ELSE 0]

Peers(i) == Server \ {i}
Broken(i) == {j \in Peers(i) : peer[i][j].rpc = "broken"}

-----------------------------------------------------------------------------
(* Elections.                                                                *)

NewerTerm(i, t) == t > term[i]

\* update_term.
UpdateTerm(i, t) ==
    /\ NewerTerm(i, t)
    /\ term' = [term EXCEPT ![i] = t]
    /\ votedFor' = [votedFor EXCEPT ![i] = Nil]
    /\ role' = [role EXCEPT ![i] = "follower"]
    /\ votes' = [votes EXCEPT ![i] = {}]

\* initiate_vote and request_vote, at any moment.
StartElection(i) ==
    /\ role[i] # "leader"
    /\ term[i] < MaxTerm
    /\ term' = [term EXCEPT ![i] = @ + 1]
    /\ votedFor' = [votedFor EXCEPT ![i] = i]
    /\ role' = [role EXCEPT ![i] = "candidate"]
    /\ votes' = [votes EXCEPT ![i] = {i}]
    /\ UNCHANGED replVars

\* Slip: whom j voted for is not looked at.
InTermToVote(j, i) == term[j] <= term[i]

\* The request is of j's term, in which j has not voted, or of a newer one.
FreeToVote(j, i) ==
    term[j] <= term[i] /\ (term[j] = term[i] => votedFor[j] = Nil)

\* handle_vote_req at j grants the request of candidate i.
GrantVote(j, i) ==
    /\ role[i] = "candidate"
    /\ FreeToVote(j, i)
    /\ LogOkayForVote(log[i], log[j])
    /\ term' = [term EXCEPT ![j] = term[i]]
    /\ votedFor' = [votedFor EXCEPT ![j] = i]
    /\ role' = IF NewerTerm(j, term[i]) THEN [role EXCEPT ![j] = "follower"]
               ELSE role
    /\ votes' = [votes EXCEPT ![i] = @ \cup {j},
                             ![j] = IF NewerTerm(j, term[i]) THEN {} ELSE @]
    /\ UNCHANGED replVars

\* A vote request that j refuses, or the response to it, brings a newer term.
LearnTerm(i, j) ==
    /\ "candidate" \in {role[i], role[j]}
    /\ UpdateTerm(i, term[j])
    /\ UNCHANGED replVars

\* handle_vote_resp counts the last vote that was missing, and become_leader:
\* a configuration entry of the new term ends the log, every peer is expected
\* to have all before it, and every free peer is sent it.  matched_idx_ is not
\* reset.
WinElection(i, reconn) ==
    LET L == Append(log[i], term[i])
        ps == [j \in Server |-> IF j = i THEN peer[i][j]
                                ELSE [peer[i][j] EXCEPT !.next = Len(L)]]
        qs == AfterRequest(ps, Peers(i), reconn, Len(L))
    IN  /\ role[i] = "candidate"
        /\ Cardinality(votes[i]) >= Quorum + 1
        /\ Len(L) <= MaxLog
        /\ role' = [role EXCEPT ![i] = "leader"]
        /\ log' = [log EXCEPT ![i] = L]
        /\ precommit' = [precommit EXCEPT ![i] = Len(L)]
        /\ peer' = [peer EXCEPT ![i] = qs]
        /\ appends' = appends \cup NewRequests(i, ps, qs, term[i], L, commit[i])
        /\ UNCHANGED <<term, votedFor, votes, commit, urgent, failures, histVars>>

\* A leader resigns (handle_hb_timeout, check_leadership_validity).
Resign(i) ==
    /\ failures < MaxFailures
    /\ failures' = failures + 1
    /\ role[i] = "leader"
    /\ role' = [role EXCEPT ![i] = "follower"]
    /\ UNCHANGED <<term, votedFor, votes, log, commit, precommit, peer, urgent,
                   appends, histVars>>

-----------------------------------------------------------------------------
(* Replication.                                                              *)

\* handle_cli_req: append one entry of the current term.
ClientRequest(i) ==
    LET L == Append(log[i], term[i])
    IN  /\ role[i] = "leader"
        /\ Len(L) <= MaxLog
        /\ log' = [log EXCEPT ![i] = L]
        /\ precommit' = [precommit EXCEPT ![i] = MaxOf(@, Len(L))]
        /\ urgent' = [urgent EXCEPT ![i] = TRUE]
        /\ UNCHANGED <<electVars, commit, peer, appends, failures, histVars>>

RequestAppendEntries(i, dsts, reconn) ==
    LET qs == AfterRequest(peer[i], dsts, reconn, precommit[i])
    IN  /\ peer' = [peer EXCEPT ![i] = qs]
        /\ appends' = appends \cup
              NewRequests(i, peer[i], qs, term[i], log[i], commit[i])

\* append_entries_in_bg: request_append_entries for all peers, a leader only.
AppendEntriesInBg(i) ==
    /\ urgent[i]
    /\ urgent' = [urgent EXCEPT ![i] = FALSE]
    /\ IF role[i] = "leader"
       THEN \E reconn \in SUBSET Broken(i) :
               RequestAppendEntries(i, Peers(i), reconn)
       ELSE UNCHANGED <<peer, appends>>
    /\ UNCHANGED <<electVars, log, commit, precommit, failures, histVars>>

\* handle_hb_timeout.
Heartbeat(i, j) ==
    /\ role[i] = "leader"
    /\ peer[i][j].rpc # "busy"
    /\ \E reconn \in SUBSET (Broken(i) \cap {j}) :
          RequestAppendEntries(i, {j}, reconn)
    /\ UNCHANGED <<electVars, log, commit, precommit, urgent, failures, histVars>>

\* Receiving an append_entries request of its term makes a candidate a
\* follower; a leader would ignore it (see NoRivalLeader).
FollowLeader(i, t) ==
    \/ UpdateTerm(i, t)
    \/ /\ t = term[i] /\ role[i] = "candidate"
       /\ role' = [role EXCEPT ![i] = "follower"]
       /\ UNCHANGED <<term, votedFor, votes>>
    \/ t = term[i] /\ role[i] = "follower" /\ UNCHANGED electVars
    \/ t < term[i] /\ UNCHANGED electVars

\* process_req for append_entries: update_term, then handle_append_entries.
HandleAppendEntries(m) ==
    LET i == m.dst
        L == log[i]
        N == LogAfter(L, m)
        last == m.prevIdx + Len(m.entries)
        c == MaxOf(CommitAfterRollback(L, commit[i], m), MinOf(m.commit, last))
        accept == m.term >= term[i] /\ LogOkay(L, m)
        resp == [type |-> "append_entries_response", src |-> i, dst |-> m.src,
                 term |-> MaxOf(term[i], m.term), accepted |-> accept,
                 next |-> IF accept THEN last + 1 ELSE Len(L) + 1,
                 freed |-> FALSE]
    IN  /\ m \in appends
        /\ m.type = "append_entries_request"
        /\ FollowLeader(i, m.term)
        /\ appends' = (appends \ {m}) \cup (IF m.live THEN {resp} ELSE {})
        /\ \/ /\ accept
              /\ log' = [log EXCEPT ![i] = N]
              /\ commit' = [commit EXCEPT ![i] = c]
              /\ precommit' = [precommit EXCEPT ![i] = MaxOf(@, last)]
              /\ committed' = committed \cup CommittedIn(N, c)
           \/ ~accept /\ UNCHANGED <<log, commit, precommit, committed>>
        /\ UNCHANGED <<peer, urgent, failures, oldCounted>>

Waiting == {m \in appends : m.type = "append_entries_response" /\ m.freed}

\* peer::handle_rpc_result frees the slot before the handler gets lock_, so
\* that other threads may use the slot before the response is handled.
SetFree(m) ==
    /\ Cardinality(Waiting) < MaxWaiting
    /\ m \in appends
    /\ m.type = "append_entries_response"
    /\ ~m.freed
    /\ appends' = (appends \ {m}) \cup {[m EXCEPT !.freed = TRUE]}
    /\ peer' = [peer EXCEPT ![m.dst][m.src].rpc = "free"]
    /\ UNCHANGED <<electVars, log, commit, precommit, urgent, failures, histVars>>

OwnTermAt(i, k) == k \in 1..Len(log[i]) /\ log[i][k] = term[i]

\* handle_append_entries_resp, which checks neither the role nor the term:
\* ps the peers with the response applied, qs after commit() has sent the new
\* commit index, rs after the catch-up request.
ApplyAppendResp(m, reconn) ==
    LET i == m.dst
        j == m.src
        old == IF m.freed THEN peer[i][j] ELSE [peer[i][j] EXCEPT !.rpc = "free"]
        ps == [peer[i] EXCEPT ![j] =
                 IF m.accepted THEN AfterAccept(old, m.next)
                 ELSE AfterDecline(old, m.next)]
        target == ExpectedCommittedLogIdx(i, ps, precommit[i])
        moves == m.accepted /\ target > commit[i]
        c == IF moves THEN target ELSE commit[i]
        qs == IF moves /\ role[i] = "leader"
              THEN PendBusy(ps, AfterRequest(ps, Peers(i), reconn, precommit[i]))
              ELSE ps
        behind == ~m.accepted \/ qs[j].pending \/ m.next < Len(log[i]) + 1
        us == IF m.accepted THEN [qs EXCEPT ![j].pending = FALSE] ELSE qs
        rs == IF behind /\ role[i] = "leader"
              THEN AfterRequest(us, {j}, reconn, precommit[i]) ELSE us
    IN  /\ commit' = [commit EXCEPT ![i] = c]
        /\ committed' = committed \cup CommittedIn(log[i], c)
        /\ oldCounted' = (oldCounted \/ (moves /\ ~OwnTermAt(i, c)))
        /\ peer' = [peer EXCEPT ![i] = rs]
        /\ appends' = (appends \ {m})
                      \cup NewRequests(i, ps, rs, term[i], log[i], c)

\* handle_peer_resp for append_entries, after set_free when it was not early.
HandleAppendEntriesResp(m) ==
    /\ m \in appends
    /\ m.type = "append_entries_response"
    /\ \/ /\ UpdateTerm(m.dst, m.term)
          /\ peer' = IF m.freed THEN peer
                     ELSE [peer EXCEPT ![m.dst][m.src].rpc = "free"]
          /\ UNCHANGED <<commit, histVars>>
          /\ appends' = appends \ {m}
       \/ /\ ~NewerTerm(m.dst, m.term)
          /\ \E reconn \in SUBSET Broken(m.dst) : ApplyAppendResp(m, reconn)
          /\ UNCHANGED electVars
    /\ UNCHANGED <<log, precommit, urgent, failures>>

-----------------------------------------------------------------------------
(* Failures.                                                                 *)

\* Slip: the error path leaves the slot busy.
RpcErrorKeepsSlot(i, j) ==
    /\ failures < MaxFailures
    /\ failures' = failures + 1
    /\ peer[i][j].rpc = "busy"
    /\ appends' = {m \in appends : {m.src, m.dst} # {i, j}}
    /\ UNCHANGED <<electVars, log, commit, precommit, peer, urgent, histVars>>

\* The connection from i to j breaks while a request is outstanding: the
\* request may still be handled, its response is not.
RpcError(i, j) ==
    /\ failures < MaxFailures
    /\ failures' = failures + 1
    /\ peer[i][j].rpc = "busy"
    /\ peer' = [peer EXCEPT ![i][j].rpc = "broken"]
    /\ appends' =
          {IF m.type = "append_entries_request" /\ m.src = i /\ m.dst = j
           THEN [m EXCEPT !.live = FALSE] ELSE m :
              m \in {n \in appends : ~ /\ n.type = "append_entries_response"
                                       /\ n.src = j /\ n.dst = i /\ ~n.freed}}
    /\ UNCHANGED <<electVars, log, commit, precommit, urgent, histVars>>

\* Slip: the entries that were not committed yet are not in the log store.
CrashLosesLog(i) ==
    /\ failures < MaxFailures
    /\ failures' = failures + 1
    /\ role' = [role EXCEPT ![i] = "follower"]
    /\ votes' = [votes EXCEPT ![i] = {}]
    /\ log' = [log EXCEPT ![i] = SubSeq(@, 1, commit[i])]
    /\ precommit' = [precommit EXCEPT ![i] = commit[i]]
    /\ peer' = [peer EXCEPT ![i] = [j \in Server |-> NewPeer]]
    /\ urgent' = [urgent EXCEPT ![i] = FALSE]
    /\ UNCHANGED <<term, votedFor, commit, appends, histVars>>

\* A crash and a restart: the log survives, the commit index is what the state
\* machine had executed, the peer objects are new.
Crash(i) ==
    /\ failures < MaxFailures
    /\ failures' = failures + 1
    /\ role' = [role EXCEPT ![i] = "follower"]
    /\ votes' = [votes EXCEPT ![i] = {}]
    /\ \E c \in 0..commit[i] : commit' = [commit EXCEPT ![i] = c]
    /\ precommit' = [precommit EXCEPT ![i] = Len(log[i])]
    /\ peer' = [peer EXCEPT ![i] = [j \in Server |-> NewPeer]]
    /\ urgent' = [urgent EXCEPT ![i] = FALSE]
    /\ appends' =
          {IF m.src = i /\ m.type = "append_entries_request"
           THEN [m EXCEPT !.live = FALSE] ELSE m :
              m \in {n \in appends : ~ /\ n.type = "append_entries_response"
                                       /\ n.dst = i}}
    /\ UNCHANGED <<term, votedFor, log, histVars>>

ReplicationNext ==
    \/ \E i \in Server : StartElection(i)
    \/ \E i, j \in Server : GrantVote(j, i)
    \/ \E i, j \in Server : LearnTerm(i, j)
    \/ \E i \in Server : \E reconn \in SUBSET Broken(i) : WinElection(i, reconn)
    \/ \E i \in Server : Resign(i)
    \/ \E i \in Server : ClientRequest(i)
    \/ \E i \in Server : AppendEntriesInBg(i)
    \/ \E i, j \in Server : i # j /\ Heartbeat(i, j)
    \/ \E m \in appends : HandleAppendEntries(m)
    \/ \E m \in appends : SetFree(m)
    \/ \E m \in appends : HandleAppendEntriesResp(m)
    \/ \E i, j \in Server : RpcError(i, j)
    \/ \E i \in Server : Crash(i)

ReplicationSpec == ReplicationInit /\ [][ReplicationNext]_vars

-----------------------------------------------------------------------------
(* No two committed entries differ at one index: the promise that the        *)
(* comment at the end of handle_append_entries explains.                     *)
SameCommits == \A a, b \in committed : a[1] = b[1] => a[2] = b[2]

(* A committed entry stays in the logs of a commit quorum whatever later     *)
(* leaders overwrite: "Logs already reached consensus (1, 2, and 3) will     *)
(* remain unchanged."                                                        *)
CommittedIsDurable ==
    \A e \in committed :
        Cardinality({i \in Server : /\ e[1] <= Len(log[i])
                                    /\ log[i][e[1]] = e[2]}) > Quorum

(* Committed entries never differ and stay in the logs of a commit quorum,   *)
(* as long as get_expected_committed_log_idx never met a quorum at an entry  *)
(* of an older term (it does not look at the term; see CommittedIsDurable).  *)
CommitSafety == oldCounted \/ (SameCommits /\ CommittedIsDurable)

(* Logs that agree on one entry agree on all before it: log_okay in          *)
(* handle_append_entries is enough to keep them so, whatever orphans of old  *)
(* requests arrive.                                                          *)
LogMatching ==
    \A i, j \in Server :
        \A k \in 1..MinOf(Len(log[i]), Len(log[j])) :
            log[i][k] = log[j][k] =>
                \A l \in 1..k : log[i][l] = log[j][l]

(* What a leader counts when it commits is really there: each peer has the   *)
(* leader's entries up to matched_idx_, although become_leader does not      *)
(* reset that index and responses of older terms may set it.                 *)
MatchedIsStored ==
    \A i, j \in Server :
        role[i] = "leader" /\ i # j =>
            /\ peer[i][j].matched <= Len(log[j])
            /\ \A k \in 1..peer[i][j].matched : log[j][k] = log[i][k]

(* create_append_entries_req exits the process (N8) when a peer's next index *)
(* is past the leader's end of log; a leader never gets there, although      *)
(* responses that waited for lock_ and answers to other leaders set it.      *)
NextIndexInLog ==
    \A i, j \in Server :
        role[i] = "leader" /\ i # j => peer[i][j].next <= precommit[i] + 1

(* handle_append_entries ignores a request of the leader's own term with the *)
(* remark "there must be a bug": no such request is ever on its way.         *)
NoRivalLeader ==
    \A m \in appends :
        m.type = "append_entries_request" /\ role[m.dst] = "leader"
            => m.term # term[m.dst]

(* "should not happen in Raft though" (handle_append_entries takes the       *)
(* commit index back): but for a restart it never does, as long as only      *)
(* entries of the leader's own term were counted.                            *)
CommitNeverRollsBack ==
    [][\A i \in Server :
          commit'[i] < commit[i] => Crash(i) \/ oldCounted]_vars

(* The cluster catches up: while a server stays leader, every other one      *)
(* eventually has all of its log and has committed all of it, whatever RPCs  *)
(* fail and however the slot is skipped while it is busy.                    *)
FollowersCatchUp ==
    \A i \in Server :
        role[i] = "leader" ~>
            \/ role[i] # "leader"
            \/ \A j \in Server : log[j] = log[i] /\ commit[j] = Len(log[i])
=============================================================================
