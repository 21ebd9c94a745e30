----------------------------- MODULE Membership -----------------------------
(***************************************************************************)
(* Adding and removing servers in NuRaft: the join and leave protocols of  *)
(* src/src/handle_join_leave.cxx, the configuration entries they put into  *)
(* the log, and commit_conf and reconfigure (src/src/handle_commit.cxx),   *)
(* by which a server starts to use a configuration once it is COMMITTED.   *)
(*                                                                         *)
(* Every server has the whole state of a raft_server, so a handler may run *)
(* after its server lost the leadership.  A handler runs under lock_: one  *)
(* action each, and the functions it calls are operators from the state of *)
(* its server to the next one.                                             *)
(*                                                                         *)
(* The log holds configurations only; append_entries, which module         *)
(* Replication details, brings the leader's log and commit index to a peer *)
(* and the answer back in one step; an election (module Voting) is one     *)
(* step.  Timers are nondeterministic: what a timeout does may happen      *)
(* whenever its condition holds.  Snapshots are not part of this module:   *)
(* logs start at 1.                                                        *)
(***************************************************************************)
EXTENDS Naturals, Sequences, FiniteSets, SequencesExt, FiniteSetsExt

CONSTANTS
    Node,           \* all the servers, members or not
    Founders,       \* the members of the first configuration
    First,          \* the founder that leads at the start
    NoNode,         \* a null pointer
    LogSyncStopGap, \* raft_params::log_sync_stop_gap_
    LastTerm,       \* bound on the terms
    MaxLog,         \* bound on the entries of a log
    MaxRequests,    \* bound on the add_srv, remove_srv and set_priority calls
    MaxFailures     \* bound on RPC errors, timeouts, restarts and elections

ASSUME MembershipAssumption ==
    /\ Founders \subseteq Node /\ First \in Founders
    /\ NoNode \notin Node
    /\ LogSyncStopGap \in Nat /\ LastTerm \in Nat /\ MaxLog \in Nat

VARIABLES
    srv,        \* srv[i]: the state of server i
    net,        \* requests and responses in flight
    requests,   \* membership calls made so far
    failures    \* failures so far

(* History variables: nothing reads them. *)
VARIABLES
    settled,    \* the <<index, entry>> pairs some leader committed
    asked,      \* the servers asked to leave since they last joined
    told        \* FALSE once a peer was dropped before it knew of its removal

vars == <<srv, net, requests, failures, settled, asked, told>>
askVars == <<asked, told>>

Index == 0..MaxLog
Entry == [term : 1..LastTerm, servers : SUBSET Node]
Conf == [idx : Index, servers : SUBSET Node]

ServerState ==
    [id : Node,
     role : {"follower", "leader"},             \* role_
     term : 0..LastTerm,                         \* srv_state::term_
     log : Seq(Entry),                          \* log_store_
     commit : Index,                            \* quick_commit_index_
     applied : Index,                           \* sm_commit_index_
     initial : Index,                           \* initial_commit_index_
     config : Conf,                             \* config_, also saved
     uncommitted : Conf \cup {NoNode},             \* uncommitted_config_
     changing : BOOLEAN,                        \* config_changing_
     peers : SUBSET Node,                       \* the keys of peers_
     matched : [Node -> Index],                 \* peer::matched_idx_
     leaveFlag : SUBSET Node,                   \* peer::leave_requested_
     srvToLeave : Node \cup {NoNode},           \* srv_to_leave_
     targetIdx : Index,                         \* srv_to_leave_target_idx_
     steppingDown : BOOLEAN,                    \* its peer::stepping_down_
     srvToJoin : Node \cup {NoNode},            \* srv_to_join_
     invitation : 0..MaxRequests,               \* which peer object that is
     catchingUp : BOOLEAN,                      \* catching_up_
     stepsToDown : 0..2,                        \* steps_to_down_
     timerAllowed : BOOLEAN]                    \* election_timer_allowed_

Message ==
    [type : {"join_req", "join_resp", "sync_req", "sync_resp", "leave_req",
             "leave_resp"},
     src : Node, dst : Node, term : 0..LastTerm,
     idx : 0..MaxLog + 1,                       \* a commit or next index
     accepted : BOOLEAN,
     conf : Conf \cup {NoNode},                    \* of a join_req
     entries : Seq(Entry),                      \* of a sync_req
     call : 0..MaxRequests]                     \* the peer object it is for

(* The states and messages are well-formed, and a server never counts an     *)
(* entry as committed or applied that its log does not hold: commit_conf     *)
(* reads entries up to quick_commit_index_ without a further test.           *)
MembershipTypeOK ==
    /\ \A i \in Node : /\ srv[i] \in ServerState
                         /\ srv[i].applied <= srv[i].commit
                         /\ srv[i].commit <= Len(srv[i].log)
                         /\ Len(srv[i].log) <= MaxLog
    /\ \A m \in net : m \in Message
    /\ requests \in 0..MaxRequests
    /\ failures \in 0..MaxFailures

-----------------------------------------------------------------------------
(* The cluster of the founders, with its first configuration committed and   *)
(* applied everywhere; the other servers are empty.                          *)
FirstConf == [idx |-> 1, servers |-> Founders]

InitialState(i) ==
    [id |-> i,
     role |-> IF i = First THEN "leader" ELSE "follower",
     term |-> IF i \in Founders THEN 1 ELSE 0,
     log |-> IF i \in Founders THEN <<[term |-> 1, servers |-> Founders]>>
             ELSE <<>>,
     commit |-> IF i \in Founders THEN 1 ELSE 0,
     applied |-> IF i \in Founders THEN 1 ELSE 0,
     initial |-> 0,
     config |-> IF i \in Founders THEN FirstConf
                ELSE [idx |-> 0, servers |-> {i}],
     uncommitted |-> NoNode, changing |-> FALSE,
     peers |-> IF i \in Founders THEN Founders \ {i} ELSE {},
     matched |-> [j \in Node |-> 0], leaveFlag |-> {},
     srvToLeave |-> NoNode, targetIdx |-> 0, steppingDown |-> FALSE,
     srvToJoin |-> NoNode, invitation |-> 0,
     catchingUp |-> FALSE, stepsToDown |-> 0,
     timerAllowed |-> i \in Founders]

Init ==
    /\ srv = [i \in Node |-> InitialState(i)]
    /\ net = {}
    /\ requests = 0
    /\ failures = 0
    /\ settled = {<<1, [term |-> 1, servers |-> Founders]>>}
    /\ asked = {}
    /\ told = TRUE

-----------------------------------------------------------------------------
(* Functions the handlers call, from a server's state to its next state.     *)

Msg(type, s, dst, idx, accepted) ==
    [type |-> type, src |-> s.id, dst |-> dst, term |-> s.term, idx |-> idx,
     accepted |-> accepted, conf |-> NoNode, entries |-> <<>>, call |-> 0]

Replace(i, s) == srv' = [srv EXCEPT ![i] = s]

RemovePeerFromPeers(s, p) ==
    [s EXCEPT !.peers = @ \ {p}, !.leaveFlag = @ \ {p}]

ResetSrvToLeave(s) ==
    [s EXCEPT !.srvToLeave = NoNode, !.targetIdx = 0, !.steppingDown = FALSE]

\* The peer object of srv_to_leave_ goes with it, also by force.
DropSrvToLeave(s) == ResetSrvToLeave(RemovePeerFromPeers(s, s.srvToLeave))

ResetSrvToJoin(s) == [s EXCEPT !.srvToJoin = NoNode]

\* get_config(), or the configuration that waits for its commit.
LatestConf(s) == IF s.uncommitted = NoNode THEN s.config ELSE s.uncommitted

\* get_num_voting_members: a server to leave does not count.
Regular(s) == s.peers \ {s.srvToLeave}

Quorum(s) == (Cardinality(Regular(s)) + 1) \div 2   \* besides s itself

\* The part of request_append_entries that sends nothing: a leader that needs
\* no other server commits at once.
RequestAppendEntries(s) ==
    IF s.role = "leader" /\ Quorum(s) = 0 THEN [s EXCEPT !.commit = Len(s.log)]
    ELSE s

\* A new configuration entry at the end of the log.
StoreConf(s, servers) ==
    [s EXCEPT !.log = Append(@, [term |-> s.term, servers |-> servers]),
              !.changing = TRUE,
              !.uncommitted = [idx |-> Len(s.log) + 1, servers |-> servers]]

RmSrvFromCluster(s, p) ==
    IF s.srvToLeave # NoNode THEN s
    ELSE LET next == StoreConf(s, LatestConf(s).servers \ {p})
         IN  RequestAppendEntries(
                 IF p \in s.peers
                 THEN [next EXCEPT !.srvToLeave = p, !.targetIdx = Len(next.log),
                                   !.steppingDown = FALSE]
                 ELSE next)

\* handle_join_leave_rpc_err for a leave request: with one peer it goes at
\* once; a removal whose entry exists drops the peer; else the entry is made.
LeaveRpcErr(s, p) ==
    LET alone == IF s.peers # {p} THEN s
                 ELSE ResetSrvToLeave(RemovePeerFromPeers(s, p))
    IN  IF alone.srvToLeave # NoNode THEN DropSrvToLeave(alone)
        ELSE RmSrvFromCluster(alone, p)

JoinRpcErr(s) == ResetSrvToJoin([s EXCEPT !.changing = FALSE])

\* The election timer restarts, unless the server is catching up or leads.
RestartElectionTimer(s) ==
    [s EXCEPT !.timerAllowed = @ \/ ~(s.catchingUp \/ s.role = "leader")]

BecomeFollowerOf(s) ==
    RestartElectionTimer(
        [s EXCEPT !.role = "follower", !.srvToJoin = NoNode, !.uncommitted = NoNode])

UpdateTermOf(s, t) ==
    IF t <= s.term THEN s
    ELSE BecomeFollowerOf([s EXCEPT !.term = t, !.timerAllowed = TRUE])

\* Removed peers stay while a leader still has a server to leave.
KeepsRemoved(s) == s.role = "leader" /\ s.srvToLeave # NoNode

Reconfigure(s, conf) ==
    LET mine == s.id \in conf.servers
        added == conf.servers \ (s.peers \cup {s.id})
        removed == IF KeepsRemoved(s) THEN {} ELSE s.peers \ conf.servers
        caughtUp == mine /\ s.role = "follower" /\ s.catchingUp
    IN  [s EXCEPT
            !.stepsToDown = IF mine THEN 0 ELSE IF s.catchingUp THEN @ ELSE 2,
            !.catchingUp = @ /\ ~caughtUp,
            !.timerAllowed = @ \/ caughtUp,
            !.peers = (@ \cup added) \ removed,
            !.leaveFlag = @ \ removed,
            !.matched = [j \in Node |-> IF j \in added THEN 0 ELSE @[j]],
            !.srvToJoin = IF s.role = "leader" /\ @ \in added THEN NoNode ELSE @,
            !.config = conf,
            !.uncommitted = IF @ # NoNode /\ @.idx = conf.idx THEN NoNode ELSE @]

-----------------------------------------------------------------------------
(* Adding a server.                                                          *)

Room(s) == Len(s.log) < MaxLog

\* An exchange about leaving is under way over the connection from i to p.
Leaving(i, p, m) ==
    \/ m.type = "leave_req" /\ m.src = i /\ m.dst = p
    \/ m.type = "leave_resp" /\ m.src = p /\ m.dst = i

\* handle_add_srv_req and invite_srv_to_join_cluster.  An addition that is in
\* progress is given up once it was not active for long.  The connection is a
\* new one; that of an earlier peer object is closed.
HandleAddSrvReq(i, p) ==
    /\ requests < MaxRequests
    /\ srv[i].role = "leader"
    /\ p \notin srv[i].peers \cup {i}
    /\ ~srv[i].changing
    /\ requests' = requests + 1
    /\ Replace(i, [srv[i] EXCEPT !.srvToJoin = p, !.invitation = requests'])
    /\ net' = {m \in net : ~Leaving(i, p, m)} \cup
                 {[Msg("join_req", srv[i], p, srv[i].commit, FALSE)
                   EXCEPT !.conf = srv[i].config, !.call = requests']}
    /\ UNCHANGED <<failures, askVars>>

\* The term is taken over as it is, and what the server knew of commits is
\* forgotten unless it is catching up already.
HandleJoinClusterReq(m) ==
    /\ m \in net /\ m.type = "join_req"
    /\ LET s == srv[m.dst]
           from == IF s.catchingUp THEN s.applied ELSE s.initial
           joining == [s EXCEPT !.catchingUp = TRUE, !.role = "follower",
                                !.commit = IF s.catchingUp THEN @ ELSE s.initial,
                                !.applied = from, !.term = m.term]
           next == Reconfigure(joining, m.conf)
       IN  /\ Replace(m.dst, next)
           /\ net' = (net \ {m}) \cup
                 {[Msg("join_resp", s, m.src, next.commit + 1, TRUE)
                   EXCEPT !.call = m.call]}
    /\ asked' = asked \ {m.dst}
    /\ UNCHANGED <<requests, failures, told>>

\* sync_log_to_new_srv: the new configuration once the server is close
\* enough, else the next committed entries.
SyncLogToNewSrv(i, start, sent) ==
    LET s == srv[i]
        gap == IF s.commit > start THEN s.commit - start ELSE 0
    IN  IF LogSyncStopGap = 0 \/ gap < LogSyncStopGap
        THEN /\ Room(s)
             /\ Replace(i, RequestAppendEntries(
                   StoreConf(s, LatestConf(s).servers \cup {s.srvToJoin})))
             /\ net' = net \ {sent}
        ELSE /\ net' = (net \ {sent}) \cup
                   {[Msg("sync_req", s, s.srvToJoin, start - 1, FALSE) EXCEPT
                     !.entries = SubSeq(s.log, start, start + gap - 1),
                     !.call = s.invitation]}
             /\ UNCHANGED srv

HandleJoinClusterResp(m) ==
    /\ m \in net /\ m.type = "join_resp"
    /\ IF srv[m.dst].srvToJoin # NoNode /\ srv[m.dst].invitation = m.call
       THEN SyncLogToNewSrv(m.dst, m.idx, m)
       ELSE net' = net \ {m} /\ UNCHANGED srv
    /\ UNCHANGED <<requests, failures, askVars>>

\* apply_pack writes the entries over what is there and keeps what is beyond.
ApplyPack(l, last, entries) ==
    SubSeq(l, 1, last) \o entries \o SubSeq(l, last + Len(entries) + 1, Len(l))

\* The whole log counts as committed.
SyncedUpTo(l) == Len(l)

HandleLogSyncReq(m) ==
    /\ m \in net /\ m.type = "sync_req"
    /\ LET s == srv[m.dst]
           l == ApplyPack(s.log, m.idx, m.entries)
           reply(next, okay) == [Msg("sync_resp", s, m.src, next, okay)
                                 EXCEPT !.call = m.call]
       IN  IF s.catchingUp
           THEN /\ Replace(m.dst, [s EXCEPT !.log = l, !.commit = SyncedUpTo(l)])
                /\ net' = (net \ {m}) \cup {reply(Len(l) + 1, TRUE)}
           ELSE /\ net' = (net \ {m}) \cup {reply(Len(s.log) + 1, FALSE)}
                /\ UNCHANGED srv
    /\ UNCHANGED <<requests, failures, askVars>>

\* Neither the sender nor the outcome is looked at.
HandleLogSyncResp(m) ==
    /\ m \in net /\ m.type = "sync_resp"
    /\ IF srv[m.dst].srvToJoin # NoNode
       THEN SyncLogToNewSrv(m.dst, m.idx, m)
       ELSE net' = net \ {m} /\ UNCHANGED srv
    /\ UNCHANGED <<requests, failures, askVars>>

-----------------------------------------------------------------------------
(* Removing a server.                                                        *)

HandleRmSrvReq(i, p) ==
    /\ requests < MaxRequests
    /\ srv[i].role = "leader"
    /\ srv[i].srvToLeave = NoNode
    /\ srv[i].leaveFlag = {}
    /\ ~srv[i].changing
    /\ p \in srv[i].peers
    /\ requests' = requests + 1
    /\ Replace(i, [srv[i] EXCEPT !.leaveFlag = @ \cup {p}])
    /\ net' = net \cup {Msg("leave_req", srv[i], p, srv[i].commit, FALSE)}
    /\ asked' = asked \cup {p}
    /\ UNCHANGED <<failures, told>>

\* A server that knows of an uncommitted configuration refuses.
HandleLeaveClusterReq(m) ==
    /\ m \in net /\ m.type = "leave_req"
    /\ LET s == srv[m.dst]
           okay == ~s.changing
       IN  /\ Replace(m.dst, IF okay THEN [s EXCEPT !.stepsToDown = 2] ELSE s)
           /\ net' = (net \ {m}) \cup
                 {Msg("leave_resp", s, m.src, Len(s.log) + 1, okay)}
    /\ UNCHANGED <<requests, failures, askVars>>

\* The role of the server that gets the answer is not looked at.
HandleLeaveClusterResp(m) ==
    /\ m \in net /\ m.type = "leave_resp"
    /\ net' = net \ {m}
    /\ m.accepted => Room(srv[m.dst])
    /\ Replace(m.dst, IF m.accepted THEN RmSrvFromCluster(srv[m.dst], m.src)
                      ELSE srv[m.dst])
    /\ UNCHANGED <<requests, failures, askVars>>

\* set_priority at the leader: a configuration with the same servers.
SetPriority(i) ==
    /\ requests < MaxRequests
    /\ srv[i].role = "leader"
    /\ Room(srv[i])
    /\ requests' = requests + 1
    /\ Replace(i, RequestAppendEntries(
          StoreConf(srv[i], LatestConf(srv[i]).servers)))
    /\ UNCHANGED <<net, failures, askVars>>

-----------------------------------------------------------------------------
(* Replication and commits, as far as membership depends on them.            *)

\* The log after a request that carries the leader's whole log.
Merged(mine, theirs) == IF IsPrefix(theirs, mine) THEN mine ELSE theirs

\* Slip: catching up ends with the first append_entries request.
ReceivedAtOnce(s) ==
    [s EXCEPT !.stepsToDown = IF @ > 0 THEN 2 ELSE 0, !.catchingUp = FALSE]

\* A sign of life from a leader (process_req), and the end of catching up for
\* a server that is in its own configuration (handle_append_entries).
Received(s) ==
    [s EXCEPT !.stepsToDown = IF @ > 0 THEN 2 ELSE 0,
              !.catchingUp = @ /\ s.id \notin s.config.servers]

\* The rest of handle_append_entries, for a request of the server's term.
AcceptEntries(s, entries, idx) ==
    LET l == Merged(s.log, entries)
    IN  RestartElectionTimer(
            [s EXCEPT !.log = l, !.changing = @ \/ l # s.log,
                      !.commit = Max({@, idx})])

\* What the leader may commit: the entry of the quorum-th largest match.
Committed(s) ==
    Max({k \in 0..Len(s.log) : k <= s.commit \/
            Cardinality({p \in Regular(s) : s.matched[p] >= k}) >= Quorum(s)})

\* Slip: the server to leave goes with its first answer.
LeftInTimeAtOnce(s, p, next) == s.srvToLeave = p

\* The server to leave got the commit index of its removal.
LeftInTime(s, p, next) ==
    s.srvToLeave = p /\ s.steppingDown /\ next > s.targetIdx

\* request_append_entries(p) at i, handle_append_entries at p and
\* handle_append_entries_resp at i.  Once the commit index of its removal is
\* on the way, the server to leave is stepping down.
AppendEntries(i, p) ==
    LET s == [srv[i] EXCEPT !.steppingDown =
                 @ \/ (p = srv[i].srvToLeave /\ srv[i].commit >= srv[i].targetIdx)]
        r == Received(UpdateTermOf(srv[p], s.term))
        answer == AcceptEntries(r, s.log, s.commit)
        matched == [s EXCEPT !.matched[p] = Len(s.log)]
        next == [matched EXCEPT !.commit = Committed(matched)]
    IN  /\ s.role = "leader" /\ p \in s.peers
        /\ \A m \in net : ~Leaving(i, p, m)            \* the slot is free
        /\ \/ /\ r.term > s.term                      \* p refuses
              /\ srv' = [srv EXCEPT ![i] = UpdateTermOf(s, r.term), ![p] = r]
              /\ UNCHANGED askVars
           \/ /\ r.term = s.term /\ LeftInTime(s, p, Len(s.log) + 1)
              /\ srv' = [srv EXCEPT ![i] = DropSrvToLeave(s), ![p] = answer]
              /\ told' = (told /\ answer.commit >= s.targetIdx)
              /\ UNCHANGED asked
           \/ /\ r.term = s.term /\ ~LeftInTime(s, p, Len(s.log) + 1)
              /\ srv' = [srv EXCEPT ![i] = next, ![p] = answer]
              /\ UNCHANGED askVars
        /\ UNCHANGED <<net, requests, failures>>

\* commit_conf, in the commit thread: an older configuration than the current
\* one is skipped, but the change counts as over either way.
CommitConf(i) ==
    LET s == srv[i]
        idx == s.applied + 1
        conf == [idx |-> idx, servers |-> s.log[idx].servers]
        next == [s EXCEPT !.applied = idx, !.changing = FALSE]
    IN  /\ s.applied < s.commit
        /\ Replace(i, IF s.config.idx < idx THEN Reconfigure(next, conf) ELSE next)
        /\ UNCHANGED <<net, requests, failures, askVars>>

-----------------------------------------------------------------------------
(* Elections, timeouts and failures.                                         *)

Fail == failures < MaxFailures /\ failures' = failures + 1

UpToDate(s, other) ==
    LET last(l) == IF l = <<>> THEN 0 ELSE l[Len(l)].term
    IN  \/ last(s.log) > last(other.log)
        \/ last(s.log) = last(other.log) /\ Len(s.log) >= Len(other.log)

\* become_leader: a copy of the last configuration in the log, committed or
\* not, is the first entry of the term; srv_to_leave_ and the leave flags of
\* an earlier leadership stay.
BecomeLeader(s) ==
    RequestAppendEntries(
        [s EXCEPT !.role = "leader", !.srvToJoin = NoNode, !.changing = TRUE,
                  !.log = Append(@, [term |-> s.term, servers |->
                                       IF Len(@) > s.applied THEN Last(@).servers
                                       ELSE s.config.servers])])

\* handle_election_timeout of a server that may campaign, and an election
\* that the servers in voters decide.
Elect(i, voters) ==
    LET s == srv[i]
        t == s.term + 1
    IN  /\ Fail
        /\ s.role = "follower" /\ s.timerAllowed
        /\ s.stepsToDown = 0 /\ ~s.catchingUp
        /\ t <= LastTerm /\ Room(s)
        /\ voters \subseteq s.peers
        /\ Cardinality(voters \cap Regular(s)) >= Quorum(s)
        /\ \A j \in voters : srv[j].term < t /\ UpToDate(s, srv[j])
        /\ srv' = [j \in Node |->
                      CASE j = i -> BecomeLeader([s EXCEPT !.term = t])
                        [] j \in voters -> UpdateTermOf(srv[j], t)
                        [] OTHER -> srv[j]]
        /\ UNCHANGED <<net, requests, askVars>>

\* handle_election_timeout of a server that is to leave.
StepDown(i) ==
    /\ Fail
    /\ srv[i].role = "follower" /\ srv[i].timerAllowed /\ srv[i].stepsToDown > 0
    /\ Replace(i, [srv[i] EXCEPT !.stepsToDown = @ - 1,
                                 !.timerAllowed = srv[i].stepsToDown > 1])
    /\ UNCHANGED <<net, requests, askVars>>

\* check_srv_to_leave_timeout, which the heartbeat timer and the membership
\* handlers call.
SrvToLeaveTimeout(i) ==
    /\ Fail
    /\ srv[i].srvToLeave # NoNode
    /\ Replace(i, DropSrvToLeave(srv[i]))
    /\ UNCHANGED <<net, requests, askVars>>

\* Any RPC to a peer that is to leave fails (handle_peer_resp), or there were
\* too many heartbeats since the leave request (handle_hb_timeout); the role
\* is not looked at.
LeavingPeerFails(i, p) ==
    /\ Fail
    /\ p \in srv[i].peers \cap srv[i].leaveFlag
    /\ Room(srv[i])
    /\ Replace(i, LeaveRpcErr(srv[i], p))
    /\ UNCHANGED <<net, requests, askVars>>

\* handle_ext_resp_err after the last retry.
RpcError(m) ==
    LET s == srv[m.src]
    IN  /\ Fail
        /\ m \in net /\ Room(s)
        /\ net' = net \ {m}
        /\ \/ /\ m.type \in {"join_req", "sync_req"}
              /\ Replace(m.src, IF s.srvToJoin = NoNode THEN s ELSE JoinRpcErr(s))
           \/ /\ m.type = "leave_req"
              /\ Replace(m.src, IF m.dst \notin s.peers THEN s
                                ELSE LeaveRpcErr(s, m.dst))
        /\ UNCHANGED <<requests, askVars>>

\* Only the term, the log, the saved configuration, the election timer flag
\* and the state machine survive; so an entry that is known to be committed
\* but not applied is not known to be committed any more.
RestartNode(i) ==
    LET s == srv[i]
    IN  /\ Fail
        /\ Replace(i, [InitialState(i) EXCEPT
                !.role = "follower", !.term = s.term, !.log = s.log,
                !.commit = s.applied, !.applied = s.applied,
                !.initial = s.applied, !.config = s.config,
                !.changing = Len(s.log) > s.applied,
                !.peers = s.config.servers \ {i},
                !.timerAllowed = s.timerAllowed])
        /\ net' = {m \in net : m.src # i /\ ~(m.dst = i /\ m.type \in
                      {"join_resp", "sync_resp", "leave_resp"})}
        /\ asked' = IF s.catchingUp THEN asked \cup {i} ELSE asked
        /\ UNCHANGED <<requests, told>>

-----------------------------------------------------------------------------
Handle(m) ==
    \/ HandleJoinClusterReq(m) \/ HandleJoinClusterResp(m)
    \/ HandleLogSyncReq(m) \/ HandleLogSyncResp(m)
    \/ HandleLeaveClusterReq(m) \/ HandleLeaveClusterResp(m)

Step ==
    \/ \E i, p \in Node : \/ HandleAddSrvReq(i, p) \/ HandleRmSrvReq(i, p)
                            \/ AppendEntries(i, p) \/ LeavingPeerFails(i, p)
    \/ \E m \in net : Handle(m) \/ RpcError(m)
    \/ \E i \in Node : \/ SetPriority(i) \/ CommitConf(i) \/ StepDown(i)
                         \/ SrvToLeaveTimeout(i) \/ RestartNode(i)
    \/ \E i \in Node, voters \in SUBSET Node : Elect(i, voters)

\* What the leaders know to be committed after the step.
Settle ==
    settled' = settled \cup
        UNION {{<<k, srv'[i].log[k]>> : k \in 1..srv'[i].commit} :
                  i \in {j \in Node : srv'[j].role = "leader"}}

Next == Step /\ Settle

Spec == Init /\ [][Next]_vars

-----------------------------------------------------------------------------
(* A configuration entry that was committed is in the log of every leader    *)
(* that is elected later.  This is what the comment in the constructor of    *)
(* raft_server proves of loading committed configurations only: "A cannot be *)
(* elected to leader if any logs/configs has been committed".                *)
LeaderHasCommitted ==
    \A i \in Node : srv[i].role = "leader" =>
        \A e \in settled : e[2].term < srv[i].term =>
            e[1] <= Len(srv[i].log) /\ srv[i].log[e[1]] = e[2]

(* "We only allow one server to be added or removed at a time": at most one  *)
(* entry behind the commit index of a leader changes the set of servers.     *)
OneChangeAtATime ==
    \A i \in Node : srv[i].role = "leader" =>
        LET l == srv[i].log
        IN  Cardinality({k \in (srv[i].commit + 1)..Len(l) :
                            k > 1 /\ l[k].servers # l[k - 1].servers}) <= 1

(* Two servers never have different entries of one term at one index: only   *)
(* the leader of a term makes its entries.                                   *)
OneAuthorPerTerm ==
    \A i, j \in Node :
        \A k \in 1..Min({Len(srv[i].log), Len(srv[j].log)}) :
            srv[i].log[k].term = srv[j].log[k].term =>
                srv[i].log[k] = srv[j].log[k]

(* A server that joins (again) and is not asked to leave does not count down *)
(* to stop when it replays older configurations without it: that is why      *)
(* catching_up_ stays set until its own configuration is committed.          *)
JoinerKeepsRunning ==
    \A i \in Node :
        i \notin asked /\ ~srv[i].catchingUp => srv[i].stepsToDown = 0

(* "We will remove S3 only after the commit index of the last config is      *)
(* delivered to S3": a peer that handle_append_entries_resp drops knows that *)
(* its removal is committed.                                                 *)
LeaverKnows == told
=============================================================================
