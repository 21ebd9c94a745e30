-------------------------- MODULE SnapshotTransfer --------------------------
(***************************************************************************)
(* The transfer of a snapshot, object by object, from a leader to one peer *)
(* that lags behind or joins (src/src/handle_snapshot_sync.cxx,            *)
(* snapshot_sync_ctx.cxx, and request_append_entries): the synchronisation *)
(* context of the peer, the queue and the thread of snapshot_io_mgr when   *)
(* objects are read in the background, and the handlers of the responses.  *)
(*                                                                         *)
(* A snapshot is the number of its creation and stands for the last index  *)
(* it covers; the leader's log starts after its latest snapshot.  Every    *)
(* snapshot has the objects 0 .. Objects - 1.  The rest of the append      *)
(* protocol is the one atomic action ProbeNextIndex.                       *)
(***************************************************************************)
EXTENDS Naturals, Sequences, FiniteSets

CONSTANTS
    Objects,        \* objects of a snapshot
    MaxSnapshots,   \* bound on the leader's snapshots
    MaxContexts,    \* bound on the contexts that are created
    MaxFaults,      \* bound on expired timers, failed reads, lost messages, ...
    MaxElections,   \* bound on the times the leader is elected again
    MaxLate,        \* responses whose handler may wait for lock_
    JoinerRefuses   \* TRUE: a joining server may refuse an object

VARIABLES
    lead,           \* the leader's state: its peer, contexts and queue
    io,             \* the thread of snapshot_io_mgr
    wire,           \* the request or response of the busy slot
    late,           \* responses whose handler waits for lock_
    receiver,       \* the peer: its index, what it saved and installed
    budget          \* faults and elections so far

transferVars == <<lead, io, wire, late, receiver, budget>>

Snapshots == 1..MaxSnapshots
Contexts == 1..MaxContexts
AllObjects == 0..(Objects - 1)
NoMsg == [type |-> "none", snp |-> 0, obj |-> 0, ok |-> FALSE, done |-> FALSE]
IdleThread == [at |-> "idle", ctx |-> 0, obj |-> 0]

TransferInit ==
    /\ lead \in {[leading |-> TRUE, last |-> 1, next |-> 1, matched |-> 0, ctx |-> 0,
                  used |-> 0, busy |-> FALSE, queue |-> 0, retry |-> FALSE, bg |-> bg,
                  joining |-> joining,
                  heap |-> [c \in Contexts |-> [snp |-> 0, offset |-> 0, freed |-> FALSE]]] :
                 bg, joining \in BOOLEAN}
    /\ io = IdleThread
    /\ wire = NoMsg
    /\ late = <<>>
    /\ receiver = [idx |-> 0, saved |-> [s \in Snapshots |-> {}], installed |-> {}]
    /\ budget = [faults |-> 0, elections |-> 0]

-----------------------------------------------------------------------------
(* The leader's helpers; each yields the leader's next state.                *)

\* destroy_user_snp_ctx: the object of the state machine's user is gone.
DestroyUserCtx(l, c) == IF c = 0 THEN l ELSE [l EXCEPT !.heap[c].freed = TRUE]

ClearSyncCtx(l) == [DestroyUserCtx(l, l.ctx) EXCEPT !.ctx = 0]

\* check_snapshot_timeout.
CheckTimeout(l, expired) == IF l.ctx # 0 /\ expired THEN ClearSyncCtx(l) ELSE l

\* set_snapshot_in_sync with the latest snapshot.
NewSyncCtx(l) ==
    [l EXCEPT !.ctx = l.used + 1, !.used = l.used + 1,
              !.heap[l.used + 1] = [snp |-> l.last, offset |-> 0, freed |-> FALSE]]

\* Slip: every request starts the latest snapshot from its first object.
SyncCtxRestarted(l, expired) == NewSyncCtx(DestroyUserCtx(l, l.ctx))

\* Slip: a new context goes on where the last one was.
SyncCtxResumed(l, expired) ==
    IF l.ctx # 0 /\ ~expired /\ l.heap[l.ctx].offset # 0 THEN l
    ELSE LET n == NewSyncCtx(DestroyUserCtx(l, l.ctx))
         IN  IF l.ctx = 0 THEN n
             ELSE [n EXCEPT !.heap[n.ctx].offset = l.heap[l.ctx].offset]

\* The first half of create_sync_snapshot_req: a context that has sent its
\* first object is kept, unless its timer has run out.
SyncCtx(l, expired) ==
    IF l.ctx # 0 /\ ~expired /\ l.heap[l.ctx].offset # 0 THEN l
    ELSE NewSyncCtx(DestroyUserCtx(l, l.ctx))

\* A message with one object.
ObjectMsg(snp, obj) == [type |-> "req", snp |-> snp, obj |-> obj, ok |-> FALSE,
                        done |-> obj = Objects - 1]

\* The second half: the request goes to the queue, if it holds none for this
\* peer, or the object is read at once, and a failed read clears the context.
\* The results are the leader's next state and the message.
CreateSyncSnapshotReq(l0, expired, readable) ==
    LET l == SyncCtx(l0, expired)
        ctx == l.heap[l.ctx]
    IN  IF l.bg
        THEN [l |-> [l EXCEPT !.queue = IF @ = 0 THEN l.ctx ELSE @], msg |-> NoMsg]
        ELSE IF readable THEN [l |-> l, msg |-> ObjectMsg(ctx.snp, ctx.offset)]
        ELSE [l |-> ClearSyncCtx(l), msg |-> NoMsg]

\* Slip: requests in the queue are not looked for.
RequestToPeerAlways(l, m, expired, readable) ==
    IF ~l.leading THEN [l |-> l, msg |-> m]
    ELSE IF l.busy THEN [l |-> CheckTimeout(l, expired), msg |-> m]
    ELSE IF l.next > l.last THEN [l |-> l, msg |-> m]
    ELSE LET r == CreateSyncSnapshotReq(l, expired, readable)
         IN  [r EXCEPT !.l.busy = r.msg # NoMsg]

\* request_append_entries for a peer that needs a snapshot; m is the message
\* in the slot when the peer is busy.
RequestToPeer(l, m, expired, readable) ==
    IF ~l.leading \/ (l.bg /\ l.queue # 0) THEN [l |-> l, msg |-> m]
    ELSE IF l.busy THEN [l |-> CheckTimeout(l, expired), msg |-> m]
    ELSE IF l.next > l.last THEN [l |-> l, msg |-> m]
    ELSE LET r == CreateSyncSnapshotReq(l, expired, readable)
         IN  [r EXCEPT !.l.busy = r.msg # NoMsg]

\* sync_log_to_new_srv for a server that needs a snapshot; a failed read is
\* retried on the next heartbeat.
SyncLogToNewSrv(l, m, expired, readable) ==
    IF l.next > l.last THEN [l |-> l, msg |-> m]
    ELSE LET r == CreateSyncSnapshotReq([l EXCEPT !.retry = FALSE], expired, readable)
         IN  [r EXCEPT !.l.busy = r.msg # NoMsg, !.l.retry = ~l.bg /\ ~readable]

Send(l, m, expired, readable) ==
    IF l.joining THEN SyncLogToNewSrv(l, m, expired, readable)
    ELSE RequestToPeer(l, m, expired, readable)

\* The faults of a request: its timer is out, or its read fails.
Faults(expired, readable) ==
    (IF expired THEN 1 ELSE 0) + (IF readable THEN 0 ELSE 1)

Spend(n) == /\ budget.faults + n <= MaxFaults
            /\ budget' = [budget EXCEPT !.faults = @ + n]

\* Sends from state l, if a context is left for it.
SendFrom(l, m) ==
    \E expired, readable \in BOOLEAN :
        LET r == Send(l, m, expired, readable)
        IN  /\ l.used < MaxContexts
            /\ Spend(Faults(expired, readable))
            /\ lead' = r.l /\ wire' = r.msg

\* Other handlers run only when no more than MaxLate handlers wait.
Prompt == Len(late) <= MaxLate

-----------------------------------------------------------------------------
(* The leader.                                                               *)

\* handle_hb_timeout; for a joining server only when a retry is asked for.
SyncHeartbeat ==
    /\ Prompt /\ (lead.joining => lead.retry)
    /\ SendFrom(lead, wire)
    /\ UNCHANGED <<io, late, receiver>>

\* The join request has been accepted.
StartJoin ==
    /\ Prompt /\ lead.joining /\ lead.used = 0
    /\ SendFrom(lead, wire)
    /\ UNCHANGED <<io, late, receiver>>

\* on_snapshot_completed: a newer snapshot, and the log is compacted.
CreateSnapshot ==
    /\ Prompt /\ lead.last < MaxSnapshots
    /\ lead' = [lead EXCEPT !.last = @ + 1]
    /\ UNCHANGED <<io, wire, late, receiver, budget>>

\* The response frees the slot before its handler gets lock_.
ResponseArrives ==
    /\ Prompt /\ wire.type = "resp"
    /\ lead' = [lead EXCEPT !.busy = FALSE]
    /\ wire' = NoMsg
    /\ late' = Append(late, wire)
    /\ UNCHANGED <<io, receiver, budget>>

\* Slip: the context's own snapshot is not what the peer has.
InstallDoneLatest(l) ==
    [ClearSyncCtx(l) EXCEPT !.next = l.last + 1, !.matched = l.last]

\* The last object was applied: the peer has the context's snapshot.
InstallDone(l) ==
    [ClearSyncCtx(l) EXCEPT !.next = l.heap[l.ctx].snp + 1,
                            !.matched = l.heap[l.ctx].snp]

\* handle_install_snapshot_resp.
HandleInstallSnapshotResp ==
    LET resp == Head(late)
    IN  /\ ~lead.joining /\ late # <<>> /\ late' = Tail(late)
        /\ IF ~resp.ok
           THEN SendFrom(ClearSyncCtx([lead EXCEPT !.next = resp.obj]), wire)
           ELSE IF lead.ctx = 0 THEN UNCHANGED <<lead, wire, budget>>
           ELSE IF resp.done THEN SendFrom(InstallDone(lead), wire)
           ELSE SendFrom([lead EXCEPT !.heap[lead.ctx].offset = resp.obj], wire)
        /\ UNCHANGED <<io, receiver>>

\* handle_install_snapshot_resp_new_member: a refusal moves forward, too.
HandleInstallSnapshotRespNewMember ==
    LET resp == Head(late)
        l == IF resp.ok THEN lead ELSE [lead EXCEPT !.next = resp.obj]
    IN  /\ lead.joining /\ late # <<>> /\ late' = Tail(late)
        /\ IF lead.ctx = 0 THEN lead' = l /\ UNCHANGED <<wire, budget>>
           ELSE IF resp.done THEN SendFrom(InstallDone(l), wire)
           ELSE SendFrom([l EXCEPT !.heap[l.ctx].offset = resp.obj], wire)
        /\ UNCHANGED <<io, receiver>>

\* The request or its response is lost: handle_peer_resp with an error, or
\* handle_ext_resp_err.
InstallRpcError ==
    /\ Prompt /\ wire.type # "none"
    /\ \E expired \in BOOLEAN :
          /\ Spend(1 + Faults(expired, TRUE))
          /\ lead' = [CheckTimeout(lead, expired) EXCEPT !.busy = FALSE,
                         !.retry = lead.joining /\ ~(expired /\ lead.ctx # 0)]
    /\ wire' = NoMsg
    /\ UNCHANGED <<io, late, receiver>>

\* An append request to a peer whose next index is too large.
ProbeNextIndex ==
    /\ Prompt /\ ~lead.joining /\ lead.leading /\ ~lead.busy
    /\ lead.bg => lead.queue = 0
    /\ lead.next > lead.last /\ lead.next > receiver.idx + 1
    /\ lead' = [lead EXCEPT !.next = receiver.idx + 1]
    /\ UNCHANGED <<io, wire, late, receiver, budget>>

\* become_follower, and become_leader of the same server later.
LoseLeadership ==
    /\ Prompt /\ ~lead.joining /\ lead.leading /\ budget.elections < MaxElections
    /\ lead' = [lead EXCEPT !.leading = FALSE]
    /\ UNCHANGED <<io, wire, late, receiver, budget>>

BecomeLeaderAgain ==
    /\ Prompt /\ ~lead.leading
    /\ lead' = [ClearSyncCtx(lead) EXCEPT !.leading = TRUE, !.next = lead.last + 1]
    /\ budget' = [budget EXCEPT !.elections = @ + 1]
    /\ UNCHANGED <<io, wire, late, receiver>>

-----------------------------------------------------------------------------
(* async_io_loop, for the one element of this peer.                          *)

\* A copy of the queue; the offset is read under the peer's lock.
TakeReadRequest ==
    /\ io.at = "idle" /\ lead.queue # 0
    /\ io' = IF lead.leading
             THEN [at |-> "reading", ctx |-> lead.queue,
                   obj |-> lead.heap[lead.queue].offset]
             ELSE [at |-> "done", ctx |-> 0, obj |-> 0]
    /\ UNCHANGED <<lead, wire, late, receiver, budget>>

\* The object is read without a lock; then, under lock_, it is sent, or the
\* request goes back to the queue, or after a failed read the context goes.
ReadObject ==
    /\ io.at = "reading" /\ Prompt
    /\ \/ /\ ~lead.busy
          /\ wire' = ObjectMsg(lead.heap[io.ctx].snp, io.obj)
          /\ lead' = [lead EXCEPT !.busy = TRUE]
          /\ io' = [IdleThread EXCEPT !.at = "done"]
          /\ UNCHANGED budget
       \/ /\ lead.busy
          /\ io' = [io EXCEPT !.at = "done"]
          /\ UNCHANGED <<lead, wire, budget>>
       \/ /\ Spend(1)
          /\ lead' = IF lead.joining THEN [lead EXCEPT !.retry = TRUE]
                     ELSE ClearSyncCtx(lead)
          /\ io' = [IdleThread EXCEPT !.at = "done"]
          /\ UNCHANGED wire
    /\ UNCHANGED <<late, receiver>>

\* What was taken leaves the queue, what was not sent returns to it.
EraseTaken ==
    /\ io.at = "done"
    /\ lead' = [lead EXCEPT !.queue = io.ctx]
    /\ io' = IdleThread
    /\ UNCHANGED <<wire, late, receiver, budget>>

\* Another message (a custom notification, a configuration, ...) occupies the
\* slot, and is answered.
OtherMessage ==
    /\ Prompt /\ ~lead.joining /\ ~lead.busy /\ wire = NoMsg /\ Spend(1)
    /\ lead' = [lead EXCEPT !.busy = TRUE]
    /\ UNCHANGED <<io, wire, late, receiver>>

OtherAnswered ==
    /\ lead.busy /\ wire = NoMsg
    /\ lead' = [lead EXCEPT !.busy = FALSE]
    /\ UNCHANGED <<io, wire, late, receiver, budget>>

-----------------------------------------------------------------------------
(* The peer: handle_install_snapshot_req and handle_snapshot_sync_req.       *)

\* What the state machine keeps: the first object starts a new copy.
SavedWith(saved, obj) == IF obj = 0 THEN {0} ELSE saved \cup {obj}

\* An older snapshot is declined with the context that ends the transfer, one
\* that the callback or the state machine refuses without it; the last object
\* applies the snapshot.
HandleInstallSnapshotReq ==
    LET m == wire
        declined == [NoMsg EXCEPT !.type = "resp", !.obj = receiver.idx + 1]
        saved == SavedWith(receiver.saved[m.snp], m.obj)
    IN  /\ m.type = "req"
        /\ \/ /\ m.snp <= receiver.idx
              /\ wire' = [declined EXCEPT !.done = TRUE]
              /\ UNCHANGED <<receiver, budget>>
           \/ /\ m.snp > receiver.idx /\ (lead.joining => JoinerRefuses) /\ Spend(1)
              /\ wire' = declined
              /\ UNCHANGED receiver
           \/ /\ m.snp > receiver.idx
              /\ wire' = [NoMsg EXCEPT !.type = "resp", !.ok = TRUE,
                                       !.obj = m.obj + 1, !.done = m.done]
              /\ receiver' = [receiver EXCEPT !.saved[m.snp] = saved,
                     !.idx = IF m.done THEN m.snp ELSE @,
                     !.installed = IF m.done THEN @ \cup {saved} ELSE @]
              /\ UNCHANGED budget
        /\ UNCHANGED <<lead, io, late>>

-----------------------------------------------------------------------------
LeaderStep == \/ SyncHeartbeat \/ StartJoin \/ ResponseArrives
              \/ HandleInstallSnapshotResp \/ HandleInstallSnapshotRespNewMember
              \/ ProbeNextIndex \/ BecomeLeaderAgain \/ OtherAnswered

IoStep == TakeReadRequest \/ ReadObject \/ EraseTaken

TransferNext ==
    \/ LeaderStep \/ IoStep \/ HandleInstallSnapshotReq
    \/ CreateSnapshot \/ InstallRpcError \/ LoseLeadership \/ OtherMessage

TransferSpec == TransferInit /\ [][TransferNext]_transferVars

\* Heartbeats, the IO thread, the network and the handlers go on.
TransferFairness ==
    /\ WF_transferVars(SyncHeartbeat) /\ WF_transferVars(IoStep)
    /\ WF_transferVars(HandleInstallSnapshotReq) /\ WF_transferVars(ResponseArrives)
    /\ WF_transferVars(HandleInstallSnapshotResp) /\ WF_transferVars(ProbeNextIndex)
    /\ WF_transferVars(BecomeLeaderAgain) /\ WF_transferVars(OtherAnswered)

TransferFairSpec == TransferSpec /\ TransferFairness

-----------------------------------------------------------------------------
(* Types of the transfer; a message is on its way only while the slot of the *)
(* peer is busy (peer::make_busy, handle_rpc_result).                        *)
TransferTypeOK ==
    /\ lead.ctx \in 0..lead.used /\ lead.queue \in 0..lead.used
    /\ lead.used \in 0..MaxContexts
    /\ lead.next \in 1..(MaxSnapshots + 1) /\ lead.matched \in 0..MaxSnapshots
    /\ io.at \in {"idle", "reading", "done"} /\ io.ctx \in 0..lead.used
    /\ receiver.idx \in 0..MaxSnapshots
    /\ budget \in [faults : 0..MaxFaults, elections : 0..MaxElections]
    /\ wire.type # "none" => lead.busy

(* A snapshot is applied only with all of its objects ("repeated until       *)
(* read_logical_snp_obj() sets is_last_obj"), whatever is lost, refused or   *)
(* timed out, and whichever context is the current one.                      *)
InstallComplete == receiver.installed \subseteq {AllObjects}

(* The leader never counts the peer as having more than it has: the end of a *)
(* transfer is taken for the snapshot that was sent.                         *)
MatchedIsInstalled == lead.matched <= receiver.idx

(* The thread reads without a lock; unless the leader was elected again in   *)
(* the meantime (become_leader clears every context), the user's object it   *)
(* reads with is not freed under it by a timeout or a new request.           *)
ReadsLiveContext ==
    io.at = "reading" /\ budget.elections = 0 => ~lead.heap[io.ctx].freed

(* A member that lags behind gets a snapshot in the end, its objects read in *)
(* the background or not.  A joining server, which no heartbeat follows, may *)
(* not: its next request is refused by the queue when the response overtakes *)
(* the thread, which has yet to erase the last one.                          *)
PeerGetsSnapshot == <>(receiver.idx > 0 \/ lead.joining)
=============================================================================
