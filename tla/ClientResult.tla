---------------------------- MODULE ClientResult ----------------------------
(***************************************************************************)
(* How a client of the leader learns what became of its request: the user  *)
(* thread that appends (handle_cli_req), the commit thread that executes   *)
(* (commit_in_bg_exec, commit_app_log), the map commit_ret_elems_ they     *)
(* meet in, and the threads that change this server's role.                *)
(*                                                                         *)
(* The view is that of one server.  The rest of the cluster appears as     *)
(* what it makes this server do: raise the quick commit index, win an      *)
(* election, lose the leadership, take entries of another leader.          *)
(*                                                                         *)
(* A step is what one thread does between two points where another thread  *)
(* can see or disturb it: the locks are cli_lock_ (a user thread from      *)
(* storing its entries to registering its element, and a role change) and  *)
(* commit_ret_elems_lock_ (each access to the map).                        *)
(***************************************************************************)
EXTENDS Naturals, Sequences, Functions, FiniteSetsExt

CONSTANTS
    Clients,   \* user threads, each with one request
    Batch,     \* Batch[c]: number of log entries in the request of c
    MaxLog,    \* bound: length of the log
    None       \* the null pointer: no return value, no element

Conf  == "conf"   \* a configuration entry
Other == "other"  \* an application entry of another leader

Indices == 1 .. MaxLog

(* An element is created by a user thread or, for an index, by the commit  *)
(* thread; both create at most one, which names it.                        *)
Elems == Clients \cup Indices

VARIABLES
    blocking,   \* return_method_: blocking (TRUE) or async_handler (FALSE)
    role,       \* role_
    dropping,   \* become_follower: "no", "due" (role changed), "running"
    cancelling, \* elements drop_all_pending_commit_elems has yet to cancel
    log,        \* log_store_: the owner of each entry
    pre,        \* precommit_index_
    quick,      \* quick_commit_index_
    sm,         \* sm_commit_index_
    map,        \* commit_ret_elems_: index -> element
    elem,       \* element -> its code, value and callback_invoked_
    result,     \* element -> its async_result_
    client,     \* user thread -> where it is and what it holds
    committer   \* the commit thread

vars == <<blocking, role, dropping, cancelling, log, pre, quick, sm, map, elem, result,
          client, committer>>

Nothing == [i \in {} |-> None]

FreshElem == [code |-> "TIMEOUT", val |-> None, invoked |-> FALSE]

NoResult == [has |-> FALSE, code |-> "OK", val |-> None, handler |-> None]

Init ==
    /\ blocking \in BOOLEAN
    /\ role = "leader" /\ dropping = "no" /\ cancelling = {}
    /\ log = <<Conf>> /\ pre = 1 /\ quick = 0 /\ sm = 0
    /\ map = Nothing
    /\ elem = [e \in Elems |-> FreshElem]
    /\ result = [e \in Elems |-> NoResult]
    /\ client = [c \in Clients |->
                    [at |-> "idle", idx |-> 0, stored |-> 0, mine |-> None,
                     got |-> None, code |-> None, val |-> None, calls |-> 0]]
    /\ committer = [at |-> "asleep", need |-> FALSE, pc |-> 0, notify |-> None]

(* cli_lock_ is held by a user thread from its first entry until its       *)
(* element is in the map.                                                  *)
CliLockFree == \A c \in Clients :
    client[c].at \notin {"appending", "stored", "appended"}

-----------------------------------------------------------------------------
(* The user thread *)

(* handle_cli_req: a leader takes the request, any other server answers    *)
(* NOT_LEADER.                                                             *)
TakeRequest(c) ==
    /\ client[c].at = "idle" /\ CliLockFree
    /\ client' = [client EXCEPT
           ![c].at = IF role = "leader" THEN "appending" ELSE "done",
           ![c].code = IF role = "leader" THEN None ELSE "NOT_LEADER"]
    /\ UNCHANGED <<role, dropping, cancelling, log, pre, quick, sm, map, elem,
                   result, committer>>

(* Slip: the precommit index follows the log at once. *)
StoreRaising(c) ==
    /\ client[c].at = "appending" /\ Len(log) < MaxLog
    /\ log' = Append(log, c)
    /\ pre' = Len(log')
    /\ client' = [client EXCEPT ![c].at = "stored", ![c].idx = Len(log) + 1,
                                ![c].stored = @ + 1]
    /\ UNCHANGED <<role, dropping, cancelling, quick, sm, map, elem, result,
                   committer>>

(* store_log_entry for the next entry of the request. *)
Store(c) ==
    /\ client[c].at = "appending" /\ Len(log) < MaxLog
    /\ log' = Append(log, c)
    /\ client' = [client EXCEPT ![c].at = "stored", ![c].idx = Len(log) + 1,
                                ![c].stored = @ + 1]
    /\ UNCHANGED <<role, dropping, cancelling, pre, quick, sm, map, elem,
                   result, committer>>

(* try_update_precommit_index: the index only rises. *)
Raised(desired) == Max({pre, desired})

(* pre_commit_ext for the entry just stored; after the last entry of the   *)
(* request precommit_index_ follows.                                       *)
PreCommit(c) ==
    /\ client[c].at = "stored"
    /\ \/ /\ client[c].stored < Batch[c]
          /\ client' = [client EXCEPT ![c].at = "appending"]
          /\ UNCHANGED pre
       \/ /\ client[c].stored = Batch[c]
          /\ client' = [client EXCEPT ![c].at = "appended"]
          /\ pre' = Raised(client[c].idx)
    /\ UNCHANGED <<role, dropping, cancelling, log, quick, sm, map, elem, result,
                   committer>>

With(m, i, e) == [j \in DOMAIN m \cup {i} |-> IF j = i THEN e ELSE m[j]]

Without(m, i) == Restrict(m, DOMAIN m \ {i})

(* Slip: the element is inserted without looking for one of the commit     *)
(* thread.                                                                 *)
RegisterOver(c) ==
    /\ client[c].at = "appended"
    /\ map' = With(map, client[c].idx, c)
    /\ client' = [client EXCEPT ![c].at = IF blocking THEN "waiting" ELSE "returned",
                                ![c].mine = c]
    /\ UNCHANGED <<role, dropping, cancelling, log, pre, quick, sm, elem, result,
                   committer>>

(* The element of the index goes into the map, unless the commit thread    *)
(* was faster and left one there; the user thread keeps a pointer to it.   *)
Register(c) ==
    /\ client[c].at = "appended"
    /\ LET i == client[c].idx
           e == IF i \in DOMAIN map THEN map[i] ELSE c
       IN  /\ map' = With(map, i, e)
           /\ client' = [client EXCEPT
                  ![c].at = IF blocking THEN "waiting" ELSE "returned",
                  ![c].mine = e]
    /\ UNCHANGED <<role, dropping, cancelling, log, pre, quick, sm, elem, result,
                   committer>>

(* handle_cli_req_callback, blocking mode.  wait_ms ends with the commit   *)
(* thread's signal or with client_req_timeout_, so at any time; then,      *)
(* under the lock, the value is copied and a finished element erased, by   *)
(* its index.                                                              *)
Collect(c) ==
    /\ client[c].at = "waiting"
    /\ LET e == client[c].mine
       IN  /\ client' = [client EXCEPT ![c].at = "collected",
                                       ![c].got = elem[e].val]
           /\ elem' = [elem EXCEPT ![e].invoked = TRUE]
           /\ map' = IF elem[e].code = "TIMEOUT" THEN map
                     ELSE Without(map, client[c].idx)
    /\ UNCHANGED <<role, dropping, cancelling, log, pre, quick, sm, result,
                   committer>>

(* The code is read after the lock is released. *)
Answer(c) ==
    /\ client[c].at = "collected"
    /\ client' = [client EXCEPT ![c].at = "done",
                                ![c].code = elem[client[c].mine].code,
                                ![c].val = client[c].got]
    /\ UNCHANGED <<role, dropping, cancelling, log, pre, quick, sm, map, elem,
                   result, committer>>

(* Async mode: the client installs its handler with when_ready, which      *)
(* calls it at once if the result is there.                                *)
WhenReady(c) ==
    /\ client[c].at = "returned"
    /\ LET e == client[c].mine
       IN  IF result[e].has
           THEN /\ client' = [client EXCEPT
                       ![c].at = "done", ![c].calls = @ + 1,
                       ![c].code = result[e].code, ![c].val = result[e].val]
                /\ UNCHANGED result
           ELSE /\ client' = [client EXCEPT ![c].at = "done"]
                /\ result' = [result EXCEPT ![e].handler = c]
    /\ UNCHANGED <<role, dropping, cancelling, log, pre, quick, sm, map, elem,
                   committer>>

(* cmd_result::set_result: the result replaces any earlier one, and a      *)
(* handler already installed is called with it.                            *)
SetResult(e, code, val) ==
    /\ result' = [result EXCEPT ![e].has = TRUE, ![e].code = code, ![e].val = val]
    /\ client' = IF result[e].handler = None THEN client
                 ELSE [client EXCEPT ![result[e].handler].calls = @ + 1,
                                     ![result[e].handler].code = code,
                                     ![result[e].handler].val = val]

-----------------------------------------------------------------------------
(* The commit thread: commit_in_bg_exec *)

Ahead == sm < quick /\ sm < Len(log)

(* The loop starts; whether clients are to be told is decided once, here. *)
CommitBegin ==
    /\ committer.at = "asleep" /\ Ahead
    /\ committer' = [committer EXCEPT !.at = "loop", !.need = (role = "leader")]
    /\ UNCHANGED <<role, dropping, cancelling, log, pre, quick, sm, map, elem,
                   result, client>>

CommitEnd ==
    /\ committer.at = "loop" /\ ~Ahead
    /\ committer' = [committer EXCEPT !.at = "asleep", !.need = FALSE]
    /\ UNCHANGED <<role, dropping, cancelling, log, pre, quick, sm, map, elem,
                   result, client>>

(* commit_conf, or commit_app_log up to the state machine's commit_ext.    *)
(* The precommit index is read before; an index below the entry's would    *)
(* end the process (N23).                                                  *)
Execute ==
    /\ committer.at = "loop" /\ Ahead
    /\ \/ /\ log[sm + 1] = Conf
          /\ sm' = sm + 1
          /\ UNCHANGED committer
       \/ /\ log[sm + 1] # Conf /\ pre >= sm + 1
          /\ committer' = [committer EXCEPT !.at = "executed", !.pc = pre]
          /\ UNCHANGED sm
    /\ UNCHANGED <<role, dropping, cancelling, log, pre, quick, map, elem, result,
                   client>>

(* The iteration ends: sm_commit_index_ moves on. *)
Advance(c) == /\ sm' = sm + 1
              /\ committer' = c

(* The last entry of the latest request may have no element yet. *)
LeavesElement(i) == committer.pc = i

(* Slip: the element is looked up whatever its index. *)
NotifiesAny(i) == IF DOMAIN map = {} THEN None ELSE map[Max(DOMAIN map)]

(* The element waiting for the index. *)
Notifies(i) == IF i \in DOMAIN map THEN map[i] ELSE None

(* commit_app_log after commit_ext, under commit_ret_elems_lock_.  The     *)
(* return value stands for the entry executed.                             *)
Notify ==
    /\ committer.at = "executed"
    /\ LET i == sm + 1
           e == Notifies(i)
           OkFor(x) == [elem EXCEPT ![x].code = "OK", ![x].val = log[i]]
           Looped == [committer EXCEPT !.at = "loop", !.pc = 0]
       IN  \/ /\ ~committer.need
              /\ Advance(Looped)
              /\ UNCHANGED <<map, elem, result>>
           \/ /\ committer.need /\ e # None /\ blocking
              /\ elem' = OkFor(e)
              /\ map' = IF elem[e].invoked THEN Without(map, i) ELSE map
              /\ Advance(Looped)
              /\ UNCHANGED result
           \/ /\ committer.need /\ e # None /\ ~blocking
              /\ elem' = OkFor(e)
              /\ map' = Without(map, i)
              /\ committer' = [committer EXCEPT !.at = "notify", !.notify = e]
              /\ UNCHANGED <<result, sm>>
           \/ /\ committer.need /\ e = None /\ LeavesElement(i)
              /\ elem' = OkFor(i)
              /\ map' = With(map, i, i)
              /\ result' = IF blocking THEN result
                           ELSE [result EXCEPT ![i].has = TRUE, ![i].val = log[i]]
              /\ Advance(Looped)
           \/ /\ committer.need /\ e = None /\ ~LeavesElement(i)
              /\ Advance(Looped)
              /\ UNCHANGED <<map, elem, result>>
    /\ UNCHANGED <<role, dropping, cancelling, log, pre, quick, client>>

(* Async mode: the result is set outside the lock. *)
NotifyAsync ==
    /\ committer.at = "notify"
    /\ SetResult(committer.notify, "OK", elem[committer.notify].val)
    /\ Advance([committer EXCEPT !.at = "loop", !.pc = 0, !.notify = None])
    /\ UNCHANGED <<role, dropping, cancelling, log, pre, quick, map, elem>>

-----------------------------------------------------------------------------
(* The threads that hold lock_: role changes, replication, commit indices. *)
(* Between the two parts of a step down no other of them runs.             *)

(* update_term or become_follower gives up the role, under cli_lock_. *)
LoseRole ==
    /\ role = "leader" /\ CliLockFree
    /\ role' = "follower" /\ dropping' = "due"
    /\ UNCHANGED <<cancelling, log, pre, quick, sm, map, elem, result, client,
                   committer>>

(* Slip: the cancelled elements stay in the map. *)
DropAllKeeping ==
    /\ dropping = "due"
    /\ elem' = [e \in Elems |-> IF e \in Range(map)
                   THEN [elem[e] EXCEPT !.code = "CANCELLED", !.val = None]
                   ELSE elem[e]]
    /\ cancelling' = IF blocking THEN {} ELSE Range(map)
    /\ dropping' = IF cancelling' = {} THEN "no" ELSE "running"
    /\ UNCHANGED <<role, log, pre, quick, sm, map, result, client, committer>>

(* drop_all_pending_commit_elems: every element leaves the map; a blocked  *)
(* client finds CANCELLED in its element, an asynchronous one gets it set  *)
(* in its result once the lock is released.                                *)
DropAll ==
    /\ dropping = "due"
    /\ elem' = IF blocking
               THEN [e \in Elems |-> IF e \in Range(map)
                        THEN [elem[e] EXCEPT !.code = "CANCELLED", !.val = None]
                        ELSE elem[e]]
               ELSE elem
    /\ map' = Nothing
    /\ cancelling' = IF blocking THEN {} ELSE Range(map)
    /\ dropping' = IF cancelling' = {} THEN "no" ELSE "running"
    /\ UNCHANGED <<role, log, pre, quick, sm, result, client, committer>>

CancelAsync(e) ==
    /\ dropping = "running" /\ e \in cancelling
    /\ SetResult(e, "CANCELLED", None)
    /\ cancelling' = cancelling \ {e}
    /\ dropping' = IF cancelling' = {} THEN "no" ELSE "running"
    /\ UNCHANGED <<role, log, pre, quick, sm, map, elem, committer>>

(* Slip: the precommit index keeps what it had before a rollback. *)
BecomeLeaderKeeping ==
    /\ role = "follower" /\ dropping = "no" /\ CliLockFree /\ Len(log) < MaxLog
    /\ role' = "leader"
    /\ log' = Append(log, Conf)
    /\ pre' = Raised(Len(log'))
    /\ UNCHANGED <<dropping, cancelling, quick, sm, map, elem, result, client,
                   committer>>

(* become_leader: the precommit index is the end of the log, and a         *)
(* configuration entry follows.                                            *)
BecomeLeader ==
    /\ role = "follower" /\ dropping = "no" /\ CliLockFree /\ Len(log) < MaxLog
    /\ role' = "leader"
    /\ log' = Append(log, Conf)
    /\ pre' = Len(log')
    /\ UNCHANGED <<dropping, cancelling, quick, sm, map, elem, result, client,
                   committer>>

(* A configuration entry of this leader (set_user_ctx, set_priority, a     *)
(* server that joins or leaves): stored without cli_lock_.                 *)
AppendConf ==
    /\ role = "leader" /\ Len(log) < MaxLog
    /\ log' = Append(log, Conf)
    /\ pre' = Raised(Len(log'))
    /\ UNCHANGED <<role, dropping, cancelling, quick, sm, map, elem, result,
                   client, committer>>

(* commit on the leader: a quorum has what the leader announced, entries   *)
(* up to its precommit index.                                              *)
QuorumCommit(k) ==
    /\ role = "leader" /\ k \in quick + 1 .. pre
    /\ quick' = k
    /\ UNCHANGED <<role, dropping, cancelling, log, pre, sm, map, elem, result,
                   client, committer>>

(* handle_append_entries: an entry of another leader replaces what follows *)
(* index keep, no committed entry among it, and the commit index rises up  *)
(* to it; or nothing is stored and the commit index rises.                 *)
FollowerAppend(keep, k) ==
    /\ role = "follower" /\ dropping = "no" /\ keep < MaxLog
    /\ keep \in quick .. Len(log) /\ k \in quick .. keep + 1
    /\ log' = Append(SubSeq(log, 1, keep), Other)
    /\ pre' = Raised(keep + 1)
    /\ quick' = k
    /\ UNCHANGED <<role, dropping, cancelling, sm, map, elem, result, client,
                   committer>>

FollowerCommit(k) ==
    /\ role = "follower" /\ dropping = "no" /\ k \in quick + 1 .. Len(log)
    /\ pre' = Raised(k)
    /\ quick' = k
    /\ UNCHANGED <<role, dropping, cancelling, log, sm, map, elem, result, client,
                   committer>>

-----------------------------------------------------------------------------
ClientStep(c) ==
    \/ TakeRequest(c) \/ Store(c) \/ PreCommit(c) \/ Register(c)
    \/ Collect(c) \/ Answer(c) \/ WhenReady(c)

CommitStep == CommitBegin \/ CommitEnd \/ Execute \/ Notify \/ NotifyAsync

StepDown == LoseRole \/ DropAll \/ \E e \in cancelling : CancelAsync(e)

Follow == \E k \in 0 .. MaxLog :
    FollowerCommit(k) \/ \E keep \in 0 .. MaxLog : FollowerAppend(keep, k)

(* The return method is a parameter of the server. *)
Next ==
    /\ UNCHANGED blocking
    /\ \/ \E c \in Clients : ClientStep(c)
       \/ CommitStep
       \/ StepDown
       \/ BecomeLeader
       \/ AppendConf
       \/ \E k \in Indices : QuorumCommit(k)
       \/ Follow

Spec == Init /\ [][Next]_vars

-----------------------------------------------------------------------------
(* Properties *)

Codes == {"OK", "TIMEOUT", "CANCELLED"}
Values == Clients \cup {Other, None}

(* The values of the threads' locals, the map and its elements. *)
ClientResultTypeOK ==
    /\ role \in {"leader", "follower"} /\ dropping \in {"no", "due", "running"}
    /\ cancelling \subseteq Elems
    /\ log \in Seq(Clients \cup {Conf, Other})
    /\ {pre, quick, sm} \subseteq 0 .. MaxLog
    /\ DOMAIN map \subseteq Indices /\ Range(map) \subseteq Elems
    /\ elem \in [Elems -> [code : Codes, val : Values, invoked : BOOLEAN]]
    /\ result \in [Elems -> [has : BOOLEAN, code : Codes, val : Values,
                             handler : Clients \cup {None}]]
    /\ \A c \in Clients :
          /\ client[c].at \in {"idle", "appending", "stored", "appended", "waiting",
                               "collected", "returned", "done"}
          /\ client[c].idx \in 0 .. MaxLog /\ client[c].stored \in 0 .. Batch[c]
          /\ client[c].mine \in Elems \cup {None}
    /\ committer.at \in {"asleep", "loop", "executed", "notify"}

(* The entry at index i has been executed by the state machine. *)
Executed(i) == i <= sm \/ (i = sm + 1 /\ committer.at \in {"executed", "notify"})

(* What the client of a finished request has been told, if anything. *)
Told(c, code) == client[c].at = "done" /\ client[c].code = code

(* handle_cli_req, commit_app_log: a client that is told OK had its own    *)
(* request executed at the index it was stored at, and any value it got is *)
(* that request's, whatever leaders came and went in between.              *)
OkIsMine ==
    \A c \in Clients : Told(c, "OK") =>
        /\ Executed(client[c].idx) /\ log[client[c].idx] = c
        /\ client[c].val \in {c, None}

(* The element of the request says how it ended. *)
Signalled(c) ==
    /\ client[c].mine # None
    /\ IF blocking THEN elem[client[c].mine].code # "TIMEOUT"
       ELSE result[client[c].mine].has

(* commit_app_log, try_update_precommit_index: what is to be committed has *)
(* been through the precommit index, so that exit N23 is never taken, also *)
(* after a rollback made the log shorter than the index once was.          *)
CommitBehindPrecommit == quick <= pre /\ quick <= Len(log)

(* cmd_result::set_result, when_ready: the handler of an asynchronous      *)
(* request is called at most once, although the commit thread, the thread  *)
(* stepping down and the client's own may all come to call it.             *)
HandlerOnce == \A c \in Clients : client[c].calls <= 1

(* state_machine::pre_commit "is called after appending Raft log, before   *)
(* getting acks from quorum nodes": no entry is executed before it,        *)
(* although the commit thread looks at the precommit index only.  (Without *)
(* configuration entries, which raise the index past a stored request.)    *)
PreCommitFirst ==
    \A c \in Clients : client[c].at = "stored" => ~Executed(client[c].idx)

(* raft_server::append_entries, async mode: "commit results will be set to *)
(* returned cmd_result instance later", once the request is committed; and *)
(* a blocked client's element gets its code.                               *)
CommitResultIsSet ==
    \A c \in Clients :
        (client[c].mine # None /\ client[c].idx <= quick) ~> Signalled(c)
=============================================================================
