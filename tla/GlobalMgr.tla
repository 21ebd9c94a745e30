------------------------------ MODULE GlobalMgr ------------------------------
(***************************************************************************)
(* nuraft_global_mgr (src/src/global_mgr.cxx): a pool of threads that      *)
(* commits and sends for several Raft servers of one process, in place of  *)
(* the two background threads of each of them.  A server asks to be served *)
(* by a queue that holds it at most once; a worker takes the first server  *)
(* and serves it for a time slice.  A worker wakes up every second even if *)
(* nobody invokes it, so whom request_commit() invokes is left out.        *)
(***************************************************************************)
EXTENDS Naturals, Sequences, SequencesExt

CONSTANTS Hosted,           \* the Raft servers of the process
          CommitWorkers, AppendWorkers,
          MaxCommits,       \* bound: entries that are committed
          MaxAppends,       \* bound: requests to append
          MaxPauses         \* bound: calls that pause a state machine

Workers == CommitWorkers \cup AppendWorkers
Kinds == {"commit", "append"}
NoOne == "none"
KindOf(w) == IF w \in CommitWorkers THEN "commit" ELSE "append"

VARIABLES queue,            \* commit_queue_ and append_queue_
          serverSet,        \* commit_server_set_ and append_server_set_
          hosted,           \* the state of each server
          pool,             \* the state of each worker
          uses              \* what the bounds count

mgrVars == <<queue, serverSet, hosted, pool, uses>>

\* quick and sm: the indices; lock: who holds commit_lock_; asking: requests
\* that have been decided on and not yet put into the queue; ignored: history,
\* a request has been ignored because another worker was committing.  Commits
\* and appends share no state: a behaviour exercises one of the two.
MgrInit ==
    /\ queue = [k \in Kinds |-> <<>>]
    /\ serverSet = [k \in Kinds |-> {}]
    /\ hosted = [s \in Hosted |-> [quick |-> 0, sm |-> 0, paused |-> FALSE, lock |-> NoOne,
                                   unsent |-> FALSE, asking |-> {}, closed |-> FALSE,
                                   ignored |-> FALSE]]
    /\ pool = [w \in Workers |-> [at |-> "free", target |-> NoOne, first |-> TRUE]]
    /\ uses \in {[commit |-> 0, append |-> MaxAppends, pause |-> 0],
                 [commit |-> MaxCommits, append |-> 0, pause |-> MaxPauses]}

-----------------------------------------------------------------------------
(* The servers.                                                              *)

\* commit(): the index, then the request.
CommitUpTo(s) ==
    /\ uses.commit < MaxCommits /\ ~hosted[s].closed /\ "commit" \notin hosted[s].asking
    /\ hosted' = [hosted EXCEPT ![s].quick = @ + 1, ![s].asking = @ \cup {"commit"}]
    /\ uses' = [uses EXCEPT !.commit = @ + 1]
    /\ UNCHANGED <<queue, serverSet, pool>>

\* request_append_entries_for_all() with the pool, for an entry that is stored.
StoreEntry(s) ==
    /\ uses.append < MaxAppends /\ ~hosted[s].closed /\ "append" \notin hosted[s].asking
    /\ hosted' = [hosted EXCEPT ![s].unsent = TRUE, ![s].asking = @ \cup {"append"}]
    /\ uses' = [uses EXCEPT !.append = @ + 1]
    /\ UNCHANGED <<queue, serverSet, pool>>

PauseMachine(s) ==
    /\ uses.pause < MaxPauses /\ ~hosted[s].paused /\ ~hosted[s].closed
    /\ hosted' = [hosted EXCEPT ![s].paused = TRUE]
    /\ uses' = [uses EXCEPT !.pause = @ + 1]
    /\ UNCHANGED <<queue, serverSet, pool>>

\* resume_state_machine_execution(): active again, then the request.
ResumeMachine(s) ==
    /\ hosted[s].paused /\ ~hosted[s].closed /\ "commit" \notin hosted[s].asking
    /\ hosted' = [hosted EXCEPT ![s].paused = FALSE, ![s].asking = @ \cup {"commit"}]
    /\ UNCHANGED <<queue, serverSet, pool, uses>>

\* The first half of request_commit() and request_append(), under the lock.
Push(k, s) ==
    IF s \in serverSet[k] THEN UNCHANGED <<queue, serverSet>>
    ELSE /\ queue' = [queue EXCEPT ![k] = Append(@, s)]
         /\ serverSet' = [serverSet EXCEPT ![k] = @ \cup {s}]

Request(k, s) ==
    /\ k \in hosted[s].asking
    /\ Push(k, s)
    /\ hosted' = [hosted EXCEPT ![s].asking = @ \ {k}]
    /\ UNCHANGED <<pool, uses>>

\* close_raft_server(): the first request of the server leaves each queue.
CloseServer(s) ==
    /\ ~hosted[s].closed
    /\ hosted' = [hosted EXCEPT ![s].closed = TRUE]
    /\ queue' = [k \in Kinds |-> LET at == {n \in DOMAIN queue[k] : queue[k][n] = s} IN
                    IF at = {} THEN queue[k]
                    ELSE RemoveAt(queue[k], CHOOSE n \in at : \A m \in at : n <= m)]
    /\ serverSet' = [k \in Kinds |-> serverSet[k] \ {s}]
    /\ UNCHANGED <<pool, uses>>

-----------------------------------------------------------------------------
(* The workers.                                                              *)

\* Slip: a worker that has popped its server leaves it in the set.
TakeTargetKept(w) ==
    LET k == KindOf(w) IN
    /\ pool[w].at = "free" /\ queue[k] # <<>>
    /\ pool' = [pool EXCEPT ![w].at = "serve", ![w].target = Head(queue[k])]
    /\ queue' = [queue EXCEPT ![k] = Tail(@)]
    /\ UNCHANGED <<serverSet, hosted, uses>>

\* A worker that sleeps until it is invoked or a second is over, or skips the
\* sleep because it has just served, takes the first server.
TakeTarget(w) ==
    LET k == KindOf(w) IN
    /\ pool[w].at = "free" /\ queue[k] # <<>>
    /\ pool' = [pool EXCEPT ![w].at = "serve", ![w].target = Head(queue[k])]
    /\ serverSet' = [serverSet EXCEPT ![k] = @ \ {Head(queue[k])}]
    /\ queue' = [queue EXCEPT ![k] = Tail(@)]
    /\ UNCHANGED <<hosted, uses>>

\* append_entries_in_bg_exec.
ServeAppend(w) ==
    LET s == pool[w].target IN
    /\ w \in AppendWorkers /\ pool[w].at = "serve"
    /\ hosted' = [hosted EXCEPT ![s].unsent = FALSE]
    /\ pool' = [pool EXCEPT ![w].at = "free", ![w].target = NoOne]
    /\ UNCHANGED <<queue, serverSet, uses>>

\* A paused server and one that has nothing to commit are passed over; the try
\* lock of commit_in_bg_exec ignores one that another worker serves.
ServeCommit(w) ==
    LET s == pool[w].target
        pass == hosted[s].paused \/ hosted[s].quick <= hosted[s].sm
        taken == hosted[s].lock # NoOne
    IN
    /\ w \in CommitWorkers /\ pool[w].at = "serve"
    /\ IF pass \/ taken
       THEN /\ pool' = [pool EXCEPT ![w].at = "free", ![w].target = NoOne]
            /\ hosted' = [hosted EXCEPT ![s].ignored = @ \/ ~pass]
       ELSE /\ hosted' = [hosted EXCEPT ![s].lock = w]
            /\ pool' = [pool EXCEPT ![w].at = "loop", ![w].first = TRUE]
    /\ UNCHANGED <<queue, serverSet, uses>>

\* One round of the loop of commit_in_bg_exec; a round that is not the first
\* may find that the time slice is over.
LoopStep(w) ==
    LET s == pool[w].target IN
    /\ pool[w].at = "loop"
    /\ \/ /\ hosted[s].sm >= hosted[s].quick \/ hosted[s].paused
          /\ pool' = [pool EXCEPT ![w].at = "leave"]
          /\ UNCHANGED hosted
       \/ /\ hosted[s].sm < hosted[s].quick /\ ~pool[w].first
          /\ pool' = [pool EXCEPT ![w].at = "late"]
          /\ UNCHANGED hosted
       \/ /\ hosted[s].sm < hosted[s].quick /\ ~hosted[s].paused
          /\ hosted' = [hosted EXCEPT ![s].sm = @ + 1]
          /\ pool' = [pool EXCEPT ![w].first = FALSE]
    /\ UNCHANGED <<queue, serverSet, uses>>

\* Slip: a server whose time slice is over is not put into the queue again.
LeaveLoopForgets(w) ==
    LET s == pool[w].target IN
    /\ pool[w].at \in {"leave", "late"}
    /\ hosted' = [hosted EXCEPT ![s].lock = NoOne]
    /\ pool' = [pool EXCEPT ![w].at = "free", ![w].target = NoOne]
    /\ UNCHANGED <<queue, serverSet, uses>>

\* commit_lock_ is released when the function returns.
LeaveLoop(w) ==
    LET s == pool[w].target IN
    /\ pool[w].at \in {"leave", "late"}
    /\ hosted' = [hosted EXCEPT ![s].lock = NoOne]
    /\ pool' = IF pool[w].at = "late" THEN [pool EXCEPT ![w].at = "again"]
               ELSE [pool EXCEPT ![w].at = "free", ![w].target = NoOne]
    /\ UNCHANGED <<queue, serverSet, uses>>

\* The commit took too long: the server is put into the queue again.
Requeue(w) ==
    /\ pool[w].at = "again"
    /\ Push("commit", pool[w].target)
    /\ pool' = [pool EXCEPT ![w].at = "free", ![w].target = NoOne]
    /\ UNCHANGED <<hosted, uses>>

-----------------------------------------------------------------------------
WorkerStep(w) ==
    \/ TakeTarget(w) \/ ServeAppend(w) \/ ServeCommit(w)
    \/ LoopStep(w) \/ LeaveLoop(w) \/ Requeue(w)

ServerStep(s) ==
    \/ CommitUpTo(s) \/ StoreEntry(s) \/ PauseMachine(s) \/ ResumeMachine(s) \/ CloseServer(s)
    \/ \E k \in Kinds : Request(k, s)

MgrNext == (\E w \in Workers : WorkerStep(w)) \/ (\E s \in Hosted : ServerStep(s))

MgrSpec == MgrInit /\ [][MgrNext]_mgrVars

-----------------------------------------------------------------------------
(* Types of the pool and its queues; a worker executes committed entries     *)
(* only (commit_in_bg_exec).                                                 *)
MgrTypeOK ==
    /\ queue \in [Kinds -> Seq(Hosted)] /\ serverSet \in [Kinds -> SUBSET Hosted]
    /\ \A s \in Hosted : /\ hosted[s].lock \in CommitWorkers \cup {NoOne}
                          /\ hosted[s].sm <= hosted[s].quick
    /\ \A w \in Workers : pool[w].target \in Hosted \cup {NoOne}

(* A committed entry is executed in the end, unless the state machine is     *)
(* paused, the server closed, or a request of it was ignored because another *)
(* worker held commit_lock_.                                                 *)
CommittedIsExecuted ==
    \A s \in Hosted : (hosted[s].quick > hosted[s].sm) ~>
        (hosted[s].sm = hosted[s].quick \/ hosted[s].paused \/ hosted[s].closed \/ hosted[s].ignored)

(* commit_in_bg_exec says of a request that finds commit_lock_ held that "we *)
(* can just ignore it": every committed entry would still be executed.       *)
IgnoredIsExecuted ==
    \A s \in Hosted : (hosted[s].quick > hosted[s].sm) ~>
        (hosted[s].sm = hosted[s].quick \/ hosted[s].paused \/ hosted[s].closed)

(* A stored entry is sent in the end by one of the append workers.           *)
AppendIsSent == \A s \in Hosted : hosted[s].unsent ~> (~hosted[s].unsent \/ hosted[s].closed)
=============================================================================
