------------------------------ MODULE Snapshot ------------------------------
(***************************************************************************)
(* Snapshots on one server of NuRaft: their creation by the commit thread, *)
(* on a user's schedule or by create_snapshot() in a user's thread, the    *)
(* compaction of the log that follows (src/src/handle_commit.cxx), and the *)
(* installation of a snapshot from the leader, for which the execution of  *)
(* the log is paused (handle_snapshot_sync_req and the pause functions).   *)
(*                                                                         *)
(* A log entry is its index; the entries in ConfAt are configurations, and *)
(* a configuration is the index of its entry.  The state machine is        *)
(* external: its state is the index of the last entry it executed, a       *)
(* snapshot keeps the state of the moment at which it is asked for, and    *)
(* the latest snapshot is the one with the greatest index.  It calls the   *)
(* handler of create_snapshot inside the call or later.                    *)
(***************************************************************************)
EXTENDS Naturals, FiniteSets, FiniteSetsExt

CONSTANTS
    MaxIdx,         \* bound on the log indices
    ConfAt,         \* the indices of configuration entries
    Distance,       \* raft_params::snapshot_distance_
    FirstDistance,  \* first_snapshot_distance_
    Reserved,       \* raft_params::reserved_log_items_
    Installable,    \* the snapshots the leader may send
    Installers,     \* the threads that handle its requests
    Overlap,        \* TRUE: other calls are handled during an installation
    MaxManual,      \* bound on the calls of create_snapshot()
    MaxSchedules,   \* bound on the calls of schedule_snapshot_creation
    MaxInstalls     \* bound on the snapshots received

ASSUME SnapshotAssumption ==
    /\ MaxIdx \in Nat /\ 1 \in ConfAt /\ ConfAt \subseteq 1..MaxIdx
    /\ Installable \subseteq 1..MaxIdx
    /\ Distance \in Nat \ {0} /\ FirstDistance \in 1..Distance /\ Reserved \in Nat

VARIABLES
    logs,       \* start_index() and the last index of log_store_
    core,       \* the fields of raft_server
    machine,    \* the state machine
    thread,     \* what each thread does
    creation,   \* the snapshot the state machine is creating
    holder,     \* the installer that holds lock_, or "none"
    results,    \* the results of schedule_snapshot_creation
    calls       \* snapshots received and created by hand so far

snapVars == <<logs, core, machine, thread, creation, holder, results, calls>>

Makers == {"commit", "user"}
Idx == 0..MaxIdx
NoSnapshot == [idx |-> 0, state |-> 0, conf |-> 0, forced |-> FALSE]
NoCreation == [at |-> "none", snp |-> NoSnapshot, result |-> 0]
Idle == [at |-> "idle", idx |-> 0, conf |-> 0, snp |-> NoSnapshot, result |-> 0]

SnapInit ==
    /\ logs = [start |-> 1, last |-> 1]
    /\ core = [sm |-> 1, quick |-> 1, conf |-> 1, last |-> NoSnapshot,
               inProgress |-> FALSE, scheduled |-> FALSE, result |-> 0,
               paused |-> FALSE, executing |-> FALSE, exited |-> FALSE]
    /\ machine = [state |-> 1, snaps |-> {}]
    /\ thread = [t \in Makers \cup Installers |-> Idle]
    /\ creation = NoCreation
    /\ holder = "none"
    /\ results = [n \in 1..MaxSchedules |-> "none"]
    /\ calls = [installs |-> 0, manual |-> 0]

-----------------------------------------------------------------------------
(* lock_, threads and the log.                                               *)

\* A handler runs at once when nobody holds lock_.
Unlocked == holder = "none"

Go(t, at) == thread' = [thread EXCEPT ![t].at = at]

\* Installers past the check of the snapshot's index.
Installing == {t \in Installers : thread[t].at # "idle"}

\* Another request may be handled: the leader sends none while it waits for
\* the answer to the last object, a new leader or a retry does.  With Overlap
\* a user may also call create_snapshot() during an installation.
MayHandle == Unlocked /\ (Overlap \/ Installing = {})

\* log_store::compact: the log is never shorter than what was compacted.
Compacted(l, upto) ==
    [start |-> Max({l.start, upto + 1}), last |-> Max({l.last, upto})]

\* The configuration of an index, and the one before a configuration.
ConfOf(idx) == Max({c \in ConfAt : c <= idx} \cup {0})
PrevConf(conf) == ConfOf(conf - 1)

\* handle_append_entries, or a leader's store_log_entry.
AppendEntry ==
    /\ MayHandle /\ logs.last < MaxIdx
    /\ logs' = [logs EXCEPT !.last = @ + 1]
    /\ UNCHANGED <<core, machine, thread, creation, holder, results, calls>>

\* commit(): the entries are known to be committed.
AdvanceCommit ==
    /\ MayHandle /\ core.quick < logs.last
    /\ core' = [core EXCEPT !.quick = logs.last]
    /\ UNCHANGED <<logs, machine, thread, creation, holder, results, calls>>

-----------------------------------------------------------------------------
(* The commit thread: commit_in_bg and commit_in_bg_exec.  With work to do   *)
(* it enters the loop even when it is paused, and leaves it at once.         *)

Work == core.sm < core.quick /\ core.sm < logs.last

CommitStart ==
    /\ thread["commit"].at = "idle" /\ Work
    /\ core' = [core EXCEPT !.executing = TRUE, !.sm = Max({@, logs.start - 1})]
    /\ Go("commit", "loop")
    /\ UNCHANGED <<logs, machine, creation, holder, results, calls>>

CommitLoop ==
    /\ thread["commit"].at = "loop"
    /\ IF Work /\ ~core.paused
       THEN /\ thread' = [thread EXCEPT !["commit"].at = "body",
                                        !["commit"].idx = core.sm + 1]
            /\ UNCHANGED core
       ELSE /\ core' = [core EXCEPT !.executing = FALSE]
            /\ Go("commit", "idle")
    /\ UNCHANGED <<logs, machine, creation, holder, results, calls>>

\* commit_app_log or commit_conf; without the entry the server exits.
CommitBody ==
    LET idx == thread["commit"].idx
    IN  /\ thread["commit"].at = "body"
        /\ IF idx >= logs.start
           THEN /\ machine' = [machine EXCEPT !.state = idx]
                /\ core' = [core EXCEPT !.conf = IF idx \in ConfAt THEN Max({@, idx})
                                                 ELSE @]
           ELSE core' = [core EXCEPT !.exited = TRUE] /\ UNCHANGED machine
        /\ Go("commit", "cas")
        /\ UNCHANGED <<logs, creation, holder, results, calls>>

\* Slip: the snapshot is made for what is committed, executed or not.
CommitDoneQuick ==
    LET idx == thread["commit"].idx
    IN  /\ thread["commit"].at = "cas"
        /\ IF core.sm = idx - 1
           THEN /\ core' = [core EXCEPT !.sm = idx]
                /\ thread' = [thread EXCEPT !["commit"].at = "check",
                                            !["commit"].idx = core.quick]
           ELSE UNCHANGED core /\ Go("commit", "loop")
        /\ UNCHANGED <<logs, machine, creation, holder, results, calls>>

\* Only if nobody changed the index, it advances and a snapshot is considered.
CommitDone ==
    LET idx == thread["commit"].idx
    IN  /\ thread["commit"].at = "cas"
        /\ IF core.sm = idx - 1
           THEN core' = [core EXCEPT !.sm = idx] /\ Go("commit", "check")
           ELSE UNCHANGED core /\ Go("commit", "loop")
        /\ UNCHANGED <<logs, machine, creation, holder, results, calls>>

-----------------------------------------------------------------------------
(* snapshot_and_compact, in the commit thread or in a user's thread.         *)

\* create_snapshot(), for what the state machine has committed.
ManualSnapshot ==
    /\ calls.manual < MaxManual /\ thread["user"].at = "idle"
    /\ Overlap \/ Installing = {}
    /\ thread' = [thread EXCEPT !["user"].at = "check", !["user"].idx = core.sm]
    /\ calls' = [calls EXCEPT !.manual = @ + 1]
    /\ UNCHANGED <<logs, core, machine, creation, holder, results>>

\* Back to the commit loop, or to the user.
Return(t) == thread' = [thread EXCEPT ![t] =
                [Idle EXCEPT !.at = IF t = "commit" THEN "loop" ELSE "idle"]]

\* The first creation has a distance of its own.
DistanceNow == IF ~core.inProgress /\ core.last = NoSnapshot THEN FirstDistance
               ELSE Distance

\* The log is long enough: an unsigned difference.
LongEnough(idx) == idx + 1 < logs.start \/ idx + 1 - logs.start >= DistanceNow

Wanted(t) ==
    \/ t = "user" \/ core.scheduled
    \/ /\ LongEnough(thread[t].idx)
       /\ \/ core.last = NoSnapshot
          \/ thread[t].idx >= DistanceNow + core.last.idx

\* The conditions, with the values of the moment; the state machine or the
\* user's callback may also refuse.
CheckSnapshot(t) ==
    /\ thread[t].at = "check"
    /\ \/ /\ PrevConf(core.conf) <= logs.last /\ Wanted(t)
          /\ thread' = [thread EXCEPT ![t].at = "begin", ![t].conf = core.conf]
       \/ Return(t)
    /\ UNCHANGED <<logs, core, machine, creation, holder, results, calls>>

\* One creation at a time (snp_in_progress_).
BeginSnapshot(t) ==
    /\ thread[t].at = "begin"
    /\ IF core.inProgress THEN Return(t) /\ UNCHANGED core
       ELSE Go(t, "recheck") /\ core' = [core EXCEPT !.inProgress = TRUE]
    /\ UNCHANGED <<logs, machine, creation, holder, results, calls>>

\* Another thread made a snapshot of this index or a later one meanwhile.
Overtaken(t) == core.last.idx >= thread[t].idx

RecheckSnapshot(t) ==
    /\ thread[t].at = "recheck"
    /\ IF Overtaken(t)
       THEN Return(t) /\ core' = [core EXCEPT !.inProgress = FALSE]
       ELSE /\ thread' = [thread EXCEPT ![t].at = "make", ![t].snp = core.last,
                   ![t].result = IF core.scheduled THEN core.result ELSE 0]
            /\ UNCHANGED core
    /\ UNCHANGED <<logs, machine, creation, holder, results, calls>>

\* The configuration of a snapshot: back from the one in use through the log,
\* and from the last snapshot when the log does not reach back far enough.
ConfFor(t) ==
    LET idx == thread[t].idx
        back == Max({c \in ConfAt \cup {thread[t].conf} :
                        /\ c <= thread[t].conf
                        /\ c <= idx \/ PrevConf(c) < logs.start})
    IN  IF back > idx /\ PrevConf(back) > 0 THEN thread[t].snp.conf ELSE back

\* The state machine is asked, and may throw, or will succeed or refuse; a
\* synchronous one keeps the thread until its handler has run.
MakeSnapshot(t) ==
    /\ thread[t].at = "make"
    /\ \/ /\ \E at \in {"running", "refused"} :
                creation' = [at |-> at, result |-> thread[t].result,
                    snp |-> [idx |-> thread[t].idx, state |-> machine.state,
                             conf |-> ConfFor(t), forced |-> t = "user"]]
          /\ Return(t) \/ Go(t, "made")
          /\ core' = [core EXCEPT !.exited = ConfFor(t) = 0]
       \/ /\ Return(t) /\ core' = [core EXCEPT !.inProgress = FALSE]
          /\ UNCHANGED creation
    /\ UNCHANGED <<logs, machine, holder, results, calls>>

SnapshotMade(t) ==
    /\ thread[t].at = "made" /\ creation = NoCreation
    /\ Return(t)
    /\ UNCHANGED <<logs, core, machine, creation, holder, results, calls>>

-----------------------------------------------------------------------------
(* on_snapshot_completed.                                                    *)

Latest(snaps) == CHOOSE s \in snaps : \A r \in snaps : r.idx <= s.idx

\* What a snapshot makes superfluous, but for the reserved entries.
CompactedFor(l, snp) ==
    IF snp.idx > Reserved THEN Compacted(l, snp.idx - Reserved) ELSE l

\* What the state machine keeps when the creation succeeds.
KeptSnapshots ==
    {s \in machine.snaps : s.idx # creation.snp.idx} \cup {creation.snp}

\* Slip: the snapshot just created counts as the latest one.
SnapshotCompletedOwn ==
    /\ creation' = [creation EXCEPT !.at = "answer"]
    /\ \/ /\ creation.at = "running" /\ Unlocked
          /\ machine' = [machine EXCEPT !.snaps = KeptSnapshots]
          /\ core' = [core EXCEPT !.last = creation.snp]
          /\ logs' = CompactedFor(logs, creation.snp)
       \/ creation.at = "refused" /\ UNCHANGED <<machine, core, logs>>
    /\ UNCHANGED <<thread, holder, results, calls>>

\* With success, under lock_; the latest snapshot is asked for again.
SnapshotCompleted ==
    /\ creation' = [creation EXCEPT !.at = "answer"]
    /\ \/ /\ creation.at = "running" /\ Unlocked
          /\ machine' = [machine EXCEPT !.snaps = KeptSnapshots]
          /\ core' = [core EXCEPT !.last = Latest(KeptSnapshots)]
          /\ logs' = CompactedFor(logs, Latest(KeptSnapshots))
       \/ creation.at = "refused" /\ UNCHANGED <<machine, core, logs>>
    /\ UNCHANGED <<thread, holder, results, calls>>

\* The answer to a scheduled creation, then the end of the creation.
AnswerSchedule ==
    /\ creation.at = "answer"
    /\ creation' = [creation EXCEPT !.at = "clear"]
    /\ IF creation.result = 0 THEN UNCHANGED <<core, results>>
       ELSE /\ results' = [results EXCEPT ![creation.result] = "set"]
            /\ core' = [core EXCEPT !.result = 0, !.scheduled = FALSE]
    /\ UNCHANGED <<logs, machine, thread, holder, calls>>

ClearProgress ==
    /\ creation.at = "clear"
    /\ creation' = NoCreation
    /\ core' = [core EXCEPT !.inProgress = FALSE]
    /\ UNCHANGED <<logs, machine, thread, holder, results, calls>>

\* schedule_snapshot_creation: the flag first, then the result object.
ScheduleSnapshot ==
    \E n \in 1..MaxSchedules :
        /\ results[n] = "none" /\ \A m \in 1..(n - 1) : results[m] = "set"
        /\ ~core.scheduled
        /\ core' = [core EXCEPT !.scheduled = TRUE]
        /\ results' = [results EXCEPT ![n] = "asked"]
        /\ UNCHANGED <<logs, machine, thread, creation, holder, calls>>

StoreResult ==
    \E n \in 1..MaxSchedules :
        /\ results[n] = "asked"
        /\ core' = [core EXCEPT !.result = n]
        /\ results' = [results EXCEPT ![n] = "waiting"]
        /\ UNCHANGED <<logs, machine, thread, creation, holder, calls>>

-----------------------------------------------------------------------------
(* The last object of a snapshot from the leader: handle_install_snapshot_req*)
(* and handle_snapshot_sync_req.                                             *)

\* Slip: lock_ is kept while the installer waits for the pause.
ReceiveSnapshotLocked(t, idx) ==
    /\ thread[t].at = "idle" /\ calls.installs < MaxInstalls /\ MayHandle
    /\ idx > core.quick /\ (Overlap \/ thread["user"].at = "idle")
    /\ thread' = [thread EXCEPT ![t].at = "pausing", ![t].idx = idx]
    /\ holder' = t
    /\ calls' = [calls EXCEPT !.installs = @ + 1]
    /\ UNCHANGED <<logs, core, machine, creation, results>>

\* Slip: the commit index is not looked at.
ReceiveAnySnapshot(t, idx) ==
    /\ thread[t].at = "idle" /\ calls.installs < MaxInstalls /\ MayHandle
    /\ Overlap \/ thread["user"].at = "idle"
    /\ thread' = [thread EXCEPT ![t].at = "pausing", ![t].idx = idx]
    /\ calls' = [calls EXCEPT !.installs = @ + 1]
    /\ UNCHANGED <<logs, core, machine, creation, holder, results>>

\* A snapshot that is not newer than the commit index is refused; for another
\* lock_ is released.
ReceiveSnapshot(t, idx) ==
    /\ thread[t].at = "idle" /\ calls.installs < MaxInstalls /\ MayHandle
    /\ idx > core.quick /\ (Overlap \/ thread["user"].at = "idle")
    /\ thread' = [thread EXCEPT ![t].at = "pausing", ![t].idx = idx]
    /\ calls' = [calls EXCEPT !.installs = @ + 1]
    /\ UNCHANGED <<logs, core, machine, creation, holder, results>>

PauseExecution(t) ==
    /\ thread[t].at = "pausing"
    /\ core' = [core EXCEPT !.paused = TRUE]
    /\ Go(t, "waiting")
    /\ UNCHANGED <<logs, machine, creation, holder, results, calls>>

\* wait_for_state_machine_pause, until it returns TRUE; then lock_.
PauseSeen(t) ==
    /\ thread[t].at = "waiting" /\ ~core.executing
    /\ Go(t, "locking")
    /\ UNCHANGED <<logs, core, machine, creation, holder, results, calls>>

LockAgain(t) ==
    /\ thread[t].at = "locking" /\ holder \in {"none", t}
    /\ holder' = t
    /\ Go(t, "compacting")
    /\ UNCHANGED <<logs, core, machine, creation, results, calls>>

CompactForSnapshot(t) ==
    /\ thread[t].at = "compacting"
    /\ logs' = Compacted(logs, thread[t].idx)
    /\ Go(t, "applying")
    /\ UNCHANGED <<core, machine, creation, holder, results, calls>>

\* apply_snapshot, reconfigure, and all four indices whatever they were.
ApplySnapshot(t) ==
    LET idx == thread[t].idx
        snp == [idx |-> idx, state |-> idx, conf |-> ConfOf(idx),
                forced |-> FALSE]
    IN  /\ thread[t].at = "applying"
        /\ machine' = [state |-> idx, snaps |->
               {s \in machine.snaps : s.idx # idx} \cup {snp}]
        /\ core' = [core EXCEPT !.sm = idx, !.quick = idx, !.conf = snp.conf,
                                !.last = snp]
        /\ Go(t, "resuming")
        /\ UNCHANGED <<logs, creation, holder, results, calls>>

ResumeExecution(t) ==
    /\ thread[t].at = "resuming"
    /\ core' = [core EXCEPT !.paused = FALSE]
    /\ thread' = [thread EXCEPT ![t] = Idle]
    /\ holder' = "none"
    /\ UNCHANGED <<logs, machine, creation, results, calls>>

-----------------------------------------------------------------------------
CommitStep == CommitStart \/ CommitLoop \/ CommitBody \/ CommitDone

MakerStep(t) ==
    \/ CheckSnapshot(t) \/ BeginSnapshot(t) \/ RecheckSnapshot(t)
    \/ MakeSnapshot(t) \/ SnapshotMade(t)

CreationStep == SnapshotCompleted \/ AnswerSchedule \/ ClearProgress

InstallStep(t) ==
    \/ PauseExecution(t) \/ PauseSeen(t) \/ LockAgain(t)
    \/ CompactForSnapshot(t) \/ ApplySnapshot(t) \/ ResumeExecution(t)

SnapNext ==
    /\ ~core.exited
    /\ \/ AppendEntry \/ AdvanceCommit \/ CommitStep \/ ManualSnapshot
       \/ \E t \in Makers : MakerStep(t)
       \/ CreationStep \/ ScheduleSnapshot \/ StoreResult
       \/ \E t \in Installers, idx \in Installable : ReceiveSnapshot(t, idx)
       \/ \E t \in Installers : InstallStep(t)

SnapSpec == SnapInit /\ [][SnapNext]_snapVars

\* Threads that can go on do, and the state machine calls its handler.
SnapFairness ==
    /\ WF_snapVars(CommitStep) /\ WF_snapVars(CreationStep)
    /\ \A t \in Makers : WF_snapVars(MakerStep(t))
    /\ \A t \in Installers :
          SF_snapVars(PauseSeen(t)) /\ WF_snapVars(InstallStep(t))

SnapFairSpec == SnapSpec /\ SnapFairness

-----------------------------------------------------------------------------
(* Types of the log, the server and its snapshots; the log never ends before *)
(* its start index (log_store::compact).                                     *)
SnapTypeOK ==
    /\ logs \in [start : 1..(MaxIdx + 1), last : Idx] /\ logs.start <= logs.last + 1
    /\ core.sm \in Idx /\ core.quick \in Idx /\ core.conf \in Idx
    /\ core.last.idx \in Idx /\ core.result \in 0..MaxSchedules
    /\ machine.state \in Idx
    /\ holder \in Installers \cup {"none"}
    /\ calls \in [installs : 0..MaxInstalls, manual : 0..MaxManual]

(* "Committed log index should never go back, in the state machine's point   *)
(* of view": neither the index nor the state ever decreases.                 *)
MachineNeverGoesBack ==
    [][core'.sm >= core.sm /\ machine'.state >= machine.state]_snapVars

(* A snapshot holds the state and the configuration of its index, whatever   *)
(* is committed, applied or compacted while it is made; one that a user's    *)
(* thread made beside the commit thread need not.                            *)
SnapshotOfItsIndex ==
    \A s \in machine.snaps :
        s.forced \/ (s.state = s.idx /\ s.conf = ConfOf(s.idx))

(* What is not in the log any more is in the last snapshot, whatever the     *)
(* order in which creations and an installation end ("snapshot index         *)
(* inversion"), except while the installer that compacted the log holds      *)
(* lock_; and the commit thread never misses an entry.                       *)
CompactedIsCovered ==
    /\ holder = "none" => logs.start <= core.last.idx + 1
    /\ ~core.exited

(* A snapshot from the leader is applied in the end: the commit thread, which*)
(* may itself wait for lock_ to finish a snapshot, gets out of the way.      *)
InstallFinishes ==
    \A t \in Installers : thread[t].at = "pausing" ~> thread[t].at = "idle"
=============================================================================
