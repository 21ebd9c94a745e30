------------------------------- MODULE Logger --------------------------------
(***************************************************************************)
(* SimpleLogger (src/examples/logger.cc): threads claim the slots of a     *)
(* ring with a compare-and-exchange and write their messages there; one    *)
(* thread at a time, a writer or the flush worker, flushes the ring into   *)
(* the current file; a file that is full is compressed by a worker, and    *)
(* the oldest files are removed.  What a message says is left out.         *)
(***************************************************************************)
EXTENDS Naturals, Sequences, FiniteSets, SequencesExt

CONSTANTS Writers,          \* threads that log
          LogStopper,       \* the thread that calls stop(), which logs too
          NumSlots,         \* max_log_elems
          FileLimit,        \* maxLogFileSize, in messages
          MaxLogFiles,      \* maxLogFiles
          MaxPuts           \* bound: messages of one thread

Threads == Writers \cup {LogStopper}
FlushWorker == "flush worker"
Unheld == "unheld"
Empty == <<>>

VARIABLES ring,             \* logs: the status and the message of each slot
          ringCursor,       \* cursor
          putting,          \* where each thread is in put(), its slot, its messages so far
          flushing,         \* who holds flushingLogs, the slot it is at, slots to go
          written,          \* the messages in the files, in order
          inFile,           \* the number of messages in the current file
          curRev, minRev,   \* curRevnum and minRevnum
          files,            \* the numbers of the log files there are, compressed or not
          jobs,             \* pendingCompElems, and the file being compressed
          dropped,          \* messages whose write() has failed
          stage             \* how far stop() is

logVars == <<ring, ringCursor, putting, flushing, written, inFile, curRev, minRev, files, jobs,
             dropped, stage>>

LoggerInit ==
    /\ ring = [n \in 0 .. NumSlots - 1 |-> [status |-> "clean", msg |-> Empty]]
    /\ ringCursor = 0
    /\ putting = [t \in Threads |-> [at |-> "idle", pos |-> 0, puts |-> 0]]
    /\ flushing = [by |-> Unheld, pos |-> 0, left |-> 0]
    /\ written = <<>> /\ inFile = 0
    /\ curRev = 0 /\ minRev = 0 /\ files = {0}
    /\ jobs = [pending |-> <<>>, running |-> {}, num |-> 0]
    /\ dropped = {} /\ stage = "running"

MsgOf(t) == <<t, putting[t].puts>>
Goto(t, at) == putting' = [putting EXCEPT ![t].at = at]
Status(t) == ring[putting[t].pos].status
fileVars == <<written, inFile, curRev, minRev, files, jobs>>

-----------------------------------------------------------------------------
(* put().                                                                    *)

\* The cursor moves on to the next slot.
Claim(t) ==
    /\ putting[t].at = "idle" /\ putting[t].puts < MaxPuts
    /\ \/ t \in Writers /\ stage = "running"
       \/ t = LogStopper /\ stage = "last message"
    /\ putting' = [putting EXCEPT ![t] = [at |-> "available", pos |-> ringCursor, puts |-> @.puts + 1]]
    /\ ringCursor' = (ringCursor + 1) % NumSlots
    /\ UNCHANGED <<ring, flushing, fileVars, dropped, stage>>

\* Spin until no other thread works on the slot.
Available(t) ==
    /\ putting[t].at = "available" /\ Status(t) \in {"clean", "dirty"}
    /\ Goto(t, "check")
    /\ UNCHANGED <<ring, ringCursor, flushing, fileVars, dropped, stage>>

NeedToFlush(t) ==
    /\ putting[t].at = "check"
    /\ Goto(t, IF Status(t) = "dirty" THEN "flush" ELSE "write")
    /\ UNCHANGED <<ring, ringCursor, flushing, fileVars, dropped, stage>>

\* flush() takes the lock if it is free; the others wait for the slot.
TryFlush(t) ==
    /\ putting[t].at = "flush"
    /\ IF flushing.by = Unheld
       THEN /\ flushing' = [by |-> t, pos |-> putting[t].pos, left |-> NumSlots]
            /\ Goto(t, "flushing")
       ELSE Goto(t, "wait") /\ UNCHANGED flushing
    /\ UNCHANGED <<ring, ringCursor, fileVars, dropped, stage>>

\* Spin while the slot is dirty; it may be flushing, or another's, afterwards.
WaitFlushed(t) ==
    /\ putting[t].at = "wait" /\ Status(t) # "dirty"
    /\ Goto(t, "write")
    /\ UNCHANGED <<ring, ringCursor, flushing, fileVars, dropped, stage>>

\* Slip: write() does not care whether the slot is clean.
WriteBeginAnyway(t) ==
    /\ putting[t].at = "write"
    /\ ring' = [ring EXCEPT ![putting[t].pos].status = "writing"]
    /\ Goto(t, "writing")
    /\ UNCHANGED <<ringCursor, flushing, fileVars, dropped, stage>>

\* write() takes a clean slot; otherwise it returns -1, which put() ignores.
WriteBegin(t) ==
    /\ putting[t].at = "write"
    /\ IF Status(t) = "clean"
       THEN /\ ring' = [ring EXCEPT ![putting[t].pos].status = "writing"]
            /\ Goto(t, "writing") /\ UNCHANGED dropped
       ELSE /\ dropped' = dropped \cup {MsgOf(t)}
            /\ Goto(t, "idle") /\ UNCHANGED ring
    /\ UNCHANGED <<ringCursor, flushing, fileVars, stage>>

WriteEnd(t) ==
    /\ putting[t].at = "writing"
    /\ ring' = [ring EXCEPT ![putting[t].pos] = [status |-> "dirty", msg |-> MsgOf(t)]]
    /\ Goto(t, "idle")
    /\ UNCHANGED <<ringCursor, flushing, fileVars, dropped, stage>>

-----------------------------------------------------------------------------
(* flush(): the slots from the start on, around the ring, under flushingLogs. *)

NextPos == (flushing.pos + 1) % NumSlots
Pass == flushing' = [flushing EXCEPT !.pos = NextPos, !.left = @ - 1]

\* A dirty slot is taken; any other is passed over.
FlushSlot ==
    /\ flushing.by # Unheld /\ flushing.left > 0 /\ ring[flushing.pos].status # "flushing"
    /\ IF ring[flushing.pos].status = "dirty"
       THEN ring' = [ring EXCEPT ![flushing.pos].status = "flushing"] /\ UNCHANGED flushing
       ELSE Pass /\ UNCHANGED ring
    /\ UNCHANGED <<ringCursor, putting, fileVars, dropped, stage>>

FlushWrite ==
    /\ flushing.by # Unheld /\ flushing.left > 0 /\ ring[flushing.pos].status = "flushing"
    /\ written' = Append(written, ring[flushing.pos].msg) /\ inFile' = inFile + 1
    /\ ring' = [ring EXCEPT ![flushing.pos] = [status |-> "clean", msg |-> Empty]]
    /\ Pass
    /\ UNCHANGED <<ringCursor, putting, curRev, minRev, files, jobs, dropped, stage>>

\* The end of flush(): a file that exceeds the limit is left for a new one and
\* queued for compression; then the lock is released.
FlushEnd ==
    /\ flushing.by # Unheld /\ flushing.left = 0
    /\ flushing' = [flushing EXCEPT !.by = Unheld, !.pos = 0]
    /\ IF inFile > FileLimit
       THEN /\ curRev' = curRev + 1 /\ inFile' = 0
            /\ files' = files \cup {curRev + 1}
            /\ jobs' = [jobs EXCEPT !.pending = Append(@, curRev), !.num = @ + 1]
       ELSE UNCHANGED <<curRev, inFile, files, jobs>>
    /\ IF flushing.by \in Threads /\ putting[flushing.by].at = "flushing"
       THEN Goto(flushing.by, "write") ELSE UNCHANGED putting
    /\ stage' = IF flushing.by = LogStopper /\ stage = "flushing" THEN "drain" ELSE stage
    /\ UNCHANGED <<ring, ringCursor, written, minRev, dropped>>

\* flushWorker, every 500 ms: flushAll() of a logger that is in the manager's set.
WorkerFlushes ==
    /\ stage = "running" /\ flushing.by = Unheld
    /\ \E n \in DOMAIN ring : ring[n].status = "dirty"
    /\ flushing' = [by |-> FlushWorker, pos |-> ringCursor, left |-> NumSlots]
    /\ UNCHANGED <<ring, ringCursor, putting, fileVars, dropped, stage>>

-----------------------------------------------------------------------------
(* compressWorker and doCompression.                                         *)

TakeJob ==
    /\ jobs.running = {} /\ jobs.pending # <<>>
    /\ jobs' = [jobs EXCEPT !.running = {Head(jobs.pending)}, !.pending = Tail(@)]
    /\ UNCHANGED <<ring, ringCursor, putting, flushing, written, inFile, curRev, minRev, files,
                   dropped, stage>>

OldFiles(f) == IF f >= MaxLogFiles THEN minRev .. f - MaxLogFiles ELSE {}

\* Slip: a compression that removes old files is not counted as done.
CompressUncounted ==
    /\ \E f \in jobs.running :
        /\ files' = files \ OldFiles(f)
        /\ minRev' = IF OldFiles(f) = {} THEN minRev ELSE f - MaxLogFiles + 1
        /\ jobs' = [jobs EXCEPT !.running = {}, !.num = IF OldFiles(f) = {} THEN @ - 1 ELSE @]
    /\ UNCHANGED <<ring, ringCursor, putting, flushing, written, inFile, curRev, dropped, stage>>

\* The file is compressed and the files before the last ones are removed.
Compress ==
    /\ \E f \in jobs.running :
        /\ files' = files \ OldFiles(f)
        /\ minRev' = IF OldFiles(f) = {} THEN minRev ELSE f - MaxLogFiles + 1
    /\ jobs' = [jobs EXCEPT !.running = {}, !.num = @ - 1]
    /\ UNCHANGED <<ring, ringCursor, putting, flushing, written, inFile, curRev, dropped, stage>>

-----------------------------------------------------------------------------
(* stop(), once no other thread logs any more.                               *)

\* The logger leaves the manager's set, under the lock that the flush worker
\* holds while it flushes.
StopBegin ==
    /\ stage = "running" /\ flushing.by # FlushWorker
    /\ \A t \in Writers : putting[t].at = "idle"
    /\ stage' = "last message"
    /\ UNCHANGED <<ring, ringCursor, putting, flushing, fileVars, dropped>>

\* flushAll(), after the last message.
StopFlush ==
    /\ stage = "last message" /\ putting[LogStopper].at = "idle" /\ putting[LogStopper].puts > 0
    /\ IF flushing.by = Unheld
       THEN /\ flushing' = [by |-> LogStopper, pos |-> ringCursor, left |-> NumSlots]
            /\ stage' = "flushing"
       ELSE stage' = "drain" /\ UNCHANGED flushing
    /\ UNCHANGED <<ring, ringCursor, putting, fileVars, dropped>>

\* Slip: stop() does not wait for compression.
StopEndEarly ==
    /\ stage = "drain"
    /\ stage' = "stopped"
    /\ UNCHANGED <<ring, ringCursor, putting, flushing, fileVars, dropped>>

\* Spin until no compression is left.
StopEnd ==
    /\ stage = "drain" /\ jobs.num = 0
    /\ stage' = "stopped"
    /\ UNCHANGED <<ring, ringCursor, putting, flushing, fileVars, dropped>>

-----------------------------------------------------------------------------
PutStep(t) ==
    \/ Available(t) \/ NeedToFlush(t) \/ TryFlush(t) \/ WaitFlushed(t)
    \/ WriteBegin(t) \/ WriteEnd(t)

FlushStep == FlushSlot \/ FlushWrite \/ FlushEnd
StopStep == StopFlush \/ StopEnd \/ Claim(LogStopper)

LoggerNext ==
    \/ \E t \in Threads : Claim(t) \/ PutStep(t)
    \/ FlushStep \/ WorkerFlushes \/ TakeJob \/ Compress
    \/ StopBegin \/ StopFlush \/ StopEnd

LoggerSpec == LoggerInit /\ [][LoggerNext]_logVars

-----------------------------------------------------------------------------
(* Types of the logger, the cursor of put() within the ring among them.      *)
LoggerTypeOK ==
    /\ \A n \in DOMAIN ring : ring[n].status \in {"clean", "writing", "dirty", "flushing"}
    /\ ringCursor \in 0 .. NumSlots - 1 /\ flushing.by \in Threads \cup {Unheld, FlushWorker}
    /\ minRev <= curRev /\ files \subseteq 0 .. curRev

\* The messages for which put() has returned.
Returned == {<<t, n>> \in Threads \X (1 .. MaxPuts) :
                n < putting[t].puts \/ (n = putting[t].puts /\ putting[t].at = "idle")}

(* A message is never overwritten in the ring nor written to a file twice:   *)
(* once put() has returned it is in a slot or in the files, or its write()   *)
(* has failed, and in one of these places only.                              *)
MessageIsKept ==
    /\ IsInjective(written)
    /\ \A m \in Returned :
        Cardinality({n \in DOMAIN ring : ring[n].msg = m})
          + (IF m \in ToSet(written) THEN 1 ELSE 0) + (IF m \in dropped THEN 1 ELSE 0) = 1

(* "Other threads: wait" for the thread that flushes, and then write: the    *)
(* message of a thread that has waited is not given up.                      *)
NoMessageDropped == dropped = {}

(* stop() leaves no message in the ring, and no compression that would use   *)
(* the logger after it.                                                      *)
StopIsComplete ==
    stage = "stopped" =>
        /\ \A n \in DOMAIN ring : ring[n].status = "clean"
        /\ jobs.pending = <<>> /\ jobs.running = {}

(* stop() ends: the last messages are flushed and the compressions it waits  *)
(* for are all counted as done.                                              *)
StopReturns == stage # "running" ~> stage = "stopped"
=============================================================================
