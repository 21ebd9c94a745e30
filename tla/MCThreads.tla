----------------------------- MODULE MCThreads -----------------------------
(***************************************************************************)
(* The background threads of a process, for TLC: the append thread and its *)
(* awaiter (Awaiter), the shared workers of the global manager (GlobalMgr) *)
(* and the logger (Logger).  They are explored side by side: part says     *)
(* which of them a behaviour is about.                                     *)
(***************************************************************************)
EXTENDS Awaiter, GlobalMgr, Logger

CONSTANT Parts      \* the parts to explore

VARIABLE part

threadVars == <<awaiterVars, mgrVars, logVars, part>>

Init ==
    /\ part \in Parts
    /\ AwaiterInit /\ MgrInit /\ LoggerInit
    /\ part # "manager" => uses.commit = 0

Next ==
    /\ UNCHANGED part
    /\ \/ /\ part = "awaiter" /\ AwaiterNext
          /\ UNCHANGED <<mgrVars, logVars>>
       \/ /\ part = "manager" /\ MgrNext
          /\ UNCHANGED <<awaiterVars, logVars>>
       \/ /\ part = "logger" /\ LoggerNext
          /\ UNCHANGED <<awaiterVars, mgrVars>>

-----------------------------------------------------------------------------
\* The background thread runs when it can, and a sleeping one when it is
\* notified; a call of invoke() ends; a shutdown that has begun goes on.
AwaiterFairness ==
    /\ WF_awaiterVars(part = "awaiter" /\ (\/ WaitBegin \/ WaitLocked \/ Reset
                                         \/ CheckStop \/ Exec \/ (notified /\ WakeUp)))
    /\ \A i \in Invokers :
          /\ WF_awaiterVars(part = "awaiter" /\ (InvokeIdle(i) \/ InvokeLocked(i)))
          /\ WF_awaiterVars(part = "awaiter" /\ stopping /\ Shutdown(i))

\* Every thread of the pool runs, and a request that is decided on is made.
MgrFairness ==
    /\ \A w \in Workers : WF_mgrVars(part = "manager" /\ WorkerStep(w))
    /\ \A s \in Hosted, k \in Kinds : WF_mgrVars(part = "manager" /\ Request(k, s))

\* Every thread that logs runs, and the two workers of the manager.
LoggerFairness ==
    /\ \A t \in Threads : WF_logVars(part = "logger" /\ PutStep(t))
    /\ WF_logVars(part = "logger" /\ FlushStep)
    /\ WF_logVars(part = "logger" /\ WorkerFlushes)
    /\ WF_logVars(part = "logger" /\ (TakeJob \/ Compress))
    /\ WF_logVars(part = "logger" /\ StopStep)

ThreadsSpec ==
    /\ Init /\ [][Next]_threadVars
    /\ AwaiterFairness /\ MgrFairness /\ LoggerFairness
=============================================================================
