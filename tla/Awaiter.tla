------------------------------- MODULE Awaiter -------------------------------
(***************************************************************************)
(* EventAwaiter (src/include/libnuraft/event_awaiter.hxx) as the thread    *)
(* append_entries_in_bg uses it: client threads store an entry and invoke  *)
(* the awaiter, the thread waits without a timeout, resets the awaiter and *)
(* sends what is stored; shutdown() invokes it until the thread is gone.   *)
(* Every compare-and-exchange is a step; a section under cvLock is one     *)
(* step, since no thread keeps that lock across two of them.               *)
(***************************************************************************)
CONSTANTS Invokers,     \* the threads that call invoke()
          Stopper       \* the one of them that runs shutdown()

ASSUME AwaiterAssumption == Stopper \in Invokers

VARIABLES status,       \* AS: idle, ready, waiting, done
          waiter,       \* where the background thread is
          invoker,      \* where each client thread is
          notified,     \* cv.notify_all() has reached the waiter
          unsent,       \* the threads whose entry has not been sent
          stopping      \* stopping_

awaiterVars == <<status, waiter, invoker, notified, unsent, stopping>>

AwaiterInit ==
    /\ status = "idle" /\ waiter = "wait"
    /\ invoker = [i \in Invokers |-> "idle"]
    /\ notified = FALSE /\ unsent = {} /\ stopping = FALSE

-----------------------------------------------------------------------------
(* wait(), reset() and the loop of append_entries_in_bg.                     *)

WaitBegin ==
    /\ waiter = "wait"
    /\ IF status = "idle" THEN status' = "ready" /\ waiter' = "lock"
       ELSE waiter' = "reset" /\ UNCHANGED status
    /\ UNCHANGED <<invoker, notified, unsent, stopping>>

\* Under cvLock, until the condition variable releases it.
WaitLocked ==
    /\ waiter = "lock"
    /\ IF status = "ready" THEN status' = "waiting" /\ waiter' = "asleep"
       ELSE waiter' = "reset" /\ UNCHANGED status
    /\ notified' = FALSE
    /\ UNCHANGED <<invoker, unsent, stopping>>

\* Notified, or woken for no reason.
WakeUp ==
    /\ waiter = "asleep"
    /\ status' = "done" /\ waiter' = "reset" /\ notified' = FALSE
    /\ UNCHANGED <<invoker, unsent, stopping>>

Reset ==
    /\ waiter = "reset"
    /\ status' = "idle" /\ waiter' = "check"
    /\ UNCHANGED <<invoker, notified, unsent, stopping>>

\* if (stopping_) break, and while (!stopping_) after the execution.
CheckStop ==
    /\ waiter \in {"check", "again"}
    /\ waiter' = IF stopping THEN "stopped" ELSE IF waiter = "check" THEN "exec" ELSE "wait"
    /\ UNCHANGED <<status, invoker, notified, unsent, stopping>>

\* append_entries_in_bg_exec, under lock_.
Exec ==
    /\ waiter = "exec"
    /\ waiter' = "again" /\ unsent' = {}
    /\ UNCHANGED <<status, invoker, notified, stopping>>

-----------------------------------------------------------------------------
(* invoke().                                                                 *)

\* An entry is stored, and request_append_entries_for_all called.
Store(i) ==
    /\ i # Stopper /\ invoker[i] = "idle" /\ ~stopping
    /\ unsent' = unsent \cup {i}
    /\ invoker' = [invoker EXCEPT ![i] = "invoke"]
    /\ UNCHANGED <<status, waiter, notified, stopping>>

\* Slip: invoke() does nothing unless the awaiter is idle.
InvokeIdleOnly(i) ==
    /\ invoker[i] = "invoke"
    /\ status' = IF status = "idle" THEN "done" ELSE status
    /\ invoker' = [invoker EXCEPT ![i] = "idle"]
    /\ UNCHANGED <<waiter, notified, unsent, stopping>>

InvokeIdle(i) ==
    /\ invoker[i] = "invoke"
    /\ IF status = "idle" THEN status' = "done" /\ invoker' = [invoker EXCEPT ![i] = "idle"]
       ELSE invoker' = [invoker EXCEPT ![i] = "lock"] /\ UNCHANGED status
    /\ UNCHANGED <<waiter, notified, unsent, stopping>>

\* Slip: a waiter that has yet to take cvLock is notified like one that sleeps.
InvokeNotifies(i) ==
    /\ invoker[i] = "lock"
    /\ notified' = (notified \/ waiter = "asleep")
    /\ invoker' = [invoker EXCEPT ![i] = "idle"]
    /\ UNCHANGED <<status, waiter, unsent, stopping>>

\* Under cvLock; a notification reaches only a thread that sleeps.
InvokeLocked(i) ==
    /\ invoker[i] = "lock"
    /\ IF status = "ready" THEN status' = "done" /\ UNCHANGED notified
       ELSE notified' = (notified \/ waiter = "asleep") /\ UNCHANGED status
    /\ invoker' = [invoker EXCEPT ![i] = "idle"]
    /\ UNCHANGED <<waiter, unsent, stopping>>

\* Slip: the thread is not told.
ShutdownQuietly(i) ==
    /\ i = Stopper /\ ~stopping
    /\ stopping' = TRUE
    /\ UNCHANGED <<status, waiter, invoker, notified, unsent>>

\* shutdown(): stopping_, then invoke() again and again until append_bg_stopped_.
Shutdown(i) ==
    /\ i = Stopper /\ invoker[i] = "idle" /\ waiter # "stopped"
    /\ stopping' = TRUE
    /\ invoker' = [invoker EXCEPT ![i] = "invoke"]
    /\ UNCHANGED <<status, waiter, notified, unsent>>

-----------------------------------------------------------------------------
WaiterStep == WaitBegin \/ WaitLocked \/ WakeUp \/ Reset \/ CheckStop \/ Exec
InvokerStep(i) == Store(i) \/ InvokeIdle(i) \/ InvokeLocked(i) \/ Shutdown(i)

AwaiterNext == WaiterStep \/ \E i \in Invokers : InvokerStep(i)

AwaiterSpec == AwaiterInit /\ [][AwaiterNext]_awaiterVars

-----------------------------------------------------------------------------
AwaiterTypeOK ==
    /\ status \in {"idle", "ready", "waiting", "done"}
    /\ waiter \in {"wait", "lock", "asleep", "reset", "check", "exec", "again", "stopped"}
    /\ invoker \in [Invokers -> {"idle", "invoke", "lock"}]
    /\ notified \in BOOLEAN /\ stopping \in BOOLEAN
    /\ unsent \subseteq Invokers

(* No request is lost: while an entry is not sent, its thread has still to   *)
(* invoke the awaiter, or the background thread is bound to send once more   *)
(* before it sleeps, or it has been notified, or the server stops.           *)
NoLostRequest ==
    \A i \in unsent : \/ invoker[i] # "idle"
                      \/ waiter \in {"reset", "check", "exec", "stopped"}
                      \/ status = "done" \/ notified

(* An entry that is stored is sent in the end by append_entries_in_bg, or    *)
(* the server is stopped: no invoke() falls into the gap between reset() and *)
(* wait().                                                                   *)
StoredIsSent == \A i \in Invokers : i \in unsent ~> (i \notin unsent \/ stopping)

(* Once shutdown() has set stopping_, append_entries_in_bg ends: it does not *)
(* sleep through the invoke() that is to wake it.                            *)
StopEnds == stopping ~> waiter = "stopped"
=============================================================================
