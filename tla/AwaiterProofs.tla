---------------------------- MODULE AwaiterProofs ----------------------------
(***************************************************************************)
(* No request to the background thread is lost, for any number of threads  *)
(* that call invoke().                                                     *)
(***************************************************************************)
EXTENDS Awaiter, TLAPS

\* What status says of the waiting thread, whom a notification can reach, and
\* why an invoke() that found the awaiter busy cannot find it idle again while
\* its own entry is unsent.
StatusOfWaiter ==
    /\ notified => waiter = "asleep"
    /\ status = "waiting" <=> waiter = "asleep"
    /\ status = "ready" => waiter = "lock"
    /\ waiter = "lock" => status \in {"ready", "done"}
    /\ waiter = "reset" => status = "done"

BusyWhenFound ==
    \A i \in unsent : invoker[i] = "lock" =>
        status # "idle" \/ waiter \in {"check", "exec", "stopped"}

AwaiterInv == AwaiterTypeOK /\ StatusOfWaiter /\ BusyWhenFound /\ NoLostRequest

LEMMA AwaiterInitially == AwaiterInit => AwaiterInv
BY DEF AwaiterInit, AwaiterInv, AwaiterTypeOK, StatusOfWaiter, BusyWhenFound, NoLostRequest

\* The waiting thread keeps the invariant.
LEMMA WaiterKeeps == AwaiterInv /\ WaiterStep => AwaiterInv'
<1> SUFFICES ASSUME AwaiterInv, WaiterStep PROVE AwaiterInv'
    OBVIOUS
<1> USE DEF AwaiterInv, AwaiterTypeOK, StatusOfWaiter, BusyWhenFound, NoLostRequest
<1>1. CASE WaitBegin BY <1>1 DEF WaitBegin
<1>2. CASE WaitLocked BY <1>2 DEF WaitLocked
<1>3. CASE WakeUp BY <1>3 DEF WakeUp
<1>4. CASE Reset BY <1>4 DEF Reset
<1>5. CASE CheckStop BY <1>5 DEF CheckStop
<1>6. CASE Exec BY <1>6 DEF Exec
<1> QED BY <1>1, <1>2, <1>3, <1>4, <1>5, <1>6 DEF WaiterStep

\* A thread that calls invoke() keeps it.
LEMMA InvokerKeeps ==
    ASSUME NEW i \in Invokers, AwaiterInv, InvokerStep(i) PROVE AwaiterInv'
<1> USE DEF AwaiterInv, AwaiterTypeOK, StatusOfWaiter, BusyWhenFound, NoLostRequest
<1>1. CASE Store(i) BY <1>1 DEF Store
<1>2. CASE InvokeIdle(i) BY <1>2 DEF InvokeIdle
<1>3. CASE InvokeLocked(i) BY <1>3 DEF InvokeLocked
<1>4. CASE Shutdown(i) BY <1>4 DEF Shutdown
<1> QED BY <1>1, <1>2, <1>3, <1>4 DEF InvokerStep

LEMMA AwaiterStutter == AwaiterInv /\ UNCHANGED awaiterVars => AwaiterInv'
BY DEF AwaiterInv, AwaiterTypeOK, StatusOfWaiter, BusyWhenFound, NoLostRequest, awaiterVars

THEOREM AwaiterInvariance == AwaiterSpec => []AwaiterInv
<1>1. AwaiterInv /\ [AwaiterNext]_awaiterVars => AwaiterInv'
    BY WaiterKeeps, InvokerKeeps, AwaiterStutter DEF AwaiterNext
<1> QED BY AwaiterInitially, <1>1, PTL DEF AwaiterSpec

\* An entry stored before invoke() was called is never left behind: whatever
\* the interleaving of wait(), reset() and invoke(), the background thread
\* still has to send, or is about to be told to.
THEOREM RequestsNotLost == AwaiterSpec => []NoLostRequest
<1>1. AwaiterInv => NoLostRequest
    BY DEF AwaiterInv
<1> QED BY AwaiterInvariance, <1>1, PTL
=============================================================================
