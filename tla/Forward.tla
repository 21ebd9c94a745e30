------------------------------- MODULE Forward -------------------------------
(***************************************************************************)
(* Auto-forwarding (src/src/handle_user_cmd.cxx): a follower passes the    *)
(* calls of its users on to the leader it knows, over a bounded pool of    *)
(* connections for each leader.  A call that finds no free connection      *)
(* waits in blocking mode; in asynchronous mode it goes into one queue,    *)
(* and whoever releases a connection sends the next request of the queue.  *)
(***************************************************************************)
EXTENDS Naturals, Sequences, FiniteSets, SequencesExt

CONSTANTS Calls,            \* the calls of users
          Remotes,          \* the servers that can be leader, apart from this one
          Conns,            \* identities of connections; more than are ever in use
          MaxConns,         \* auto_forwarding_max_connections_
          MaxErrors,        \* bound: connections that fail
          MaxMoves          \* bound: changes of the leader

NoConn == "no conn"
NoRemote == "nobody"
Self == "self"

VARIABLES fwdMode,          \* blocking or async: return_method_
          leaderOf,         \* leader_
          idle,             \* rpc_client_idle_ of the package of each leader
          inUse,            \* rpc_client_in_use_ of the package of each leader
          abandoned,        \* connections that have failed
          fwdCall,          \* each call: where it is, its package, its connection
          outcome,          \* the result of each call
          fwdReqs,          \* auto_fwd_reqs_
          fwdStopped,       \* shutdown() has cleared the queue, and the packages
          fwdUses           \* what the bounds count

fwdVars == <<fwdMode, leaderOf, idle, inUse, abandoned, fwdCall, outcome, fwdReqs, fwdStopped, fwdUses>>

FwdInit ==
    /\ fwdMode \in {"blocking", "async"}
    /\ leaderOf \in Remotes
    /\ idle = [l \in Remotes |-> <<>>] /\ inUse = [l \in Remotes |-> {}]
    /\ abandoned = {}
    /\ fwdCall = [r \in Calls |-> [at |-> "new", pkg |-> NoRemote, conn |-> NoConn]]
    /\ outcome = [r \in Calls |-> "none"]
    /\ fwdReqs = <<>> /\ fwdStopped = "no"
    /\ fwdUses = [errors |-> 0, moves |-> 0]

Forwarding(r) == fwdCall[r].at \in {"send", "sent", "release"}
Carrying == {r \in Calls : Forwarding(r)}

\* create_client: a connection no one has.
NewConn ==
    CHOOSE c \in Conns :
        /\ \A l \in Remotes : c \notin inUse[l] /\ c \notin ToSet(idle[l])
        /\ \A r \in Carrying : fwdCall[r].conn # c
        /\ c \notin abandoned

-----------------------------------------------------------------------------
\* send_msg_to_leader up to the look for a connection.
SendMsg(r) ==
    /\ fwdCall[r].at = "new" /\ fwdStopped = "no"
    /\ IF leaderOf \in Remotes
       THEN fwdCall' = [fwdCall EXCEPT ![r].at = "find", ![r].pkg = leaderOf] /\ UNCHANGED outcome
       ELSE /\ fwdCall' = [fwdCall EXCEPT ![r].at = "done"]
            /\ outcome' = [outcome EXCEPT ![r] = IF leaderOf = Self THEN "local" ELSE "not leader"]
    /\ UNCHANGED <<fwdMode, leaderOf, idle, inUse, abandoned, fwdReqs, fwdStopped, fwdUses>>

\* The call gets connection c of its package.
Take(r, c, rest) ==
    LET l == fwdCall[r].pkg IN
    /\ idle' = [idle EXCEPT ![l] = rest]
    /\ inUse' = [inUse EXCEPT ![l] = @ \cup {c}]
    /\ fwdCall' = [fwdCall EXCEPT ![r].at = "send", ![r].conn = c]

\* An idle connection; one that was abandoned is replaced by a new one.
FindIdle(r) ==
    LET l == fwdCall[r].pkg IN
    /\ fwdCall[r].at = "find" /\ idle[l] # <<>>
    /\ \/ Head(idle[l]) \notin abandoned /\ Take(r, Head(idle[l]), Tail(idle[l]))
       \/ Head(idle[l]) \in abandoned /\ fwdStopped = "no" /\ Take(r, NewConn, Tail(idle[l]))
    /\ UNCHANGED <<fwdMode, leaderOf, abandoned, outcome, fwdReqs, fwdStopped, fwdUses>>

CanCreate(l) == Len(idle[l]) + Cardinality(inUse[l]) < MaxConns

\* No idle connection, and the pool may grow.
FindNew(r) ==
    LET l == fwdCall[r].pkg IN
    /\ fwdCall[r].at = "find" /\ idle[l] = <<>> /\ CanCreate(l) /\ fwdStopped = "no"
    /\ Take(r, NewConn, <<>>)
    /\ UNCHANGED <<fwdMode, leaderOf, abandoned, outcome, fwdReqs, fwdStopped, fwdUses>>

\* No connection: wait, or queue the request, under the lock of the package.
FindNone(r) ==
    LET l == fwdCall[r].pkg IN
    /\ fwdCall[r].at = "find" /\ idle[l] = <<>> /\ ~CanCreate(l)
    /\ IF fwdMode = "blocking"
       THEN fwdCall' = [fwdCall EXCEPT ![r].at = "wait"] /\ UNCHANGED fwdReqs
       ELSE /\ fwdCall' = [fwdCall EXCEPT ![r].at = "queued"]
            /\ fwdReqs' = Append(fwdReqs, r)
    /\ UNCHANGED <<fwdMode, leaderOf, idle, inUse, abandoned, outcome, fwdStopped, fwdUses>>

\* A waiting call is invoked, or its time is over; it looks again.
WaitEnds(r) ==
    /\ fwdCall[r].at = "wait"
    /\ fwdCall' = [fwdCall EXCEPT ![r].at = "find"]
    /\ UNCHANGED <<fwdMode, leaderOf, idle, inUse, abandoned, outcome, fwdReqs, fwdStopped, fwdUses>>

\* A call that needs a new connection late in shutdown() asks a factory that
\* is gone: rpc_cli_factory_ has been reset before the queue is cleared.
FindNoFactory(r) ==
    LET l == fwdCall[r].pkg IN
    /\ fwdCall[r].at = "find" /\ fwdStopped # "no"
    /\ IF idle[l] = <<>> THEN CanCreate(l) ELSE Head(idle[l]) \in abandoned
    /\ fwdCall' = [fwdCall EXCEPT ![r].at = "crashed"]
    /\ UNCHANGED <<fwdMode, leaderOf, idle, inUse, abandoned, outcome, fwdReqs, fwdStopped, fwdUses>>

SendFwd(r) ==
    /\ fwdCall[r].at = "send"
    /\ fwdCall' = [fwdCall EXCEPT ![r].at = "sent"]
    /\ UNCHANGED <<fwdMode, leaderOf, idle, inUse, abandoned, outcome, fwdReqs, fwdStopped, fwdUses>>

-----------------------------------------------------------------------------
(* auto_fwd_resp_handler, then auto_fwd_release_rpc_cli.                     *)

\* The result is set: the answer, accepted or not, or the error of a connection that fails
\* or has failed before, which is abandoned.
FwdResult(r) ==
    LET c == fwdCall[r].conn IN
    /\ fwdCall[r].at = "sent"
    /\ \/ /\ c \notin abandoned
          /\ outcome' = [outcome EXCEPT ![r] = "answered"]
          /\ UNCHANGED <<abandoned, fwdUses>>
       \/ /\ c \in abandoned
          /\ outcome' = [outcome EXCEPT ![r] = "error"]
          /\ UNCHANGED <<abandoned, fwdUses>>
       \/ /\ c \notin abandoned /\ fwdUses.errors < MaxErrors
          /\ outcome' = [outcome EXCEPT ![r] = "error"]
          /\ abandoned' = abandoned \cup {c}
          /\ fwdUses' = [fwdUses EXCEPT !.errors = @ + 1]
    /\ fwdCall' = [fwdCall EXCEPT ![r].at = "release"]
    /\ UNCHANGED <<fwdMode, leaderOf, idle, inUse, fwdReqs, fwdStopped>>

PutBack(r) ==
    LET l == fwdCall[r].pkg IN
    /\ inUse' = [inUse EXCEPT ![l] = @ \ {fwdCall[r].conn}]
    /\ idle' = [idle EXCEPT ![l] = <<fwdCall[r].conn>> \o @]

\* Slip: an asynchronous release does not look into the queue.
ReleaseIgnoresQueue(r) ==
    /\ fwdCall[r].at = "release"
    /\ PutBack(r)
    /\ fwdCall' = [fwdCall EXCEPT ![r].at = "done"]
    /\ UNCHANGED <<fwdMode, leaderOf, abandoned, outcome, fwdReqs, fwdStopped, fwdUses>>

\* Slip: the connection is put back although it takes the next request.
ReleaseBoth(r) ==
    /\ fwdCall[r].at = "release"
    /\ PutBack(r)
    /\ IF fwdMode = "async" /\ fwdReqs # <<>>
       THEN /\ fwdReqs' = Tail(fwdReqs)
            /\ fwdCall' = [fwdCall EXCEPT ![r].at = "done",
                            ![Head(fwdReqs)] = [at |-> "send", pkg |-> fwdCall[r].pkg, conn |-> fwdCall[r].conn]]
       ELSE fwdCall' = [fwdCall EXCEPT ![r].at = "done"] /\ UNCHANGED fwdReqs
    /\ UNCHANGED <<fwdMode, leaderOf, abandoned, outcome, fwdStopped, fwdUses>>

\* Put back, or used for the first request of the queue, whichever leader that
\* request was queued for.
Release(r) ==
    /\ fwdCall[r].at = "release"
    /\ IF fwdMode = "async" /\ fwdReqs # <<>>
       THEN /\ fwdReqs' = Tail(fwdReqs)
            /\ fwdCall' = [fwdCall EXCEPT ![r].at = "done",
                            ![Head(fwdReqs)] = [at |-> "send", pkg |-> fwdCall[r].pkg, conn |-> fwdCall[r].conn]]
            /\ UNCHANGED <<idle, inUse>>
       ELSE /\ PutBack(r)
            /\ fwdCall' = [fwdCall EXCEPT ![r].at = "done"]
            /\ UNCHANGED fwdReqs
    /\ UNCHANGED <<fwdMode, leaderOf, abandoned, outcome, fwdStopped, fwdUses>>

-----------------------------------------------------------------------------
\* Another leader is heard of, or none, or this server is elected.
LeaderMoves ==
    /\ fwdUses.moves < MaxMoves
    /\ leaderOf' \in (Remotes \cup {Self, NoRemote}) \ {leaderOf}
    /\ fwdUses' = [fwdUses EXCEPT !.moves = @ + 1]
    /\ UNCHANGED <<fwdMode, idle, inUse, abandoned, fwdCall, outcome, fwdReqs, fwdStopped>>

\* The end of shutdown(): the queue is cleared, no request of it answered.
ClearQueue ==
    /\ fwdStopped = "no"
    /\ fwdStopped' = "queue" /\ fwdReqs' = <<>>
    /\ UNCHANGED <<fwdMode, leaderOf, idle, inUse, abandoned, fwdCall, outcome, fwdUses>>

\* cleanup_auto_fwd_pkgs.
CleanUpPkgs ==
    /\ fwdStopped = "queue"
    /\ fwdStopped' = "packages"
    /\ idle' = [l \in Remotes |-> <<>>] /\ inUse' = [l \in Remotes |-> {}]
    /\ UNCHANGED <<fwdMode, leaderOf, abandoned, fwdCall, outcome, fwdReqs, fwdUses>>

-----------------------------------------------------------------------------
CallStep(r) ==
    \/ SendMsg(r) \/ FindIdle(r) \/ FindNew(r) \/ FindNone(r) \/ FindNoFactory(r)
    \/ WaitEnds(r) \/ SendFwd(r) \/ FwdResult(r) \/ Release(r)

FwdNext == (\E r \in Calls : CallStep(r)) \/ LeaderMoves \/ ClearQueue \/ CleanUpPkgs

FwdSpec == FwdInit /\ [][FwdNext]_fwdVars

-----------------------------------------------------------------------------
(* Types of the pool; the queue auto_fwd_reqs_ holds calls that are queued,  *)
(* and no others.                                                            *)
FwdTypeOK ==
    /\ leaderOf \in Remotes \cup {Self, NoRemote}
    /\ idle \in [Remotes -> Seq(Conns)] /\ inUse \in [Remotes -> SUBSET Conns]
    /\ abandoned \subseteq Conns
    /\ IsInjective(fwdReqs) /\ ToSet(fwdReqs) \subseteq {r \in Calls : fwdCall[r].at = "queued"}
    /\ \A r \in Calls : fwdCall[r].conn \in Conns \cup {NoConn}

(* A connection carries one request at a time: no two calls share one, one   *)
(* that carries a request is in use and not idle, and none is idle twice.    *)
ConnectionIsExclusive ==
    /\ \A q, r \in Carrying : fwdCall[q].conn = fwdCall[r].conn => q = r
    /\ fwdStopped = "no" =>
        /\ \A r \in Carrying : fwdCall[r].conn \in inUse[fwdCall[r].pkg]
        /\ \A l \in Remotes : /\ IsInjective(idle[l])
                              /\ ToSet(idle[l]) \cap inUse[l] = {}

(* Every call is answered in the end, unless the server is shut down.        *)
EveryCallAnswered ==
    \A r \in Calls : (fwdCall[r].at # "new") ~> (outcome[r] # "none" \/ fwdStopped # "no")
=============================================================================
