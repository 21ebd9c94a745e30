---------------------------- MODULE MCTransport ----------------------------
(***************************************************************************)
(* The RPC client and server (Transport) and the pool of connections over  *)
(* which requests are forwarded to the leader (Forward), for TLC.  They    *)
(* are explored side by side: part says which of them a behaviour is       *)
(* about; in the initial state of the other nothing has to happen.         *)
(***************************************************************************)
EXTENDS Transport, Forward, TLC

CONSTANTS r1, r2, r3

VARIABLE part

MCRequests == {r1, r2, r3}
MCTimed == {r1}
MCUsages == {"exclusive", "shared"}

MCInit ==
    /\ part \in {"rpc", "forward"}
    /\ Init /\ FwdInit
    /\ part # "rpc" => ~ssl /\ usage = "exclusive"
    /\ part # "forward" => fwdMode = "async" /\ leaderOf = CHOOSE l \in Remotes : TRUE

MCNext ==
    /\ UNCHANGED part
    /\ \/ part = "rpc" /\ Next /\ UNCHANGED fwdVars
       \/ part = "forward" /\ FwdNext /\ UNCHANGED vars

\* A user's thread runs, and a request that is sent is answered or times out.
FwdFairness ==
    \A r \in Calls : WF_fwdVars(fwdCall[r].at # "new" /\ CallStep(r))

MCSpec ==
    /\ MCInit /\ [][MCNext]_<<vars, fwdVars, part>>
    /\ Fairness /\ FwdFairness
=============================================================================
