-------------------------------- MODULE Rpc --------------------------------
(***************************************************************************)
(* What a caller of rpc_client::send may rely on, whatever the transport   *)
(* does: its handler runs once, with a response or with an exception; a    *)
(* response means that the server processed this very request; and the     *)
(* server processes a request at most once, possibly after the caller was  *)
(* told of a failure.                                                      *)
(***************************************************************************)
EXTENDS Naturals

CONSTANT Requests

VARIABLES
    status,    \* request -> "idle", "sent", "answered" or "failed"
    processed  \* request -> how often the server processed it

rpcVars == <<status, processed>>

RpcInit ==
    /\ status = [r \in Requests |-> "idle"]
    /\ processed = [r \in Requests |-> 0]

Sending(r) ==
    /\ status[r] = "idle"
    /\ status' = [status EXCEPT ![r] = "sent"]
    /\ UNCHANGED processed

Processing(r) ==
    /\ status[r] # "idle" /\ processed[r] = 0
    /\ processed' = [processed EXCEPT ![r] = 1]
    /\ UNCHANGED status

Answering(r) ==
    /\ status[r] = "sent" /\ processed[r] = 1
    /\ status' = [status EXCEPT ![r] = "answered"]
    /\ UNCHANGED processed

(* A client that is already abandoned fails a request within send.         *)
Failing(r) ==
    /\ status[r] \in {"idle", "sent"}
    /\ status' = [status EXCEPT ![r] = "failed"]
    /\ UNCHANGED processed

RpcNext == \E r \in Requests :
    Sending(r) \/ Processing(r) \/ Answering(r) \/ Failing(r)

RpcSpec == RpcInit /\ [][RpcNext]_rpcVars
=============================================================================
