----------------------------- MODULE Transport -----------------------------
(***************************************************************************)
(* One connection of the ASIO transport: asio_rpc_client, the caller's end *)
(* (its connection set-up, its busy flag, its operation timer), and        *)
(* rpc_session with asio_rpc_listener, the server's end.                   *)
(*                                                                         *)
(* An asynchronous operation has two moments: the kernel completes it, and *)
(* a worker thread runs its handler.  Between the two, cancelling the      *)
(* socket or the timer no longer has an effect on it.                      *)
(*                                                                         *)
(* Messages are the requests themselves; a response also says whether it   *)
(* carries data (ctx).  Encoding, CRC and meta appear as their verdict:    *)
(* any message may be found corrupted, or its meta refused.                *)
(***************************************************************************)
EXTENDS Naturals, Sequences

CONSTANTS
    Requests,      \* the calls of send
    Timed,         \* those with send_timeout_ms # 0
    SendRetryMax,  \* SEND_RETRY_MAX
    Usages,        \* how the callers may use the client, see MaySend
    Silent         \* the server may leave a request unanswered for ever

ASSUME UsageAssumption == Usages \subseteq {"exclusive", "shared", "pooled"}

VARIABLES
    usage,     \* how the caller uses the client, see MaySend
    ssl,       \* ssl_enabled_
    client,    \* the flags of asio_rpc_client
    timer,     \* operation_timer_: waiting, and expiries not yet handled
    call,      \* request -> where its send is, and the operation's outcome
    link,      \* the TCP connection: "none", "up" or "down"
    toServer,  \* requests on the way
    toClient,  \* responses on the way
    listener,  \* asio_rpc_listener
    session,   \* rpc_session
    processed  \* request -> how often it was given to process_req

vars == <<usage, ssl, client, timer, call, link, toServer, toClient, listener,
          session, processed>>

clientVars == <<client, timer, call>>
wireVars   == <<link, toServer, toClient>>
serverVars == <<listener, session, processed>>

(* Where an asynchronous operation is pending or its handler is queued.    *)
Operations == {"resolving", "connecting", "handshaking", "writing", "reading",
               "readingCtx"}
OnSocket == Operations \ {"resolving"}

Places == Operations \cup {"idle", "retrying", "answered", "failed"}

InFlight == {r \in Requests : call[r].at \in Operations \cup {"retrying"}}

NoSession == [at |-> "none", req |-> {}, handler |-> FALSE]

Init ==
    /\ usage \in Usages /\ ssl \in BOOLEAN
    /\ client = [open |-> FALSE, attempting |-> FALSE, sslReady |-> FALSE,
                 fails |-> 0, abandoned |-> FALSE, busy |-> FALSE,
                 aborted |-> FALSE]
    /\ timer = [waiting |-> FALSE, expired |-> 0]
    /\ call = [r \in Requests |-> [at |-> "idle", io |-> "none"]]
    /\ link = "none" /\ toServer = <<>> /\ toClient = <<>>
    /\ listener = [stopped |-> FALSE, waiting |-> TRUE, handler |-> TRUE,
                   accepting |-> TRUE]
    /\ session = NoSession
    /\ processed = [r \in Requests |-> 0]

-----------------------------------------------------------------------------
(* asio_rpc_client *)

(* when_done: the caller's handler runs. *)
Done(r, result) == call' = [call EXCEPT ![r] = [at |-> result, io |-> "none"]]

(* An asynchronous operation is started for r. *)
Start(r, operation) ==
    call' = [call EXCEPT ![r] = [at |-> operation, io |-> "pending"]]

(* Slip: waiting for the other connection attempt is not counted. *)
SendUncounted(r, c) ==
    \/ /\ c.abandoned
       /\ Done(r, "failed") /\ client' = c /\ UNCHANGED timer
    \/ /\ ~c.abandoned /\ ~c.open /\ c.attempting
       /\ client' = c
       /\ Start(r, "retrying") /\ UNCHANGED timer
    \/ /\ ~c.abandoned /\ ~c.open /\ ~c.attempting
       /\ client' = [c EXCEPT !.attempting = TRUE]
       /\ Start(r, "resolving") /\ UNCHANGED timer
    \/ /\ ~c.abandoned /\ c.open /\ ~c.busy
       /\ client' = [c EXCEPT !.busy = TRUE, !.fails = 0]
       /\ Start(r, "writing") /\ UNCHANGED timer

(* send, from the client's flags c: an abandoned client fails the call; a  *)
(* client without a connection opens one, unless another call is doing so; *)
(* with a connection the socket must be idle (else the assertion of        *)
(* set_busy_flag ends the process), and the request is written under the   *)
(* operation timer.                                                        *)
SendFrom(r, c) ==
    \/ /\ c.abandoned
       /\ Done(r, "failed") /\ client' = c /\ UNCHANGED timer
    \/ /\ ~c.abandoned /\ ~c.open /\ c.attempting
       /\ client' = [c EXCEPT !.fails = @ + 1]
       /\ Start(r, "retrying") /\ UNCHANGED timer
    \/ /\ ~c.abandoned /\ ~c.open /\ ~c.attempting
       /\ client' = [c EXCEPT !.attempting = TRUE]
       /\ Start(r, "resolving") /\ UNCHANGED timer
    \/ /\ ~c.abandoned /\ c.open /\ ssl /\ ~c.sslReady
       /\ client' = [c EXCEPT !.fails = @ + 1]
       /\ Start(r, "retrying") /\ UNCHANGED timer
    \/ /\ ~c.abandoned /\ c.open /\ (ssl => c.sslReady) /\ c.busy
       /\ client' = [c EXCEPT !.aborted = TRUE] /\ UNCHANGED <<call, timer>>
    \/ /\ ~c.abandoned /\ c.open /\ (ssl => c.sslReady) /\ ~c.busy
       /\ client' = [c EXCEPT !.busy = TRUE, !.fails = 0]
       /\ timer' = IF r \in Timed THEN [timer EXCEPT !.waiting = TRUE] ELSE timer
       /\ Start(r, "writing")

(* Slip: a client is used again after a failed call. *)
MaySendAgain ==
    \/ usage = "shared"
    \/ usage = "exclusive" /\ InFlight = {}

(* The callers.  "exclusive": one call at a time, and the client is        *)
(* dropped after a failure (a peer under its busy slot, peer.cxx).         *)
(* "shared": calls may overlap (request_leadership sends without the       *)
(* slot).  "pooled": one call at a time, and the client is used again      *)
(* unless it says that it is abandoned (auto-forwarding).                  *)
MaySend ==
    \/ usage = "shared"
    \/ /\ usage = "exclusive" /\ InFlight = {}
       /\ \A r \in Requests : call[r].at # "failed"
    \/ usage = "pooled" /\ InFlight = {} /\ ~client.abandoned

Send(r) ==
    /\ call[r].at = "idle" /\ MaySend
    /\ SendFrom(r, client)
    /\ UNCHANGED <<wireVars, serverVars>>

(* send_retry, after SEND_RETRY_MS. *)
SendRetry(r) ==
    /\ call[r].at = "retrying"
    /\ \/ /\ client.fails >= SendRetryMax
          /\ client' = [client EXCEPT !.abandoned = TRUE]
          /\ Done(r, "failed") /\ UNCHANGED timer
       \/ client.fails < SendRetryMax /\ SendFrom(r, client)
    /\ UNCHANGED <<wireVars, serverVars>>

(* execute_resolver: connecting opens the socket; an error is told to the  *)
(* caller and leaves the flags as they are.                                *)
Resolved(r) ==
    /\ call[r].at = "resolving"
    /\ \/ /\ call[r].io = "ok"
          /\ client' = [client EXCEPT !.open = TRUE]
          /\ Start(r, "connecting")
       \/ call[r].io = "err" /\ Done(r, "failed") /\ UNCHANGED client
    /\ UNCHANGED <<timer, wireVars, serverVars>>

Connected(r) ==
    /\ call[r].at = "connecting"
    /\ \/ call[r].io = "ok" /\ ssl /\ Start(r, "handshaking")
          /\ UNCHANGED <<client, timer>>
       \/ call[r].io = "ok" /\ ~ssl /\ SendFrom(r, client)
       \/ /\ call[r].io = "err"
          /\ client' = [client EXCEPT !.abandoned = TRUE]
          /\ Done(r, "failed") /\ UNCHANGED timer
    /\ UNCHANGED <<wireVars, serverVars>>

Handshaken(r) ==
    /\ call[r].at = "handshaking"
    /\ \/ call[r].io = "ok" /\ SendFrom(r, [client EXCEPT !.sslReady = TRUE])
       \/ /\ call[r].io = "err"
          /\ client' = [client EXCEPT !.abandoned = TRUE]
          /\ Done(r, "failed") /\ UNCHANGED timer
    /\ UNCHANGED <<wireVars, serverVars>>

(* operation_timer_.cancel(): an expiry that is already queued stays. *)
CancelTimer == timer' = [timer EXCEPT !.waiting = FALSE]

(* sent *)
Sent(r) ==
    /\ call[r].at = "writing"
    /\ \/ call[r].io = "ok" /\ Start(r, "reading") /\ UNCHANGED <<client, timer>>
       \/ /\ call[r].io = "err"
          /\ client' = [client EXCEPT !.abandoned = TRUE]
          /\ CancelTimer /\ Done(r, "failed")
    /\ UNCHANGED <<wireVars, serverVars>>

(* Slip: the error of the read is not looked at. *)
ResponseReadBlind(r) ==
    /\ call[r].at = "reading"
    /\ \/ /\ call[r].io = "okCtx"
          /\ Start(r, "readingCtx") /\ UNCHANGED <<client, timer>>
       \/ /\ call[r].io \in {"ok", "err"}
          /\ client' = [client EXCEPT !.busy = FALSE]
          /\ CancelTimer /\ Done(r, "answered")
    /\ UNCHANGED <<wireVars, serverVars>>

(* response_read: a read error abandons the client; a header whose CRC or  *)
(* meta is wrong fails the call, and neither clears the busy flag nor      *)
(* cancels the timer nor abandons the client; then the data, if any.       *)
ResponseRead(r) ==
    /\ call[r].at = "reading"
    /\ \/ /\ call[r].io = "err"
          /\ client' = [client EXCEPT !.abandoned = TRUE]
          /\ Done(r, "failed") /\ UNCHANGED timer
       \/ /\ call[r].io \in {"ok", "okCtx"}
          /\ Done(r, "failed") /\ UNCHANGED <<client, timer>>
       \/ /\ call[r].io = "okCtx"
          /\ Start(r, "readingCtx") /\ UNCHANGED <<client, timer>>
       \/ /\ call[r].io = "ok"
          /\ client' = [client EXCEPT !.busy = FALSE]
          /\ CancelTimer /\ Done(r, "answered")
    /\ UNCHANGED <<wireVars, serverVars>>

(* ctx_read does not look at its error code: a failed read of the data     *)
(* delivers the response all the same.                                     *)
CtxRead(r) ==
    /\ call[r].at = "readingCtx" /\ call[r].io # "pending"
    /\ \/ Done(r, "failed") /\ UNCHANGED <<client, timer>>
       \/ /\ client' = [client EXCEPT !.busy = FALSE]
          /\ CancelTimer /\ Done(r, "answered")
    /\ UNCHANGED <<wireVars, serverVars>>

TimerExpires ==
    /\ timer.waiting
    /\ timer' = [waiting |-> FALSE, expired |-> timer.expired + 1]
    /\ UNCHANGED <<client, call, wireVars, serverVars>>

(* cancel_socket: the operations pending on the socket end with an error.  *)
CancelSocket ==
    /\ timer.expired > 0
    /\ timer' = [timer EXCEPT !.expired = @ - 1]
    /\ client' = [client EXCEPT !.abandoned = @ \/ client.open]
    /\ call' = [r \in Requests |->
           IF client.open /\ call[r].at \in OnSocket /\ call[r].io = "pending"
           THEN [call[r] EXCEPT !.io = "err"] ELSE call[r]]
    /\ UNCHANGED <<wireVars, serverVars>>

(* The handlers of r's operations. *)
Handle(r) ==
    \/ SendRetry(r) \/ Resolved(r) \/ Connected(r) \/ Handshaken(r)
    \/ Sent(r) \/ ResponseRead(r) \/ CtxRead(r)

-----------------------------------------------------------------------------
(* The kernel completes an operation of the client. *)

Outcome(r, outcome) == call' = [call EXCEPT ![r].io = outcome]

Pending(r, operation) == call[r].at = operation /\ call[r].io = "pending"

CompleteResolve(r) ==
    /\ Pending(r, "resolving")
    /\ \E outcome \in {"ok", "err"} : Outcome(r, outcome)
    /\ UNCHANGED <<client, timer, wireVars, serverVars>>

(* A connection takes the accept that is waiting, and with it the session  *)
(* that was made for it.                                                   *)
CompleteConnect(r) ==
    /\ Pending(r, "connecting")
    /\ \/ /\ listener.waiting /\ link = "none"
          /\ Outcome(r, "ok")
          /\ link' = "up"
          /\ session' = [session EXCEPT !.at = "accepted",
                                        !.handler = listener.accepting]
          /\ listener' = [listener EXCEPT !.waiting = FALSE]
       \/ Outcome(r, "err") /\ UNCHANGED <<link, session, listener>>
    /\ UNCHANGED <<client, timer, toServer, toClient, processed>>

CompleteHandshake(r) ==
    /\ Pending(r, "handshaking")
    /\ \/ link = "up" /\ session.at = "header" /\ Outcome(r, "ok")
       \/ Outcome(r, "err")
    /\ UNCHANGED <<client, timer, wireVars, serverVars>>

CompleteWrite(r) ==
    /\ Pending(r, "writing")
    /\ \/ /\ link = "up" /\ Outcome(r, "ok")
          /\ toServer' = Append(toServer, r)
       \/ link # "up" /\ Outcome(r, "err") /\ UNCHANGED toServer
    /\ UNCHANGED <<client, timer, link, toClient, serverVars>>

(* The header arrives; data that follows it stays in the stream. *)
CompleteRead(r) ==
    /\ Pending(r, "reading")
    /\ \/ /\ toClient # <<>>
          /\ Outcome(r, IF Head(toClient).ctx THEN "okCtx" ELSE "ok")
          /\ toClient' = IF Head(toClient).ctx THEN toClient ELSE Tail(toClient)
       \/ link # "up" /\ toClient = <<>> /\ Outcome(r, "err") /\ UNCHANGED toClient
    /\ UNCHANGED <<client, timer, link, toServer, serverVars>>

CompleteReadCtx(r) ==
    /\ Pending(r, "readingCtx")
    /\ \/ toClient # <<>> /\ Outcome(r, "ok") /\ toClient' = Tail(toClient)
       \/ link # "up" /\ toClient = <<>> /\ Outcome(r, "err") /\ UNCHANGED toClient
    /\ UNCHANGED <<client, timer, link, toServer, serverVars>>

Complete(r) ==
    \/ CompleteResolve(r) \/ CompleteConnect(r) \/ CompleteHandshake(r)
    \/ CompleteWrite(r) \/ CompleteRead(r) \/ CompleteReadCtx(r)

(* The connection breaks: what is on the way is lost. *)
Break ==
    /\ link = "up" /\ link' = "down"
    /\ toServer' = <<>> /\ toClient' = <<>>
    /\ UNCHANGED <<clientVars, serverVars>>

-----------------------------------------------------------------------------
(* rpc_session and asio_rpc_listener *)

(* stop: the handler is released; the session is destroyed with the last   *)
(* reference, which closes its socket.                                     *)
Stop == session' = [session EXCEPT !.at = "stopped", !.req = {},
                                   !.handler = FALSE]

CloseLink == link' = "down" /\ toServer' = <<>> /\ UNCHANGED toClient

(* handle_accept: prepare_handshake, then start (the listener's) makes the *)
(* session for the next accept, unless stopped.                            *)
HandleAccept ==
    /\ session.at = "accepted"
    /\ session' = [session EXCEPT !.at = IF ssl THEN "handshake" ELSE "header"]
    /\ listener' = IF listener.stopped THEN listener
                   ELSE [listener EXCEPT !.waiting = TRUE,
                                         !.accepting = listener.handler]
    /\ UNCHANGED <<clientVars, wireVars, processed>>

(* handle_handshake; a failure stops the session later. *)
SessionHandshake ==
    /\ session.at = "handshake"
    /\ \/ /\ link = "up" /\ session' = [session EXCEPT !.at = "header"]
          /\ UNCHANGED wireVars
       \/ Stop /\ CloseLink
    /\ UNCHANGED <<clientVars, listener, processed>>

(* start: the header is read and checked (CRC, marker, size); a request    *)
(* with log entries has its data read next.                                *)
ReadHeader ==
    /\ session.at = "header"
    /\ \/ /\ toServer # <<>>
          /\ session' = [session EXCEPT !.at = "request", !.req = {Head(toServer)}]
          /\ toServer' = Tail(toServer) /\ UNCHANGED <<link, toClient>>
       \/ (toServer # <<>> \/ link # "up") /\ Stop /\ CloseLink
    /\ UNCHANGED <<clientVars, listener, processed>>

(* read_log_data and read_complete up to process_req: the data is read and *)
(* parsed; too short, a wrong CRC or a refused meta stops the session.     *)
ReadRequest ==
    /\ session.at = "request"
    /\ \/ /\ session' = [session EXCEPT !.at = "process"]
          /\ UNCHANGED wireVars
       \/ Stop /\ CloseLink
    /\ UNCHANGED <<clientVars, listener, processed>>

(* process_req: no response stops the session; the response is there now   *)
(* or, for a forwarded client request, when the result is ready.           *)
Process ==
    /\ session.at = "process"
    /\ processed' = [r \in Requests |-> IF r \in session.req
                                       THEN processed[r] + 1 ELSE processed[r]]
    /\ \/ session' = [session EXCEPT !.at = "respond"] /\ UNCHANGED wireVars
       \/ session' = [session EXCEPT !.at = "waiting"] /\ UNCHANGED wireVars
       \/ Stop /\ CloseLink
    /\ UNCHANGED <<clientVars, listener>>

(* The result of a forwarded request becomes ready. *)
ResultReady ==
    /\ session.at = "waiting" /\ ~Silent
    /\ session' = [session EXCEPT !.at = "respond"]
    /\ UNCHANGED <<clientVars, wireVars, listener, processed>>

(* on_resp_ready: the response is written, then the next header is read.   *)
Respond ==
    /\ session.at = "respond"
    /\ \/ /\ link = "up"
          /\ \E r \in session.req, ctx \in BOOLEAN :
                toClient' = Append(toClient, [req |-> r, ctx |-> ctx])
          /\ session' = [session EXCEPT !.at = "header", !.req = {}]
          /\ UNCHANGED <<link, toServer>>
       \/ link # "up" /\ Stop /\ CloseLink
    /\ UNCHANGED <<clientVars, listener, processed>>

(* asio_rpc_listener::stop *)
ListenerStop ==
    /\ ~listener.stopped
    /\ listener' = [listener EXCEPT !.stopped = TRUE, !.waiting = FALSE]
    /\ UNCHANGED <<clientVars, wireVars, session, processed>>

(* asio_rpc_listener::shutdown, called by the launcher after stop.  No     *)
(* session is registered in active_sessions_, so none is stopped.          *)
ListenerShutdown ==
    /\ listener.stopped /\ listener.handler
    /\ listener' = [listener EXCEPT !.handler = FALSE]
    /\ UNCHANGED <<clientVars, wireVars, session, processed>>

ServerStep ==
    \/ HandleAccept \/ SessionHandshake \/ ReadHeader \/ ReadRequest \/ Process
    \/ ResultReady \/ Respond

(* The assertion of set_busy_flag ends the process. *)
Running == ~client.aborted /\ UNCHANGED <<usage, ssl>>

Next ==
    /\ Running
    /\ \/ \E r \in Requests : Send(r) \/ Complete(r) \/ Handle(r)
       \/ TimerExpires \/ CancelSocket \/ Break
       \/ ServerStep \/ ListenerStop \/ ListenerShutdown

Spec == Init /\ [][Next]_vars

(* The kernel completes every operation that can complete, the workers run *)
(* every handler that is queued, and the timer expires in time.            *)
Fairness ==
    /\ \A r \in Requests : WF_vars(Running /\ (Complete(r) \/ Handle(r)))
    /\ WF_vars(Running /\ TimerExpires)
    /\ WF_vars(Running /\ CancelSocket)
    /\ WF_vars(Running /\ ServerStep)

FairSpec == Spec /\ Fairness

-----------------------------------------------------------------------------
(* Properties *)

TypeOK ==
    /\ usage \in {"exclusive", "shared", "pooled"} /\ ssl \in BOOLEAN
    /\ client \in [open: BOOLEAN, attempting: BOOLEAN, sslReady: BOOLEAN,
                   fails: Nat, abandoned: BOOLEAN, busy: BOOLEAN,
                   aborted: BOOLEAN]
    /\ timer \in [waiting: BOOLEAN, expired: Nat]
    /\ call \in [Requests -> [at: Places,
                              io: {"none", "pending", "ok", "okCtx", "err"}]]
    /\ link \in {"none", "up", "down"}
    /\ toServer \in Seq(Requests)
    /\ toClient \in Seq([req: Requests, ctx: BOOLEAN])
    /\ listener \in [stopped: BOOLEAN, waiting: BOOLEAN, handler: BOOLEAN,
                     accepting: BOOLEAN]
    /\ session \in [at: {"none", "accepted", "handshake", "header", "request", "process",
                         "waiting", "respond", "stopped"},
                    req: SUBSET Requests, handler: BOOLEAN]
    /\ processed \in [Requests -> Nat]

(* set_busy_flag (asio_service.cxx) asserts that the socket is idle when a *)
(* request is written; with a caller that sends one request at a time and  *)
(* drops a client that failed it (a peer under its slot), it never fails.  *)
SocketIdleOnSend == usage = "exclusive" => ~client.aborted

(* A response is read by the request it answers: nothing a failed or timed *)
(* out request leaves in the stream is taken for the answer to a later one *)
(* (response_read, cancel_socket).                                         *)
ResponseIsMine == \A r \in Requests :
    call[r].at \in {"reading", "readingCtx"} /\ ~client.abandoned =>
        \A k \in DOMAIN toClient : toClient[k].req = r

(* The promise of Rpc: one completion per send, an answer only to a        *)
(* request the server processed, each processed at most once.              *)
Promise == INSTANCE Rpc WITH
    status <- [r \in Requests |->
                  IF call[r].at \in {"idle", "answered", "failed"}
                  THEN call[r].at ELSE "sent"],
    processed <- processed

KeepsPromise == Promise!RpcSpec

(* Every send ends with its handler called: no call is lost among the      *)
(* retries, the connection set-up, the reads and the timer (send,          *)
(* send_retry, cancel_socket).                                             *)
EverySendReturns == \A r \in Requests :
    call[r].at \in Operations \cup {"retrying"} ~>
        call[r].at \in {"answered", "failed"} \/ client.aborted

(* A send with a time limit ends even if the server never answers.         *)
TimedSendReturns == \A r \in Timed :
    call[r].at = "writing" ~> call[r].at \in {"answered", "failed"} \/ client.aborted
=============================================================================
