-------------------------- MODULE TransportProofs --------------------------
(***************************************************************************)
(* Proofs about Transport, for any number of calls, any set of time-limited*)
(* calls and any mixture of the ways in which the client is used.          *)
(***************************************************************************)
EXTENDS Transport, TLAPS

-----------------------------------------------------------------------------
(* The inductive invariant *)

(* r has the socket: set_busy_flag was called for it. *)
Using(r) == call[r].at \in {"writing", "reading", "readingCtx"}

(* The socket has one user, and the busy flag is up for it. *)
OneUser ==
    /\ \A r, s \in Requests : Using(r) /\ Using(s) => r = s
    /\ \A r \in Requests : Using(r) => client.busy

(* Nothing is on the wire or in the session. *)
Quiet == toServer = <<>> /\ toClient = <<>> /\ session.req = {}

(* m, and nothing else, is on the wire or in the session. *)
Carries(m) ==
    \/ toServer = <<m>> /\ toClient = <<>> /\ session.req = {}
    \/ toServer = <<>> /\ toClient = <<>> /\ session.req = {m}
    \/ /\ toServer = <<>> /\ session.req = {}
       /\ \E c \in BOOLEAN : toClient = <<[req |-> m, ctx |-> c]>>

(* The request is not written yet. *)
Early == {"idle", "retrying", "resolving", "connecting", "handshaking"}

(* What is carried was sent by the user of the socket, or by a call that   *)
(* failed and left the client busy or abandoned.                           *)
Cargo ==
    \/ Quiet
    \/ \E m \in Requests :
          /\ Carries(m)
          /\ call[m].at \notin Early
          /\ \A r \in Requests : Using(r) => r = m
          /\ client.busy \/ client.abandoned
          /\ toClient # <<>> => processed[m] = 1
          /\ toServer # <<>> => processed[m] = 0

(* The server is done with r, and nothing but r's response is on the wire. *)
Delivered(r) == processed[r] = 1 /\ toServer = <<>> /\ session.req = {}

(* Where r's send stands, and what has happened to r by then. *)
Stage(r) ==
    /\ call[r].at \in Early => processed[r] = 0
    /\ call[r].at = "writing" =>
          /\ call[r].io \in {"pending", "ok", "err"}
          /\ call[r].io # "ok" => Quiet /\ processed[r] = 0
    /\ call[r].at = "reading" =>
          /\ call[r].io \in {"ok", "okCtx"} => Delivered(r)
          /\ call[r].io = "ok" => toClient = <<>>
    /\ call[r].at = "readingCtx" =>
          /\ Delivered(r)
          /\ call[r].io # "pending" => toClient = <<>> \/ client.abandoned

Stages ==
    /\ link = "none" => session = NoSession
    /\ session.at \in {"none", "accepted", "handshake", "header", "stopped"}
          => session.req = {}
    /\ \A m \in session.req :
          processed[m] = IF session.at \in {"waiting", "respond"} THEN 1 ELSE 0
    /\ \A r \in Requests : Stage(r)

TransportInv == TypeOK /\ OneUser /\ Cargo /\ Stages

(* One call at a time, and none after a failure. *)
Exclusive ==
    usage = "exclusive" =>
        /\ ~client.aborted
        /\ \A r, s \in InFlight : r = s
        /\ client.busy => \E r \in Requests : Using(r) \/ call[r].at = "failed"
        /\ (\E r \in Requests : call[r].at = "failed") => InFlight = {}

-----------------------------------------------------------------------------
(* The flags of the client. *)
Flags == [open: BOOLEAN, attempting: BOOLEAN, sslReady: BOOLEAN, fails: Nat,
          abandoned: BOOLEAN, busy: BOOLEAN, aborted: BOOLEAN]

(* The invariant holds initially. *)
LEMMA InitTransportInv == Init => TransportInv
BY UsageAssumption DEF Init, TransportInv, TypeOK, OneUser, Using, Cargo, Quiet, Stages, Stage, Early,
       Places, Operations, NoSession

(* A handler moves r from one operation to the next, or ends it: it takes  *)
(* the socket only when it is idle, and gives it back only when nothing is *)
(* left on the wire.                                                       *)
Moves(r, at, io) ==
    /\ at \in Places \ {"idle"} /\ io \in {"none", "pending"}
    /\ call' = [call EXCEPT ![r] = [at |-> at, io |-> io]]
    /\ client' \in Flags /\ timer' \in [waiting: BOOLEAN, expired: Nat]
    /\ UNCHANGED <<usage, ssl, link, toServer, toClient, listener, session,
                   processed>>
    /\ client.abandoned => client'.abandoned
    /\ at \in {"writing", "reading", "readingCtx"} =>
          /\ client'.busy /\ io = "pending"
          /\ \/ Using(r) /\ at # "writing"
             \/ ~client.busy /\ ~client.abandoned /\ at = "writing"
    /\ client.busy => \/ client'.busy
                      \/ /\ Using(r) /\ at \in {"answered", "failed"}
                         /\ Quiet \/ client'.abandoned
    /\ at \in Early \cup {"writing"} => call[r].at \in Early
    /\ at = "readingCtx" => Delivered(r)

(* Such a step keeps the invariant. *)
LEMMA CallStep ==
  ASSUME TransportInv, NEW r \in Requests, NEW at, NEW io, Moves(r, at, io)
  PROVE  TransportInv'
<1> USE DEF TransportInv, Moves
<1>1. TypeOK'
  BY DEF TypeOK, Flags
<1>2. \A u \in Requests : u # r => call'[u] = call[u]
  BY DEF TypeOK
<1>3. call'[r] = [at |-> at, io |-> io]
  BY DEF TypeOK
<1>4. OneUser'
  BY <1>2, <1>3 DEF OneUser, Using
<1>5. Cargo'
  <2>1. CASE Quiet
    BY <2>1 DEF Cargo, Quiet
  <2>2. CASE ~Quiet
    <3>1. PICK m \in Requests :
            /\ Carries(m) /\ call[m].at \notin Early
            /\ \A u \in Requests : Using(u) => u = m
            /\ client.busy \/ client.abandoned
            /\ toClient # <<>> => processed[m] = 1
            /\ toServer # <<>> => processed[m] = 0
      BY <2>2 DEF Cargo
    <3>2. call'[m].at \notin Early /\ \A u \in Requests : Using(u)' => Using(u)
      BY <1>2, <1>3, <3>1 DEF Using, Places, Operations, Early
    <3>3. Carries(m)'
      BY <3>1 DEF Carries
    <3> QED
      BY <2>2, <3>1, <3>2, <3>3 DEF Cargo
  <2> QED
    BY <2>1, <2>2
<1>6. Stages'
  <2>1. ASSUME NEW u \in Requests, u # r PROVE Stage(u)'
    BY <1>2, <2>1 DEF Stages, Stage, Quiet, Delivered
  <2>2. at = "writing" => Quiet
    BY DEF Cargo
  <2>3. Stage(r)'
    BY <1>3, <2>2 DEF Stages, Stage, Quiet, Delivered, Places, Operations, Early
  <2> QED
    BY <2>1, <2>3 DEF Stages
<1> QED
  BY <1>1, <1>4, <1>5, <1>6

(* send, on any of its paths, keeps the invariant. *)
LEMMA SendStep ==
  ASSUME TransportInv, NEW r \in Requests, NEW STATE c,
         c \in {client, [client EXCEPT !.sslReady = TRUE]},
         call[r].at \in {"idle", "retrying", "connecting", "handshaking"},
         SendFrom(r, c), UNCHANGED <<usage, ssl, wireVars, serverVars>>
  PROVE  TransportInv'
<1> USE DEF TransportInv
<1>1. c \in Flags /\ c.busy = client.busy /\ c.abandoned = client.abandoned
  BY DEF TypeOK, Flags
<1>2. UNCHANGED <<usage, ssl, link, toServer, toClient, listener, session, processed>>
  BY DEF wireVars, serverVars
<1>3. call[r].at \in Early /\ ~Using(r)
  BY DEF Early, Using
<1>4. CASE UNCHANGED call /\ UNCHANGED timer /\ client' = [c EXCEPT !.aborted = TRUE]
  <2>1. /\ client' \in Flags
        /\ client'.busy = client.busy /\ client'.abandoned = client.abandoned
    BY <1>1, <1>4 DEF Flags
  <2>2. TypeOK'
    BY <1>2, <1>4, <2>1 DEF TypeOK, Flags
  <2>3. OneUser'
    BY <1>4, <2>1 DEF OneUser, Using
  <2>4. Cargo'
    BY <1>2, <1>4, <2>1 DEF Using, Cargo, Quiet, Carries
  <2>5. Stages'
    BY <1>2, <1>4, <2>1 DEF Quiet, Stages, Stage, Delivered
  <2> QED
    BY <2>2, <2>3, <2>4, <2>5
<1>5. CASE call' = [call EXCEPT ![r] = [at |-> "failed", io |-> "none"]]
           /\ client' = c /\ UNCHANGED timer
  <2>9. Moves(r, "failed", "none")
    BY <1>1, <1>2, <1>5 DEF TypeOK, Places, Operations, Early, Moves
  <2> QED
    BY <2>9, CallStep
<1>6. CASE call' = [call EXCEPT ![r] = [at |-> "retrying", io |-> "pending"]]
           /\ client' = [c EXCEPT !.fails = @ + 1] /\ UNCHANGED timer
  <2>1. client' \in Flags /\ client'.busy = c.busy /\ client'.abandoned = c.abandoned
    BY <1>1, <1>6 DEF Flags
  <2>9. Moves(r, "retrying", "pending")
    BY <1>1, <1>2, <1>3, <1>6, <2>1 DEF TypeOK, Places, Operations, Early, Moves
  <2> QED
    BY <2>9, CallStep
<1>7. CASE call' = [call EXCEPT ![r] = [at |-> "resolving", io |-> "pending"]]
           /\ client' = [c EXCEPT !.attempting = TRUE] /\ UNCHANGED timer
  <2>1. client' \in Flags /\ client'.busy = c.busy /\ client'.abandoned = c.abandoned
    BY <1>1, <1>7 DEF Flags
  <2>9. Moves(r, "resolving", "pending")
    BY <1>1, <1>2, <1>3, <1>7, <2>1 DEF TypeOK, Places, Operations, Early, Moves
  <2> QED
    BY <2>9, CallStep
<1>8. CASE /\ ~c.abandoned /\ ~c.busy
           /\ call' = [call EXCEPT ![r] = [at |-> "writing", io |-> "pending"]]
           /\ client' = [c EXCEPT !.busy = TRUE, !.fails = 0]
           /\ timer' = IF r \in Timed THEN [timer EXCEPT !.waiting = TRUE] ELSE timer
  <2>1. client' \in Flags /\ client'.busy /\ client'.abandoned = c.abandoned
    BY <1>1, <1>8 DEF Flags
  <2>2. timer' \in [waiting: BOOLEAN, expired: Nat]
    BY <1>8 DEF TypeOK
  <2>9. Moves(r, "writing", "pending")
    BY <1>1, <1>2, <1>3, <1>8, <2>1, <2>2 DEF Places, Operations, Early, Moves
  <2> QED
    BY <2>9, CallStep
<1> QED
  BY <1>4, <1>5, <1>6, <1>7, <1>8 DEF SendFrom, Done, Start

(* Every handler keeps the invariant. *)
LEMMA HandlerStep ==
  ASSUME TransportInv, NEW r \in Requests, UNCHANGED <<usage, ssl>>,
         Send(r) \/ Handle(r)
  PROVE  TransportInv'
<1> USE DEF TransportInv
<1>1. client \in Flags /\ timer \in [waiting: BOOLEAN, expired: Nat]
  BY DEF TypeOK, Flags
<1>2. UNCHANGED <<link, toServer, toClient, listener, session, processed>>
  BY DEF Send, Handle, SendRetry, Resolved, Connected, Handshaken, Sent,
         ResponseRead, CtxRead, wireVars, serverVars
<1>3. UNCHANGED <<usage, ssl, wireVars, serverVars>>
  BY <1>2 DEF wireVars, serverVars
<1>4. Stage(r) /\ OneUser
  BY DEF Stages
<1>5. ASSUME call' = [call EXCEPT ![r] = [at |-> "failed", io |-> "none"]],
             UNCHANGED client \/ client' = [client EXCEPT !.abandoned = TRUE],
             timer' \in [waiting: BOOLEAN, expired: Nat]
      PROVE  TransportInv'
  <2>1. /\ client' \in Flags /\ client'.busy = client.busy
        /\ client.abandoned => client'.abandoned
    BY <1>1, <1>5 DEF Flags
  <2>9. Moves(r, "failed", "none")
    BY <1>2, <1>5, <2>1 DEF Places, Operations, Early, Moves
  <2> QED
    BY <2>9, CallStep
<1>6. ASSUME call' = [call EXCEPT ![r] = [at |-> "answered", io |-> "none"]],
             client' = [client EXCEPT !.busy = FALSE], CancelTimer,
             Using(r), Quiet \/ client.abandoned
      PROVE  TransportInv'
  <2>1. client' \in Flags /\ client'.abandoned = client.abandoned
    BY <1>1, <1>6 DEF Flags
  <2>2. timer' \in [waiting: BOOLEAN, expired: Nat]
    BY <1>1, <1>6 DEF CancelTimer
  <2>9. Moves(r, "answered", "none")
    BY <1>2, <1>6, <2>1, <2>2 DEF Places, Operations, Early, Moves
  <2> QED
    BY <2>9, CallStep
<1>7. CASE Send(r)
  BY <1>3, <1>7, SendStep DEF Send
<1>8. CASE SendRetry(r)
  BY <1>1, <1>3, <1>5, <1>8, SendStep DEF SendRetry, Done
<1>9. CASE Resolved(r)
  <2>1. CASE client' = [client EXCEPT !.open = TRUE] /\ Start(r, "connecting")
    <3>1. client' \in Flags /\ client'.busy = client.busy
          /\ client'.abandoned = client.abandoned
      BY <1>1, <2>1 DEF Flags
    <3>2. call[r].at \in Early /\ UNCHANGED timer
      BY <1>9 DEF Early, Resolved
    <3>9. Moves(r, "connecting", "pending")
      BY <1>1, <1>2, <2>1, <3>1, <3>2 DEF Start, Places, Operations, Early, Moves
    <3> QED
      BY <3>9, CallStep
  <2> QED
    BY <1>1, <1>5, <1>9, <2>1 DEF Resolved, Done
<1>10. CASE Connected(r)
  <2>1. CASE Start(r, "handshaking") /\ UNCHANGED <<client, timer>>
    <3>1. call[r].at \in Early
      BY <1>10 DEF Early, Connected
    <3>9. Moves(r, "handshaking", "pending")
      BY <1>1, <1>2, <2>1, <3>1 DEF Start, Places, Operations, Early, Moves
    <3> QED
      BY <3>9, CallStep
  <2>2. CASE SendFrom(r, client)
    BY <1>3, <1>10, <2>2, SendStep DEF Connected
  <2> QED
    BY <1>1, <1>5, <1>10, <2>1, <2>2 DEF Connected, Done
<1>11. CASE Handshaken(r)
  <2>1. CASE SendFrom(r, [client EXCEPT !.sslReady = TRUE])
    BY <1>3, <1>11, <2>1, SendStep DEF Handshaken
  <2> QED
    BY <1>1, <1>5, <1>11, <2>1 DEF Handshaken, Done
<1>12. CASE Sent(r)
  <2>1. CASE Start(r, "reading") /\ UNCHANGED <<client, timer>>
    <3>9. Moves(r, "reading", "pending")
      BY <1>1, <1>2, <1>4, <1>12, <2>1 DEF Sent, Start, Places, Operations, OneUser, Using, Early, Moves
    <3> QED
      BY <3>9, CallStep
  <2>2. CASE /\ client' = [client EXCEPT !.abandoned = TRUE]
             /\ CancelTimer /\ Done(r, "failed")
    <3>1. timer' \in [waiting: BOOLEAN, expired: Nat]
      BY <1>1, <2>2 DEF CancelTimer
    <3> QED
      BY <1>5, <2>2, <3>1 DEF Done
  <2> QED
    BY <1>12, <2>1, <2>2 DEF Sent
<1>13. CASE ResponseRead(r)
  <2>1. Using(r) /\ client.busy
    BY <1>4, <1>13 DEF ResponseRead, Using, OneUser
  <2>2. CASE /\ call[r].io = "okCtx" /\ Start(r, "readingCtx")
             /\ UNCHANGED <<client, timer>>
    <3>1. Delivered(r)
      BY <1>4, <1>13, <2>2 DEF ResponseRead, Stage
    <3>9. Moves(r, "readingCtx", "pending")
      BY <1>1, <1>2, <2>1, <2>2, <3>1 DEF Start, Places, Operations, Early, Moves
    <3> QED
      BY <3>9, CallStep
  <2>3. CASE /\ call[r].io = "ok" /\ client' = [client EXCEPT !.busy = FALSE]
             /\ CancelTimer /\ Done(r, "answered")
    BY <1>4, <1>6, <1>13, <2>1, <2>3
       DEF ResponseRead, Stage, Delivered, Quiet, Done
  <2> QED
    BY <1>1, <1>5, <1>13, <2>2, <2>3 DEF ResponseRead, Done
<1>14. CASE CtxRead(r)
  <2>1. Using(r) /\ (Quiet \/ client.abandoned)
    BY <1>4, <1>14 DEF CtxRead, Using, Stage, Delivered, Quiet
  <2> QED
    BY <1>1, <1>5, <1>6, <1>14, <2>1 DEF CtxRead, Done
<1> QED
  BY <1>7, <1>8, <1>9, <1>10, <1>11, <1>12, <1>13, <1>14 DEF Handle

(* Every completion by the kernel keeps the invariant. *)
LEMMA CompletionStep ==
  ASSUME TransportInv, NEW r \in Requests, UNCHANGED <<usage, ssl>>, Complete(r)
  PROVE  TransportInv'
<1> USE DEF TransportInv
<1>1. UNCHANGED <<usage, ssl, client, timer, processed>>
  BY DEF Complete, CompleteResolve, CompleteConnect, CompleteHandshake,
         CompleteWrite, CompleteRead, CompleteReadCtx, serverVars
<1>2. PICK o \in {"ok", "okCtx", "err"} : call' = [call EXCEPT ![r].io = o]
  BY DEF Complete, CompleteResolve, CompleteConnect, CompleteHandshake,
         CompleteWrite, CompleteRead, CompleteReadCtx, Outcome
<1>3. /\ \A u \in Requests : call'[u].at = call[u].at /\ (u # r => call'[u] = call[u])
      /\ call'[r].io = o
      /\ call' \in [Requests -> [at: Places,
                                 io: {"none", "pending", "ok", "okCtx", "err"}]]
  BY SMTT(60), <1>2 DEF TypeOK
<1>4. OneUser'
  BY <1>1, <1>3 DEF OneUser, Using
<1>5. ASSUME UNCHANGED <<toServer, toClient>>, session'.req = session.req,
             session' \in [at: {"none", "accepted", "handshake", "header",
                               "request", "process", "waiting", "respond",
                               "stopped"},
                           req: SUBSET Requests, handler: BOOLEAN],
             \/ UNCHANGED <<session, link>>
             \/ link # "none" /\ link' # "none" /\ session'.at = session.at
             \/ link' # "none" /\ session.req = {} /\ session'.at = "accepted",
             link' \in {"none", "up", "down"},
             listener' \in [stopped: BOOLEAN, waiting: BOOLEAN, handler: BOOLEAN,
                            accepting: BOOLEAN],
             Stage(r)'
      PROVE  TransportInv'
  <2>1. TypeOK'
    BY <1>1, <1>3, <1>5 DEF TypeOK
  <2>2. Cargo'
    BY <1>1, <1>3, <1>5 DEF Cargo, Carries, Quiet, Using
  <2>3. \A u \in Requests : Stage(u)'
    BY <1>1, <1>3, <1>5 DEF Stages, Stage, Quiet, Delivered
  <2> QED
    BY <1>1, <1>4, <1>5, <2>1, <2>2, <2>3 DEF Stages
<1>6. CASE call[r].at \in {"resolving", "handshaking"}
  <2>1. UNCHANGED <<link, toServer, toClient, listener, session>>
    BY <1>6 DEF Complete, CompleteResolve, CompleteConnect, CompleteHandshake,
       CompleteWrite, CompleteRead, CompleteReadCtx, Pending, wireVars, serverVars
  <2>2. Stage(r)'
    BY <1>1, <1>3, <1>6 DEF Stages, Stage
  <2> QED
    BY <1>5, <2>1, <2>2 DEF TypeOK
<1>7. CASE CompleteConnect(r)
  <2>1. Stage(r)' /\ UNCHANGED <<toServer, toClient>>
    BY <1>1, <1>3, <1>7 DEF CompleteConnect, Pending, Stages, Stage
  <2>2. CASE UNCHANGED <<link, session, listener>>
    BY <1>5, <2>1, <2>2 DEF TypeOK
  <2>3. CASE /\ listener.waiting /\ link = "none" /\ link' = "up"
             /\ session' = [session EXCEPT !.at = "accepted",
                                           !.handler = listener.accepting]
             /\ listener' = [listener EXCEPT !.waiting = FALSE]
    <3>1. session = NoSession
      BY <2>3 DEF Stages
    <3> QED
      BY <1>5, <2>1, <2>3, <3>1 DEF TypeOK, NoSession
  <2> QED
    BY <1>7, <2>2, <2>3 DEF CompleteConnect
<1>8. CASE CompleteWrite(r)
  <2>1. /\ UNCHANGED <<link, toClient, listener, session>>
        /\ call[r].at = "writing" /\ call[r].io = "pending" /\ Using(r)
        /\ Quiet /\ processed[r] = 0 /\ client.busy
    BY <1>8 DEF CompleteWrite, Pending, serverVars, Stages, Stage, OneUser, Using
  <2>2. CASE UNCHANGED toServer /\ o = "err"
    <3>1. Stage(r)'
      BY <1>1, <1>3, <2>1, <2>2 DEF Stage, Quiet
    <3> QED
      BY <1>5, <2>1, <2>2, <3>1 DEF TypeOK
  <2>3. CASE toServer' = Append(toServer, r) /\ o = "ok" /\ link = "up"
    <3>1. toServer' = <<r>>
      BY <2>1, <2>3 DEF Quiet
    <3>2. TypeOK'
      BY <1>1, <1>3, <2>1, <3>1 DEF TypeOK
    <3>3. Cargo'
      <4>1. Carries(r)'
        BY <2>1, <3>1 DEF Carries, Quiet
      <4>2. \A u \in Requests : Using(u)' => u = r
        BY <1>3, <2>1 DEF OneUser, Using
      <4> QED
        BY <1>1, <1>3, <2>1, <4>1, <4>2 DEF Cargo, Quiet, Early
    <3>4. \A u \in Requests : Stage(u)'
      <4>1. Stage(r)'
        BY <1>1, <1>3, <2>1, <2>3 DEF Stage
      <4>2. ASSUME NEW u \in Requests, u # r PROVE Stage(u)'
        BY <1>1, <1>3, <2>1, <4>2 DEF Stages, Stage, OneUser, Using
      <4> QED
        BY <4>1, <4>2
    <3> QED
      BY <1>1, <1>4, <2>1, <3>2, <3>3, <3>4 DEF Stages
  <2> QED
    BY <1>2, <1>3, <1>8, <2>2, <2>3 DEF CompleteWrite, Outcome, TypeOK
<1>9. ASSUME Using(r), toClient # <<>>
      PROVE  /\ \E c \in BOOLEAN : toClient = <<[req |-> r, ctx |-> c]>>
             /\ Delivered(r)
  <2>1. PICK m \in Requests :
          /\ Carries(m) /\ \A u \in Requests : Using(u) => u = m
          /\ processed[m] = 1
    BY <1>9 DEF Cargo, Quiet
  <2> QED
    BY <1>9, <2>1 DEF Carries, Delivered
<1>10. ASSUME Using(r), toClient # <<>>, toClient' = Tail(toClient), o = "ok",
              UNCHANGED <<link, toServer, listener, session>>,
              call[r].at \in {"reading", "readingCtx"}
       PROVE  TransportInv'
  <2>1. toClient' = <<>> /\ Delivered(r)
    <3>1. PICK c \in BOOLEAN : toClient = <<[req |-> r, ctx |-> c]>>
      BY <1>9, <1>10
    <3> QED
      BY <1>9, <1>10, <3>1
  <2>2. TypeOK'
    BY <1>1, <1>3, <1>10, <2>1 DEF TypeOK
  <2>3. Cargo'
    BY <1>10, <2>1 DEF Cargo, Quiet, Delivered
  <2>4. Stage(r)'
    BY <1>1, <1>3, <1>10, <2>1 DEF Stage, Delivered, Early
  <2>5. ASSUME NEW u \in Requests, u # r PROVE Stage(u)'
    BY <1>1, <1>3, <1>10, <2>5 DEF Stages, Stage, OneUser, Using
  <2> QED
    BY <1>1, <1>4, <1>10, <2>2, <2>3, <2>4, <2>5 DEF Stages
<1>11. CASE CompleteRead(r)
  <2>1. /\ UNCHANGED <<link, toServer, listener, session>>
        /\ call[r].at = "reading" /\ Using(r)
    BY <1>11 DEF CompleteRead, Pending, serverVars, Using
  <2>2. CASE toClient' = Tail(toClient) /\ toClient # <<>> /\ o = "ok"
    BY <1>10, <2>1, <2>2
  <2>3. CASE UNCHANGED toClient /\ o \in {"okCtx", "err"} /\ (o = "okCtx" => toClient # <<>>)
    <3>1. Stage(r)'
      BY <1>1, <1>3, <1>9, <2>1, <2>3 DEF Stages, Stage, Delivered
    <3> QED
      BY <1>5, <2>1, <2>3, <3>1 DEF TypeOK
  <2> QED
    BY <1>2, <1>3, <1>11, <2>2, <2>3 DEF CompleteRead, Outcome, TypeOK
<1>12. CASE CompleteReadCtx(r)
  <2>1. /\ UNCHANGED <<link, toServer, listener, session>>
        /\ call[r].at = "readingCtx" /\ Using(r)
    BY <1>12 DEF CompleteReadCtx, Pending, serverVars, Using
  <2>2. CASE toClient' = Tail(toClient) /\ toClient # <<>> /\ o = "ok"
    BY <1>10, <2>1, <2>2
  <2>3. CASE UNCHANGED toClient /\ toClient = <<>>
    <3>1. Stage(r)'
      BY <1>1, <1>3, <2>1, <2>3 DEF Stages, Stage, Delivered
    <3> QED
      BY <1>5, <2>1, <2>3, <3>1 DEF TypeOK
  <2> QED
    BY <1>2, <1>3, <1>12, <2>2, <2>3 DEF CompleteReadCtx, Outcome, TypeOK
<1> QED
  BY <1>6, <1>7, <1>8, <1>11, <1>12
     DEF Complete, CompleteResolve, CompleteHandshake, Pending

(* The timer, a broken connection and the listener keep the invariant. *)
LEMMA OtherStep ==
  ASSUME TransportInv, UNCHANGED <<usage, ssl>>,
         TimerExpires \/ CancelSocket \/ Break \/ ListenerStop \/ ListenerShutdown
  PROVE  TransportInv'
<1> USE DEF TransportInv
<1>1. CASE TimerExpires
  <2>1. /\ timer' \in [waiting: BOOLEAN, expired: Nat]
        /\ UNCHANGED <<usage, ssl, client, call, link, toServer, toClient,
                       listener, session, processed>>
    BY <1>1 DEF TimerExpires, TypeOK, wireVars, serverVars
  <2>2. TypeOK'
    BY <2>1 DEF TypeOK
  <2>3. OneUser' /\ Cargo'
    BY <2>1 DEF OneUser, Using, Cargo, Quiet, Carries
  <2>4. Stages'
    BY <2>1 DEF Stages, Stage, Quiet, Delivered
  <2> QED
    BY <2>2, <2>3, <2>4
<1>2. CASE CancelSocket
  <2>1. /\ UNCHANGED <<usage, ssl, link, toServer, toClient, listener, session,
                       processed>>
        /\ timer' \in [waiting: BOOLEAN, expired: Nat]
    <3>1. timer \in [waiting: BOOLEAN, expired: Nat] /\ timer.expired > 0
          /\ timer' = [timer EXCEPT !.expired = @ - 1]
      BY <1>2 DEF CancelSocket, TypeOK
    <3>2. timer.expired - 1 \in Nat
      BY <3>1
    <3>3. timer' \in [waiting: BOOLEAN, expired: Nat]
      BY <3>1, <3>2
    <3> QED
      BY <1>2, <3>3 DEF CancelSocket, wireVars, serverVars
  <2>2. /\ client' \in Flags /\ client'.busy = client.busy
        /\ client.abandoned => client'.abandoned
        /\ client.open => client'.abandoned
    BY <1>2 DEF CancelSocket, TypeOK, Flags
  <2>3. \A u \in Requests :
          \/ call'[u] = call[u]
          \/ call'[u] = [call[u] EXCEPT !.io = "err"] /\ client.open
    BY <1>2 DEF CancelSocket
  <2>4. \A u \in Requests :
          /\ call'[u].at = call[u].at
          /\ call'[u].io = call[u].io \/ (call'[u].io = "err" /\ client.open)
          /\ call'[u] \in [at: Places, io: {"none", "pending", "ok", "okCtx", "err"}]
    <3> SUFFICES ASSUME NEW u \in Requests
                 PROVE  /\ call'[u].at = call[u].at
                        /\ call'[u].io = call[u].io
                              \/ (call'[u].io = "err" /\ client.open)
                        /\ call'[u] \in [at: Places, io: {"none", "pending", "ok",
                                                       "okCtx", "err"}]
      OBVIOUS
    <3>1. call[u] \in [at: Places, io: {"none", "pending", "ok", "okCtx", "err"}]
      BY DEF TypeOK
    <3> QED
      BY <2>3, <3>1
  <2>5. call' \in [Requests -> [at: Places,
                               io: {"none", "pending", "ok", "okCtx", "err"}]]
    BY <1>2, <2>4 DEF CancelSocket
  <2>6. TypeOK'
    BY <2>1, <2>2, <2>5 DEF TypeOK, Flags
  <2>7. OneUser'
    BY <2>2, <2>4 DEF OneUser, Using
  <2>8. Cargo'
    BY <2>1, <2>2, <2>4 DEF Cargo, Carries, Quiet, Using
  <2>9. ASSUME NEW u \in Requests PROVE Stage(u)'
    BY <1>2, <2>1, <2>2, <2>4 DEF CancelSocket, Stages, Stage, Quiet, Delivered
  <2> QED
    BY <2>1, <2>6, <2>7, <2>8, <2>9 DEF Stages
<1>3. CASE Break
  <2>1. /\ UNCHANGED <<usage, ssl, client, timer, call, listener, session, processed>>
        /\ link = "up" /\ link' = "down" /\ toServer' = <<>> /\ toClient' = <<>>
    BY <1>3 DEF Break, clientVars, serverVars
  <2>2. TypeOK'
    BY <2>1 DEF TypeOK
  <2>3. OneUser'
    BY <2>1 DEF OneUser, Using
  <2>4. Cargo'
    BY <2>1 DEF Cargo, Carries, Quiet, Using
  <2>5. Stages'
    BY <2>1 DEF Stages, Stage, Quiet, Delivered
  <2> QED
    BY <2>2, <2>3, <2>4, <2>5
<1>4. CASE ListenerStop \/ ListenerShutdown
  <2>1. /\ UNCHANGED <<usage, ssl, client, timer, call, link, toServer, toClient,
                       session, processed>>
        /\ listener' \in [stopped: BOOLEAN, waiting: BOOLEAN, handler: BOOLEAN,
                          accepting: BOOLEAN]
    BY <1>4 DEF ListenerStop, ListenerShutdown, TypeOK, clientVars, wireVars
  <2>2. TypeOK'
    BY <2>1 DEF TypeOK
  <2>3. OneUser' /\ Cargo'
    BY <2>1 DEF OneUser, Using, Cargo, Quiet, Carries
  <2>4. Stages'
    BY <2>1 DEF Stages, Stage, Quiet, Delivered
  <2> QED
    BY <2>2, <2>3, <2>4
<1> QED
  BY <1>1, <1>2, <1>3, <1>4

(* Every step of the session keeps the invariant. *)
LEMMA SessionStep ==
  ASSUME TransportInv, UNCHANGED <<usage, ssl>>, ServerStep
  PROVE  TransportInv'
<1> USE DEF TransportInv
<1> DEFINE S == [at: {"none", "accepted", "handshake", "header", "request",
                      "process", "waiting", "respond", "stopped"},
                 req: SUBSET Requests, handler: BOOLEAN]
           L == [stopped: BOOLEAN, waiting: BOOLEAN, handler: BOOLEAN,
                 accepting: BOOLEAN]
<1>1. /\ UNCHANGED <<usage, ssl, client, timer, call>>
      /\ session \in S /\ listener \in L
  BY DEF ServerStep, HandleAccept, SessionHandshake, ReadHeader, ReadRequest,
         Process, ResultReady, Respond, clientVars, TypeOK
<1>2. session.at # "none" /\ link # "none"
  BY DEF ServerStep, HandleAccept, SessionHandshake, ReadHeader, ReadRequest,
         Process, ResultReady, Respond, Stages, NoSession
<1> HIDE DEF S, L
<1>3. OneUser'
  BY <1>1 DEF OneUser, Using
<1>4. ASSUME Stop, CloseLink, UNCHANGED <<listener, processed>>
      PROVE  TransportInv'
  <2>1. /\ session' \in S /\ session'.at = "stopped" /\ session'.req = {}
        /\ toServer' = <<>> /\ toClient' = toClient /\ link' = "down"
    <3>1. session \in S
      BY <1>1 DEF S
    <3>2. session' \in S
      BY <1>4, <3>1 DEF Stop, S
    <3> QED
      BY <1>4, <3>1, <3>2 DEF Stop, CloseLink, S
  <2>2. TypeOK'
    BY <1>1, <1>4, <2>1 DEF TypeOK, S
  <2>3. Cargo'
    BY <1>1, <1>4, <2>1 DEF Cargo, Carries, Quiet, Using
  <2>4. ASSUME NEW u \in Requests PROVE Stage(u)'
    BY <1>1, <1>4, <2>1 DEF Stages, Stage, Quiet, Delivered
  <2> QED
    BY <1>3, <2>1, <2>2, <2>3, <2>4 DEF Stages
<1>5. ASSUME UNCHANGED <<wireVars, processed>>, listener' \in L,
             session' \in S, session'.req = session.req,
             session'.at # "none",
             session.req # {} => session'.at \in {"request", "process", "waiting", "respond"},
             \A m \in session.req : processed[m] =
                IF session'.at \in {"waiting", "respond"} THEN 1 ELSE 0
      PROVE  TransportInv'
  <2>1. UNCHANGED <<link, toServer, toClient, processed>>
    BY <1>5 DEF wireVars
  <2>2. TypeOK'
    BY <1>1, <1>5, <2>1 DEF TypeOK, S, L
  <2>3. Cargo'
    BY <1>1, <1>5, <2>1 DEF Cargo, Carries, Quiet, Using
  <2>4. ASSUME NEW u \in Requests PROVE Stage(u)'
    BY <1>1, <1>5, <2>1 DEF Stages, Stage, Quiet, Delivered
  <2> QED
    BY <1>2, <1>3, <1>5, <2>1, <2>2, <2>3, <2>4 DEF Stages
<1>6. CASE HandleAccept
  <2>1. session' \in S /\ session'.req = session.req /\ session.req = {}
        /\ session'.at # "none"
    BY <1>1, <1>6 DEF HandleAccept, S, Stages
  <2>2. listener' \in L
    BY <1>1, <1>6 DEF HandleAccept, L
  <2> QED
    BY <1>5, <1>6, <2>1, <2>2 DEF HandleAccept
<1>7. CASE SessionHandshake
  <2>1. CASE session' = [session EXCEPT !.at = "header"] /\ UNCHANGED wireVars
    <3>1. session' \in S /\ session'.req = session.req /\ session.req = {}
          /\ session'.at # "none"
      BY <1>1, <1>7, <2>1 DEF SessionHandshake, S, Stages
    <3> QED
      BY <1>1, <1>5, <1>7, <2>1, <3>1 DEF SessionHandshake
  <2> QED
    BY <1>4, <1>7, <2>1 DEF SessionHandshake
<1>8. CASE ReadHeader
  <2>1. CASE /\ toServer # <<>> /\ UNCHANGED <<link, toClient, listener, processed>>
             /\ session' = [session EXCEPT !.at = "request", !.req = {Head(toServer)}]
             /\ toServer' = Tail(toServer)
    <3>1. PICK m \in Requests :
            /\ toServer = <<m>> /\ toClient = <<>> /\ session.req = {}
            /\ call[m].at \notin Early /\ \A u \in Requests : Using(u) => u = m
            /\ client.busy \/ client.abandoned
            /\ processed[m] = 0
      BY <2>1 DEF Cargo, Carries, Quiet
    <3>2. /\ session' \in S /\ session'.req = {m} /\ session'.at = "request"
          /\ toServer' = <<>> /\ toClient' = <<>>
      <4>1. Head(toServer) = m /\ Tail(toServer) = <<>>
        BY <3>1
      <4>2. session' \in S
        BY <1>1, <2>1, <4>1 DEF S
      <4> QED
        BY <1>1, <2>1, <3>1, <4>1, <4>2 DEF S
    <3>3. TypeOK'
      BY <1>1, <2>1, <3>2 DEF TypeOK, S
    <3>4. Cargo'
      <4>1. Carries(m)'
        BY <3>2 DEF Carries
      <4> QED
        BY <1>1, <3>1, <3>2, <4>1 DEF Cargo, Using
    <3>5. ASSUME NEW u \in Requests PROVE Stage(u)'
      BY <1>1, <2>1, <3>1, <3>2 DEF Stages, Stage, Quiet, Delivered
    <3> QED
      BY <1>2, <1>3, <2>1, <3>1, <3>2, <3>3, <3>4, <3>5 DEF Stages
  <2> QED
    BY <1>4, <1>8, <2>1 DEF ReadHeader
<1>9. CASE ReadRequest
  <2>1. CASE session' = [session EXCEPT !.at = "process"] /\ UNCHANGED wireVars
    <3>1. session' \in S /\ session'.req = session.req /\ session'.at = "process"
      BY <1>1, <2>1 DEF S
    <3>2. \A m \in session.req : processed[m] = 0
      BY <1>9 DEF ReadRequest, Stages
    <3> QED
      BY <1>1, <1>5, <1>9, <2>1, <3>1, <3>2 DEF ReadRequest
  <2> QED
    BY <1>4, <1>9, <2>1 DEF ReadRequest
<1>10. CASE ResultReady
  <2>1. session' \in S /\ session'.req = session.req /\ session'.at = "respond"
    BY <1>1, <1>10 DEF ResultReady, S
  <2>2. \A m \in session.req : processed[m] = 1
    BY <1>10 DEF ResultReady, Stages
  <2> QED
    BY <1>1, <1>5, <1>10, <2>1, <2>2 DEF ResultReady
<1>11. CASE Process
  <2>1. /\ UNCHANGED listener /\ \A m \in session.req : processed[m] = 0
        /\ \A u \in Requests : processed'[u] = IF u \in session.req
                                              THEN processed[u] + 1 ELSE processed[u]
        /\ processed' \in [Requests -> Nat]
    BY <1>11 DEF Process, Stages, TypeOK
  <2>2. CASE session.req = {}
    <3>1. processed' = processed
      BY <1>11, <2>2 DEF Process, TypeOK
    <3>2. CASE Stop /\ CloseLink
      BY <1>4, <2>1, <3>1, <3>2
    <3>3. ASSUME NEW a \in {"respond", "waiting"},
                 session' = [session EXCEPT !.at = a], UNCHANGED wireVars
          PROVE  TransportInv'
      <4>1. session' \in S /\ session'.req = session.req /\ session'.at # "none"
        BY <1>1, <3>3 DEF S
      <4> QED
        BY <1>1, <1>5, <2>1, <2>2, <3>1, <3>3, <4>1
    <3> QED
      BY <1>11, <3>2, <3>3 DEF Process
  <2>3. CASE session.req # {}
    <3>1. PICK m \in Requests :
            /\ session.req = {m} /\ toServer = <<>> /\ toClient = <<>>
            /\ call[m].at \notin Early /\ \A u \in Requests : Using(u) => u = m
            /\ client.busy \/ client.abandoned
      BY <2>3 DEF Cargo, Carries, Quiet
    <3>2. processed'[m] = 1 /\ \A u \in Requests : u # m => processed'[u] = processed[u]
      BY <2>1, <3>1
    <3>3. /\ session' \in S /\ toServer' = <<>> /\ toClient' = <<>>
          /\ link' \in {"up", "down"}
          /\ \/ session'.req = {m} /\ session'.at \in {"waiting", "respond"}
             \/ session'.req = {} /\ session'.at = "stopped"
      <4>1. CASE Stop /\ CloseLink
        <5>1. session \in S
          BY <1>1 DEF S
        <5>2. session' \in S
          BY <4>1, <5>1 DEF Stop, S
        <5> QED
          BY <3>1, <4>1, <5>1, <5>2 DEF Stop, CloseLink, S
      <4>2. ASSUME NEW a \in {"respond", "waiting"},
                   session' = [session EXCEPT !.at = a], UNCHANGED wireVars
            PROVE  /\ session' \in S /\ toServer' = <<>> /\ toClient' = <<>>
                   /\ link' \in {"up", "down"}
                   /\ session'.req = {m} /\ session'.at \in {"waiting", "respond"}
        BY <1>1, <1>2, <3>1, <4>2 DEF S, wireVars, TypeOK
      <4> QED
        BY <1>11, <4>1, <4>2 DEF Process
    <3>4. TypeOK'
      BY <1>1, <2>1, <3>3 DEF TypeOK, S
    <3>5. Cargo'
      <4>1. Quiet' \/ Carries(m)'
        BY <3>3 DEF Quiet, Carries
      <4> QED
        BY <1>1, <3>1, <3>2, <3>3, <4>1 DEF Cargo, Using
    <3>6. Stage(m)'
      <4>1. ~Quiet
        BY <3>1 DEF Quiet
      <4> QED
        BY <1>1, <3>1, <3>2, <3>3, <4>1 DEF Stages, Stage, Delivered
    <3>7. ASSUME NEW u \in Requests, u # m PROVE Stage(u)'
      BY <1>1, <3>1, <3>2, <3>7 DEF Stages, Stage, Using
    <3> QED
      BY <1>3, <3>2, <3>3, <3>4, <3>5, <3>6, <3>7 DEF Stages
  <2> QED
    BY <2>2, <2>3
<1>12. CASE Respond
  <2>1. UNCHANGED <<listener, processed>>
    BY <1>12 DEF Respond
  <2>2. CASE Stop /\ CloseLink
    BY <1>4, <2>1, <2>2
  <2>3. CASE /\ \E r \in session.req, ctx \in BOOLEAN :
                   toClient' = Append(toClient, [req |-> r, ctx |-> ctx])
             /\ session' = [session EXCEPT !.at = "header", !.req = {}]
             /\ UNCHANGED <<link, toServer>>
    <3>1. PICK m \in Requests :
            /\ session.req = {m} /\ toServer = <<>> /\ toClient = <<>>
            /\ call[m].at \notin Early /\ \A u \in Requests : Using(u) => u = m
            /\ client.busy \/ client.abandoned
      BY <2>3 DEF Cargo, Carries, Quiet
    <3>2. processed[m] = 1
      BY <1>12, <3>1 DEF Respond, Stages
    <3>3. PICK c \in BOOLEAN : toClient' = <<[req |-> m, ctx |-> c]>>
      BY <2>3, <3>1
    <3>4. /\ session' \in S /\ session'.req = {} /\ session'.at = "header"
      BY <1>1, <2>3 DEF S
    <3>5. TypeOK'
      BY <1>1, <2>1, <2>3, <3>3, <3>4 DEF TypeOK, S
    <3>6. Cargo'
      <4>1. Carries(m)'
        BY <2>3, <3>1, <3>3, <3>4 DEF Carries
      <4> QED
        BY <1>1, <2>1, <2>3, <3>1, <3>2, <4>1 DEF Cargo, Using
    <3>7. ~Quiet /\ \A u \in Requests : ~Delivered(u)
      BY <3>1 DEF Quiet, Delivered
    <3>8. ASSUME NEW u \in Requests PROVE Stage(u)'
      BY <1>1, <2>1, <3>7 DEF Stages, Stage
    <3> QED
      BY <1>2, <1>3, <2>3, <3>4, <3>5, <3>6, <3>8 DEF Stages
  <2> QED
    BY <1>12, <2>2, <2>3 DEF Respond
<1> QED
  BY <1>6, <1>7, <1>8, <1>9, <1>10, <1>11, <1>12 DEF ServerStep

-----------------------------------------------------------------------------
(* The theorems *)

(* Every step keeps the invariant. *)
LEMMA NextTransportInv == TransportInv /\ [Next]_vars => TransportInv'
<1> SUFFICES ASSUME TransportInv, [Next]_vars PROVE TransportInv'
  OBVIOUS
<1>1. CASE Next
  BY <1>1, HandlerStep, CompletionStep, OtherStep, SessionStep DEF Next, Running
<1>2. CASE UNCHANGED vars
  <2>1. UNCHANGED <<usage, ssl, client, timer, call, link, toServer, toClient,
                    listener, session, processed>>
    BY <1>2 DEF vars
  <2>2. TypeOK'
    BY <2>1 DEF TransportInv, TypeOK
  <2>3. OneUser' /\ Cargo'
    BY <2>1 DEF TransportInv, OneUser, Using, Cargo, Quiet, Carries
  <2>4. Stages'
    BY <2>1 DEF TransportInv, Stages, Stage, Quiet, Delivered
  <2> QED
    BY <2>2, <2>3, <2>4 DEF TransportInv
<1> QED
  BY <1>1, <1>2

(* TransportInv holds in every reachable state, for any set of calls, any  *)
(* retry limit and any of the three ways to use the client.                *)
THEOREM TransportInvariance == Spec => []TransportInv
BY InitTransportInv, NextTransportInv, PTL DEF Spec

(* Whoever reads takes their own response: what an earlier call left on    *)
(* the wire is never there when the socket is taken.                       *)
THEOREM ResponsesNotMixed == Spec => []ResponseIsMine
<1>1. TransportInv => ResponseIsMine
  <2> SUFFICES ASSUME TransportInv, NEW r \in Requests,
                      call[r].at \in {"reading", "readingCtx"},
                      NEW k \in DOMAIN toClient
               PROVE  toClient[k].req = r
    BY DEF ResponseIsMine
  <2>1. toClient # <<>> /\ Using(r)
    BY DEF Using
  <2>2. PICK m \in Requests : Carries(m) /\ (Using(r) => r = m)
    BY <2>1 DEF TransportInv, Cargo, Quiet
  <2>3. PICK c \in BOOLEAN : toClient = <<[req |-> r, ctx |-> c]>>
    BY <2>1, <2>2 DEF Carries
  <2> QED
    BY <2>3
<1> QED
  BY <1>1, TransportInvariance, PTL

-----------------------------------------------------------------------------
(* The transport implements Rpc. *)

(* The status that a caller sees of a call. *)
Status == [r \in Requests |->
              IF call[r].at \in {"idle", "answered", "failed"}
              THEN call[r].at ELSE "sent"]

(* A handler sends, answers, fails, or does nothing a caller sees. *)
LEMMA HandlerRefines ==
  ASSUME TransportInv, NEW r \in Requests, Send(r) \/ Handle(r)
  PROVE  \/ Promise!RpcNext
         \/ UNCHANGED <<Status, processed>>
<1> USE DEF TransportInv
<1>1. UNCHANGED processed
  BY DEF Send, Handle, SendRetry, Resolved, Connected, Handshaken, Sent,
         ResponseRead, CtxRead, serverVars
<1>2. call[r].at \notin {"answered", "failed"}
  BY DEF Send, Handle, SendRetry, Resolved, Connected, Handshaken, Sent,
         ResponseRead, CtxRead
<1>3. Status[r] = IF call[r].at = "idle" THEN "idle" ELSE "sent"
  BY <1>2 DEF Status
<1>4. CASE UNCHANGED call
  BY <1>1, <1>4 DEF Status
<1>5. CASE Done(r, "failed")
  <2>1. Status' = [Status EXCEPT ![r] = "failed"]
    BY <1>5 DEF Done, Status, TypeOK
  <2>2. Promise!Failing(r)
    BY <1>1, <1>3, <2>1 DEF Promise!Failing, Status
  <2> QED
    BY <2>2 DEF Promise!RpcNext
<1>6. ASSUME Done(r, "answered"), processed[r] = 1, call[r].at # "idle"
      PROVE  Promise!RpcNext
  <2>1. Status' = [Status EXCEPT ![r] = "answered"]
    BY <1>6 DEF Done, Status, TypeOK
  <2>2. Promise!Answering(r)
    BY <1>1, <1>3, <1>6, <2>1 DEF Promise!Answering, Status
  <2> QED
    BY <2>2 DEF Promise!RpcNext
<1>7. ASSUME NEW o \in Operations \cup {"retrying"}, Start(r, o)
      PROVE  Promise!RpcNext \/ UNCHANGED <<Status, processed>>
  <2>1. Status' = [Status EXCEPT ![r] = "sent"]
    BY <1>7 DEF Start, Status, TypeOK, Operations
  <2>2. CASE call[r].at = "idle"
    <3>1. Promise!Sending(r)
      BY <1>1, <1>3, <2>1, <2>2 DEF Promise!Sending, Status
    <3> QED
      BY <3>1 DEF Promise!RpcNext
  <2>3. CASE call[r].at # "idle"
    <3>1. Status' = Status
      BY <1>3, <2>1, <2>3 DEF Status
    <3> QED
      BY <1>1, <3>1
  <2> QED
    BY <2>2, <2>3
<1>8. CASE ResponseRead(r) \/ CtxRead(r)
  <2>1. Stage(r)
    BY DEF Stages
  <2>2. Done(r, "answered") => processed[r] = 1 /\ call[r].at # "idle"
    <3>1. Done(r, "answered") => Done(r, "answered") /\ ~Done(r, "failed") /\ ~Start(r, "readingCtx")
      BY DEF Done, Start, TypeOK
    <3> QED
      BY <1>8, <2>1, <3>1 DEF ResponseRead, CtxRead, Stage, Delivered
  <2> QED
    BY <1>5, <1>6, <1>7, <1>8, <2>2 DEF ResponseRead, CtxRead, Operations
<1> QED
  BY <1>4, <1>5, <1>7, <1>8
     DEF Send, Handle, SendRetry, SendFrom, Resolved, Connected, Handshaken, Sent,
         Operations

(* Every step is a step of Rpc, or none at all. *)
LEMMA NextRefines ==
  TransportInv /\ [Next]_vars => [Promise!RpcNext]_<<Status, processed>>
<1> SUFFICES ASSUME TransportInv, [Next]_vars
             PROVE  Promise!RpcNext \/ UNCHANGED <<Status, processed>>
  OBVIOUS
<1> USE DEF TransportInv
<1>1. ASSUME NEW r \in Requests, Send(r) \/ Handle(r)
      PROVE  Promise!RpcNext \/ UNCHANGED <<Status, processed>>
  BY <1>1, HandlerRefines
<1>2. ASSUME \A u \in Requests : call'[u].at = call[u].at, UNCHANGED processed
      PROVE  UNCHANGED <<Status, processed>>
  BY <1>2 DEF Status
<1>3. ASSUME NEW r \in Requests, Complete(r)
      PROVE  UNCHANGED <<Status, processed>>
  <2>1. /\ UNCHANGED processed
        /\ \E o \in {"ok", "okCtx", "err"} : call' = [call EXCEPT ![r].io = o]
    BY <1>3 DEF Complete, CompleteResolve, CompleteConnect, CompleteHandshake,
         CompleteWrite, CompleteRead, CompleteReadCtx, Outcome, serverVars
  <2> QED
    BY <1>2, <2>1 DEF TypeOK
<1>4. CASE CancelSocket
  <2>1. \A u \in Requests :
          call'[u] = call[u] \/ call'[u] = [call[u] EXCEPT !.io = "err"]
    BY <1>4 DEF CancelSocket
  <2>2. \A u \in Requests : call'[u].at = call[u].at
    <3> SUFFICES ASSUME NEW u \in Requests PROVE call'[u].at = call[u].at
      OBVIOUS
    <3>1. call[u] \in [at: Places, io: {"none", "pending", "ok", "okCtx", "err"}]
      BY DEF TypeOK
    <3> QED
      BY <2>1, <3>1
  <2> QED
    BY <1>2, <1>4, <2>2 DEF CancelSocket, serverVars
<1>5. CASE Process
  <2>1. UNCHANGED Status
    BY <1>5 DEF Process, clientVars, Status
  <2>2. CASE session.req = {}
    BY <1>5, <2>1, <2>2 DEF Process, TypeOK
  <2>3. CASE session.req # {}
    <3>1. PICK m \in Requests : session.req = {m} /\ call[m].at \notin Early
      BY <2>3 DEF Cargo, Carries, Quiet
    <3>2. processed[m] = 0
      BY <1>5, <3>1 DEF Process, Stages
    <3>3. processed' = [processed EXCEPT ![m] = 1]
      <4>1. \A u \in Requests : (IF u \in session.req THEN processed[u] + 1
                                 ELSE processed[u]) = (IF u = m THEN 1 ELSE processed[u])
        BY <3>1, <3>2
      <4>2. processed' = [u \in Requests |-> IF u = m THEN 1 ELSE processed[u]]
        BY <1>5, <4>1 DEF Process
      <4> QED
        BY <4>2 DEF TypeOK
    <3>4. Status[m] # "idle"
      BY <3>1 DEF Status, Early
    <3>5. Promise!Processing(m)
      BY <2>1, <3>2, <3>3, <3>4 DEF Promise!Processing, Status
    <3> QED
      BY <3>5 DEF Promise!RpcNext
  <2> QED
    BY <2>2, <2>3
<1>6. CASE \/ TimerExpires \/ Break \/ ListenerStop \/ ListenerShutdown
           \/ (ServerStep /\ ~Process) \/ UNCHANGED vars
  <2>1. UNCHANGED <<call, processed>>
    BY <1>6 DEF TimerExpires, Break, ListenerStop, ListenerShutdown, ServerStep,
       HandleAccept, SessionHandshake, ReadHeader, ReadRequest, ResultReady,
       Respond, clientVars, serverVars, vars
  <2> QED
    BY <2>1 DEF Status
<1> QED
  BY <1>1, <1>3, <1>4, <1>5, <1>6 DEF Next

(* The transport keeps the promise of Rpc: every send completes at most    *)
(* once, with an answer only to a request that was processed, and every    *)
(* request is processed at most once.                                      *)
THEOREM TransportImplementsRpc == Spec => KeepsPromise
<1>1. Init => Promise!RpcInit
  BY DEF Init, Promise!RpcInit
<1>2. TransportInv /\ [Next]_vars => [Promise!RpcNext]_(Promise!rpcVars)
  BY NextRefines DEF Status, Promise!rpcVars
<1> QED
  BY <1>1, <1>2, TransportInvariance, PTL DEF Spec, KeepsPromise, Promise!RpcSpec

-----------------------------------------------------------------------------
(* With one call at a time and no call after a failure, the socket is idle *)
(* whenever it is taken.                                                   *)

(* The handlers keep Exclusive. *)
LEMMA HandlerExclusive ==
  ASSUME TransportInv, Exclusive, usage = "exclusive", NEW r \in Requests,
         UNCHANGED usage, Send(r) \/ Handle(r)
  PROVE  Exclusive'
<1> USE DEF TransportInv
<1>1. /\ \A u \in Requests : u # r => call[u].at \in {"idle", "answered"}
      /\ call[r].at \notin {"answered", "failed"}
      /\ ~client.aborted
  <2>1. CASE Send(r)
    BY <2>1 DEF Send, MaySend, InFlight, Exclusive, TypeOK, Places
  <2>2. CASE Handle(r)
    <3>1. r \in InFlight
      BY <2>2 DEF Handle, SendRetry, Resolved, Connected, Handshaken, Sent,
         ResponseRead, CtxRead, InFlight, Operations
    <3> QED
      BY <3>1 DEF Exclusive, InFlight, TypeOK, Places, Operations
  <2> QED
    BY <2>1, <2>2
<1>2. client.busy => Using(r)
  BY <1>1 DEF Exclusive, Using
<1>3. ASSUME NEW at \in Places, NEW io,
             call' = [call EXCEPT ![r] = [at |-> at, io |-> io]],
             ~client'.aborted,
             client'.busy => at \in {"writing", "reading", "readingCtx", "failed"}
      PROVE  Exclusive'
  <2>1. /\ call'[r].at = at
        /\ \A u \in Requests : u # r => call'[u].at \in {"idle", "answered"}
    BY <1>1, <1>3 DEF TypeOK
  <2>2. InFlight' = IF at \in Operations \cup {"retrying"} THEN {r} ELSE {}
    BY <2>1 DEF InFlight, Operations
  <2>3. client'.busy => Using(r)' \/ call'[r].at = "failed"
    BY <1>3, <2>1 DEF Using
  <2>4. (\E u \in Requests : call'[u].at = "failed") => at = "failed"
    BY <2>1
  <2> QED
    BY <1>3, <2>2, <2>3, <2>4 DEF Exclusive, Operations
<1>4. client \in Flags
  BY DEF TypeOK, Flags
<1>5. ASSUME Done(r, "failed"),
             UNCHANGED client \/ client' = [client EXCEPT !.abandoned = TRUE]
      PROVE  Exclusive'
  <2>1. ~client'.aborted
    BY <1>1, <1>4, <1>5 DEF Flags
  <2> QED
    BY <1>3, <1>5, <2>1 DEF Done, Places
<1>6. ASSUME Done(r, "answered"), client' = [client EXCEPT !.busy = FALSE]
      PROVE  Exclusive'
  <2>1. ~client'.aborted /\ ~client'.busy
    BY <1>1, <1>4, <1>6 DEF Flags
  <2> QED
    BY <1>3, <1>6, <2>1 DEF Done, Places
<1>7. ASSUME NEW STATE c, c \in {client, [client EXCEPT !.sslReady = TRUE]},
             SendFrom(r, c), ~Using(r)
      PROVE  Exclusive'
  <2>1. c \in Flags /\ ~c.aborted /\ ~c.busy
    BY <1>1, <1>2, <1>4, <1>7 DEF Flags
  <2>2. CASE Done(r, "failed") /\ client' = c
    BY <1>3, <2>1, <2>2 DEF Done, Places
  <2>3. CASE Start(r, "retrying") /\ client' = [c EXCEPT !.fails = @ + 1]
    <3>1. ~client'.aborted /\ ~client'.busy
      BY <2>1, <2>3 DEF Flags
    <3> QED
      BY <1>3, <2>3, <3>1 DEF Start, Places
  <2>4. CASE Start(r, "resolving") /\ client' = [c EXCEPT !.attempting = TRUE]
    <3>1. ~client'.aborted /\ ~client'.busy
      BY <2>1, <2>4 DEF Flags
    <3> QED
      BY <1>3, <2>4, <3>1 DEF Start, Places, Operations
  <2>5. CASE Start(r, "writing") /\ client' = [c EXCEPT !.busy = TRUE, !.fails = 0]
    <3>1. ~client'.aborted
      BY <2>1, <2>5 DEF Flags
    <3> QED
      BY <1>3, <2>5, <3>1 DEF Start, Places, Operations
  <2> QED
    BY <1>7, <2>1, <2>2, <2>3, <2>4, <2>5 DEF SendFrom
<1>8. ASSUME NEW o \in Operations, Start(r, o), UNCHANGED client,
             Using(r) => o \in {"reading", "readingCtx"}
      PROVE  Exclusive'
  BY <1>1, <1>2, <1>3, <1>8 DEF Start, Places
<1>9. CASE Send(r)
  BY <1>7, <1>9 DEF Send, Using
<1>10. CASE SendRetry(r)
  BY <1>5, <1>7, <1>10 DEF SendRetry, Using
<1>11. CASE Resolved(r)
  <2>1. CASE client' = [client EXCEPT !.open = TRUE] /\ Start(r, "connecting")
    <3>1. ~client'.aborted /\ ~client'.busy
      BY <1>1, <1>2, <1>4, <1>11, <2>1 DEF Flags, Resolved, Using
    <3> QED
      BY <1>3, <2>1, <3>1 DEF Start, Places, Operations
  <2> QED
    BY <1>5, <1>11, <2>1 DEF Resolved
<1>12. CASE Connected(r)
  <2>1. ~Using(r)
    BY <1>12 DEF Connected, Using
  <2>2. Start(r, "handshaking") /\ UNCHANGED client => Exclusive'
    BY <1>8, <2>1 DEF Operations
  <2> QED
    BY <1>5, <1>7, <1>12, <2>1, <2>2 DEF Connected
<1>13. CASE Handshaken(r)
  BY <1>5, <1>7, <1>13 DEF Handshaken, Using
<1>14. CASE Sent(r) \/ ResponseRead(r) \/ CtxRead(r)
  BY <1>5, <1>6, <1>8, <1>14 DEF Sent, ResponseRead, CtxRead, Operations
<1> QED
  BY <1>9, <1>10, <1>11, <1>12, <1>13, <1>14 DEF Handle

(* Every step keeps Exclusive. *)
LEMMA NextExclusive == TransportInv /\ Exclusive /\ [Next]_vars => Exclusive'
<1> SUFFICES ASSUME TransportInv, Exclusive, [Next]_vars, usage' = "exclusive"
             PROVE  Exclusive'
  BY DEF Exclusive
<1>1. usage = "exclusive" /\ UNCHANGED usage
  BY DEF Next, Running, vars
<1>2. ASSUME \A u \in Requests : call'[u].at = call[u].at,
             client'.busy = client.busy, client'.aborted = client.aborted
      PROVE  Exclusive'
  <2>1. InFlight' = InFlight /\ \A u \in Requests : Using(u)' = Using(u)
    BY <1>2 DEF InFlight, Using
  <2> QED
    BY <1>1, <1>2, <2>1 DEF Exclusive
<1>3. ASSUME NEW r \in Requests, Send(r) \/ Handle(r) PROVE Exclusive'
  BY <1>1, <1>3, HandlerExclusive
<1>4. ASSUME NEW r \in Requests, Complete(r) PROVE Exclusive'
  <2>1. /\ UNCHANGED client
        /\ \E o \in {"ok", "okCtx", "err"} : call' = [call EXCEPT ![r].io = o]
    BY <1>4 DEF Complete, CompleteResolve, CompleteConnect, CompleteHandshake,
         CompleteWrite, CompleteRead, CompleteReadCtx, Outcome, serverVars
  <2>2. \A u \in Requests : call'[u].at = call[u].at
    BY <2>1 DEF TransportInv, TypeOK
  <2> QED
    BY <1>2, <2>1, <2>2
<1>5. CASE CancelSocket
  <2>1. \A u \in Requests :
          call'[u] = call[u] \/ call'[u] = [call[u] EXCEPT !.io = "err"]
    BY <1>5 DEF CancelSocket
  <2>2. \A u \in Requests : call'[u].at = call[u].at
    <3> SUFFICES ASSUME NEW u \in Requests PROVE call'[u].at = call[u].at
      OBVIOUS
    <3>1. call[u] \in [at: Places, io: {"none", "pending", "ok", "okCtx", "err"}]
      BY DEF TransportInv, TypeOK
    <3> QED
      BY <2>1, <3>1
  <2>3. client'.busy = client.busy /\ client'.aborted = client.aborted
    BY <1>5 DEF CancelSocket, TransportInv, TypeOK
  <2> QED
    BY <1>2, <2>2, <2>3
<1>6. CASE \/ TimerExpires \/ Break \/ ListenerStop \/ ListenerShutdown
           \/ ServerStep \/ UNCHANGED vars
  <2>1. UNCHANGED <<call, client>>
    BY <1>6 DEF TimerExpires, Break, ListenerStop, ListenerShutdown, ServerStep,
       HandleAccept, SessionHandshake, ReadHeader, ReadRequest, Process,
       ResultReady, Respond, clientVars, vars
  <2> QED
    BY <1>2, <2>1
<1> QED
  BY <1>3, <1>4, <1>5, <1>6 DEF Next

(* A caller like a peer under its slot never meets the assertion of        *)
(* set_busy_flag.                                                          *)
THEOREM SocketIdle == Spec => []SocketIdleOnSend
<1>1. Init => Exclusive
  BY DEF Init, Exclusive, InFlight, Operations
<1>2. Exclusive => SocketIdleOnSend
  BY DEF Exclusive, SocketIdleOnSend
<1> QED
  BY <1>1, <1>2, NextExclusive, TransportInvariance, PTL DEF Spec
=============================================================================
