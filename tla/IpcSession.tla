----------------------------- MODULE IpcSession -----------------------------
(***************************************************************************)
(* One privileged call from the HTTP API to the daemon and back: the web   *)
(* route (web/app.py, web/auth.py), DaemonClient.call (ipc.py) and         *)
(* IPCServer._handle_client (daemon/server.py), over a Unix socket that    *)
(* each call opens anew. Calls run concurrently; the daemon may stop or    *)
(* crash and is started again by systemd (daemon/main.py).                 *)
(*                                                                         *)
(* Both ends have timers: the client gives up ClientTimeout after it       *)
(* began, the server RequestTimeout after it began to read and again after *)
(* it called the handler. A message is its length and what it says.        *)
(***************************************************************************)
EXTENDS Naturals

CONSTANTS
  Calls,            \* HTTP requests
  RequestTimeout,   \* request_timeout_seconds, in ticks
  ClientTimeout,    \* daemon_timeout_seconds, in ticks
  ClientMaxBytes,   \* max_bytes of DaemonClient, which the web process leaves at its default
  MaxRequestBytes,  \* max_request_bytes, a setting of the daemon; nothing relates the two
  Sizes             \* lengths of request and response lines, newline included

ASSUME IpcAssumption ==
  /\ RequestTimeout \in Nat \ {0} /\ ClientTimeout \in Nat \ {0}
  /\ ClientMaxBytes \in Nat \ {0} /\ MaxRequestBytes \in Nat \ {0} /\ Sizes \subseteq Nat \ {0}

VARIABLES
  server,     \* the daemon: "up", "stopping" (listens no more) or "down"
  client,     \* where the web side of each call is
  conn,       \* where the daemon's side of its connection is
  size,       \* length of the request line
  cAge,       \* ticks since DaemonClient.call began
  sAge,       \* ticks since the server's current wait_for began
  code,       \* the daemon's verdict: "ok" or an error code
  wire,       \* the response line in the socket: its length, or 0
  status,     \* the HTTP status, or 0
  ran,        \* history: the handler was called...
  calledAt    \* ... when the client was this old

clientVars == <<client, size, cAge, status>>
serverVars == <<conn, sAge, code, wire, ran, calledAt>>
vars == <<server, clientVars, serverVars>>

Codes == {"none", "ok", "not_authorized", "invalid_request", "oversized", "not_found", "busy",
          "network_backend_unavailable", "network_activation_failed", "timeout",
          "internal_error"}
\* What the actions behind the handlers raise.
HandlerErrors == {"invalid_request", "not_found", "busy", "network_backend_unavailable",
                  "network_activation_failed", "timeout", "internal_error"}

TypeOK ==
  /\ server \in {"up", "stopping", "down"}
  /\ client \in [Calls -> {"idle", "connecting", "waiting", "told"}]
  /\ conn \in [Calls -> {"none", "accepted", "reading", "handling", "replying", "closed"}]
  /\ size \in [Calls -> Sizes \cup {0}]
  /\ cAge \in [Calls -> 0..ClientTimeout]
  /\ sAge \in [Calls -> 0..RequestTimeout]
  /\ code \in [Calls -> Codes]
  /\ wire \in [Calls -> Sizes \cup {0}]
  /\ status \in [Calls -> {0, 200, 400, 401, 403, 404, 422, 500, 503}]
  /\ ran \in [Calls -> BOOLEAN]
  /\ calledAt \in [Calls -> 0..ClientTimeout]

Init ==
  /\ server = "up"
  /\ client = [c \in Calls |-> "idle"]
  /\ conn = [c \in Calls |-> "none"]
  /\ size = [c \in Calls |-> 0]
  /\ cAge = [c \in Calls |-> 0]
  /\ sAge = [c \in Calls |-> 0]
  /\ code = [c \in Calls |-> "none"]
  /\ wire = [c \in Calls |-> 0]
  /\ status = [c \in Calls |-> 0]
  /\ ran = [c \in Calls |-> FALSE]
  /\ calledAt = [c \in Calls |-> 0]

-----------------------------------------------------------------------------
(***************************************************************************)
(* The web side.                                                           *)
(***************************************************************************)

\* The HTTP response goes out; the client's connection is closed.
Tell(c, s) ==
  /\ client' = [client EXCEPT ![c] = "told"]
  /\ status' = [status EXCEPT ![c] = s]
  /\ cAge' = [cAge EXCEPT ![c] = 0]

\* invoke: which daemon errors are 503; 200 stands for the route's success status.
MutUnknownIsSuccess(error) ==
  IF error \in {"daemon_unavailable", "network_backend_unavailable", "timeout"} THEN 503
  ELSE IF error \in {"invalid_request", "not_authorized", "not_found", "busy"} THEN 400
  ELSE 200
MutInternalIs502(error) ==
  IF error = "ok" THEN 200
  ELSE IF error \in {"daemon_unavailable", "network_backend_unavailable", "timeout"} THEN 503
  ELSE IF error = "internal_error" THEN 502
  ELSE 400
HttpStatus(error) ==
  IF error = "ok" THEN 200
  ELSE IF error \in {"daemon_unavailable", "network_backend_unavailable", "timeout"} THEN 503
  ELSE 400

\* require_admin refuses (no or a bad token, or not an administrator's), the request
\* does not validate or names an unknown service action.
RefuseRequest(c) ==
  /\ client[c] = "idle"
  /\ \E s \in {401, 403, 404, 422, 500} : Tell(c, s)
  /\ UNCHANGED <<server, serverVars, size>>

\* DaemonClient.call encodes the request and refuses one that is too long.
Call(c) ==
  /\ client[c] = "idle"
  /\ \E n \in Sizes :
       /\ size' = [size EXCEPT ![c] = n]
       /\ \/ n > ClientMaxBytes /\ Tell(c, HttpStatus("daemon_unavailable"))
          \/ n <= ClientMaxBytes /\ client' = [client EXCEPT ![c] = "connecting"]
                                 /\ UNCHANGED <<cAge, status>>
  /\ UNCHANGED <<server, serverVars>>

\* The kernel connects to a listening socket; the request line is written.
Connect(c) ==
  /\ client[c] = "connecting"
  /\ server = "up"
  /\ client' = [client EXCEPT ![c] = "waiting"]
  /\ conn' = [conn EXCEPT ![c] = "accepted"]
  /\ UNCHANGED <<server, size, cAge, status, sAge, code, wire, ran, calledAt>>

\* No socket, or nobody listens on it.
ConnectFails(c) ==
  /\ client[c] = "connecting"
  /\ server # "up"
  /\ Tell(c, HttpStatus("daemon_unavailable"))
  /\ UNCHANGED <<server, serverVars, size>>

\* reader.readline() returns the response, or raises when it exceeds the limit.
Receive(c) ==
  /\ client[c] = "waiting"
  /\ wire[c] # 0
  /\ Tell(c, IF wire[c] > ClientMaxBytes THEN HttpStatus("daemon_unavailable")
             ELSE HttpStatus(code[c]))
  /\ UNCHANGED <<server, serverVars, size>>

\* The connection ends without a response.
MutRetryOnEof(c) ==
  /\ client[c] = "waiting"
  /\ wire[c] = 0
  /\ conn[c] = "closed"
  /\ client' = [client EXCEPT ![c] = "connecting"]
  /\ UNCHANGED <<server, serverVars, size, cAge, status>>
ReceiveEof(c) ==
  /\ client[c] = "waiting"
  /\ wire[c] = 0
  /\ conn[c] = "closed"
  /\ Tell(c, HttpStatus("daemon_unavailable"))
  /\ UNCHANGED <<server, serverVars, size>>

\* wait_for(exchange(), timeout) gives up.
MutTimeoutAfterConnect(c) ==
  /\ client[c] = "waiting"
  /\ cAge[c] = ClientTimeout
  /\ Tell(c, HttpStatus("daemon_unavailable"))
  /\ UNCHANGED <<server, serverVars, size>>
ClientTimesOut(c) ==
  /\ client[c] \in {"connecting", "waiting"}
  /\ cAge[c] = ClientTimeout
  /\ Tell(c, HttpStatus("daemon_unavailable"))
  /\ UNCHANGED <<server, serverVars, size>>

-----------------------------------------------------------------------------
(***************************************************************************)
(* The daemon's side: _handle_client.                                      *)
(***************************************************************************)

\* The try block is over, with a result or an error code.
Conclude(c, error) ==
  /\ conn' = [conn EXCEPT ![c] = "replying"]
  /\ code' = [code EXCEPT ![c] = error]
  /\ sAge' = [sAge EXCEPT ![c] = 0]
  /\ UNCHANGED wire

\* _peer_credentials and _authorize, then _read_request_line starts its clock.
Authorize(c) ==
  /\ conn[c] = "accepted"
  /\ \/ Conclude(c, "not_authorized")
     \/ conn' = [conn EXCEPT ![c] = "reading"] /\ UNCHANGED <<sAge, code, wire>>
  /\ UNCHANGED <<server, clientVars, ran, calledAt>>

\* readline raises ValueError when the newline lies beyond the reader's limit, or the
\* line, newline included, is longer than max_request_bytes.
MutTooLong(n) == n >= MaxRequestBytes
TooLong(n) == n - 1 > MaxRequestBytes \/ n > MaxRequestBytes

\* The request line is read, parsed and dispatched.
ReadRequest(c) ==
  /\ conn[c] = "reading"
  /\ \/ /\ TooLong(size[c])
        /\ Conclude(c, "oversized")
        /\ UNCHANGED <<ran, calledAt>>
     \/ /\ ~TooLong(size[c])
        /\ Conclude(c, "invalid_request")     \* bad JSON or unknown action
        /\ UNCHANGED <<ran, calledAt>>
     \/ /\ ~TooLong(size[c])
        /\ conn' = [conn EXCEPT ![c] = "handling"]
        /\ sAge' = [sAge EXCEPT ![c] = 0]
        /\ ran' = [ran EXCEPT ![c] = TRUE]
        /\ calledAt' = [calledAt EXCEPT ![c] = IF client[c] = "told" THEN ClientTimeout
                                               ELSE cAge[c]]
        /\ UNCHANGED <<code, wire>>
  /\ UNCHANGED <<server, clientVars>>

\* The handler returns or raises.
HandlerEnds(c) ==
  /\ conn[c] = "handling"
  /\ \E error \in HandlerErrors \cup {"ok"} : Conclude(c, error)
  /\ UNCHANGED <<server, clientVars, ran, calledAt>>

\* Either wait_for of the server runs out; a running handler is cancelled.
MutCancelSwallowed(c) ==
  /\ conn[c] \in {"reading", "handling"}
  /\ sAge[c] = RequestTimeout
  /\ \/ conn[c] = "reading" /\ Conclude(c, "timeout")
     \/ /\ conn[c] = "handling"
        /\ sAge' = [sAge EXCEPT ![c] = 0]
        /\ UNCHANGED <<conn, code, wire>>
  /\ UNCHANGED <<server, clientVars, ran, calledAt>>
ServerTimesOut(c) ==
  /\ conn[c] \in {"reading", "handling"}
  /\ sAge[c] = RequestTimeout
  /\ Conclude(c, "timeout")
  /\ UNCHANGED <<server, clientVars, ran, calledAt>>

\* The response is written and the connection closed; nothing limits its length.
Reply(c) ==
  /\ conn[c] = "replying"
  /\ conn' = [conn EXCEPT ![c] = "closed"]
  /\ \E n \in Sizes : wire' = [wire EXCEPT ![c] = n]
  /\ UNCHANGED <<server, clientVars, sAge, code, ran, calledAt>>

\* The result cannot be encoded, or the client is gone.
ReplyFails(c) ==
  /\ conn[c] = "replying"
  /\ conn' = [conn EXCEPT ![c] = "closed"]
  /\ UNCHANGED <<server, clientVars, sAge, code, wire, ran, calledAt>>

-----------------------------------------------------------------------------
(***************************************************************************)
(* The daemon's life, and time.                                            *)
(***************************************************************************)

\* SIGTERM: serving is cancelled and the listening socket closed and removed.
Stop ==
  /\ server = "up"
  /\ server' = "stopping"
  /\ UNCHANGED <<clientVars, serverVars>>

\* The process ends, after Stop or by a crash; the kernel closes its sockets.
Exit ==
  /\ server \in {"up", "stopping"}
  /\ server' = "down"
  /\ conn' = [c \in Calls |-> IF conn[c] = "none" THEN "none" ELSE "closed"]
  /\ sAge' = [c \in Calls |-> 0]
  /\ UNCHANGED <<clientVars, code, wire, ran, calledAt>>

\* IPCServer.start removes a stale socket file and listens.
Start ==
  /\ server = "down"
  /\ server' = "up"
  /\ UNCHANGED <<clientVars, serverVars>>

Busy(c) == client[c] \in {"connecting", "waiting"}

Tick ==
  /\ \A c \in Calls : /\ Busy(c) => cAge[c] < ClientTimeout
                      /\ conn[c] \in {"reading", "handling"} => sAge[c] < RequestTimeout
  /\ cAge' = [c \in Calls |-> IF Busy(c) THEN cAge[c] + 1 ELSE cAge[c]]
  /\ sAge' = [c \in Calls |-> IF conn[c] \in {"reading", "handling"} THEN sAge[c] + 1
                              ELSE sAge[c]]
  /\ UNCHANGED <<server, client, size, status, conn, code, wire, ran, calledAt>>

-----------------------------------------------------------------------------
WebSide(c) ==
  \/ RefuseRequest(c) \/ Call(c) \/ Connect(c) \/ ConnectFails(c) \/ Receive(c)
  \/ ReceiveEof(c) \/ ClientTimesOut(c)

DaemonSide(c) ==
  \/ Authorize(c) \/ ReadRequest(c) \/ HandlerEnds(c) \/ ServerTimesOut(c) \/ Reply(c)
  \/ ReplyFails(c)

Next ==
  \/ \E c \in Calls : WebSide(c) \/ DaemonSide(c)
  \/ Stop \/ Exit \/ Start \/ Tick

Spec == Init /\ [][Next]_vars

\* Time passes and the web server's event loop serves its timers.
FairSpec == Spec /\ WF_vars(Tick) /\ \A c \in Calls : /\ WF_vars(ClientTimesOut(c))
                                                       /\ WF_vars(ServerTimesOut(c))

-----------------------------------------------------------------------------
(***************************************************************************)
(* Properties.                                                             *)
(***************************************************************************)

\* The handler was called so late that the client may give up while it works.
Late(c) == calledAt[c] + RequestTimeout >= ClientTimeout

\* The timers are nested: a caller that has its answer has no handler still working
\* for it, unless the daemon called the handler too late for the client's timeout.
AnsweredMeansStopped ==
  \A c \in Calls : client[c] = "told" /\ conn[c] = "handling" => Late(c)

\* An HTTP success is the success of the handler, called once for this request: no
\* timeout, crash, restart or lost connection is reported as one.
SuccessIsTheHandlers ==
  \A c \in Calls : status[c] = 200 => code[c] = "ok" /\ ran[c]

\* The two ends each have a limit, and only these refuse: what the daemon finds oversized the
\* client had let pass, so it lies between a lower limit of the daemon and the client's, to
\* the byte; and no handler runs for a request beyond either limit.
OnlyTheLimitsRefuse ==
  \A c \in Calls :
    /\ code[c] = "oversized" => MaxRequestBytes < size[c] /\ size[c] <= ClientMaxBytes
    /\ ran[c] => size[c] <= MaxRequestBytes /\ size[c] <= ClientMaxBytes

\* Every HTTP request is answered, whatever becomes of the daemon.
EveryCallIsAnswered == \A c \in Calls : Busy(c) ~> client[c] = "told"

-----------------------------------------------------------------------------
(***************************************************************************)
(* The inductive invariant.                                                *)
(***************************************************************************)

\* While both ends wait, their clocks differ by the time the handler was called at.
ClockInv ==
  \A c \in Calls :
    /\ conn[c] # "none" => client[c] \in {"waiting", "told"}
    /\ conn[c] = "handling" /\ client[c] = "waiting" => cAge[c] = calledAt[c] + sAge[c]

\* A verdict is final before it is sent, and "ok" is given only by a handler.
VerdictInv ==
  \A c \in Calls :
    /\ wire[c] # 0 => conn[c] = "closed"
    /\ code[c] = "ok" => ran[c]
    /\ conn[c] = "handling" => ran[c]
    /\ status[c] = 200 => code[c] = "ok" /\ conn[c] = "closed"

IInv == TypeOK /\ ClockInv /\ VerdictInv /\ AnsweredMeansStopped

-----------------------------------------------------------------------------
(***************************************************************************)
(* What a call promises.                                                   *)
(***************************************************************************)

\* What the caller knows is what HTTP told it...
Outcome(c) ==
  CASE client[c] = "idle" -> "none"
    [] Busy(c) -> "pending"
    [] OTHER -> IF status[c] = 200 THEN "ok"
                ELSE IF conn[c] = "none" THEN "refused" ELSE "failed"

\* ... and the work is the handler's.
Work(c) ==
  CASE ~ran[c] -> "none"
    [] ran[c] /\ conn[c] = "handling" -> IF Late(c) THEN "late" ELSE "running"
    [] OTHER -> CASE code[c] = "none" -> "lost"
                  [] code[c] = "ok" -> "succeeded"
                  [] OTHER -> "failed"

AbstractOutcome == [c \in Calls |-> Outcome(c)]
AbstractWork == [c \in Calls |-> Work(c)]

Remote == INSTANCE RemoteCall WITH outcome <- AbstractOutcome, work <- AbstractWork

\* Whatever is lost, refused, cut off or restarted between the HTTP route and the
\* handler, a call is a remote call: no handler runs twice for one request or, unless it
\* was called too late, after its caller was answered; and success is the handler's.
ImplementsRemoteCall == Remote!Spec
=============================================================================
