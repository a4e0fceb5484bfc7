------------------------- MODULE ServiceCallsProofs -------------------------
(***************************************************************************)
(* What holds of service and power calls, for any number of concurrent     *)
(* calls and any limits that are nested as ServiceAssumption says.         *)
(***************************************************************************)
EXTENDS ServiceCalls, IpcSessionProofs

(***************************************************************************)
(* The inductive invariant. A command belongs to a running handler, or to  *)
(* one that died with the daemon; its limit has not passed, so the request *)
(* timeout, which would leave it behind, is never reached. A command that  *)
(* exits well has done what was asked.                                     *)
(***************************************************************************)

ServiceTypeOK ==
  /\ op \in [Calls -> Ops \cup {"none"}]
  /\ cmd \in [Calls -> {"none", "spawning", "begun", "waiting", "ok", "failed"}]
  /\ done \in [Calls -> BOOLEAN]

Owned(c) ==
  /\ conn[c] \notin {"none", "closed"} => server # "down"
  /\ cmd[c] # "none" => (conn[c] = "handling" /\ op[c] # "other") \/ server = "down"
  /\ Handling(c) => op[c] \in Ops /\ cmd[c] # "none" /\ sAge[c] <= Limit(op[c])

Truthful(c) ==
  /\ cmd[c] = "ok" => done[c]
  /\ code[c] = "ok" => conn[c] \in {"replying", "closed"} /\ (op[c] # "other" => done[c])

CommandInv == \A c \in Calls : Owned(c) /\ Truthful(c)
SInv == ServiceTypeOK /\ CommandInv

-----------------------------------------------------------------------------
\* Every step of the calls is a step of the session, or none.
LEMMA StepIsSessionStep ==
  ASSUME [CallNext]_callVars
  PROVE  [Next]_vars
<1>1. CASE UNCHANGED callVars
  BY <1>1 DEF callVars
<1>2. ASSUME NEW c \in Calls, Session(c) \/ Service(c)
      PROVE  [Next]_vars
  <2>1. CASE Session(c)
    BY <2>1 DEF Session, Next, DaemonSide
  <2>2. CASE Dispatch(c) \/ RequestTimesOut(c) \/ OtherHandlerEnds(c)
    BY <2>2 DEF Dispatch, RequestTimesOut, OtherHandlerEnds, Next, DaemonSide
  <2>3. CASE NotStarted(c) \/ CommandEnds(c) \/ CommandTimesOut(c)
    <3>1. HandlerEnds(c)
      BY <2>3 DEF NotStarted, CommandEnds, CommandTimesOut, Handling, EndCall, HandlerEnds,
         HandlerErrors
    <3>2. QED
      BY <3>1 DEF Next, DaemonSide
  <2>4. CASE Spawn(c) \/ SubmitJob(c) \/ AnswerAtOnce(c) \/ CommandFails(c)
    BY <2>4 DEF Spawn, SubmitJob, NewJob, AnswerAtOnce, CommandFails
  <2>5. QED
    BY <1>2, <2>1, <2>2, <2>3, <2>4 DEF Service
<1>3. CASE OthersSubmit \/ \E result \in {"ok", "failed"} : JobEnds(result)
  BY <1>3 DEF OthersSubmit, NewJob, JobEnds
<1>4. CASE StopAll \/ Crash \/ StartAgain \/ Tock
  BY <1>4 DEF StopAll, Crash, StartAgain, Tock, Next
<1>5. QED
  BY <1>1, <1>2, <1>3, <1>4 DEF CallNext

\* The calls with their commands are calls of the session: whatever holds of IpcSession
\* holds of them.
THEOREM CallsAreSessions == CallSpec => Spec
<1>1. CallInit => Init
  BY DEF CallInit
<1>2. [CallNext]_callVars => [Next]_vars
  BY StepIsSessionStep
<1>3. QED
  BY <1>1, <1>2, PTL DEF CallSpec, Spec

\* The initial state satisfies the invariant.
LEMMA SInvInit == CallInit => SInv
BY DEF CallInit, Init, SInv, ServiceTypeOK, CommandInv, Owned, Truthful, Handling

\* The limits, which are below the request timeout.
LEMMA Limits ==
  ASSUME NEW o \in Ops
  PROVE  Limit(o) \in Nat \ {0} /\ Limit(o) < RequestTimeout
BY ServiceAssumption DEF Limit

\* The steps of the web side and of the connection leave the commands alone.
LEMMA SessionKeepsSInv ==
  ASSUME IInv, SInv, NEW c \in Calls, Session(c)
  PROVE  SInv'
<1> USE DEF IInv, TypeOK, ClockInv, VerdictInv, SInv, ServiceTypeOK, CommandInv, Owned, Truthful, Handling, Session, serviceVars
<1>1. CASE WebSide(c)
  BY <1>1 DEF WebSide, RefuseRequest, Call, Connect, ConnectFails, Receive, ReceiveEof, ClientTimesOut, Tell, serverVars
<1>2. CASE Authorize(c)
  BY <1>2 DEF Authorize, Conclude, clientVars
<1>3. CASE Reply(c) \/ ReplyFails(c)
  BY <1>3 DEF Reply, ReplyFails, clientVars
<1>4. QED
  BY <1>1, <1>2, <1>3

\* The steps of the handlers and their commands.
LEMMA ServiceKeepsSInv ==
  ASSUME IInv, SInv, NEW c \in Calls, Service(c)
  PROVE  SInv'
<1> USE DEF IInv, TypeOK, SInv, ServiceTypeOK, CommandInv, Owned, Truthful, Handling, Ops
<1>1. CASE Dispatch(c)
  BY <1>1, Limits, IpcAssumption DEF Dispatch, ReadRequest, Conclude, clientVars, UnitOps
<1>2. CASE NotStarted(c)
  BY <1>2 DEF NotStarted, EndCall, Conclude, clientVars
<1>3. CASE Spawn(c)
  BY <1>3, Limits, IpcAssumption DEF Spawn, vars, clientVars, serverVars
<1>4. CASE CommandEnds(c)
  BY <1>4 DEF CommandEnds, EndCall, Conclude, clientVars
<1>5. CASE CommandTimesOut(c)
  BY <1>5 DEF CommandTimesOut, EndCall, Conclude, clientVars
<1>6. CASE RequestTimesOut(c)
  BY <1>6, Limits, IpcAssumption DEF RequestTimesOut, ServerTimesOut, Conclude, serviceVars, clientVars
<1>7. CASE OtherHandlerEnds(c)
  BY <1>7 DEF OtherHandlerEnds, HandlerEnds, Conclude, serviceVars, clientVars
<1>8. CASE SubmitJob(c)
  BY <1>8 DEF SubmitJob, NewJob, UnitOps, vars, clientVars, serverVars
<1>9. CASE AnswerAtOnce(c)
  BY <1>9 DEF AnswerAtOnce, vars, clientVars, serverVars
<1>10. CASE CommandFails(c)
  BY <1>10 DEF CommandFails, vars, clientVars, serverVars
<1>11. QED
  BY <1>1, <1>2, <1>3, <1>4, <1>5, <1>6, <1>7, <1>8, <1>9, <1>10 DEF Service

\* systemd, the life of the daemon, and time.
LEMMA OthersKeepSInv ==
  ASSUME IInv, SInv,
         \/ OthersSubmit \/ \E result \in {"ok", "failed"} : JobEnds(result)
         \/ StopAll \/ Crash \/ StartAgain \/ Tock
  PROVE  SInv'
<1> USE DEF IInv, TypeOK, SInv, ServiceTypeOK, CommandInv, Owned, Truthful, Handling
<1>1. CASE OthersSubmit
  BY <1>1 DEF OthersSubmit, NewJob, vars, clientVars, serverVars
<1>2. ASSUME NEW result \in {"ok", "failed"}, JobEnds(result)
      PROVE  SInv'
  <2>1. \A c \in Calls : cmd'[c] = IF cmd[c] = "waiting" THEN result ELSE cmd[c]
    BY <1>2 DEF JobEnds
  <2>2. \A c \in Calls : done'[c] <=> done[c] \/ (cmd[c] = "waiting" /\ result = "ok")
    BY <1>2, Zenon DEF JobEnds
  <2>3. done' \in [Calls -> BOOLEAN]
    BY <1>2, Zenon DEF JobEnds
  <2>4. cmd' \in [Calls -> {"none", "spawning", "begun", "waiting", "ok", "failed"}]
    BY <1>2 DEF JobEnds
  <2>5. UNCHANGED <<server, conn, op, sAge, code>>
    BY <1>2 DEF JobEnds, vars, clientVars, serverVars
  <2>6. QED
    BY <1>2, <2>1, <2>2, <2>3, <2>4, <2>5
<1>3. CASE StopAll
  BY <1>3 DEF StopAll, Stop, Alive, clientVars, serverVars
<1>4. CASE Crash
  BY <1>4 DEF Crash, Exit, clientVars, serviceVars
<1>5. CASE StartAgain
  BY <1>5 DEF StartAgain, Start, clientVars, serverVars
<1>6. CASE Tock
  BY <1>6, Limits, IpcAssumption DEF Tock, Tick, serviceVars
<1>7. QED
  BY <1>1, <1>2, <1>3, <1>4, <1>5, <1>6

\* Both invariants hold in every reachable state.
LEMMA Invariants == CallSpec => [](IInv /\ SInv)
<1>1. IInv /\ SInv /\ [CallNext]_callVars => SInv'
  <2> SUFFICES ASSUME IInv, SInv, [CallNext]_callVars PROVE SInv'
    OBVIOUS
  <2>1. CASE CallNext
    BY <2>1, SessionKeepsSInv, ServiceKeepsSInv, OthersKeepSInv DEF CallNext
  <2>2. CASE UNCHANGED callVars
    BY <2>2 DEF callVars, vars, clientVars, serverVars, serviceVars, SInv, ServiceTypeOK,
       CommandInv, Owned, Truthful, Handling
  <2>3. QED
    BY <2>1, <2>2
<1>2. QED
  BY SInvInit, <1>1, CallsAreSessions, InductiveInvariant, PTL DEF CallSpec

\* A service or power call with its systemctl, its own time limits and systemd is a remote
\* call too: the command limits change nothing of what the session promises.
THEOREM ServiceCallsAreRemote == CallSpec => ImplementsRemoteCall
BY CallsAreSessions, CallsAreRemote

\* An accepted service or power action was done by systemd.
THEOREM Accepted == CallSpec => []AcceptedIsDone
<1>1. IInv /\ SInv => AcceptedIsDone
  BY DEF IInv, VerdictInv, SInv, CommandInv, Truthful, AcceptedIsDone
<1>2. QED
  BY <1>1, Invariants, PTL

\* No systemctl outlives the handler that waits for it, unless the daemon dies.
THEOREM CommandsAreOwned == CallSpec => []CommandEndsWithItsHandler
<1>1. SInv => CommandEndsWithItsHandler
  BY DEF SInv, CommandInv, Owned, Alive, CommandEndsWithItsHandler
<1>2. QED
  BY <1>1, Invariants, PTL
=============================================================================
