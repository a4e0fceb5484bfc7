-------------------------- MODULE IpcSessionProofs --------------------------
(***************************************************************************)
(* Machine-checked proofs about IpcSession, for any number of concurrent   *)
(* calls and any timeouts and sizes.                                       *)
(***************************************************************************)
EXTENDS IpcSession, TLAPS

\* The initial state satisfies the inductive invariant.
LEMMA IInvInit == Init => IInv
BY IpcAssumption DEF Init, IInv, TypeOK, ClockInv, VerdictInv, AnsweredMeansStopped, Late, Codes

\* The steps of the web side keep the invariant. A client that gives up on a running
\* handler is ClientTimeout old, and the handler at most RequestTimeout (ClockInv).
LEMMA WebSideKeepsIInv ==
  ASSUME IInv, NEW c \in Calls, WebSide(c)
  PROVE  IInv'
<1> USE IpcAssumption
    DEF IInv, TypeOK, ClockInv, VerdictInv, AnsweredMeansStopped, Late, Tell, HttpStatus, serverVars
<1>1. CASE RefuseRequest(c)
  BY <1>1 DEF RefuseRequest
<1>2. CASE Call(c)
  BY <1>2 DEF Call
<1>3. CASE Connect(c)
  BY <1>3 DEF Connect
<1>4. CASE ConnectFails(c)
  BY <1>4 DEF ConnectFails
<1>5. CASE Receive(c)
  BY <1>5 DEF Receive
<1>6. CASE ReceiveEof(c)
  BY <1>6 DEF ReceiveEof
<1>7. CASE ClientTimesOut(c)
  BY <1>7 DEF ClientTimesOut
<1>8. QED
  BY <1>1, <1>2, <1>3, <1>4, <1>5, <1>6, <1>7 DEF WebSide

\* The steps of the daemon's side keep the invariant.
LEMMA DaemonSideKeepsIInv ==
  ASSUME IInv, NEW c \in Calls, DaemonSide(c)
  PROVE  IInv'
<1> USE IpcAssumption
    DEF IInv, TypeOK, ClockInv, VerdictInv, AnsweredMeansStopped, Late, Conclude, clientVars, Codes
<1>1. CASE Authorize(c)
  BY <1>1 DEF Authorize
<1>2. CASE ReadRequest(c)
  <2>1. TypeOK'
    <3> DEFINE age == IF client[c] = "told" THEN ClientTimeout ELSE cAge[c]
    <3>1. age \in 0..ClientTimeout
      OBVIOUS
    <3>2. ran' = ran \/ ran' = [ran EXCEPT ![c] = TRUE]
      BY <1>2 DEF ReadRequest
    <3>3. calledAt' = calledAt \/ calledAt' = [calledAt EXCEPT ![c] = age]
      BY <1>2 DEF ReadRequest
    <3> HIDE DEF age
    <3>4. ran' \in [Calls -> BOOLEAN]
      <4>1. ran \in [Calls -> BOOLEAN] /\ TRUE \in BOOLEAN
        OBVIOUS
      <4>2. QED
        BY ONLY <3>2, <4>1, c \in Calls
    <3>5. calledAt' \in [Calls -> 0..ClientTimeout]
      BY <3>1, <3>3
    <3>6. /\ conn' \in [Calls -> {"none", "accepted", "reading", "handling", "replying",
                                   "closed"}]
          /\ sAge' \in [Calls -> 0..RequestTimeout]
          /\ code' \in [Calls -> Codes]
          /\ wire' = wire
      BY <1>2 DEF ReadRequest
    <3>7. QED
      BY <1>2, <3>4, <3>5, <3>6 DEF ReadRequest
  <2>2. ClockInv' /\ AnsweredMeansStopped'
    BY <1>2 DEF ReadRequest
  <2>3. VerdictInv'
    BY <1>2 DEF ReadRequest
  <2>4. QED
    BY <2>1, <2>2, <2>3
<1>3. CASE HandlerEnds(c)
  BY <1>3 DEF HandlerEnds, HandlerErrors
<1>4. CASE ServerTimesOut(c)
  BY <1>4 DEF ServerTimesOut
<1>5. CASE Reply(c)
  BY <1>5 DEF Reply
<1>6. CASE ReplyFails(c)
  BY <1>6 DEF ReplyFails
<1>7. QED
  BY <1>1, <1>2, <1>3, <1>4, <1>5, <1>6 DEF DaemonSide

\* The daemon's life and the clock keep the invariant: both clocks tick together.
LEMMA OtherKeepsIInv ==
  ASSUME IInv, Stop \/ Exit \/ Start \/ Tick
  PROVE  IInv'
<1> USE IpcAssumption
    DEF IInv, TypeOK, ClockInv, VerdictInv, AnsweredMeansStopped, Late, clientVars, serverVars
<1>1. CASE Stop
  BY <1>1 DEF Stop
<1>2. CASE Exit
  BY <1>2 DEF Exit
<1>3. CASE Start
  BY <1>3 DEF Start
<1>4. CASE Tick
  <2>1. TypeOK'
    BY <1>4 DEF Tick, Busy
  <2>2. ClockInv'
    BY <1>4 DEF Tick, Busy
  <2>3. VerdictInv' /\ AnsweredMeansStopped'
    BY <1>4 DEF Tick
  <2>4. QED
    BY <2>1, <2>2, <2>3
<1>5. QED
  BY <1>1, <1>2, <1>3, <1>4

\* Clocks, verdicts and answers of every call stay consistent.
THEOREM InductiveInvariant == Spec => []IInv
<1>1. IInv /\ [Next]_vars => IInv'
  <2> SUFFICES ASSUME IInv, [Next]_vars PROVE IInv'
    OBVIOUS
  <2>1. CASE Next
    BY <2>1, WebSideKeepsIInv, DaemonSideKeepsIInv, OtherKeepsIInv DEF Next
  <2>2. CASE UNCHANGED vars
    BY <2>2 DEF vars, clientVars, serverVars, IInv, TypeOK, ClockInv, VerdictInv,
       AnsweredMeansStopped, Late
  <2>3. QED
    BY <2>1, <2>2
<1>2. QED
  BY IInvInit, <1>1, PTL DEF Spec

\* The server's timeout is inside the client's: an answered caller has no handler
\* running, unless the daemon called it within RequestTimeout of the client's end.
THEOREM TimersAreNested == Spec => []AnsweredMeansStopped
<1>1. IInv => AnsweredMeansStopped
  BY DEF IInv
<1>2. QED
  BY <1>1, InductiveInvariant, PTL

\* No crash, restart, timeout or lost connection is reported as a success.
THEOREM SuccessIsReal == Spec => []SuccessIsTheHandlers
<1>1. IInv => SuccessIsTheHandlers
  BY DEF IInv, VerdictInv, SuccessIsTheHandlers
<1>2. QED
  BY <1>1, InductiveInvariant, PTL
\* Every reachable state of the calls is well typed.
THEOREM TypeCorrectness == Spec => []TypeOK
<1>1. IInv => TypeOK
  BY DEF IInv
<1>2. QED
  BY <1>1, InductiveInvariant, PTL

\* A request that went out has passed the client's check of its length, and one with a
\* handler the daemon's.
SizeInv ==
  \A c \in Calls :
    /\ Busy(c) \/ conn[c] # "none" => size[c] <= ClientMaxBytes
    /\ code[c] = "oversized" => MaxRequestBytes < size[c] /\ conn[c] # "none"
    /\ ran[c] => size[c] <= MaxRequestBytes /\ conn[c] # "none"

\* The daemon's two checks are one: beyond the reader's limit, or beyond the line's.
LEMMA TooLongIsBeyondTheLimit ==
  ASSUME NEW n \in Nat
  PROVE  TooLong(n) <=> n > MaxRequestBytes
BY IpcAssumption DEF TooLong

\* Every step of a call keeps what the two checks have established.
LEMMA CallKeepsSizeInv ==
  ASSUME IInv, SizeInv, NEW c \in Calls, WebSide(c) \/ DaemonSide(c)
  PROVE  SizeInv'
<1> USE IpcAssumption DEF IInv, TypeOK, ClockInv, SizeInv, Busy
<1>1. CASE WebSide(c)
  <2>1. CASE Call(c)
    <3>1. \A d \in Calls : d # c => size'[d] = size[d] /\ client'[d] = client[d]
      BY <2>1 DEF Call, Tell
    <3>2. UNCHANGED <<conn, code, ran>> /\ conn[c] = "none"
      BY <2>1 DEF Call, serverVars
    <3>3. client'[c] \in {"connecting", "waiting"} => size'[c] <= ClientMaxBytes
      BY <2>1 DEF Call, Tell
    <3>4. QED
      BY <3>1, <3>2, <3>3
  <2>2. CASE Connect(c)
    BY <2>2 DEF Connect
  <2>3. CASE RefuseRequest(c) \/ ConnectFails(c) \/ Receive(c) \/ ReceiveEof(c)
             \/ ClientTimesOut(c)
    BY <2>3 DEF RefuseRequest, ConnectFails, Receive, ReceiveEof, ClientTimesOut, Tell,
       serverVars
  <2>4. QED
    BY <1>1, <2>1, <2>2, <2>3 DEF WebSide
<1>2. CASE ReadRequest(c)
  <2>1. size[c] \in Nat /\ conn[c] = "reading" /\ size[c] <= ClientMaxBytes
    <3>1. conn[c] = "reading"
      BY <1>2 DEF ReadRequest
    <3>2. size[c] \in Sizes \cup {0}
      OBVIOUS
    <3>3. size[c] \in Nat
      <4>1. \A n \in Sizes : n \in Nat
        BY ONLY IpcAssumption
      <4>2. 0 \in Nat
        OBVIOUS
      <4>3. QED
        BY ONLY <3>2, <4>1, <4>2
    <3>4. QED
      BY <3>1, <3>3
  <2>2. TooLong(size[c]) <=> size[c] > MaxRequestBytes
    BY <2>1, TooLongIsBeyondTheLimit
  <2>3. /\ UNCHANGED <<client, size>> /\ conn'[c] # "none"
        /\ \A d \in Calls : d # c => conn'[d] = conn[d] /\ code'[d] = code[d] /\ ran'[d] = ran[d]
    BY <1>2 DEF ReadRequest, Conclude, clientVars
  <2>4. code'[c] = "oversized" => MaxRequestBytes < size[c]
    BY <1>2, <2>1, <2>2 DEF ReadRequest, Conclude
  <2>5. ran'[c] => size[c] <= MaxRequestBytes
    BY <1>2, <2>1, <2>2 DEF ReadRequest, Conclude
  <2>6. QED
    BY <2>1, <2>3, <2>4, <2>5
<1>3. CASE Authorize(c) \/ HandlerEnds(c) \/ ServerTimesOut(c) \/ Reply(c) \/ ReplyFails(c)
  BY <1>3 DEF Authorize, HandlerEnds, HandlerErrors, ServerTimesOut, Reply, ReplyFails,
     Conclude, clientVars
<1>4. QED
  BY <1>1, <1>2, <1>3 DEF DaemonSide

\* Whatever the two limits are, requests are refused for their length only beyond them.
THEOREM LimitsAreKept == Spec => []OnlyTheLimitsRefuse
<1>1. Init => SizeInv
  BY DEF Init, SizeInv, Busy
<1>2. IInv /\ SizeInv /\ [Next]_vars => SizeInv'
  <2> SUFFICES ASSUME IInv, SizeInv, [Next]_vars PROVE SizeInv'
    OBVIOUS
  <2>1. ASSUME NEW c \in Calls, WebSide(c) \/ DaemonSide(c) PROVE SizeInv'
    BY <2>1, CallKeepsSizeInv
  <2>2. CASE Stop \/ Exit \/ Start \/ Tick \/ UNCHANGED vars
    BY <2>2 DEF Stop, Exit, Start, Tick, vars, clientVars, serverVars, SizeInv, Busy, IInv,
       TypeOK
  <2>3. QED
    BY <2>1, <2>2 DEF Next
<1>3. SizeInv => OnlyTheLimitsRefuse
  BY DEF SizeInv, OnlyTheLimitsRefuse
<1>4. QED
  BY <1>1, <1>2, <1>3, InductiveInvariant, PTL DEF Spec

\* With a daemon's limit at least the client's, as the defaults (both 65536) have it, the
\* daemon never refuses as oversized what the client sent.
THEOREM LimitsAgree ==
  ASSUME ClientMaxBytes <= MaxRequestBytes
  PROVE  Spec => [](\A c \in Calls : code[c] # "oversized")
<1>1. TypeOK /\ OnlyTheLimitsRefuse => \A c \in Calls : code[c] # "oversized"
  <2> SUFFICES ASSUME TypeOK, OnlyTheLimitsRefuse, NEW c \in Calls PROVE code[c] # "oversized"
    OBVIOUS
  <2>1. size[c] \in Sizes \cup {0}
    BY DEF TypeOK
  <2>2. size[c] \in Nat
    <3>1. \A n \in Sizes : n \in Nat
      BY ONLY IpcAssumption
    <3>2. 0 \in Nat
      OBVIOUS
    <3>3. QED
      BY ONLY <2>1, <3>1, <3>2
  <2>3. QED
    BY <2>2, IpcAssumption DEF OnlyTheLimitsRefuse
<1>2. QED
  BY <1>1, TypeCorrectness, LimitsAreKept, PTL
-----------------------------------------------------------------------------
(***************************************************************************)
(* A call of the session is a remote call. A handler is called once, for   *)
(* a connection that has none yet, and has a verdict once it has ended.    *)
(***************************************************************************)

OnceOf(c) ==
  /\ conn[c] \in {"none", "accepted", "reading"} => ~ran[c] /\ code[c] = "none"
  /\ conn[c] = "handling" => code[c] = "none"
  /\ conn[c] = "replying" => code[c] # "none"

OnceInv == \A c \in Calls : OnceOf(c)

LEMMA OnceKept ==
  ASSUME IInv, OnceInv, [Next]_vars
  PROVE  OnceInv'
<1> USE DEF IInv, TypeOK, ClockInv, OnceInv, OnceOf, clientVars, serverVars
<1>1. ASSUME NEW c \in Calls, WebSide(c)
      PROVE  OnceInv'
  <2>1. CASE Connect(c)
    BY <2>1 DEF Connect
  <2>2. CASE ~Connect(c)
    BY <1>1, <2>2 DEF WebSide, RefuseRequest, Call, ConnectFails, Receive, ReceiveEof,
       ClientTimesOut
  <2> QED  BY <2>1, <2>2
<1>2. ASSUME NEW c \in Calls, DaemonSide(c)
      PROVE  OnceInv'
  <2>1. CASE Authorize(c) \/ ReadRequest(c)
    BY <2>1 DEF Authorize, ReadRequest, Conclude
  <2>2. CASE HandlerEnds(c) \/ ServerTimesOut(c)
    BY <2>2 DEF HandlerEnds, ServerTimesOut, Conclude, HandlerErrors
  <2>3. CASE Reply(c) \/ ReplyFails(c)
    BY <2>3 DEF Reply, ReplyFails
  <2> QED  BY <1>2, <2>1, <2>2, <2>3 DEF DaemonSide
<1>3. CASE Stop \/ Exit \/ Start \/ Tick \/ UNCHANGED vars
  BY <1>3 DEF Stop, Exit, Start, Tick, vars
<1> QED  BY <1>1, <1>2, <1>3 DEF Next

LEMMA Once == Spec => []OnceInv
<1>1. Init => OnceInv
  BY DEF Init, OnceInv, OnceOf
<1> QED  BY <1>1, OnceKept, InductiveInvariant, PTL DEF Spec

RemoteStep == Remote!Next \/ UNCHANGED Remote!callVars

\* A step of one call moves its outcome or its work as RemoteCall does, or neither.
Moves(c) ==
  \/ Outcome(c)' = Outcome(c) /\ Work(c)' = Work(c)
  \/ Outcome(c) = "none" /\ Outcome(c)' = "pending" /\ Work(c)' = Work(c)
  \/ /\ Work(c) = "none" /\ Outcome(c)' = Outcome(c)
     /\ \/ Outcome(c) = "pending" /\ Work(c)' \in {"running", "late"}
        \/ Outcome(c) = "failed" /\ Work(c)' = "late"
  \/ /\ Work(c) \in {"running", "late"} /\ Work(c)' \in {"succeeded", "failed"}
     /\ Outcome(c)' = Outcome(c)
  \/ /\ Outcome(c) \in {"none", "pending"} /\ Work(c) = "none"
     /\ Outcome(c)' = "refused" /\ Work(c)' = Work(c)
  \/ /\ Outcome(c) = "pending" /\ Work(c) = "succeeded"
     /\ Outcome(c)' = "ok" /\ Work(c)' = Work(c)
  \/ /\ Outcome(c) = "pending" /\ Work(c) # "running"
     /\ Outcome(c)' = "failed" /\ Work(c)' = Work(c)

LEMMA MovesAreRemote ==
  ASSUME NEW c \in Calls, Moves(c),
         \A d \in Calls \ {c} : Outcome(d)' = Outcome(d) /\ Work(d)' = Work(d)
  PROVE  RemoteStep
<1>1. /\ AbstractOutcome' = [AbstractOutcome EXCEPT ![c] = Outcome(c)']
      /\ AbstractOutcome[c] = Outcome(c)
      /\ Outcome(c)' = Outcome(c) => UNCHANGED AbstractOutcome
  BY DEF AbstractOutcome
<1>2. /\ AbstractWork' = [AbstractWork EXCEPT ![c] = Work(c)']
      /\ AbstractWork[c] = Work(c)
      /\ Work(c)' = Work(c) => UNCHANGED AbstractWork
  BY DEF AbstractWork
<1> HIDE DEF AbstractOutcome, AbstractWork
<1>3. \/ UNCHANGED Remote!callVars
      \/ Remote!Call(c) \/ Remote!Start(c) \/ Remote!Finish(c) \/ Remote!Refuse(c)
      \/ Remote!Succeed(c) \/ Remote!Fail(c)
  BY <1>1, <1>2 DEF Moves, Remote!callVars, Remote!Call, Remote!Start, Remote!Finish,
     Remote!Begun, Remote!Refuse, Remote!Succeed, Remote!Fail
<1> QED  BY <1>3 DEF RemoteStep, Remote!Next

\* A call whose places, verdict and status stay is where it was.
LEMMA CallStays ==
  ASSUME NEW d \in Calls, client'[d] = client[d], status'[d] = status[d], conn'[d] = conn[d],
         ran'[d] = ran[d], code'[d] = code[d], calledAt'[d] = calledAt[d]
  PROVE  Outcome(d)' = Outcome(d) /\ Work(d)' = Work(d)
BY DEF Outcome, Work, Busy, Late

\* What is told to a caller that waits: a success of its handler, or a failure when no
\* handler works for it, or only one that was called late.
LEMMA ToldMoves ==
  ASSUME IInv, OnceInv, NEW c \in Calls, NEW s, Tell(c, s), UNCHANGED serverVars,
         client[c] \in {"idle", "connecting", "waiting"},
         s = 200 => client[c] = "waiting" /\ Work(c) = "succeeded",
         Work(c) # "running"
  PROVE  Moves(c)
<1> USE DEF IInv, TypeOK, ClockInv, VerdictInv, serverVars
<1>1. client'[c] = "told" /\ status'[c] = s
  BY DEF Tell
<1>2. Outcome(c)' = IF s = 200 THEN "ok" ELSE IF conn[c] = "none" THEN "refused" ELSE "failed"
  BY <1>1 DEF Outcome, Busy
<1>3. Outcome(c) = IF client[c] = "idle" THEN "none" ELSE "pending"
  BY DEF Outcome, Busy
<1>4. Work(c)' = Work(c)
  BY DEF Work, Late
<1>5. client[c] = "idle" => conn[c] = "none"
  OBVIOUS
<1>6. conn[c] = "none" => Work(c) = "none"
  BY DEF OnceInv, OnceOf, Work
<1> QED  BY <1>2, <1>3, <1>4, <1>5, <1>6 DEF Moves

LEMMA WebSideImplements ==
  ASSUME IInv, OnceInv, NEW c \in Calls, WebSide(c)
  PROVE  RemoteStep
<1>1. /\ \A d \in Calls \ {c} : client'[d] = client[d] /\ status'[d] = status[d] /\ conn'[d] = conn[d]
      /\ ran' = ran /\ code' = code /\ calledAt' = calledAt
  <2> USE DEF IInv, TypeOK
  <2>1. CASE Connect(c)
    BY <2>1 DEF Connect
  <2>2. CASE ~Connect(c)
    <3>1. /\ conn' = conn /\ ran' = ran /\ code' = code /\ calledAt' = calledAt
          /\ \/ \E s : Tell(c, s)
             \/ client' = [client EXCEPT ![c] = "connecting"] /\ status' = status
      BY <2>2 DEF WebSide, RefuseRequest, Call, ConnectFails, Receive, ReceiveEof,
         ClientTimesOut, serverVars
    <3> QED  BY <3>1 DEF Tell
  <2> QED  BY <2>1, <2>2
<1>2. \A d \in Calls \ {c} : Outcome(d)' = Outcome(d) /\ Work(d)' = Work(d)
  BY <1>1, CallStays
<1>3. HttpStatus("daemon_unavailable") = 503
  BY DEF HttpStatus
<1>4. conn[c] = "none" => Work(c) = "none"
  BY DEF OnceInv, OnceOf, Work
<1>5. Moves(c)
  <2>1. CASE RefuseRequest(c)
    BY <1>4, <2>1, ToldMoves DEF RefuseRequest, IInv, ClockInv
  <2>2. CASE Call(c)
    <3>1. client[c] = "idle" /\ UNCHANGED serverVars /\ conn[c] = "none"
      BY <2>2 DEF Call, IInv, ClockInv
    <3>2. CASE Tell(c, HttpStatus("daemon_unavailable"))
      BY <1>3, <1>4, <3>1, <3>2, ToldMoves
    <3>3. CASE client' = [client EXCEPT ![c] = "connecting"]
      <4>1. client'[c] = "connecting"
        BY <3>3 DEF IInv, TypeOK
      <4>2. Outcome(c) = "none" /\ Outcome(c)' = "pending"
        BY <3>1, <4>1 DEF Outcome, Busy
      <4>3. Work(c)' = Work(c)
        BY <3>1 DEF Work, Late, serverVars
      <4> QED  BY <4>2, <4>3 DEF Moves
    <3> QED  BY <2>2, <3>2, <3>3 DEF Call
  <2>3. CASE Connect(c)
    <3>1. client[c] = "connecting" /\ client'[c] = "waiting" /\ conn[c] = "none" /\ conn'[c] = "accepted"
      BY <2>3 DEF Connect, IInv, TypeOK, ClockInv
    <3>2. Outcome(c) = "pending" /\ Outcome(c)' = "pending"
      BY <3>1 DEF Outcome, Busy
    <3>3. Work(c) = "none" /\ Work(c)' = "none"
      BY <1>1, <3>1 DEF Work, OnceInv, OnceOf
    <3> QED  BY <3>2, <3>3 DEF Moves
  <2>4. CASE ConnectFails(c)
    <3>1. client[c] = "connecting" /\ conn[c] = "none" /\ UNCHANGED serverVars
      BY <2>4 DEF ConnectFails, IInv, ClockInv
    <3> QED  BY <1>3, <1>4, <2>4, <3>1, ToldMoves DEF ConnectFails
  <2>5. CASE Receive(c)
    <3>1. client[c] = "waiting" /\ conn[c] = "closed" /\ UNCHANGED serverVars
      BY <2>5 DEF Receive, IInv, VerdictInv
    <3>2. Work(c) # "running"
      BY <3>1 DEF Work
    <3>3. code[c] = "ok" => Work(c) = "succeeded"
      BY <3>1 DEF Work, IInv, VerdictInv
    <3>4. HttpStatus(code[c]) = 200 => code[c] = "ok"
      BY DEF HttpStatus
    <3>5. \E s : Tell(c, s) /\ (s = 200 => Work(c) = "succeeded")
      BY <1>3, <2>5, <3>3, <3>4 DEF Receive
    <3> QED  BY <3>1, <3>2, <3>5, ToldMoves
  <2>6. CASE ReceiveEof(c)
    <3>1. client[c] = "waiting" /\ conn[c] = "closed" /\ UNCHANGED serverVars
      BY <2>6 DEF ReceiveEof
    <3>2. Work(c) # "running"
      BY <3>1 DEF Work
    <3> QED  BY <1>3, <2>6, <3>1, <3>2, ToldMoves DEF ReceiveEof
  <2>7. CASE ClientTimesOut(c)
    <3>1. client[c] \in {"connecting", "waiting"} /\ cAge[c] = ClientTimeout /\ UNCHANGED serverVars
      BY <2>7 DEF ClientTimesOut
    <3>2. conn[c] = "handling" => Late(c)
      BY <3>1, IpcAssumption DEF IInv, TypeOK, ClockInv, Late
    <3>3. Work(c) # "running"
      BY <3>2 DEF Work
    <3> QED  BY <1>3, <2>7, <3>1, <3>3, ToldMoves DEF ClientTimesOut
  <2> QED  BY <2>1, <2>2, <2>3, <2>4, <2>5, <2>6, <2>7 DEF WebSide
<1> QED  BY <1>2, <1>5, MovesAreRemote

LEMMA DaemonSideImplements ==
  ASSUME IInv, OnceInv, NEW c \in Calls, DaemonSide(c)
  PROVE  RemoteStep
<1>1. /\ client' = client /\ status' = status
      /\ \A d \in Calls \ {c} : /\ conn'[d] = conn[d] /\ ran'[d] = ran[d] /\ code'[d] = code[d]
                                /\ calledAt'[d] = calledAt[d]
  <2> USE DEF IInv, TypeOK, Conclude, clientVars
  <2>1. CASE Authorize(c) \/ HandlerEnds(c) \/ ServerTimesOut(c)
    BY <2>1 DEF Authorize, HandlerEnds, ServerTimesOut
  <2>2. CASE ReadRequest(c)
    BY <2>2 DEF ReadRequest
  <2>3. CASE Reply(c) \/ ReplyFails(c)
    BY <2>3 DEF Reply, ReplyFails
  <2> QED  BY <2>1, <2>2, <2>3 DEF DaemonSide
<1>2. \A d \in Calls \ {c} : Outcome(d)' = Outcome(d) /\ Work(d)' = Work(d)
  BY <1>1, CallStays
<1>3. conn[c] # "none" /\ conn'[c] # "none" /\ client[c] \in {"waiting", "told"}
  BY DEF IInv, TypeOK, ClockInv, DaemonSide, Authorize, ReadRequest, HandlerEnds,
     ServerTimesOut, Reply, ReplyFails, Conclude
<1>4. Outcome(c)' = Outcome(c)
  BY <1>1, <1>3 DEF Outcome, Busy
<1>5. Moves(c)
  <2>1. CASE Authorize(c)
    <3>1. conn[c] = "accepted" /\ conn'[c] # "handling" /\ ran' = ran
      BY <2>1 DEF Authorize, Conclude, IInv, TypeOK
    <3>2. Work(c) = "none" /\ Work(c)' = "none"
      BY <3>1 DEF OnceInv, OnceOf, Work
    <3> QED  BY <1>4, <3>2 DEF Moves
  <2>2. CASE ReadRequest(c)
    <3>1. conn[c] = "reading" /\ ~ran[c]
      BY <2>2 DEF ReadRequest, OnceInv, OnceOf
    <3>2. Work(c) = "none"
      BY <3>1 DEF Work
    <3>3. CASE ran' = ran
      <4>1. Work(c)' = "none"
        BY <3>1, <3>3 DEF Work
      <4> QED  BY <1>4, <3>2, <4>1 DEF Moves
    <3>4. CASE /\ conn' = [conn EXCEPT ![c] = "handling"]
               /\ ran' = [ran EXCEPT ![c] = TRUE]
               /\ calledAt' = [calledAt EXCEPT ![c] = IF client[c] = "told" THEN ClientTimeout
                                                      ELSE cAge[c]]
      <4>1. conn'[c] = "handling" /\ ran'[c]
        BY <3>4 DEF IInv, TypeOK
      <4>2. Work(c)' \in {"running", "late"}
        BY <4>1 DEF Work
      <4>3. CASE client[c] = "waiting"
        <5>1. Outcome(c) = "pending"
          BY <4>3 DEF Outcome, Busy
        <5> QED  BY <1>4, <3>2, <4>2, <5>1 DEF Moves
      <4>4. CASE client[c] = "told"
        <5>1. calledAt'[c] = ClientTimeout
          BY <3>4, <4>4 DEF IInv, TypeOK
        <5>2. Work(c)' = "late"
          BY <4>1, <5>1, IpcAssumption DEF Work, Late
        <5>3. status[c] # 200
          BY <3>1 DEF IInv, VerdictInv
        <5>4. Outcome(c) = "failed"
          BY <1>3, <4>4, <5>3 DEF Outcome, Busy
        <5> QED  BY <1>4, <3>2, <5>2, <5>4 DEF Moves
      <4> QED  BY <1>3, <4>3, <4>4
    <3> QED  BY <2>2, <3>3, <3>4 DEF ReadRequest
  <2>3. CASE HandlerEnds(c) \/ ServerTimesOut(c)
    <3>1. /\ conn[c] \in {"reading", "handling"} /\ conn'[c] = "replying" /\ ran' = ran
          /\ code'[c] # "none"
      BY <2>3 DEF HandlerEnds, HandlerErrors, ServerTimesOut, Conclude, IInv, TypeOK
    <3>2. CASE conn[c] = "handling"
      <4>1. Work(c) \in {"running", "late"} /\ Work(c)' \in {"succeeded", "failed"}
        BY <3>1, <3>2 DEF Work, IInv, VerdictInv
      <4> QED  BY <1>4, <4>1 DEF Moves
    <3>3. CASE conn[c] = "reading"
      <4>1. Work(c) = "none" /\ Work(c)' = "none"
        BY <3>1, <3>3 DEF Work, OnceInv, OnceOf
      <4> QED  BY <1>4, <4>1 DEF Moves
    <3> QED  BY <3>1, <3>2, <3>3
  <2>4. CASE Reply(c) \/ ReplyFails(c)
    <3>1. conn[c] = "replying" /\ conn'[c] = "closed" /\ ran' = ran /\ code' = code
      BY <2>4 DEF Reply, ReplyFails, IInv, TypeOK
    <3>2. Work(c)' = Work(c)
      BY <3>1 DEF Work
    <3> QED  BY <1>4, <3>2 DEF Moves
  <2> QED  BY <2>1, <2>2, <2>3, <2>4 DEF DaemonSide
<1> QED  BY <1>2, <1>5, MovesAreRemote

\* The daemon's end loses the work that is not finished; its life and the clock otherwise
\* change nothing.
LEMMA OtherImplements ==
  ASSUME IInv, OnceInv, Stop \/ Exit \/ Start \/ Tick \/ UNCHANGED vars
  PROVE  RemoteStep
<1>1. CASE Stop \/ Start \/ Tick \/ UNCHANGED vars
  <2>1. UNCHANGED <<client, status, conn, ran, code, calledAt>>
    BY <1>1 DEF Stop, Start, Tick, vars, clientVars, serverVars
  <2>2. \A d \in Calls : Outcome(d)' = Outcome(d) /\ Work(d)' = Work(d)
    BY <2>1, CallStays
  <2>3. UNCHANGED AbstractOutcome /\ UNCHANGED AbstractWork
    BY <2>2 DEF AbstractOutcome, AbstractWork
  <2> QED  BY <2>3 DEF RemoteStep, Remote!callVars
<1>2. CASE Exit
  <2>1. /\ UNCHANGED <<client, status, ran, code, calledAt>>
        /\ \A d \in Calls : conn'[d] = IF conn[d] = "none" THEN "none" ELSE "closed"
    BY <1>2 DEF Exit, clientVars
  <2>2. ASSUME NEW d \in Calls
        PROVE  /\ Outcome(d)' = Outcome(d)
               /\ Work(d)' = IF Work(d) \in {"running", "late"} THEN "lost" ELSE Work(d)
    <3>1. Outcome(d)' = Outcome(d)
      BY <2>1 DEF Outcome, Busy
    <3>2. CASE conn[d] = "handling"
      <4>1. ran[d] /\ code[d] = "none" /\ conn'[d] = "closed"
        BY <2>1, <3>2 DEF OnceInv, OnceOf, IInv, VerdictInv
      <4>2. Work(d)' = "lost"
        BY <2>1, <4>1 DEF Work
      <4>3. Work(d) \in {"running", "late"}
        BY <3>2, <4>1 DEF Work
      <4> QED  BY <3>1, <4>2, <4>3
    <3>3. CASE conn[d] # "handling"
      <4>1. conn'[d] # "handling" /\ (ran'[d] <=> ran[d]) /\ code'[d] = code[d]
        BY <2>1, <3>3
      <4>2. Work(d)' = Work(d)
        BY <3>3, <4>1 DEF Work
      <4>3. Work(d) \notin {"running", "late"}
        BY <3>3 DEF Work
      <4> QED  BY <3>1, <4>2, <4>3
    <3> QED  BY <3>2, <3>3
  <2>3. UNCHANGED AbstractOutcome
    BY <2>2 DEF AbstractOutcome
  <2>4. AbstractWork' = [d \in Calls |-> IF AbstractWork[d] \in {"running", "late"} THEN "lost"
                                         ELSE AbstractWork[d]]
    BY <2>2 DEF AbstractWork
  <2>5. Remote!Lose
    BY <2>3, <2>4 DEF Remote!Lose, Remote!Begun
  <2> QED  BY <2>5 DEF RemoteStep, Remote!Next
<1> QED  BY <1>1, <1>2

\* However calls, timeouts, crashes and restarts interleave, each call is one of
\* RemoteCall: its handler runs at most once, ends before its caller is answered unless
\* it was called too late for the client's timeout, and every success is the handler's.
THEOREM CallsAreRemote == Spec => ImplementsRemoteCall
<1>1. Init => Remote!Init
  <2> SUFFICES ASSUME Init PROVE Remote!Init
    OBVIOUS
  <2>1. \A c \in Calls : Outcome(c) = "none" /\ Work(c) = "none"
    <3> SUFFICES ASSUME NEW c \in Calls PROVE Outcome(c) = "none" /\ Work(c) = "none"
      OBVIOUS
    <3>1. client[c] = "idle" /\ ran[c] = FALSE
      BY DEF Init
    <3>2. Outcome(c) = "none"
      BY <3>1 DEF Outcome, Busy
    <3>3. Work(c) = "none"
      BY <3>1 DEF Work
    <3> QED  BY <3>2, <3>3
  <2> QED  BY <2>1 DEF Remote!Init, AbstractOutcome, AbstractWork
<1>2. IInv /\ OnceInv /\ [Next]_vars => [Remote!Next]_Remote!callVars
  <2> SUFFICES ASSUME IInv, OnceInv, [Next]_vars PROVE RemoteStep
    BY DEF RemoteStep
  <2> QED  BY WebSideImplements, DaemonSideImplements, OtherImplements DEF Next
<1> QED
  BY <1>1, <1>2, InductiveInvariant, Once, PTL DEF Spec, ImplementsRemoteCall, Remote!Spec

=============================================================================
