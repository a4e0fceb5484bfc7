---------------------------- MODULE ServiceCalls ----------------------------
(***************************************************************************)
(* The calls of IpcSession whose handlers run one systemctl command        *)
(* (daemon/managers/system.py): service.start, stop, restart and status,   *)
(* system.reboot and system.poweroff. The steps of a call are those of     *)
(* IpcSession; this module adds the command each of these handlers waits   *)
(* for, its own time limit, and systemd, which keeps one job for the unit  *)
(* and goes on with it when systemctl is killed.                           *)
(*                                                                         *)
(* Starting a process counts as no time, so sAge is the command's age.     *)
(***************************************************************************)
EXTENDS IpcSession

CONSTANTS
  SystemctlTimeout,   \* default limit of _systemctl, in ticks
  PowerTimeout        \* limit for reboot and poweroff

\* With the defaults 20, 5 and 30 s. request_timeout_seconds is a setting; nothing checks it.
ASSUME ServiceAssumption ==
  /\ SystemctlTimeout \in Nat \ {0} /\ PowerTimeout \in Nat \ {0}
  /\ SystemctlTimeout < RequestTimeout /\ PowerTimeout < RequestTimeout

VARIABLES
  op,         \* what each call asks for; "other" is any handler of another module
  cmd,        \* its systemctl: "none", "spawning", "begun", "waiting" for the job, and its
              \* exit, "ok" or "failed", while nobody has waited for it
  job,        \* systemd's job for the unit, or "none"
  shutdown,   \* systemd was asked to reboot or power off
  done        \* history: the job or the shutdown that the call's command asked for was done

serviceVars == <<op, cmd, job, shutdown, done>>
callVars == <<vars, serviceVars>>

UnitOps == {"start", "stop", "restart"}
Ops == UnitOps \cup {"status", "power", "other"}
Alive == {c \in Calls : cmd[c] \in {"begun", "waiting"}}

CallInit ==
  /\ Init
  /\ op = [c \in Calls |-> "none"] /\ cmd = [c \in Calls |-> "none"]
  /\ job = "none" /\ shutdown = FALSE /\ done = [c \in Calls |-> FALSE]

-----------------------------------------------------------------------------
(***************************************************************************)
(* The handlers.                                                           *)
(***************************************************************************)

MutLimitBeyondRequest(o) == RequestTimeout + 1
Limit(o) == IF o = "power" THEN PowerTimeout ELSE SystemctlTimeout

\* The handler is called; it validates its parameters in the same step.
Dispatch(c) ==
  /\ ReadRequest(c)
  /\ IF conn'[c] = "handling"
     THEN \E o \in Ops : /\ op' = [op EXCEPT ![c] = o]
                         /\ cmd' = [cmd EXCEPT ![c] = IF o = "other" THEN "none" ELSE "spawning"]
     ELSE UNCHANGED <<op, cmd>>
  /\ UNCHANGED <<job, shutdown, done>>

Handling(c) == conn[c] = "handling" /\ op[c] # "other"

\* The handler raises or returns, and no systemctl is left.
EndCall(c, error) ==
  /\ Conclude(c, error)
  /\ cmd' = [cmd EXCEPT ![c] = "none"]
  /\ UNCHANGED <<server, clientVars, ran, calledAt, op, job, shutdown, done>>

\* _validate_service refuses the name, reboot or poweroff its parameters, or there is no
\* systemctl.
NotStarted(c) ==
  /\ Handling(c) /\ cmd[c] = "spawning"
  /\ \E error \in {"invalid_request", "not_found"} : EndCall(c, error)

Spawn(c) ==
  /\ Handling(c) /\ cmd[c] = "spawning"
  /\ cmd' = [cmd EXCEPT ![c] = "begun"]
  /\ UNCHANGED <<vars, op, job, shutdown, done>>

\* communicate() returns; a command that failed or was killed raises NotFoundError.
MutIgnoreReturnCode(c) ==
  /\ Handling(c) /\ cmd[c] \in {"ok", "failed"}
  /\ EndCall(c, "ok")
CommandEnds(c) ==
  /\ Handling(c)
  /\ \/ cmd[c] = "ok" /\ EndCall(c, "ok")
     \/ cmd[c] = "failed" /\ EndCall(c, "not_found")

\* wait_for(process.communicate()) gives up; the process is killed and waited for.
CommandTimesOut(c) ==
  /\ Handling(c) /\ cmd[c] \in {"begun", "waiting"}
  /\ sAge[c] = Limit(op[c])
  /\ EndCall(c, "timeout")

\* The request timeout cancels a handler; only this module's TimeoutError kills a command.
RequestTimesOut(c) == ServerTimesOut(c) /\ UNCHANGED serviceVars

OtherHandlerEnds(c) == op[c] = "other" /\ HandlerEnds(c) /\ UNCHANGED serviceVars

-----------------------------------------------------------------------------
(***************************************************************************)
(* systemctl and systemd.                                                  *)
(***************************************************************************)

\* A new job cancels one it conflicts with, whose waiters fail, and merges with any other.
NewJob(o, waiter) ==
  LET conflict == job # "none" /\ (job = "stop") # (o = "stop")
  IN /\ job' = IF job = "restart" /\ ~conflict THEN job ELSE o
     /\ cmd' = [c \in Calls |-> IF c \in waiter THEN "waiting"
                                ELSE IF conflict /\ cmd[c] = "waiting" THEN "failed"
                                ELSE cmd[c]]
     /\ UNCHANGED <<vars, op, shutdown, done>>

\* systemctl submits its job...
SubmitJob(c) == cmd[c] = "begun" /\ op[c] \in UnitOps /\ NewJob(op[c], {c})
\* ... and so may anybody else.
OthersSubmit == \E o \in UnitOps : NewJob(o, {})

\* systemctl show, and systemctl reboot and poweroff, do not wait for a job.
AnswerAtOnce(c) ==
  /\ cmd[c] = "begun" /\ op[c] \notin UnitOps
  /\ cmd' = [cmd EXCEPT ![c] = "ok"]
  /\ shutdown' = (shutdown \/ op[c] = "power")
  /\ done' = [done EXCEPT ![c] = TRUE]
  /\ UNCHANGED <<vars, op, job>>

\* No such unit, no bus, refused.
CommandFails(c) ==
  /\ cmd[c] \in {"begun", "waiting"}
  /\ cmd' = [cmd EXCEPT ![c] = "failed"]
  /\ UNCHANGED <<vars, op, job, shutdown, done>>

\* The job ends, waited for or not.
JobEnds(result) ==
  /\ job # "none" /\ job' = "none"
  /\ cmd' = [c \in Calls |-> IF cmd[c] = "waiting" THEN result ELSE cmd[c]]
  /\ done' = [c \in Calls |-> done[c] \/ (cmd[c] = "waiting" /\ result = "ok")]
  /\ UNCHANGED <<vars, op, shutdown>>

\* SIGTERM goes to every process of the service.
StopAll ==
  /\ Stop
  /\ cmd' = [c \in Calls |-> IF c \in Alive THEN "failed" ELSE cmd[c]]
  /\ UNCHANGED <<op, job, shutdown, done>>

\* What is left of the service is killed before it is started again, and once the machine
\* goes down it is not.
StartAgain ==
  /\ ~shutdown /\ Start
  /\ cmd' = [c \in Calls |-> "none"]
  /\ UNCHANGED <<op, job, shutdown, done>>

\* A handler reacts at once when its command starts, ends or runs out of time.
Tock ==
  /\ \A c \in Calls : Handling(c) => c \in Alive /\ sAge[c] < Limit(op[c])
  /\ Tick
  /\ UNCHANGED serviceVars

-----------------------------------------------------------------------------
Session(c) ==
  /\ WebSide(c) \/ Authorize(c) \/ Reply(c) \/ ReplyFails(c)
  /\ UNCHANGED serviceVars

Service(c) ==
  \/ Dispatch(c) \/ NotStarted(c) \/ Spawn(c) \/ CommandEnds(c) \/ CommandTimesOut(c)
  \/ RequestTimesOut(c) \/ OtherHandlerEnds(c)
  \/ SubmitJob(c) \/ AnswerAtOnce(c) \/ CommandFails(c)

Crash == Exit /\ UNCHANGED serviceVars

CallNext ==
  \/ \E c \in Calls : Session(c) \/ Service(c)
  \/ \E result \in {"ok", "failed"} : JobEnds(result)
  \/ OthersSubmit \/ StopAll \/ Crash \/ StartAgain \/ Tock

CallSpec == CallInit /\ [][CallNext]_callVars

\* Time passes and both event loops serve their timers and the ends of their processes.
FairCallSpec ==
  /\ CallSpec /\ WF_callVars(Tock)
  /\ \A c \in Calls :
       /\ WF_callVars(ClientTimesOut(c) /\ UNCHANGED serviceVars)
       /\ WF_callVars(RequestTimesOut(c)) /\ WF_callVars(CommandTimesOut(c))
       /\ WF_callVars(CommandEnds(c)) /\ WF_callVars(NotStarted(c) \/ Spawn(c))

-----------------------------------------------------------------------------
(***************************************************************************)
(* Properties.                                                             *)
(***************************************************************************)

\* An HTTP success for a service or power action means that systemd did it: no killed,
\* cancelled or superseded command, timeout or restart of the daemon is reported as one.
AcceptedIsDone ==
  \A c \in Calls : status[c] = 200 /\ op[c] \in Ops \ {"other"} => done[c]

\* The limits are nested: a systemctl never outlives its handler, so none can act on the
\* unit after its caller was answered, unless the daemon died meanwhile.
CommandEndsWithItsHandler ==
  \A c \in Alive : conn[c] = "handling" \/ server = "down"
=============================================================================
