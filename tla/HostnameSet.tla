---------------------------- MODULE HostnameSet ----------------------------
(***************************************************************************)
(* hostname.set of SystemManager (daemon/managers/system.py): concurrent   *)
(* IPC requests change the Linux hostname with hostnamectl and the mDNS    *)
(* name with avahi-set-host-name, wait for Avahi to register it, and undo  *)
(* both when something fails. The handler takes no lock.                   *)
(*                                                                         *)
(* One action is the code from one await to the next. A command that sets  *)
(* a name takes effect at some moment between its start and its exit, so   *)
(* the effect is a step of its own. systemd-hostnamed and Avahi (external) *)
(* serve their callers in order: a command killed before its effect has    *)
(* none. The request timeout can strike where the time limits of the awaits*)
(* so far add up to it; starting and reaping a process counts as no time.  *)
(***************************************************************************)
EXTENDS Naturals

CONSTANTS
  Requests,      \* hostname.set requests
  Names,         \* host names, as typed
  Lower,         \* str.lower on them
  AltName,       \* the name Avahi falls back to after a collision
  NoName,
  RequestTimeout \* request_timeout_seconds

AllNames == Names \cup {AltName}

ASSUME NamesAssumption ==
  /\ AltName \notin Names
  /\ NoName \notin AllNames
  /\ Lower \in [AllNames -> AllNames]
  /\ \A n \in Names : Lower[n] \in Names /\ Lower[Lower[n]] = Lower[n]
  /\ Lower[AltName] = AltName

ASSUME TimeoutAssumption == RequestTimeout \in Nat

VARIABLES
  \* the daemon
  pc,        \* the await each handler is at
  want,      \* requested_hostname
  orig,      \* original_hostname
  cmd,       \* the setting command the handler waits for: "running" or "effective"
  spent,     \* seconds the handler can have taken by the end of this await
  undo,      \* rollback_errors: "clean" when empty
  answer,    \* what the requester was told
  orphans,   \* setting commands that run on after their handler was cancelled
  \* the system
  linux,     \* the hostname systemd-hostnamed keeps
  avahi,     \* Avahi's host name and server state
  \* history
  alone,     \* no other request or orphan overlapped with this one
  left       \* the two names at the moment of the answer

handlerVars == <<pc, want, orig, cmd, spent, undo, answer, alone, left>>
vars == <<pc, want, orig, cmd, spent, undo, answer, orphans, linux, avahi, alone, left>>

SetPCs == {"setLinux", "setAvahi", "undoLinux", "undoAvahi"}
WaitPCs == {"wait", "undoWait"}
FqdnPCs == {"fqdn", "undoFqdn"}
ActivePCs == {"read"} \cup SetPCs \cup WaitPCs \cup FqdnPCs
PCs == {"idle", "done"} \cup ActivePCs
Answers == {"none", "ok", "error", "restored", "unrestored", "internal", "timeout", "lost"}
Commands == [sets : {"linux", "avahi"}, name : AllNames]
Avahis == [name : AllNames, state : {"registering", "running"}]
NameStates == [linux : AllNames, avahi : Avahis]

TypeOK ==
  /\ pc \in [Requests -> PCs]
  /\ want \in [Requests -> AllNames \cup {NoName}]
  /\ orig \in [Requests -> AllNames \cup {NoName}]
  /\ cmd \in [Requests -> {"none", "running", "effective"}]
  /\ spent \in [Requests -> Nat]
  /\ undo \in [Requests -> {"clean", "failed"}]
  /\ answer \in [Requests -> Answers]
  /\ orphans \in SUBSET Commands
  /\ linux \in AllNames
  /\ avahi \in Avahis
  /\ alone \in [Requests -> BOOLEAN]
  /\ left \in [Requests -> NameStates]

\* Avahi took its name from the system, or an alternative if that was in use.
Init ==
  /\ pc = [r \in Requests |-> "idle"]
  /\ want = [r \in Requests |-> NoName]
  /\ orig = [r \in Requests |-> NoName]
  /\ cmd = [r \in Requests |-> "none"]
  /\ spent = [r \in Requests |-> 0]
  /\ undo = [r \in Requests |-> "clean"]
  /\ answer = [r \in Requests |-> "none"]
  /\ orphans = {}
  /\ linux \in Names
  /\ avahi \in [name : {linux, AltName}, state : {"running"}]
  /\ alone = [r \in Requests |-> FALSE]
  /\ left = [r \in Requests |-> [linux |-> linux, avahi |-> avahi]]

-----------------------------------------------------------------------------
(***************************************************************************)
(* The two name services (external).                                       *)
(***************************************************************************)

\* A new mDNS name is probed for before Avahi is running again.
SetName(c) ==
  /\ linux' = IF c.sets = "linux" THEN c.name ELSE linux
  /\ avahi' = IF c.sets = "avahi" THEN [name |-> c.name, state |-> "registering"]
              ELSE avahi

AvahiRegisters ==
  /\ avahi.state = "registering"
  /\ \E n \in {avahi.name, AltName} : avahi' = [name |-> n, state |-> "running"]
  /\ UNCHANGED <<handlerVars, orphans, linux>>

\* Another host claims the name later.
AvahiConflict ==
  /\ avahi.state = "running"
  /\ avahi' = [name |-> AltName, state |-> "registering"]
  /\ UNCHANGED <<handlerVars, orphans, linux>>

\* A command nobody waits for any more takes effect, or fails.
OrphanEnds ==
  /\ \E c \in orphans :
       /\ orphans' = orphans \ {c}
       /\ SetName(c) \/ UNCHANGED <<linux, avahi>>
  /\ UNCHANGED handlerVars

-----------------------------------------------------------------------------
(***************************************************************************)
(* hostname_set and _restore_hostname.                                     *)
(***************************************************************************)

Running(r) == pc[r] \notin {"idle", "done"}

\* The command the handler runs: the names to set first, the old ones to undo.
Command(r) ==
  [sets |-> IF pc[r] \in {"setLinux", "undoLinux"} THEN "linux" ELSE "avahi",
   name |-> IF pc[r] \in {"setLinux", "setAvahi"} THEN want[r] ELSE orig[r]]

\* The time limits in seconds: 2 for hostname and busctl, 10 for the setting
\* commands; Avahi is polled until 4 are over, by two calls each round.
Limit(p) == CASE p \in SetPCs -> 10
              [] p \in WaitPCs -> 4 + 2 + 2
              [] p = "read" -> 2
              [] OTHER -> 0

\* Go on to the next await; a setting command starts there.
Goto(r, next) ==
  /\ pc' = [pc EXCEPT ![r] = next]
  /\ cmd' = [cmd EXCEPT ![r] = IF next \in SetPCs THEN "running" ELSE "none"]
  /\ spent' = [spent EXCEPT ![r] = @ + Limit(next)]

\* Return or raise: the requester is told.
Finish(r, a) ==
  /\ pc' = [pc EXCEPT ![r] = "done"]
  /\ cmd' = [cmd EXCEPT ![r] = "none"]
  /\ spent' = [spent EXCEPT ![r] = 0]
  /\ answer' = [answer EXCEPT ![r] = a]
  /\ left' = [left EXCEPT ![r] = [linux |-> linux, avahi |-> avahi]]

Submit(r) ==
  /\ pc[r] = "idle"
  /\ \E n \in Names : want' = [want EXCEPT ![r] = Lower[n]]
  /\ Goto(r, "read")
  /\ alone' = [q \in Requests |->
                 IF q = r THEN orphans = {} /\ \A o \in Requests : ~Running(o)
                 ELSE alone[q] /\ ~Running(q)]
  /\ UNCHANGED <<orig, undo, answer, orphans, linux, avahi, left>>

\* The parameters do not validate, or /usr/bin/hostname fails or times out.
RejectParams(r) ==
  /\ pc[r] \in {"idle", "read"}
  /\ Finish(r, "error")
  /\ UNCHANGED <<want, orig, undo, orphans, linux, avahi, alone>>

MutForgetOriginal(r) ==
  /\ pc[r] = "read"
  /\ Goto(r, "setLinux")
  /\ UNCHANGED <<want, orig, undo, answer, orphans, linux, avahi, alone, left>>
ReadHostname(r) ==
  /\ pc[r] = "read"
  /\ orig' = [orig EXCEPT ![r] = Lower[linux]]
  /\ Goto(r, "setLinux")
  /\ UNCHANGED <<want, undo, answer, orphans, linux, avahi, alone, left>>

\* hostnamectl set-hostname or avahi-set-host-name does its work.
TakesEffect(r) ==
  /\ pc[r] \in SetPCs
  /\ cmd[r] = "running"
  /\ cmd' = [cmd EXCEPT ![r] = "effective"]
  /\ SetName(Command(r))
  /\ UNCHANGED <<pc, want, orig, spent, undo, answer, orphans, alone, left>>

AfterSuccess(p) ==
  CASE p = "setLinux" -> "setAvahi"
    [] p = "setAvahi" -> "wait"
    [] p = "undoLinux" -> "undoAvahi"
    [] p = "undoAvahi" -> "undoWait"

CommandSucceeds(r) ==
  /\ pc[r] \in SetPCs
  /\ cmd[r] = "effective"
  /\ Goto(r, AfterSuccess(pc[r]))
  /\ UNCHANGED <<want, orig, undo, answer, orphans, linux, avahi, alone, left>>

\* What the except clauses do with NotFoundError, TimeoutError or ValidationError:
\* undo both names; a failing undo of the Linux name does not stop the other.
MutNoUndoAfterWait(r) ==
  \/ /\ pc[r] \in {"setLinux", "setAvahi"}
     /\ Goto(r, "undoLinux")
     /\ UNCHANGED <<undo, answer, left>>
  \/ /\ pc[r] = "undoLinux"
     /\ Goto(r, "undoAvahi")
     /\ undo' = [undo EXCEPT ![r] = "failed"]
     /\ UNCHANGED <<answer, left>>
  \/ /\ pc[r] \in {"wait", "fqdn"}
     /\ Finish(r, "restored")
     /\ UNCHANGED undo
  \/ /\ pc[r] \in {"undoAvahi", "undoWait", "undoFqdn"}
     /\ Finish(r, "unrestored")
     /\ undo' = [undo EXCEPT ![r] = "failed"]
Except(r) ==
  \/ /\ pc[r] \in {"setLinux", "setAvahi", "wait", "fqdn"}
     /\ Goto(r, "undoLinux")
     /\ UNCHANGED <<undo, answer, left>>
  \/ /\ pc[r] = "undoLinux"
     /\ Goto(r, "undoAvahi")
     /\ undo' = [undo EXCEPT ![r] = "failed"]
     /\ UNCHANGED <<answer, left>>
  \/ /\ pc[r] \in {"undoAvahi", "undoWait", "undoFqdn"}
     /\ Finish(r, "unrestored")
     /\ undo' = [undo EXCEPT ![r] = "failed"]

\* The executable is missing or exits with an error (before any effect), or its
\* time is up and it is killed (before or after).
CommandFails(r) ==
  /\ pc[r] \in SetPCs
  /\ Except(r)
  /\ UNCHANGED <<want, orig, orphans, linux, avahi, alone>>

\* _wait_for_avahi_hostname: GetState says RUNNING...
MutIgnoreState(r) ==
  /\ pc[r] \in WaitPCs
  /\ Goto(r, IF pc[r] = "wait" THEN "fqdn" ELSE "undoFqdn")
  /\ UNCHANGED <<want, orig, undo, answer, orphans, linux, avahi, alone, left>>
PollState(r) ==
  /\ pc[r] \in WaitPCs
  /\ avahi.state = "running"
  /\ Goto(r, IF pc[r] = "wait" THEN "fqdn" ELSE "undoFqdn")
  /\ UNCHANGED <<want, orig, undo, answer, orphans, linux, avahi, alone, left>>

\* ... GetHostNameFqdn fails or makes no sense: poll again...
PollAgain(r) ==
  /\ pc[r] \in FqdnPCs
  /\ pc' = [pc EXCEPT ![r] = IF @ = "fqdn" THEN "wait" ELSE "undoWait"]
  /\ UNCHANGED <<want, orig, cmd, spent, undo, answer, orphans, linux, avahi, alone, left>>

\* ... or the deadline has passed.
WaitTimesOut(r) ==
  /\ pc[r] \in WaitPCs \cup FqdnPCs
  /\ Except(r)
  /\ UNCHANGED <<want, orig, orphans, linux, avahi, alone>>

\* The name Avahi has is compared with the name asked for.
ReadFqdn(r) ==
  /\ \/ /\ pc[r] = "fqdn"
        /\ Lower[avahi.name] = want[r]
        /\ Finish(r, "ok")
        /\ UNCHANGED undo
     \/ /\ pc[r] = "undoFqdn"
        /\ Lower[avahi.name] = orig[r]
        /\ Finish(r, IF undo[r] = "clean" THEN "restored" ELSE "unrestored")
        /\ UNCHANGED undo
     \/ /\ pc[r] \in FqdnPCs
        /\ Lower[avahi.name] # (IF pc[r] = "fqdn" THEN want[r] ELSE orig[r])
        /\ Except(r)
  /\ UNCHANGED <<want, orig, orphans, linux, avahi, alone>>

\* create_subprocess_exec raises another OSError: no except clause catches it.
SpawnFails(r) ==
  /\ Running(r)
  /\ cmd[r] # "effective"
  /\ Finish(r, "internal")
  /\ UNCHANGED <<want, orig, undo, orphans, linux, avahi, alone>>

\* The request timeout cancels the handler; nothing kills its command.
Cancel(r) ==
  /\ Running(r)
  /\ spent[r] >= RequestTimeout
  /\ Finish(r, "timeout")
  /\ \/ cmd[r] = "running" /\ orphans' = orphans \cup {Command(r)}
     \/ UNCHANGED orphans
  /\ UNCHANGED <<want, orig, undo, linux, avahi, alone>>

\* The daemon stops; systemd kills what is left in its control group.
DaemonStops ==
  /\ orphans # {} \/ \E r \in Requests : Running(r)
  /\ pc' = [r \in Requests |-> IF Running(r) THEN "done" ELSE pc[r]]
  /\ answer' = [r \in Requests |-> IF Running(r) THEN "lost" ELSE answer[r]]
  /\ left' = [r \in Requests |-> IF Running(r) THEN [linux |-> linux, avahi |-> avahi]
                                 ELSE left[r]]
  /\ cmd' = [r \in Requests |-> "none"]
  /\ spent' = [r \in Requests |-> 0]
  /\ orphans' = {}
  /\ UNCHANGED <<want, orig, undo, linux, avahi, alone>>

-----------------------------------------------------------------------------
Handler(r) ==
  \/ Submit(r) \/ RejectParams(r) \/ ReadHostname(r) \/ TakesEffect(r)
  \/ CommandSucceeds(r) \/ CommandFails(r) \/ PollState(r) \/ PollAgain(r)
  \/ WaitTimesOut(r) \/ ReadFqdn(r) \/ SpawnFails(r) \/ Cancel(r)

Next ==
  \/ \E r \in Requests : Handler(r)
  \/ AvahiRegisters \/ AvahiConflict \/ OrphanEnds \/ DaemonStops

Spec == Init /\ [][Next]_vars

-----------------------------------------------------------------------------
(***************************************************************************)
(* Properties.                                                             *)
(***************************************************************************)

\* A hostname.set answered "accepted" that overlapped with no other one and with no
\* command left over from one had both names set and registered at that moment.
AcceptedIsPublished ==
  \A r \in Requests : alone[r] /\ answer[r] = "ok" =>
    left[r] = [linux |-> want[r], avahi |-> [name |-> want[r], state |-> "running"]]

\* One answered "the original hostname was restored" had both original names back,
\* whichever command failed, timed out or was killed after its effect.
RestoredIsOriginal ==
  \A r \in Requests : alone[r] /\ answer[r] = "restored" =>
    left[r] = [linux |-> orig[r], avahi |-> [name |-> orig[r], state |-> "running"]]

\* system.capabilities says "hostname_transactional": a requester that was told of a
\* failure or a timeout, and not of a failed rollback, does not find the Linux name
\* new and the mDNS name old.
FailedIsUndone ==
  \A r \in Requests :
    alone[r] /\ answer[r] \in {"error", "restored", "timeout"} =>
      ~(/\ want[r] # orig[r]
        /\ left[r].linux = want[r]
        /\ left[r].avahi.name = orig[r])

\* README: hostname.set will "Persist a validated single-label hostname and publish it
\* live through Avahi": when every request was accepted, the name published is the
\* name persisted, unless another host has claimed it since.
AcceptedNamesAgree ==
  (\A r \in Requests : answer[r] = "ok") => avahi.name \in {linux, AltName}

-----------------------------------------------------------------------------
(***************************************************************************)
(* The inductive invariant, in named parts.                                *)
(***************************************************************************)

\* No setting command without a handler at it, and no undo of an unread name.
CommandInv ==
  \A r \in Requests :
    /\ pc[r] \in SetPCs <=> cmd[r] # "none"
    /\ Running(r) => want[r] \in Names
    /\ pc[r] \in ActivePCs \ {"read"} => orig[r] \in Names
    /\ answer[r] # "none" => pc[r] = "done"

\* A request that is alone shares the names with nobody.
AloneInv ==
  \A r \in Requests :
    alone[r] /\ Running(r) => orphans = {} /\ \A q \in Requests \ {r} : ~Running(q)

\* What is set once the Linux step, and once the Avahi step, is behind r.
LinuxInv ==
  \A r \in Requests : alone[r] =>
    /\ \/ pc[r] \in {"setAvahi", "wait", "fqdn"}
       \/ pc[r] = "setLinux" /\ cmd[r] = "effective"
       => linux = want[r]
    /\ \/ pc[r] \in {"undoAvahi", "undoWait", "undoFqdn"} /\ undo[r] = "clean"
       \/ pc[r] = "undoLinux" /\ cmd[r] = "effective"
       => linux = orig[r]

AvahiInv ==
  \A r \in Requests : alone[r] =>
    /\ pc[r] \in {"wait", "fqdn"} \/ (pc[r] = "setAvahi" /\ cmd[r] = "effective") =>
         avahi.name \in {want[r], AltName}
    /\ pc[r] \in {"undoWait", "undoFqdn"} \/ (pc[r] = "undoAvahi" /\ cmd[r] = "effective") =>
         avahi.name \in {orig[r], AltName}
    /\ pc[r] \in FqdnPCs => avahi.state = "running" \/ avahi.name = AltName

IInv ==
  /\ TypeOK /\ linux \in Names
  /\ \A c \in orphans : c.name \in Names
  /\ CommandInv /\ AloneInv /\ LinuxInv /\ AvahiInv
  /\ AcceptedIsPublished /\ RestoredIsOriginal
=============================================================================
