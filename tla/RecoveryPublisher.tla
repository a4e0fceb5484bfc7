-------------------------- MODULE RecoveryPublisher --------------------------
(***************************************************************************)
(* The publisher of the recovery name (scripts/                            *)
(* publish-recovery-hostname.sh): a loop that polls the hostname and the   *)
(* addresses and keeps one avahi-publish-address process per address, run  *)
(* by systemd (appliance-recovery-hostname.service).                       *)
(*                                                                         *)
(* One action is one command of the loop, or one turn of an inner loop.    *)
(* Addresses, the hostname and the processes may change between any two.   *)
(***************************************************************************)
CONSTANTS
  Addresses,   \* IPv4 addresses the interfaces may have
  Pids,        \* process ids
  None         \* no process, no address

ASSUME PublisherAssumption == None \notin Addresses \cup Pids

VARIABLES
  \* the script
  pc,          \* "read", "stop", "poll", "reap", "start", "sleep"; "down": no script
  todo,        \* what the inner loop has yet to visit
  active,      \* active_addresses
  publishers,  \* publishers: the process id stored for each address
  asked,       \* (history) what this turn is to publish: none beside the native record,
               \* else the addresses of its poll
  \* the system
  proc,        \* the address each running avahi-publish-address publishes
  native,      \* the system hostname is the recovery name
  up,          \* the addresses of the interfaces that are up
  stopping     \* systemd has asked the service to end

scriptVars == <<pc, todo, active, publishers, asked>>
vars == <<scriptVars, proc, native, up, stopping>>

Tracked == {a \in Addresses : publishers[a] # None}
NoPublishers == [a \in Addresses |-> None]
NoProcess == [p \in Pids |-> None]

Init ==
  /\ pc = "read" /\ todo = {} /\ active = {} /\ asked = {}
  /\ publishers = NoPublishers /\ proc = NoProcess
  /\ native \in BOOLEAN /\ up \in SUBSET Addresses /\ stopping = FALSE

-----------------------------------------------------------------------------
(***************************************************************************)
(* The loop.                                                               *)
(***************************************************************************)

\* stop_publisher: the process is killed and waited for.
MutForgetOnly(a) ==
  publishers' = [publishers EXCEPT ![a] = None] /\ UNCHANGED proc
StopPublisher(a) ==
  /\ publishers' = [publishers EXCEPT ![a] = None]
  /\ proc' = [p \in Pids |-> IF p = publishers[a] THEN None ELSE proc[p]]

\* The EXIT trap: stop_all.
Exit ==
  /\ pc' = "down" /\ todo' = {} /\ active' = {} /\ asked' = {}
  /\ publishers' = NoPublishers
  /\ proc' = [p \in Pids |-> IF \E a \in Addresses : publishers[a] = p THEN None ELSE proc[p]]

\* Avahi publishes the name itself when it is the system's own.
MutLeaveToAvahi ==
  /\ pc = "read"
  /\ pc' = IF native THEN "sleep" ELSE "poll"
  /\ asked' = {}
  /\ UNCHANGED <<todo, active, publishers, proc, native, up, stopping>>
ReadHostname ==
  /\ pc = "read"
  /\ IF native THEN pc' = "stop" /\ todo' = Tracked
     ELSE pc' = "poll" /\ UNCHANGED todo
  /\ asked' = {}
  /\ UNCHANGED <<active, publishers, proc, native, up, stopping>>

\* hostname fails, or is killed: the empty name is not the recovery name.
HostnameFails ==
  /\ pc = "read" /\ native
  /\ pc' = "poll" /\ asked' = {}
  /\ UNCHANGED <<todo, active, publishers, proc, native, up, stopping>>

\* stop_all, when called by the loop.
StopNext ==
  /\ pc = "stop"
  /\ \/ /\ todo = {} /\ pc' = "sleep"
        /\ UNCHANGED <<todo, publishers, proc>>
     \/ \E a \in todo :
          /\ IF publishers[a] # None THEN StopPublisher(a) ELSE UNCHANGED <<publishers, proc>>
          /\ todo' = todo \ {a} /\ UNCHANGED pc
  /\ UNCHANGED <<active, asked, native, up, stopping>>

\* The addresses that ip shows; when it fails, none.
PollGives(addresses) ==
  /\ pc = "poll"
  /\ active' = addresses /\ asked' = addresses
  /\ pc' = "reap" /\ todo' = Tracked
  /\ UNCHANGED <<publishers, proc, native, up, stopping>>

ReadAddresses == PollGives(up)
IpFails == up # {} /\ PollGives({})

\* Publishers whose address is gone or whose process is dead are stopped. The trap may have
\* emptied publishers under the loop: the unset element ends the script (set -u).
Reap(a, stale) ==
  /\ todo' = todo \ {a} /\ UNCHANGED <<pc, active, asked>>
  /\ IF stale THEN StopPublisher(a) ELSE UNCHANGED <<publishers, proc>>
MutKeepDead(a) == Reap(a, a \notin active)
MutReapOnlyDead(a) == Reap(a, proc[publishers[a]] = None)
ReapAddress(a) == Reap(a, a \notin active \/ proc[publishers[a]] = None)

ReapNext ==
  /\ pc = "reap"
  /\ \/ /\ todo = {} /\ pc' = "start" /\ todo' = active
        /\ UNCHANGED <<active, asked, publishers, proc>>
     \/ \E a \in todo : IF publishers[a] = None THEN Exit ELSE ReapAddress(a)
  /\ UNCHANGED <<native, up, stopping>>

\* A publisher is started for each address that has none.
StartNext ==
  /\ pc = "start"
  /\ \/ /\ todo = {} /\ pc' = "sleep"
        /\ UNCHANGED <<todo, publishers, proc>>
     \/ \E a \in todo :
          /\ todo' = todo \ {a} /\ UNCHANGED pc
          /\ \/ publishers[a] # None /\ UNCHANGED <<publishers, proc>>
             \/ /\ publishers[a] = None
                /\ \E p \in Pids :
                     /\ proc[p] = None /\ \A b \in Addresses : publishers[b] # p
                     /\ publishers' = [publishers EXCEPT ![a] = p]
                     /\ proc' = [proc EXCEPT ![p] = a]
  /\ UNCHANGED <<active, asked, native, up, stopping>>

Wake ==
  /\ pc = "sleep"
  /\ pc' = "read"
  /\ UNCHANGED <<todo, active, publishers, asked, proc, native, up, stopping>>

Script == ReadHostname \/ StopNext \/ ReadAddresses \/ ReapNext \/ StartNext \/ Wake

-----------------------------------------------------------------------------
(***************************************************************************)
(* systemd and the rest of the system.                                     *)
(***************************************************************************)

\* systemctl restart sends SIGTERM to every process of the service. The publishers end. The
\* trap of the script runs stop_all and does not exit: only a killed sleep or a killed
\* command substitution ends the loop (set -e).
Term ==
  /\ pc # "down" /\ ~stopping
  /\ stopping' = TRUE
  /\ proc' = NoProcess /\ publishers' = NoPublishers
  /\ \/ pc \in {"sleep", "read"} /\ pc' = "down" /\ todo' = {} /\ active' = {} /\ asked' = {}
     \/ pc # "sleep" /\ UNCHANGED <<pc, todo, active, asked>>
  /\ UNCHANGED <<native, up>>

\* SIGKILL to all, TimeoutStopSec after SIGTERM.
Kill ==
  /\ pc # "down" /\ stopping
  /\ pc' = "down" /\ todo' = {} /\ active' = {} /\ asked' = {}
  /\ publishers' = NoPublishers /\ proc' = NoProcess
  /\ UNCHANGED <<native, up, stopping>>

\* The script alone dies; its publishers do not notice.
Crash ==
  /\ pc # "down"
  /\ pc' = "down" /\ todo' = {} /\ active' = {} /\ asked' = {}
  /\ publishers' = NoPublishers
  /\ UNCHANGED <<proc, native, up, stopping>>

\* What is left of the service is killed, and only then is it started again.
CleanUp ==
  /\ pc = "down" /\ proc # NoProcess
  /\ proc' = NoProcess
  /\ UNCHANGED <<scriptVars, native, up, stopping>>

Restart ==
  /\ pc = "down" /\ proc = NoProcess
  /\ pc' = "read" /\ stopping' = FALSE
  /\ UNCHANGED <<todo, active, publishers, asked, proc, native, up>>

\* avahi-publish-address ends by itself: a collision, or Avahi was restarted.
PublisherDies ==
  /\ pc # "down"
  /\ \E p \in Pids : proc[p] # None /\ proc' = [proc EXCEPT ![p] = None]
  /\ UNCHANGED <<scriptVars, native, up, stopping>>

AddressesChange ==
  /\ up' \in SUBSET Addresses /\ up' # up
  /\ UNCHANGED <<scriptVars, proc, native, stopping>>

HostnameChanges ==
  /\ native' = ~native
  /\ UNCHANGED <<scriptVars, proc, up, stopping>>

Fault == HostnameFails \/ IpFails \/ Term \/ Crash \/ PublisherDies

Next ==
  \/ Script \/ Fault \/ Kill \/ CleanUp \/ Restart
  \/ AddressesChange \/ HostnameChanges

\* The script is scheduled, its children end when killed, and systemd does its part.
Fairness == WF_vars(Script) /\ WF_vars(Kill) /\ WF_vars(CleanUp) /\ WF_vars(Restart)

Spec == Init /\ [][Next]_vars /\ Fairness

-----------------------------------------------------------------------------
(***************************************************************************)
(* Properties.                                                             *)
(***************************************************************************)

TypeOK ==
  /\ pc \in {"read", "stop", "poll", "reap", "start", "sleep", "down"}
  /\ todo \subseteq Addresses /\ active \subseteq Addresses /\ asked \subseteq Addresses
  /\ publishers \in [Addresses -> Pids \cup {None}]
  /\ proc \in [Pids -> Addresses \cup {None}]
  /\ native \in BOOLEAN /\ up \subseteq Addresses /\ stopping \in BOOLEAN

\* However polls, deaths, signals and restarts of the script interleave, no address is
\* published by two processes, which Avahi would take for a collision.
OnePublisherPerAddress ==
  \A p, q \in Pids : proc[p] # None /\ proc[p] = proc[q] => p = q

\* After each turn the loop has exactly the publishers that turn was to leave: one for each
\* address its poll gave, and none for another; none at all if it found the system's hostname
\* to be the recovery name. Only a script told to end (SIGTERM) may have fewer.
SleepsAsPolled ==
  pc = "sleep" => /\ \A p \in Pids : proc[p] # None => proc[p] \in asked
                  /\ Tracked \subseteq asked /\ (stopping \/ Tracked = asked)

\* README: the name is "published for every active IPv4 address", once address and
\* hostname stay and nothing fails any more - whatever failed before.
AddressIsPublished ==
  \A a \in Addresses :
    <>[](a \in up /\ ~native) /\ <>[][~Fault]_vars => <>[](\E p \in Pids : proc[p] = a)

\* README: the publisher "defers to Avahi's native hostname record whenever the system
\* hostname equals the recovery name", likewise.
NameIsLeftToAvahi == <>[]native /\ <>[][~Fault]_vars => <>[](proc = NoProcess)
=============================================================================
