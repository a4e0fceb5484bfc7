------------------------- MODULE NetworkTransaction -------------------------
(***************************************************************************)
(* The Wi-Fi configuration changes of the daemon: wifi.connect,            *)
(* network.profile.activate, wifi.disconnect and network.profile.delete    *)
(* (daemon/managers/network.py), run by concurrent IPC requests under the  *)
(* request timeout of IPCServer (daemon/server.py), against NetworkManager *)
(* with its rollback checkpoints (external).                               *)
(*                                                                         *)
(* A handler gives up the event loop at every await, so one action is the  *)
(* code from one await to the next; pc[r] names the await request r is at. *)
(* Time is discrete: ages count from the moment the handler starts, and    *)
(* the event loop and NetworkManager fire their timers on time (Tick).     *)
(***************************************************************************)
EXTENDS Naturals

CONSTANTS
  Connects,           \* wifi.connect requests; each names the profile it adds
  Activates,          \* network.profile.activate requests
  Disconnects,        \* wifi.disconnect requests
  Deletes,            \* network.profile.delete requests
  WifiProfiles,       \* saved Wi-Fi profiles
  EthernetProfiles,   \* saved Ethernet profiles
  NoProfile, NoRequest,
  RequestTimeout,     \* request_timeout_seconds, in ticks
  ActivationTimeout,  \* network_activation_timeout_seconds, in ticks
  CheckpointTimeout   \* network_checkpoint_timeout_seconds, in ticks

Transactions == Connects \cup Activates
Requests == Transactions \cup Disconnects \cup Deletes
Saved == WifiProfiles \cup EthernetProfiles
Profiles == Saved \cup Connects   \* uuid4 makes every added profile new

ASSUME KindsDisjoint ==
  /\ Connects \cap Activates = {}
  /\ Transactions \cap (Disconnects \cup Deletes) = {}
  /\ Disconnects \cap Deletes = {}
  /\ WifiProfiles \cap EthernetProfiles = {}
  /\ Saved \cap Requests = {}
  /\ NoRequest \notin Requests \cup Profiles
  /\ NoProfile \notin Requests \cup Profiles

ASSUME TimeoutsAreNat ==
  /\ RequestTimeout \in Nat \ {0}
  /\ ActivationTimeout \in Nat
  /\ CheckpointTimeout \in Nat

\* The defaults are 30 and 45 seconds; no code enforces the order.
ASSUME RequestEndsBeforeCheckpoint == RequestTimeout < CheckpointTimeout

VARIABLES
  \* the daemon
  pc,         \* the await each request is at
  answer,     \* what the requester was told
  target,     \* the profile the request is about
  age,        \* ticks since the handler started
  deadline,   \* age at which _verify_activation gives up
  seen,       \* the device properties _verify_activation last read: its state
              \* and, by the connection it configures, the Ip4Config object
  lock,       \* holder of _connection_lock
  \* NetworkManager
  profiles,   \* saved connection profiles
  ac,         \* the active connection NetworkManager is working for
  dev,        \* the Wi-Fi device: its state and the active connection it serves
  ckpt,       \* the live checkpoint
  fate        \* history: what became of each transaction's checkpoint

daemonVars == <<pc, answer, target, age, deadline, seen, lock>>
nmVars == <<profiles, ac, dev, ckpt, fate>>
vars == <<pc, answer, target, age, deadline, seen, lock,
          profiles, ac, dev, ckpt, fate>>

Verifying == {"verify", "readActive", "readIp4", "connectivity"}
\* Awaits at which a transaction owns a checkpoint it has not given up.
Live == {"proxy", "apply", "finish", "destroy"} \cup Verifying
Locked == {"checkpoint", "rollback", "rollbackOuter"} \cup Live
PCs == {"idle", "lock", "device", "lookup", "call", "reply", "done"} \cup Locked
Answers == {"none", "ok", "error", "timeout", "lost"}
Fates == {"none", "open", "destroyed", "rolledBack", "expired", "superseded"}

ActiveConnections == [profile : Profiles \cup {NoProfile},
                      by : Transactions \cup {NoRequest}]
NoActive == [profile |-> NoProfile, by |-> NoRequest]
Devices == [state : {"disconnected", "activating", "activated", "failed"},
            ac : ActiveConnections]
NoDevice == [state |-> "disconnected", ac |-> NoActive]
Checkpoints == [owner : Transactions \cup {NoRequest}, was : ActiveConnections,
                known : SUBSET Profiles, left : 0..CheckpointTimeout]
NoCheckpoint == [owner |-> NoRequest, was |-> NoActive, known |-> {}, left |-> 0]

TypeOK ==
  /\ pc \in [Requests -> PCs]
  /\ answer \in [Requests -> Answers]
  /\ target \in [Requests -> Profiles \cup {NoProfile}]
  /\ age \in [Requests -> 0..RequestTimeout]
  /\ deadline \in [Requests -> 0..(RequestTimeout + ActivationTimeout)]
  /\ seen \in [Requests -> Devices]
  /\ lock \in Transactions \cup {NoRequest}
  /\ profiles \in SUBSET Profiles
  /\ ac \in ActiveConnections
  /\ dev \in Devices
  /\ ckpt \in Checkpoints
  /\ fate \in [Transactions -> Fates]

Init ==
  /\ pc = [r \in Requests |-> "idle"]
  /\ answer = [r \in Requests |-> "none"]
  /\ target = [r \in Requests |-> NoProfile]
  /\ age = [r \in Requests |-> 0]
  /\ deadline = [r \in Requests |-> 0]
  /\ seen = [r \in Requests |-> NoDevice]
  /\ lock = NoRequest
  /\ profiles = Saved
  /\ ac \in [profile : WifiProfiles \cup {NoProfile}, by : {NoRequest}]
  /\ dev = [state |-> IF ac = NoActive THEN "disconnected" ELSE "activated",
            ac |-> ac]
  /\ ckpt = NoCheckpoint
  /\ fate = [t \in Transactions |-> "none"]

-----------------------------------------------------------------------------
(***************************************************************************)
(* NetworkManager's side of the D-Bus calls (external).                    *)
(***************************************************************************)

\* CHECKPOINT_DESTROY_ALL | CHECKPOINT_DELETE_NEW_CONNECTIONS
MutKeepNewConnections == {"destroy_all"}
CheckpointFlags == {"destroy_all", "delete_new_connections"}

\* The state of the active connection that request r asked for.
ActiveState(r) ==
  IF ac.by # r THEN "deactivated"
  ELSE IF dev.ac = ac /\ dev.state = "activated" THEN "activated"
  ELSE "activating"

\* CheckpointCreate refuses a device that is in another checkpoint unless it
\* is told to destroy that one, which it then does without a rollback.
CanCreate == ckpt.owner = NoRequest \/ "destroy_all" \in CheckpointFlags

\* The checkpoint ends and the device goes back to the active connection it had;
\* a deleted profile that must be active again is added again.
Restore(t, outcome) ==
  /\ ac' = ckpt.was
  /\ profiles' = (IF "delete_new_connections" \in CheckpointFlags
                  THEN profiles \cap ckpt.known ELSE profiles)
                 \cup ({ckpt.was.profile} \ {NoProfile})
  /\ ckpt' = NoCheckpoint
  /\ fate' = [fate EXCEPT ![t] = outcome]
  /\ UNCHANGED dev

\* The checkpoint's own timer: nobody destroyed or rolled it back in time.
Expire ==
  /\ ckpt.owner # NoRequest
  /\ ckpt.left = 0
  /\ Restore(ckpt.owner, "expired")
  /\ UNCHANGED daemonVars

\* The device stops serving an active connection: its Ip4Config object is gone,
\* and a handler that has read the object's path but not the object holds a dead
\* path.
Ip4ConfigGone ==
  seen' = [r \in Requests |-> IF pc[r] \in {"readActive", "readIp4"}
                              THEN [seen[r] EXCEPT !.ac = NoActive] ELSE seen[r]]

\* The device follows the active connection it is to serve.
DeviceFollows ==
  /\ dev.ac # ac
  /\ dev' = [state |-> IF ac = NoActive THEN "disconnected" ELSE "activating",
             ac |-> ac]
  /\ Ip4ConfigGone
  /\ UNCHANGED <<pc, answer, target, age, deadline, lock, profiles, ac, ckpt, fate>>

DeviceActivated ==
  /\ dev.ac = ac
  /\ dev.state = "activating"
  /\ dev' = [dev EXCEPT !.state = "activated"]
  /\ UNCHANGED <<daemonVars, profiles, ac, ckpt, fate>>

\* A wrong password, no DHCP answer, or the access point went away.
DeviceFailed ==
  /\ dev.ac = ac
  /\ dev.state \in {"activating", "activated"}
  /\ dev' = [state |-> "failed", ac |-> NoActive]
  /\ ac' = NoActive
  /\ Ip4ConfigGone
  /\ UNCHANGED <<pc, answer, target, age, deadline, lock, profiles, ckpt, fate>>

\* An idle device: NetworkManager activates a saved profile of its own accord
\* (connect saves with autoconnect TRUE). Which one and when is its policy.
AutoConnect ==
  /\ ac = NoActive
  /\ dev.ac = NoActive
  /\ \E p \in profiles \ EthernetProfiles :
        ac' = [profile |-> p, by |-> NoRequest]
  /\ UNCHANGED <<daemonVars, profiles, dev, ckpt, fate>>

-----------------------------------------------------------------------------
(***************************************************************************)
(* The handlers, from await to await.                                      *)
(***************************************************************************)

Goto(r, next) ==
  /\ pc' = [pc EXCEPT ![r] = next]
  /\ UNCHANGED <<answer, target, age, deadline, seen, lock>>

\* The handler returns or raises: its locals go, "async with" frees the lock
\* and the requester is told.
Finish(r, a) ==
  /\ pc' = [pc EXCEPT ![r] = "done"]
  /\ answer' = [answer EXCEPT ![r] = a]
  /\ age' = [age EXCEPT ![r] = 0]
  /\ deadline' = [deadline EXCEPT ![r] = 0]
  /\ seen' = [seen EXCEPT ![r] = NoDevice]
  /\ lock' = IF lock = r THEN NoRequest ELSE lock
  /\ UNCHANGED target

FirstAwait(r) == IF r \in Transactions THEN "lock"
                 ELSE IF r \in Disconnects THEN "device" ELSE "lookup"

\* The server calls the handler: wait_for(handler(request.params), timeout).
Submit(r) ==
  /\ pc[r] = "idle"
  /\ \E p \in IF r \in Connects THEN {r}
              ELSE IF r \in Disconnects THEN {NoProfile} ELSE Saved \cup profiles :
        target' = [target EXCEPT ![r] = p]
  /\ pc' = [pc EXCEPT ![r] = FirstAwait(r)]
  /\ UNCHANGED <<answer, age, deadline, seen, lock, nmVars>>

\* Validation of the parameters fails before the first await.
RejectParams(r) ==
  /\ pc[r] = "idle"
  /\ Finish(r, "error")
  /\ UNCHANGED nmVars

\* async with self._connection_lock
MutAcquireHeldLock(r) ==
  /\ pc[r] = "lock"
  /\ lock' = r
  /\ pc' = [pc EXCEPT ![r] = "device"]
  /\ UNCHANGED <<answer, target, age, deadline, seen, nmVars>>
Acquire(r) ==
  /\ pc[r] = "lock"
  /\ lock = NoRequest
  /\ lock' = r
  /\ pc' = [pc EXCEPT ![r] = "device"]
  /\ UNCHANGED <<answer, target, age, deadline, seen, nmVars>>

\* _wifi_device(require_ready=True) finds the managed device...
DeviceReady(r) ==
  /\ pc[r] = "device"
  /\ Goto(r, IF r \in Connects THEN "checkpoint"
             ELSE IF r \in Activates THEN "lookup" ELSE "call")
  /\ UNCHANGED nmVars

\* GetConnectionByUuid, and for an activation the type of the profile.
LookupProfile(r) ==
  /\ pc[r] = "lookup"
  /\ target[r] \in profiles
  /\ r \in Activates => target[r] \notin EthernetProfiles
  /\ Goto(r, IF r \in Activates THEN "checkpoint" ELSE "call")
  /\ UNCHANGED nmVars

\* ... or a call before any change fails: no owner on the bus, no such device,
\* unmanaged device, unknown or non-Wi-Fi profile, D-Bus error.
RefuseEarly(r) ==
  /\ pc[r] \in {"device", "lookup", "checkpoint"}
  /\ Finish(r, "error")
  /\ UNCHANGED nmVars

\* _create_checkpoint
CreateCheckpoint(r) ==
  /\ pc[r] = "checkpoint"
  /\ CanCreate
  /\ ckpt' = [owner |-> r, was |-> ac, known |-> profiles, left |-> CheckpointTimeout]
  /\ fate' = [t \in Transactions |-> IF t = r THEN "open"
                                     ELSE IF t = ckpt.owner THEN "superseded"
                                     ELSE fate[t]]
  /\ Goto(r, "proxy")
  /\ UNCHANGED <<profiles, ac, dev>>

\* nm = await self._interfaces(...), after the checkpoint and before the try.
GetProxy(r) ==
  /\ pc[r] = "proxy"
  /\ Goto(r, "apply")
  /\ UNCHANGED nmVars

\* Its failure leaves through no except clause: the checkpoint stays behind.
GetProxyFails(r) ==
  /\ pc[r] = "proxy"
  /\ Finish(r, "error")
  /\ UNCHANGED nmVars

\* AddAndActivateConnection2 for a connect, ActivateConnection for an activation.
Apply(r) ==
  /\ pc[r] = "apply"
  /\ \/ r \in Connects /\ profiles' = profiles \cup {r}
     \/ r \in Activates /\ target[r] \in profiles /\ UNCHANGED profiles
  /\ ac' = [profile |-> target[r], by |-> r]
  /\ Goto(r, "finish")
  /\ UNCHANGED <<dev, ckpt, fate>>

\* The call is rejected, or _finish_transaction cannot get its proxy: the
\* except clauses of connect and activate_profile.
ApplyFails(r) ==
  /\ pc[r] \in {"apply", "finish"}
  /\ Goto(r, "rollbackOuter")
  /\ UNCHANGED nmVars

\* _verify_activation starts its clock.
MutDeadlineFromCheckpoint(r) ==
  /\ pc[r] = "finish"
  /\ deadline' = [deadline EXCEPT ![r] = age[r] + CheckpointTimeout]
  /\ pc' = [pc EXCEPT ![r] = "verify"]
  /\ UNCHANGED <<answer, target, age, seen, lock, nmVars>>
BeginVerify(r) ==
  /\ pc[r] = "finish"
  /\ deadline' = [deadline EXCEPT ![r] = age[r] + ActivationTimeout]
  /\ pc' = [pc EXCEPT ![r] = "verify"]
  /\ UNCHANGED <<answer, target, age, seen, lock, nmVars>>

\* while loop.time() < deadline: read the device's properties
ReadDevice(r) ==
  /\ pc[r] = "verify"
  /\ age[r] < deadline[r]
  /\ seen' = [seen EXCEPT ![r] = dev]
  /\ pc' = [pc EXCEPT ![r] = "readActive"]
  /\ UNCHANGED <<answer, target, age, deadline, lock, nmVars>>

VerifyTimesOut(r) ==
  /\ pc[r] = "verify"
  /\ age[r] >= deadline[r]
  /\ Goto(r, "rollback")
  /\ UNCHANGED nmVars

\* Read the active connection's state and judge it with the device's, which
\* was read an await earlier. Not there yet: wait for an event, at most 1 s.
MutDeviceStateOnly(r) ==
  /\ pc[r] = "readActive"
  /\ Goto(r, IF seen[r].state = "failed" THEN "rollback"
             ELSE IF seen[r].state = "activated" THEN "readIp4" ELSE "verify")
  /\ UNCHANGED nmVars
ReadActive(r) ==
  /\ pc[r] = "readActive"
  /\ Goto(r, IF seen[r].state = "failed" \/ ActiveState(r) = "deactivated"
             THEN "rollback"
             ELSE IF seen[r].state = "activated" /\ ActiveState(r) = "activated"
             THEN "readIp4" ELSE "verify")
  /\ UNCHANGED nmVars

\* _ip4_details of the Ip4Config object named by the earlier read; a dead path is
\* an error (VerifyFails). An incomplete configuration sends the loop round again.
ReadIp4(r) ==
  /\ pc[r] = "readIp4"
  /\ seen[r].ac # NoActive
  /\ \E next \in {"connectivity", "verify"} : Goto(r, next)
  /\ UNCHANGED nmVars

\* CheckConnectivity answers "full", or "unknown" where checks are disabled.
CheckConnectivity(r) ==
  /\ pc[r] = "connectivity"
  /\ Goto(r, "destroy")
  /\ UNCHANGED nmVars

\* Connectivity "none", "portal" or "limited", or a call inside the try of
\* _finish_transaction raises (CheckpointDestroy included).
VerifyFails(r) ==
  /\ pc[r] \in Verifying \cup {"destroy"}
  /\ Goto(r, "rollback")
  /\ UNCHANGED nmVars

\* CheckpointDestroy: the change is kept.
MutSkipDestroy(r) ==
  /\ pc[r] = "destroy"
  /\ ckpt.owner = r
  /\ Goto(r, "reply")
  /\ UNCHANGED nmVars
DestroyCheckpoint(r) ==
  /\ pc[r] = "destroy"
  /\ ckpt.owner = r
  /\ ckpt' = NoCheckpoint
  /\ fate' = [fate EXCEPT ![r] = "destroyed"]
  /\ Goto(r, "reply")
  /\ UNCHANGED <<profiles, ac, dev>>

\* The first rollback is _finish_transaction's, the second the caller's; each
\* is suppressed when it fails, and fails when the checkpoint is gone.
Rollback(r) ==
  /\ pc[r] \in {"rollback", "rollbackOuter"}
  /\ \/ ckpt.owner = r /\ Restore(r, "rolledBack")
     \/ UNCHANGED nmVars
  /\ IF pc[r] = "rollback" THEN Goto(r, "rollbackOuter") ELSE Finish(r, "error")

\* Device.Disconnect, outside any lock; NetworkManager refuses it when the
\* device has no active connection.
Disconnect(r) ==
  /\ pc[r] = "call"
  /\ r \in Disconnects
  /\ ac # NoActive
  /\ ac' = NoActive
  /\ Goto(r, "reply")
  /\ UNCHANGED <<profiles, dev, ckpt, fate>>

\* Settings.Connection.Delete, outside any lock; an active profile goes down.
DeleteProfile(r) ==
  /\ pc[r] = "call"
  /\ r \in Deletes
  /\ target[r] \in profiles
  /\ profiles' = profiles \ {target[r]}
  /\ ac' = IF ac.profile = target[r] THEN NoActive ELSE ac
  /\ Goto(r, "reply")
  /\ UNCHANGED <<dev, ckpt, fate>>

CallFails(r) ==
  /\ pc[r] = "call"
  /\ Finish(r, "error")
  /\ UNCHANGED nmVars

\* The reply of the last call reaches the handler, which returns.
Reply(r) ==
  /\ pc[r] = "reply"
  /\ Finish(r, "ok")
  /\ UNCHANGED nmVars

Running(r) == pc[r] \notin {"idle", "done"}

\* wait_for cancels the handler. CancelledError is no Exception: no except
\* clause of the handlers runs, only "async with" and "finally".
MutCancelOnlyWithLock(r) ==
  /\ Running(r)
  /\ age[r] = RequestTimeout
  /\ lock = r
  /\ Finish(r, "timeout")
  /\ UNCHANGED nmVars
Cancel(r) ==
  /\ Running(r)
  /\ age[r] = RequestTimeout
  /\ Finish(r, "timeout")
  /\ UNCHANGED nmVars

\* The daemon dies, or is stopped and asyncio.run cancels what is left; systemd
\* starts it again. Nothing of it survives.
Crash ==
  /\ \E r \in Requests : Running(r)
  /\ pc' = [r \in Requests |-> IF Running(r) THEN "done" ELSE pc[r]]
  /\ answer' = [r \in Requests |-> IF Running(r) THEN "lost" ELSE answer[r]]
  /\ age' = [r \in Requests |-> 0]
  /\ deadline' = [r \in Requests |-> 0]
  /\ seen' = [r \in Requests |-> NoDevice]
  /\ lock' = NoRequest
  /\ UNCHANGED <<target, nmVars>>

\* Time passes, but not past a timer that is due.
Tick ==
  /\ \A r \in Requests : Running(r) => age[r] < RequestTimeout
  /\ ckpt.owner # NoRequest => ckpt.left > 0
  /\ age' = [r \in Requests |-> IF Running(r) THEN age[r] + 1 ELSE age[r]]
  /\ ckpt' = IF ckpt.owner = NoRequest THEN ckpt
             ELSE [ckpt EXCEPT !.left = @ - 1]
  /\ UNCHANGED <<pc, answer, target, deadline, seen, lock, profiles, ac, dev, fate>>

-----------------------------------------------------------------------------
Handler(r) ==
  \/ Submit(r) \/ RejectParams(r) \/ DeviceReady(r) \/ LookupProfile(r)
  \/ RefuseEarly(r) \/ CallFails(r) \/ Reply(r)
  \/ Disconnect(r) \/ DeleteProfile(r) \/ Cancel(r)

Transaction(r) ==
  \/ Acquire(r) \/ CreateCheckpoint(r) \/ GetProxy(r) \/ GetProxyFails(r)
  \/ Apply(r) \/ ApplyFails(r) \/ BeginVerify(r) \/ ReadDevice(r) \/ VerifyTimesOut(r)
  \/ ReadActive(r) \/ ReadIp4(r) \/ CheckConnectivity(r) \/ VerifyFails(r)
  \/ DestroyCheckpoint(r) \/ Rollback(r)

NetworkManager ==
  Expire \/ DeviceFollows \/ DeviceActivated \/ DeviceFailed \/ AutoConnect

Next ==
  \/ \E r \in Requests : Handler(r)
  \/ \E r \in Transactions : Transaction(r)
  \/ NetworkManager
  \/ Crash
  \/ Tick

Spec == Init /\ [][Next]_vars

\* Only the clock, the request timeout and the checkpoint timer are sure to
\* run: a D-Bus call may never be answered, a lock may never be handed over.
Fairness == WF_vars(Tick) /\ WF_vars(Expire) /\ \A r \in Requests : WF_vars(Cancel(r))

FairSpec == Spec /\ Fairness

-----------------------------------------------------------------------------
(***************************************************************************)
(* Properties.                                                             *)
(***************************************************************************)

\* A transaction that may still apply, verify or commit its change is covered by
\* its own checkpoint: no other request has destroyed it (_connection_lock) and
\* its timer has not run out (request timeout below checkpoint timeout).
LiveTransactionKeepsItsCheckpoint ==
  \A r \in Transactions : pc[r] \in Live => ckpt.owner = r

\* A delete of profile p that took effect, or may have.
MayBeDeleted(p) ==
  \E d \in Deletes : /\ target[d] = p
                     /\ pc[d] = "reply" \/ answer[d] \in {"ok", "timeout", "lost"}

\* A profile whose wifi.connect was answered "accepted" stays saved until someone
\* deletes it: no rollback or expiry of any other transaction removes it.
AcceptedProfileSurvives ==
  \A c \in Connects : answer[c] = "ok" => c \in profiles \/ MayBeDeleted(c)

\* Once the checkpoint of a wifi.connect was rolled back or expired, nothing of
\* the connect is left: its profile is gone and not active, then and ever after.
RolledBackLeavesNothing ==
  \A c \in Connects : fate[c] \in {"rolledBack", "expired"} =>
                        c \notin profiles /\ ac.profile # c

\* The addresses a transaction reports and accepts are those of the connection it
\* activated, although device, active connection and IP configuration are read
\* in three separate calls while the device is switching over.
AcceptedDetailsAreOwn ==
  \A r \in Transactions :
    pc[r] \in {"connectivity", "destroy"} => seen[r].ac = [profile |-> target[r], by |-> r]

\* README: "Failure rolls back immediately": a wifi.connect answered with the
\* error "timeout" has left no profile behind.
TimeoutRollsBack ==
  \A c \in Connects : answer[c] = "timeout" => c \notin profiles

\* README: "daemon failure lets NetworkManager's checkpoint timeout restore the
\* previous state": a connect cut short by a daemon failure before it was
\* verified leaves nothing behind once its checkpoint has ended.
DaemonFailureIsRestored ==
  \A c \in Connects :
    answer[c] = "lost" /\ fate[c] \notin {"open", "destroyed"} => c \notin profiles

\* Every request is answered or lost with the daemon, even if NetworkManager
\* never answers or another request keeps the lock (wait_for in _handle_client).
EveryRequestEnds == \A r \in Requests : Running(r) ~> pc[r] = "done"

\* With no second transaction to destroy its checkpoint, a connect that did not
\* get verified is undone in the end, whatever ended it.
UnverifiedConnectIsUndone ==
  \A c \in Connects :
    (pc[c] = "done" /\ c \in profiles) ~> (c \notin profiles \/ fate[c] = "destroyed")
-----------------------------------------------------------------------------
(***************************************************************************)
(* The inductive invariant behind the safety properties, in named parts.   *)
(***************************************************************************)

\* Between "lock" and its end a transaction holds _connection_lock.
LockInv ==
  \A r \in Transactions : pc[r] \in Locked \cup {"device", "lookup"} => lock = r

\* Handler and checkpoint clocks add up, so the request times out first.
CoverInv ==
  \A r \in Transactions :
    pc[r] \in Live => ckpt.owner = r /\ ckpt.left + age[r] >= CheckpointTimeout

\* An answer is given once, at the end, and only a destroyed checkpoint leads to "ok".
AnswerInv ==
  /\ \A r \in Requests : answer[r] # "none" => pc[r] = "done"
  /\ \A r \in Transactions :
       pc[r] = "reply" \/ answer[r] = "ok" => fate[r] = "destroyed"
  /\ \A r \in Transactions : pc[r] # "call"

FateInv == \A r \in Transactions : ckpt.owner = r <=> fate[r] = "open"

\* Connect c has not added its profile yet.
NotApplied(c) == pc[c] \in {"idle", "lock", "device", "lookup", "checkpoint", "proxy", "apply"}
Undone(c) == fate[c] \in {"rolledBack", "expired"}

\* A profile that is not there yet, or no more, is nowhere to be restored from; and
\* only the owner of the live checkpoint can have added a profile since.
ProfileInv ==
  /\ \A c \in Connects : NotApplied(c) \/ Undone(c) => c \notin profiles /\ ac.profile # c
  /\ \A c \in Connects : NotApplied(c) \/ Undone(c) \/ ckpt.owner = c =>
                           c \notin ckpt.known /\ ckpt.was.profile # c
  /\ ckpt.owner # NoRequest => profiles \cap Connects \subseteq ckpt.known \cup {ckpt.owner}
  /\ \A c \in Connects : target[c] \in {c, NoProfile} /\ (Running(c) => target[c] = c)

\* From Apply to its acceptance a connect's profile goes only by a delete.
KeptInv ==
  \A c \in Connects :
    \/ pc[c] \in {"finish", "destroy", "reply"} \cup Verifying
    \/ answer[c] = "ok"
    => c \in profiles \/ MayBeDeleted(c)

IInv == TypeOK /\ LockInv /\ CoverInv /\ AnswerInv /\ FateInv /\ ProfileInv /\ KeptInv

\* An active connection asked for by r is for r's profile; a handler that is
\* reading holds the path of the object the device has now, or a dead one.
Own(r) == [profile |-> target[r], by |-> r]
OwnInv ==
  \A r \in Transactions :
    /\ \A a \in {ac, dev.ac, ckpt.was} : a.by = r => a = Own(r) /\ pc[r] # "idle"
    /\ pc[r] \in {"readActive", "readIp4"} => seen[r].ac \in {NoActive, dev.ac}
    /\ pc[r] = "readIp4" => seen[r].ac \in {NoActive, Own(r)}
    /\ pc[r] \in {"connectivity", "destroy"} => seen[r].ac = Own(r)
-----------------------------------------------------------------------------
(***************************************************************************)
(* What the transactions implement.                                        *)
(***************************************************************************)

\* A checkpoint is a change on approval; its end is the change's.
Outcome(f) ==
  CASE f = "open" -> "pending"
    [] f = "destroyed" -> "kept"
    [] f \in {"rolledBack", "expired"} -> "undone"
    [] f = "superseded" -> "abandoned"
    [] OTHER -> "none"

AbstractChange == [t \in Transactions |-> Outcome(fate[t])]
AbstractBefore == [saved |-> ckpt.known, inUse |-> ckpt.was.profile]
AbstractAccepted == {t \in Transactions : answer[t] = "ok"}

Change == INSTANCE ConfigChange WITH
  Changes <- Transactions,
  Adders <- Connects,
  FirstSaved <- Saved,
  saved <- profiles,
  inUse <- ac.profile,
  change <- AbstractChange,
  before <- AbstractBefore,
  accepted <- AbstractAccepted

\* Whatever requests, NetworkManager and crashes do, the configuration moves only
\* as ConfigChange allows: one change on approval, no acceptance of one that was
\* not kept, and an undo that takes back exactly what the change had done.
ImplementsConfigChange == Change!Spec
=============================================================================
