# Verification of the appliance administration daemon

TLA+ models of `src/appliance_admin` and its shell scripts, the TLC runs that check
them on small instances, and TLAPS proofs of the main safety properties. Paths below
are relative to the repository root.

## 1. The system

An unprivileged FastAPI process (`web/`) turns authenticated HTTP requests into one
JSON line each, sent over a Unix socket (`ipc.py`) to a root daemon (`daemon/`). The
daemon checks the peer's identity, dispatches to a handler, bounds it with a timeout
and answers with one line. The handlers change the network through NetworkManager's
D-Bus API, and the host name, services and power state through commands.

| Component | Code | State it keeps | Operations |
|---|---|---|---|
| Network transactions | `managers/network.py` | `_connection_lock`; in NetworkManager: profiles, active connection, device, checkpoint | `connect`, `activate_profile`, `disconnect`, `delete_profile` |
| Wi-Fi scan | `managers/network.py` | `_scan_lock`, `_scan_cache`, `_last_scan_request`, `_last_scan_result` | `scan` |
| Network queries | `managers/network.py` | none but locals | `status`, `profiles`, `readiness`, `_read_access_points` |
| D-Bus connection | `managers/network.py` | `bus` | `start`, `close` |
| Host name | `managers/system.py` | none; Linux name and Avahi name outside | `hostname_set` |
| Services, power | `managers/system.py` | `allowed_services` | `service_*`, `reboot`, `poweroff`, `capabilities` |
| IPC server | `daemon/server.py` | connections, handler table | `start`, `_handle_client`, `close` |
| Daemon process | `daemon/main.py`, `config.py` | settings | `run` |
| IPC client | `ipc.py` | none (one connection per call) | `call` |
| HTTP API | `web/app.py`, `web/auth.py` | none | routes, `require_admin`, `invoke` |
| Recovery publisher | `scripts/publish-recovery-hostname.sh` | child process per address | polling loop |
| Migration, installation | `scripts/*.sh`, `systemd/` | files, units | one-shot scripts |

How they interact: web to daemon by one socket per call, with a timer at each end; the
server runs handlers concurrently in one event loop, so handlers interleave at every
`await`; handlers share the two managers and two locks; NetworkManager, Avahi and
systemd act on their own (signals, timers, autoconnect, collisions) between two calls.

What is hard: a timeout cancels a handler at an arbitrary `await`, and `CancelledError`
is not an `Exception`; rollback is divided between the handler and NetworkManager's
checkpoint timer; `disconnect`, `delete_profile` and `hostname_set` take no lock;
several values are read in separate calls and used together; commands outlive the
handler that started them. `PROJECT.json` lists each hazard at its line.

What makes each part correct:

* transactions: a change is either verified and kept or undone completely; no
  transaction can take away another's safety net; the details reported are those of
  the connection made;
* scan: rate limit, one scan at a time, no answer older than one already given;
* host name: Linux and mDNS name change together or not at all;
* IPC: every call ends, success is only reported for success, each length limit refuses
  only what is beyond it;
* queries: what is answered was true at some moment of the call; an absent backend is
  answered as such; nothing that failed before makes a later query fail;
* services: an accepted action was done by systemd, and no command outlives its handler;
* publisher: the recovery name is published for every address, and only once.

## 2. Modules

| Module | Contents |
|---|---|
| `ConfigChange` | abstract specification: a configuration change is kept, undone or abandoned |
| `NetworkTransaction` | the four network-changing handlers, request timeout, crash, NetworkManager with checkpoints; implements `ConfigChange` |
| `NetworkTransactionProofs`, `ConfigChangeProofs` | its safety theorems; the refinement |
| `HostnameSet`, `HostnameSetProofs` | `hostname.set` with systemd-hostnamed and Avahi |
| `WifiScan`, `WifiScanProofs` | `wifi.scan`: cache, rate limit, lock, `LastScan` signal |
| `AccessPoints` | the merge of access points into networks, and what it must yield |
| `NetworkQueries`, `NetworkQueriesProofs` | the D-Bus connection, readiness, `network.status`, `network.profiles` and the access-point reads; extends `AccessPoints` |
| `RemoteCall` | abstract specification: what a call of the daemon promises to the web process |
| `IpcSession`, `IpcSessionProofs` | a privileged call from HTTP route to handler and back; implements `RemoteCall` |
| `ServiceCalls`, `ServiceCallsProofs` | `IpcSession` composed with the service and power handlers, their `systemctl` and systemd |
| `RecoveryPublisher`, `RecoveryPublisherProofs` | `publish-recovery-hostname.sh` with its child processes and systemd |
| `MC*` | symmetry sets and constants for TLC |

In every module one action is the code from one `await` (in the script: one command) to
the next, `pc` (or `client`/`conn`) names where it waits, and the actions carry the names
of the functions or of what happens there. An operator whose name begins with `Mut` is a
plausible defect of the operator after it; it is used nowhere and serves to show that a
property can fail.

### ConfigChange

The abstract side of a transaction: `saved` and `inUse` are the configuration, `change`
the fate of each change, `before` what the pending one found. `NetworkTransaction` maps
`saved` to `profiles`, `inUse` to `ac.profile`, `change` to `fate` (expired counts as
undone, destroyed by a successor as abandoned), `before` to the checkpoint's contents and
`accepted` to the requests answered `ok`. Reads, locks, timers, the daemon's death and
the delivery of answers are stuttering steps.

### NetworkTransaction

`pc`, `target`, `deadline` and `seen` are the handler's position and locals, `lock` is
`_connection_lock`, `age` the time `wait_for` in the server has measured. `profiles`,
`ac`, `dev`, `ckpt` are NetworkManager's, `fate` records how each checkpoint ended.

| Code | Actions |
|---|---|
| dispatch and validation | `Submit`, `RejectParams` |
| `async with self._connection_lock` | `Acquire` |
| `_wifi_device`, profile lookup | `DeviceReady`, `LookupProfile`, `RefuseEarly` |
| `_create_checkpoint` | `CreateCheckpoint` (`CheckpointFlags`) |
| proxy between checkpoint and `try` | `GetProxy`, `GetProxyFails` |
| add/activate | `Apply`, `ApplyFails` |
| `_verify_activation` | `BeginVerify`, `ReadDevice`, `ReadActive`, `ReadIp4`, `CheckConnectivity`, `VerifyTimesOut`, `VerifyFails` |
| `_finish_transaction`, except clauses | `DestroyCheckpoint`, `Rollback` |
| `disconnect`, `delete_profile` | `Disconnect`, `DeleteProfile`, `CallFails` |
| return | `Reply` |
| `wait_for` timeout, daemon failure | `Cancel`, `Crash` |

External, from how the code uses it: `Restore`, `Expire`, `CanCreate`, `DeviceFollows`,
`DeviceActivated`, `DeviceFailed`, `AutoConnect`, `ActiveState`, `Ip4ConfigGone`.

Abstractions. Connection settings are the profile they become (`uuid4` makes it new). A
D-Bus call has its effect when its action happens; NetworkManager handles calls in
order, so a call in flight when its handler is cancelled has either had its effect or is
counted as not made. The device's `Ip4Config` object dies with the connection it
configures, so a path read earlier is dead once the device has moved on. A rollback
re-adds a deleted profile that must be active again and removes those added since the
checkpoint (`CHECKPOINT_DELETE_NEW_CONNECTIONS`).

### HostnameSet

A setting command starts when the handler reaches its `await` (`cmd = "running"`), takes
effect once (`TakesEffect`) and is then reaped, or fails or is killed before or after
its effect. `Cancel` leaves a running command behind in `orphans`. `spent` adds up the
time limits of the awaits passed so far; the request timeout can strike once they reach
it. Starting and reaping a process counts as no time, so the model has fewer, not more,
timeouts than the code. hostnamed and Avahi serve their callers in order: a command
killed before its effect has none that could come after a later command's. `Lower` is
`str.lower`, and names compare as the code compares them. `alone` marks the requests
that overlapped with no other and with no orphan.

### WifiScan

| Code | Actions |
|---|---|
| the cache test, before the lock | `AnswerFromCache`, `GoForLock` |
| `async with self._scan_lock` | `Acquire` |
| `_wifi_device` and, under the lock, the `scan_min_interval` test | `DeviceReady` |
| `LastScan`, `RequestScan` | `ReadPrevious`, `RequestScan`, `RequestFails` |
| wait for the event, recheck | `EventSet`, `WaitTimesOut`, `Recheck` |
| success, failure with and without a cache | `ScanSucceeds`, `ScanFails`, `GoOn` |
| reading and storing the list | `ReadAccessPoints`, `StoreResult` |
| errors, request timeout | `Refuse`, `Cancel` |

An access-point list is a version number and whether it is empty; its merge is in
`AccessPoints`, and that it is read in several calls in `NetworkQueries`. `ScanCompletes`
may set the event or miss it (the race the comment at `network.py:370` describes).
`scannedAt` records when a scan was completed, `fellBack` that a request's scan failed and
the answer is what was known, `gap` the distance between the last two accepted
`RequestScan` calls. The monotonic clock starts at boot, the daemon later.

### AccessPoints and NetworkQueries

`Merge` is one turn of the loop of `_read_access_points`; `Represents` says, without the
loop, what the result must be for a set of access points: an entry per SSID and security,
with the strongest access point, all BSSIDs, and the active flag. A BSSID seen twice in one
network (`Twins`), where only the first object's flag counts, is excepted.

| Code | Actions |
|---|---|
| `main.run` readiness, `start()` | `Begin`, `Connect`, `ConnectFails` (caller `Boot`) |
| `_name_has_owner` | `NameHasOwner`, `NotActive` |
| `_interfaces`, then a call on the proxy | `GetProxy` and the action of the call |
| `_wifi_device` | `ListDevices`, `DeviceReady`, `NotManaged` |
| `status`: NetworkManager, devices, connection, IP, SSID | `Status`: `ReadStatus`, `ReadPrimary`, `StatusDevices`, `ReadProps`, `ReadName`, `ReadIp4Config`, `ReadLink`, `ReadSsid` |
| `profiles` | `ProfileList`: `ReadActive`, `ReadUuid`, `ListConnections`, `GetSettings` |
| `_read_access_points` | `ApRead`: `ReadActiveAp`, `ListAps`, `ReadAp` |
| `DBusError` inside and outside a `try` | `CallFails` (`unavailable` or `internal`) |
| `wait_for`, daemon stop (`close`) or death | `Cancel`, `Restart` |

External: dbus, NetworkManager, the adapter, connections, profiles and access points come
and go (`Environment`) between any two calls. A call fails exactly when its object,
NetworkManager or the connection is gone. `hist` records what was true while a request
ran. A profile names its active connection, so a connection that is taken down and up
again between two reads is the same object here; properties that are read and passed on in
one step (state, carrier, routes) are left out. Any device may be Wi-Fi (`WifiDevices`), and
each that has an access point writes the one `wifi_ssid`; only the configured adapter
(`WifiDevice`) comes and goes, the others keep their place in the list. An access point read
for its SSID is named after the connection the device had when its path was read. A device
that is there but not managed can be read on (the reads after `_wifi_device` do not ask), or
is gone.

### RemoteCall

The abstract side of a call: `outcome` is what its caller knows, `work` what has become of
the handler. Work begins at most once; a call succeeds after its work has, and otherwise
ends only when no work is under way, or only work that was begun late; a refused call has
none. `IpcSession` maps `outcome` to what HTTP told (`refused` when no connection was made)
and `work` to whether and how the handler ended; the handler is `late` when its request
timeout reaches beyond the client's. Sockets, lines, authorization, clocks and a daemon
without running handlers stutter.

### IpcSession and ServiceCalls

`client` follows the route, `invoke` and `DaemonClient.call`; `conn` follows
`_handle_client`. Lines are their lengths. The two ends have limits of their own:
`ClientMaxBytes` is the default of `DaemonClient` (65536, `ipc.py:18`), which `app.py:21` does
not set from any setting; `MaxRequestBytes` is the daemon's `max_request_bytes`
(`config.py:27`). Peer identity, JSON and action names are
nondeterministic verdicts of the code that judges them. `Stop`, `Exit` and `Start` are
`IPCServer.close`, the end of the process for any reason, and the restart by systemd.

`ServiceCalls` gives the handler of a service or power action its inside: `Dispatch`
(`_validate_service`), `Spawn`, `CommandEnds`, `CommandTimesOut` (`_run_command`'s own
limit, which kills and reaps the command), `RequestTimesOut` (which does not). `cmd` is the
process, `job` systemd's one job for the unit, which outlives a killed `systemctl`
(`JobEnds`), merges with an equal and cancels a contrary one (`NewJob`), also when somebody
else asks (`OthersSubmit`). `StopAll` and `StartAgain` are systemd's control-group kill and
restart. All other handlers are one step (`OtherHandlerEnds`): their inside is the subject
of the other modules.

### RecoveryPublisher

| Script | Actions |
|---|---|
| `hostname` and its comparison | `ReadHostname`, `HostnameFails` |
| `stop_all` in the loop | `StopNext`, `StopPublisher` |
| `ip ... | awk` | `ReadAddresses`, `IpFails` |
| loop over publishers | `ReapNext`, `ReapAddress` |
| loop over addresses | `StartNext` |
| `sleep` | `Wake` |
| traps, SIGTERM, SIGKILL, death | `Term`, `Exit`, `Kill`, `Crash` |
| systemd | `CleanUp`, `Restart` |

`publishers` is the array of the script, `proc` the processes that run. The trap runs
`stop_all` between any two commands and does not exit; the loop goes on with emptied
arrays unless a killed `sleep` or command substitution ends it (`set -e`), or an unset
element does (`set -u`). `asked` is a history variable: what the turn is to leave behind,
nothing from the moment it finds the recovery name to be the system's own, the addresses of
its poll from then on. No guard reads it; it lets `SleepsAsPolled` tell the two kinds of turn
apart. An id is not given to a new process while the script remembers it.

## 3. Runs

| Run | Instance | Shows |
|---|---|---|
| `txn_race` | connect + activate + delete, no saved profile, timers 2/1/3 | refinement of `ConfigChange`; live transactions keep their checkpoint; an accepted profile goes only by a delete; the reads of a transaction belong together |
| `txn_fair` | connect + disconnect, one saved profile, 2/1/3, fair | details accepted are the transaction's own; rollback leaves nothing; every request ends; an unverified connect is undone |
| `host_pair` | 2 requests, 3 names of which 2 differ only by case, 30 s | what a lone request is told is true |
| `scan_shared` | 2 requests, interval 2, cache 1, wait 1, clock to 6 | answers do not go back, only completed scans count, a list read is accounted for |
| `queries` | 1 status, 1 profile list, 1 access-point read, 2 Wi-Fi devices, 2 profiles, 3 access points | answers were true, failures are typed, one connection, networks represent |
| `ipc_calls` | 1 call, ticks of 5 s: 6/7 (30 and 35 s), 4 and 1 (20 and 5 s), limits 3 (client) and 2 (daemon), lengths 2..4, fair | every call is answered; success is the handler's and systemd's; nesting of four timers; each limit refuses what is beyond it, to the byte; refinement of `RemoteCall` |
| `publisher` | 2 addresses, 3 process ids, fair | one publisher per address, each turn leaves what its poll asked for, or nothing beside the native record, the name gets published or is left to Avahi |
| `txn_timeout`, `txn_crash` | 1 and 2 connects, 6/5/9 (30, 25, 45 s) | disagreements, section 5 |
| `host_timeout`, `host_race` | 1 and 2 requests, 30 s | disagreements, section 5 |
| `scan_rate` | as `scan_shared` | disagreement, section 5 |

Transaction timers are request/activation/checkpoint.

Bounds. Timers are numbers of ticks; what matters is their order (activation < request <
checkpoint, command < server < client) and that each can be reached before and after the
others, so the smallest values in the right order are used where the state space demands
it and the real ratios where a run shows a disagreement. Two or three requests are enough
for every pairwise interleaving. Calls share only the daemon's life and the unit's job, and
`OthersSubmit` does to the job what a second call would, so one call is checked (two have
more than ten million states); the theorems cover any number. In `WifiScan`, `MaxClock`,
`MaxScans` and `MaxVersion` bound the clock, the completed scans and the changes of the
list: three times the scan interval, so a second and a third scan are asked for. In
`NetworkQueries`, `MaxChanges` (2) bounds the changes of the world, among them restarts of
the daemon, and `MaxRequests` (2) the requests of a behaviour: two changes are what it takes
to remove and replace an object between two reads, or to lose dbus and get it back, and two
requests to race in `start()`; access points leave only while they are read. Its three
access points are of one network, two with the same BSSID. Both its devices are Wi-Fi, so each may
be the one whose SSID is told; one without a connection stands for wired ones too (checked
apart with a third, wired device and one request: 31,977 states). In `ipc_calls` the daemon's
limit is the lower one, so the daemon has something to refuse; the opposite order was checked
apart (limits 2 and 3, 81,608 states). `scan_shared`, `scan_rate` and
`queries` end where their bounds do (`CHECK_DEADLOCK FALSE`); in the others something can
always happen. The publisher was also checked with 3 addresses and 4 ids (423,392 states).

Fairness. `FairSpec` of `NetworkTransaction` assumes that time passes, that the event
loop fires the request timeout, and that NetworkManager fires its checkpoint timer; it
does not assume that a D-Bus call is answered or that a lock is handed over. `FairCallSpec`
of `ServiceCalls` assumes that time passes, that both event loops fire their timers, and
that the daemon's loop starts commands and notices their end; it assumes nothing of
`systemctl`, systemd, the other handlers, the daemon's restart or the connection. `Spec` of
`RecoveryPublisher` assumes that the script is scheduled and that systemd kills what does
not stop, clears what is left and starts the service again; its two liveness properties
hold from the moment that `hostname`, `ip`, script and publishers stop failing and the
addresses and the host name stay, whatever happened before.

## 4. Proofs

For every set of requests, profiles, names, addresses and processes, and every timeout:

* `NetworkTransactionProofs`. `TypeCorrectness`; `InductiveInvariant` for
  `IInv = TypeOK /\ LockInv /\ CoverInv /\ AnswerInv /\ FateInv /\ ProfileInv /\ KeptInv`;
  from it `LiveCheckpoint`, `RollbackIsComplete` and `AcceptedSurvives`; and
  `ReadsBelongTogether` and `AcceptedIsOwn`, from `OwnInv` and `TypeOK`. The argument: a
  transaction past `Acquire` holds the lock, so no other can create a checkpoint
  (`LockInv`); its handler's age and the checkpoint's remaining time add up to at least the
  checkpoint timeout (`CoverInv`), so with `RequestTimeout < CheckpointTimeout` it is
  cancelled before its checkpoint expires; hence the live checkpoint is its own. Profiles
  that are not applied yet or already undone appear in no place they could be restored
  from, and only the checkpoint's owner can have added a profile since it was made
  (`ProfileInv`), so neither a rollback nor an expiry touches an accepted profile
  (`KeptInv`).
* `ConfigChangeProofs`. `Refinement`: `Spec => ImplementsConfigChange`, step by step from
  `IInv` and two more facts: everything in use or to be restored is saved or remembered
  (`SavedInv`), and a request begins at most one change (`OnceInv`).
* `HostnameSetProofs`. `TypeCorrectness`, `InductiveInvariant`, `Accepted`, `Restored`.
  `AloneInv` says a lone request shares the names with nobody, so what its own commands
  set stays set (`LinuxInv`); Avahi's name is the requested one or the collision name, and
  after `GetState` has answered RUNNING a name still being registered can only be the
  collision name (`AvahiInv`), which the comparison refuses.
* `WifiScanProofs`. `TypeCorrect`, `CountedScans`, `ListsAreAccountedFor`,
  `AnswersInOrder`. Whoever is past `Acquire` holds the lock (`LockInv`), so the cache is
  never newer than what the next reader reads and never older than what was told
  (`VersionInv`); the event is only set for a scan that completed after the request's own
  `previous` (`EventInv`); what a reader goes on with is carried from the branch it took
  (`AccountInv`).
* `NetworkQueriesProofs`. `MergeRepresents`, on the operators alone: one more access point
  merged and the networks represent it with the others, in any order;
  `NetworksStandForTheirAccessPoints`, `OneConnection` and `TypeCorrect` for the queries. A
  caller can only be between the test of `self.bus` and the connection while nothing is
  open or the readiness check failed to open it (`ConnInv`). `HealthyAnswered`,
  `AbsenceTyped`, `StatusIsTrue` and `ListIsTrue` follow from `QueryInvariant`, which says of
  each request by itself (`RequestOK`) how its locals relate to `hist`. None of the four
  properties is inductive: they speak of the answer, the invariant of every await before
  it. While a request runs, its window holds the world as it is and only grows
  (`WindowOf`), so what it has read stays true of it (`StatusTrue`, `ListTrue`); as long as
  nothing has gone away, what it is about to read is there (`WellOf`, `AtHand`), so no call
  of it can fail; and one that found no backend never gets past `_wifi_device`, nor loses
  the backend between a proxy and the call on it (`AbsentOf`). A step of one request leaves
  all others as they are (`AloneKeeps`), except the end of the process (`LeaveOK`) and a
  change of the world, which is taken once for all its kinds (`WorldMoves`).
* `IpcSessionProofs`. `TypeCorrectness`, `InductiveInvariant`, `TimersAreNested`,
  `SuccessIsReal`, `LimitsAreKept`: for any two limits, the daemon finds oversized only what
  lies beyond its own and within the client's (`SizeInv`). `LimitsAgree`: with
  `ClientMaxBytes <= MaxRequestBytes`, an assumption of this theorem alone, that is nothing.
  `ClockInv` ties the client's clock to the server's,
  `VerdictInv` a status to the handler that ran. `CallsAreRemote`: `Spec =>
  ImplementsRemoteCall`, from these and `OnceInv`: a handler is only called for a connection
  that had none, and has a verdict once it has ended. Each step of one call moves its
  outcome or its work, never both (`Moves`); only the daemon's end moves several.
* `ServiceCallsProofs`. `CallsAreSessions`: the composition implements `IpcSession`, so the
  theorems above hold of it, `ServiceCallsAreRemote` among them; `Accepted` and `CommandsAreOwned` from them and `CommandInv`: a
  living command belongs to a handler that is younger than the command's limit, and one
  that exited well has had its job done.
* `RecoveryPublisherProofs`. `InductiveInvariant`, `PublishedOnce`, `TurnsAreComplete`. While
  the script runs, every process is the one `publishers` names for its address (`Known`) -
  in every handler of a signal and at every start, because what is left is killed first;
  `LoopInv` says what each inner loop has still to visit, and what the turn is to leave.

Assumptions: the constants' types, disjointness of the kinds of requests,
`RequestEndsBeforeCheckpoint` and `ServiceAssumption`, which the defaults (30, 45, 20 and
5 s) satisfy but no code enforces; for `LimitsAgree` also that the client's limit is not above
the daemon's, likewise. Each inductive invariant was checked by TLC on the instance
of its run before it was proved; those of the transactions, the host name, the calls and the
publisher stay in the runs, those of the scan and the queries (`QueryInv`, 1,754,126
states) are left out of them for their cost. The assumptions are evaluated in every run.

Only model-checked: the liveness properties (`EveryRequestEnds`, `UnverifiedConnectIsUndone`,
`EveryCallIsAnswered`, `AddressIsPublished`, `NameIsLeftToAvahi`), because fairness is outside
the prover's reach. Every invariant and action property of a passing run is a theorem.

## 5. Where the documentation and the code disagree

* `txn_timeout`: README "Failure rolls back immediately". A request timeout cancels the
  handler and skips both rollbacks; the profile stays until the checkpoint expires.
* `txn_crash`: README "daemon failure lets NetworkManager's checkpoint timeout restore
  the previous state". The next transaction's `CHECKPOINT_DESTROY_ALL` destroys that
  checkpoint first, and the unverified profile stays for good.
* `host_timeout`: `hostname_transactional` (`system.py:172`). The limits of the commands
  and of their rollback add up to more than the request timeout, which cancels them
  half way; the two names differ.
* `host_race`: README "Persist a validated single-label hostname and publish it live
  through Avahi". Two unlocked requests can both be accepted with one's name persisted
  and the other's published.
* `scan_rate`: README on `APPLIANCE_ADMIN_SCAN_MIN_INTERVAL_SECONDS`. A scan that was
  accepted but not completed in 8 s does not count.

Exceptions a reader of the properties should know, each written into the property that
needs it:

* `ListIsAccountedFor`: a list, also an empty one, is answered as fresh without a recent
  scan in the first `scan_min_interval` after boot (`_last_scan_request` is 0.0 on a clock
  that starts at boot) and when the scan failed and there is a cached list.
* `HealthyIsAnswered`: once dbus has dropped the connection, `self.bus` stays set and no
  later query of that process succeeds; the comment at `main.py:37` expects recovery.
* `AbsenceIsTyped`: NetworkManager or the connection going away between a proxy and the
  bare call on it is answered `internal_error`.
* `StatusWasTrue`: each entry is true by itself; two entries may be from different moments.
  With several Wi-Fi adapters `wifi_ssid` is that of whichever connected one is listed last,
  not of the configured one (`network.py:270-277`).
* `OnlyTheLimitsRefuse`: a daemon whose `max_request_bytes` is set below 65536 refuses, as an
  invalid request, lines its own client lets pass; one set above it gains nothing.
* `ConnectedOnce`: two first requests after a readiness check that could not connect may open
  two connections; the first is then never closed.
* A reboot or poweroff that systemd accepted normally stops the daemon before it replies,
  so `AcceptedIsDone` is stated in one direction only.

## 6. Not modelled

* The migration script: sequential, run once under an administrator's eyes, with its effect
  in programs outside the repository; a model would repeat it line by line.
* Installer, package and unit files beyond `Restart=` and the control-group kill.
* Token decoding (PyJWT), JSON and field validation (pydantic): nondeterministic refusals.
* Logging, parsing of settings, `capabilities` (constants), `/healthz` (no state).
* The contents of connection settings, of `service.status`, and of the properties a query
  passes on unchanged. A restart of NetworkManager during a transaction is modelled by the
  failing calls it causes, not by the loss of its checkpoints.
* Reuse of a process id by an unrelated process while the publisher script remembers it.

## 7. What remains

Everything with state in the daemon, its clients and the publisher is modelled. What could
be added: two concurrent calls in `ServiceCalls` if a larger machine allows, the loss of
checkpoints in a restart of NetworkManager, and the publisher composed with `HostnameSet`
(each has the other's only effect, the host name, as a free variable already).
