------------------------------ MODULE WifiScan ------------------------------
(***************************************************************************)
(* wifi.scan of NetworkManager (daemon/managers/network.py): concurrent    *)
(* requests share a result cache, a rate limit on D-Bus scans and a lock;  *)
(* a scan is complete when the device's LastScan property changes.         *)
(*                                                                         *)
(* One action is the code from one await to the next. D-Bus calls have no  *)
(* time limit of their own, so the request timeout strikes at any await.   *)
(* An access-point list is its version and whether it is empty.            *)
(***************************************************************************)
EXTENDS Integers

CONSTANTS
  Requests,      \* wifi.scan requests
  NoRequest,
  MinInterval,   \* scan_min_interval, in ticks
  CacheTime,     \* scan_cache_seconds, in ticks
  ScanWait,      \* min(8.0, activation_timeout), in ticks
  RequestTimeout, \* request_timeout_seconds, in ticks
  MaxClock,      \* bound: the clock stops here
  MaxScans,      \* bound: scans NetworkManager completes
  MaxVersion     \* bound: changes of the access-point list

ASSUME ConstantsAssumption ==
  /\ NoRequest \notin Requests
  /\ MinInterval \in Nat \ {0} /\ CacheTime \in Nat /\ ScanWait \in Nat
  /\ RequestTimeout \in Nat \ {0}
  /\ MaxClock \in Nat /\ MaxScans \in Nat /\ MaxVersion \in Nat

VARIABLES
  \* the manager
  lastRequest,  \* _last_scan_request
  lastResult,   \* _last_scan_result
  cache,        \* _scan_cache
  lock,         \* holder of _scan_lock
  \* the handlers
  pc,           \* the await each request is at
  started,      \* when the handler was called
  now,          \* time.monotonic() under the lock
  previous,     \* LastScan before the scan was requested
  finished,     \* the event that the property callback sets
  waiting,      \* when the wait for the event began
  result,       \* the access points read, or answered
  answer,       \* what the requester was told
  \* NetworkManager and the clock
  clock,        \* time.monotonic(): ticks since boot
  lastScan,     \* the LastScan property: counts completed scans
  scanning,     \* a scan is under way
  aps,          \* the access points known now
  \* history
  told,         \* version of the list told last
  lastCall,     \* when NetworkManager last accepted RequestScan; -1: never
  gap,          \* ticks between the last two accepted calls
  scannedAt,    \* when NetworkManager last completed a scan; -1: never
  fellBack      \* the scan of this request failed and it answers what is known

managerVars == <<lastRequest, lastResult, cache, lock>>
handlerVars == <<pc, started, now, previous, finished, waiting, result, answer>>
nmVars == <<clock, lastScan, scanning, aps>>
historyVars == <<told, lastCall, gap, scannedAt, fellBack>>
vars == <<managerVars, handlerVars, nmVars, historyVars>>

Lists == [version : 0..MaxVersion, empty : BOOLEAN]
NoList == [version |-> 0, empty |-> TRUE]
Scanning == {"request", "wait", "recheck"}   \* inside _request_scan_and_wait
Holding == {"device", "previous", "read", "store"} \cup Scanning

TypeOK ==
  /\ lastRequest \in 0..MaxClock /\ lastResult \in 0..MaxClock
  /\ cache \in Lists
  /\ lock \in Requests \cup {NoRequest}
  /\ pc \in [Requests -> {"idle", "lock", "done"} \cup Holding]
  /\ started \in [Requests -> 0..MaxClock]
  /\ now \in [Requests -> 0..MaxClock]
  /\ previous \in [Requests -> 0..MaxScans]
  /\ finished \in [Requests -> BOOLEAN]
  /\ waiting \in [Requests -> 0..MaxClock]
  /\ result \in [Requests -> Lists]
  /\ answer \in [Requests -> {"none", "cached", "fresh", "busy", "error", "timeout"}]
  /\ clock \in 0..MaxClock /\ lastScan \in 0..MaxScans
  /\ scanning \in BOOLEAN /\ aps \in Lists
  /\ told \in 0..MaxVersion /\ lastCall \in -1..MaxClock
  /\ gap \in 0..MaxClock \cup {MinInterval}
  /\ scannedAt \in -1..MaxClock /\ fellBack \in [Requests -> BOOLEAN]

\* The daemon starts at any time after boot, when NetworkManager may know access
\* points already.
Init ==
  /\ clock \in 0..MaxClock
  /\ lastRequest = 0 /\ lastResult = 0 /\ cache = NoList /\ lock = NoRequest
  /\ pc = [r \in Requests |-> "idle"]
  /\ started = [r \in Requests |-> 0]
  /\ now = [r \in Requests |-> 0]
  /\ previous = [r \in Requests |-> 0]
  /\ finished = [r \in Requests |-> FALSE]
  /\ waiting = [r \in Requests |-> 0]
  /\ result = [r \in Requests |-> NoList]
  /\ answer = [r \in Requests |-> "none"]
  /\ lastScan = 0 /\ scanning = FALSE
  /\ aps \in [version : {0}, empty : BOOLEAN]
  /\ told = 0 /\ lastCall = -1 /\ gap = MinInterval
  /\ scannedAt = -1 /\ fellBack = [r \in Requests |-> FALSE]

-----------------------------------------------------------------------------
(***************************************************************************)
(* NetworkManager and time (external).                                     *)
(***************************************************************************)

Tick ==
  /\ clock < MaxClock
  /\ clock' = clock + 1
  /\ UNCHANGED <<managerVars, handlerVars, historyVars, lastScan, scanning, aps>>

\* A scan completes and LastScan changes. The signal reaches every handler that has
\* subscribed, unless it raced with the subscription. A scan of NetworkManager's
\* own accord completes the same way.
ScanCompletes ==
  /\ lastScan < MaxScans
  /\ lastScan' = lastScan + 1
  /\ scanning' = FALSE
  /\ scannedAt' = clock
  /\ \/ UNCHANGED finished
     \/ finished' = [r \in Requests |->
                       IF pc[r] \in {"request", "wait"} /\ lastScan' # previous[r]
                       THEN TRUE ELSE finished[r]]
  /\ UNCHANGED <<managerVars, pc, started, now, previous, waiting, result, answer, clock, aps,
                 told, lastCall, gap, fellBack>>

\* Access points come and go; with the radio off none is left.
ListChanges ==
  /\ aps.version < MaxVersion
  /\ \E e \in BOOLEAN : aps' = [version |-> aps.version + 1, empty |-> e]
  /\ UNCHANGED <<managerVars, handlerVars, historyVars, clock, lastScan, scanning>>

-----------------------------------------------------------------------------
(***************************************************************************)
(* scan, _request_scan_and_wait and _read_access_points.                   *)
(***************************************************************************)

Goto(r, next) == pc' = [pc EXCEPT ![r] = next]

\* Return or raise; the locals go and "async with" frees the lock.
Finish(r, a) ==
  /\ Goto(r, "done")
  /\ answer' = [answer EXCEPT ![r] = a]
  /\ lock' = IF lock = r THEN NoRequest ELSE lock
  /\ finished' = [finished EXCEPT ![r] = FALSE]
  /\ started' = [started EXCEPT ![r] = 0]
  /\ now' = [now EXCEPT ![r] = 0]
  /\ previous' = [previous EXCEPT ![r] = 0]
  /\ waiting' = [waiting EXCEPT ![r] = 0]
  /\ fellBack' = [fellBack EXCEPT ![r] = FALSE]
  /\ UNCHANGED <<lastCall, gap, scannedAt>>

\* The cache is recent enough for a request that does not force a scan.
AnswerFromCache(r) ==
  /\ pc[r] = "idle"
  /\ ~cache.empty
  /\ clock - lastResult < CacheTime
  /\ Finish(r, "cached")
  /\ result' = [result EXCEPT ![r] = cache]
  /\ told' = cache.version
  /\ UNCHANGED <<lastRequest, lastResult, cache, nmVars>>

\* It is not, or a scan is forced.
GoForLock(r) ==
  /\ pc[r] = "idle"
  /\ Goto(r, "lock")
  /\ started' = [started EXCEPT ![r] = clock]
  /\ UNCHANGED <<managerVars, now, previous, finished, waiting, result, answer, nmVars,
                 historyVars>>

MutShareLock(r) ==
  /\ pc[r] = "lock"
  /\ lock' = r
  /\ Goto(r, "device")
  /\ UNCHANGED <<lastRequest, lastResult, cache, started, now, previous, finished, waiting, result,
                 answer, nmVars, historyVars>>
Acquire(r) ==
  /\ pc[r] = "lock"
  /\ lock = NoRequest
  /\ lock' = r
  /\ Goto(r, "device")
  /\ UNCHANGED <<lastRequest, lastResult, cache, started, now, previous, finished, waiting, result,
                 answer, nmVars, historyVars>>

\* The device is ready: scan unless a scan succeeded less than MinInterval ago.
DeviceReady(r) ==
  /\ pc[r] = "device"
  /\ now' = [now EXCEPT ![r] = clock]
  /\ IF clock - lastRequest >= MinInterval
     THEN Goto(r, "previous")
     ELSE Goto(r, "read")
  /\ UNCHANGED <<managerVars, started, previous, finished, waiting, result, answer, nmVars,
                 historyVars>>

\* Read LastScan, then subscribe to its changes.
ReadPrevious(r) ==
  /\ pc[r] = "previous"
  /\ previous' = [previous EXCEPT ![r] = lastScan]
  /\ Goto(r, "request")
  /\ UNCHANGED <<managerVars, started, now, finished, waiting, result, answer, nmVars, historyVars>>

\* RequestScan is accepted, and the wait for the event begins.
RequestScan(r) ==
  /\ pc[r] = "request"
  /\ scanning' = TRUE
  /\ lastCall' = clock
  /\ gap' = IF lastCall = -1 THEN MinInterval ELSE clock - lastCall
  /\ waiting' = [waiting EXCEPT ![r] = clock]
  /\ Goto(r, "wait")
  /\ UNCHANGED <<managerVars, started, now, previous, finished, result, answer, clock, lastScan, aps,
                 told, scannedAt, fellBack>>

\* _request_scan_and_wait returns.
MutStoreNextTime(r) ==
  /\ lastRequest' = now[r] + MinInterval
  /\ Goto(r, "read")
  /\ UNCHANGED <<lastResult, cache, lock, started, now, previous, finished, waiting, result, answer,
                 nmVars, historyVars>>
ScanSucceeds(r) ==
  /\ lastRequest' = now[r]
  /\ Goto(r, "read")
  /\ UNCHANGED <<lastResult, cache, lock, started, now, previous, finished, waiting, result, answer,
                 nmVars, historyVars>>

\* It raises anything but NetworkBackendUnavailableError: with a cache the request
\* goes on as if it had not been tried.
GoOn(r) ==
  /\ Goto(r, "read")
  /\ UNCHANGED <<lock, started, now, previous, finished, waiting, answer, told, lastCall, gap,
                 scannedAt>>
MutGoOnWithoutCache(r) ==
  GoOn(r) /\ fellBack' = [fellBack EXCEPT ![r] = ~cache.empty]
ScanFails(r) ==
  \/ cache.empty /\ Finish(r, "busy") /\ UNCHANGED told
  \/ ~cache.empty /\ GoOn(r) /\ fellBack' = [fellBack EXCEPT ![r] = TRUE]

\* NetworkManager rejects RequestScan.
RequestFails(r) ==
  /\ pc[r] = "request"
  /\ ScanFails(r)
  /\ UNCHANGED <<lastRequest, lastResult, cache, result, nmVars>>

EventSet(r) ==
  /\ pc[r] = "wait"
  /\ finished[r]
  /\ ScanSucceeds(r)

\* No event in time: the signal may have been missed, so look at LastScan again.
WaitTimesOut(r) ==
  /\ pc[r] = "wait"
  /\ ~finished[r]
  /\ clock - waiting[r] >= ScanWait
  /\ Goto(r, "recheck")
  /\ UNCHANGED <<managerVars, started, now, previous, finished, waiting, result, answer, nmVars,
                 historyVars>>

MutTrustTimeout(r) ==
  /\ pc[r] = "recheck"
  /\ ScanSucceeds(r)
Recheck(r) ==
  /\ pc[r] = "recheck"
  /\ \/ lastScan # previous[r] /\ ScanSucceeds(r)
     \/ /\ lastScan = previous[r]
        /\ ScanFails(r)
        /\ UNCHANGED <<lastRequest, lastResult, cache, result, nmVars>>

\* _read_access_points: GetAllAccessPoints, then the properties of each.
ReadAccessPoints(r) ==
  /\ pc[r] = "read"
  /\ result' = [result EXCEPT ![r] = aps]
  /\ Goto(r, "store")
  /\ UNCHANGED <<managerVars, started, now, previous, finished, waiting, answer, nmVars,
                 historyVars>>

StoreResult(r) ==
  /\ pc[r] = "store"
  /\ cache' = result[r]
  /\ lastResult' = clock
  /\ Finish(r, "fresh")
  /\ told' = result[r].version
  /\ UNCHANGED <<lastRequest, result, nmVars>>

\* Unknown parameter, no NetworkManager, no usable device, D-Bus error.
Refuse(r) ==
  /\ pc[r] \in {"idle", "device", "previous", "recheck", "read", "store"}
  /\ Finish(r, "error")
  /\ UNCHANGED <<lastRequest, lastResult, cache, result, nmVars, told>>

\* The request timeout cancels the handler; what it asked NetworkManager for goes on.
Cancel(r) ==
  /\ pc[r] \notin {"idle", "done"}
  /\ clock - started[r] >= RequestTimeout
  /\ Finish(r, "timeout")
  /\ UNCHANGED <<lastRequest, lastResult, cache, result, nmVars, told>>

-----------------------------------------------------------------------------
Handler(r) ==
  \/ AnswerFromCache(r) \/ GoForLock(r) \/ Acquire(r) \/ DeviceReady(r)
  \/ ReadPrevious(r) \/ RequestScan(r) \/ RequestFails(r) \/ EventSet(r)
  \/ WaitTimesOut(r) \/ Recheck(r) \/ ReadAccessPoints(r) \/ StoreResult(r)
  \/ Refuse(r) \/ Cancel(r)

Next == Tick \/ ScanCompletes \/ ListChanges \/ \E r \in Requests : Handler(r)

Spec == Init /\ [][Next]_vars

-----------------------------------------------------------------------------
(***************************************************************************)
(* Properties.                                                             *)
(***************************************************************************)

\* Whether from the cache or from NetworkManager, in whatever order the requests
\* run and are cancelled, no requester is shown an older list than the one before.
AnswersDoNotGoBack == [][told' >= told]_vars

\* _last_scan_request is the time of a scan that did complete, at that time or later,
\* also when its signal was missed or came from a scan of NetworkManager's own accord.
CountedScansCompleted == lastRequest > 0 => scannedAt >= lastRequest

\* README: an empty list "means that a healthy scan found no networks". Every list read,
\* empty or not, comes less than MinInterval after a completed scan or later, with the two
\* exceptions the code makes: in the first MinInterval after boot no scan is made, and with
\* a cache a request whose scan failed goes on.
ListIsAccountedFor ==
  \A r \in Requests : pc[r] = "store" =>
    \/ scannedAt > now[r] - MinInterval
    \/ now[r] < MinInterval
    \/ fellBack[r]

\* README: "A real D-Bus scan is requested no more often than
\* APPLIANCE_ADMIN_SCAN_MIN_INTERVAL_SECONDS".
ScanRateIsLimited == gap >= MinInterval
=============================================================================
