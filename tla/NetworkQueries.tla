---------------------------- MODULE NetworkQueries ----------------------------
(***************************************************************************)
(* The reading side of NetworkManager (daemon/managers/network.py): the    *)
(* shared D-Bus connection, the readiness check of main.run, and the       *)
(* queries that list objects and then read them one by one: network.status,*)
(* network.profiles and the access points of wifi.scan.                    *)
(*                                                                         *)
(* One action is the code from one await to the next. Between two awaits   *)
(* NetworkManager, dbus or the listed objects may be gone. An object's     *)
(* call fails when the object, NetworkManager or the connection is gone,   *)
(* and not otherwise; any call may outlast the request timeout (Cancel).   *)
(***************************************************************************)
EXTENDS AccessPoints, FiniteSets

CONSTANTS
  StatusQueries, ProfileQueries, ApReads,   \* the requests, by handler
  Boot,            \* the readiness check at the start of the daemon
  Devices,
  WifiDevices,     \* those of DeviceType Wi-Fi
  WifiDevice,      \* the one whose Interface is wifi_interface
  Profiles,        \* connection profiles; an active connection is named by its own
  None,            \* no connection, no access point: the path "/"
  NoBus,
  MaxChanges,      \* bound: changes of the world
  MaxRequests      \* bound: requests in a behaviour

Requests == StatusQueries \cup ProfileQueries \cup ApReads
Callers == Requests \cup {Boot}

ASSUME QueryAssumption ==
  /\ Boot \notin Requests /\ NoBus \notin Callers
  /\ StatusQueries \cap ProfileQueries = {}
  /\ ApReads \cap (StatusQueries \cup ProfileQueries) = {}
  /\ WifiDevices \subseteq Devices /\ WifiDevice \in WifiDevices
  /\ None \notin Profiles \cup Aps
  /\ MaxChanges \in Nat /\ MaxRequests \in Nat

VARIABLES
  \* the manager and its handlers
  bus,        \* self.bus, named after the caller that opened it
  open,       \* the connections the process has open
  pc,         \* the await each caller is at
  proxy,      \* it holds the proxy on which it makes the call, outside any try
  answer,
  status,     \* locals of network.status
  list,       \* locals of network.profiles
  scan,       \* locals of _read_access_points
  \* dbus and NetworkManager
  busUp, dead,   \* dbus runs; the connections it has dropped
  nm,            \* NetworkManager runs
  managed,       \* the configured Wi-Fi device exists and is managed and available
  on,            \* the active connection of each device
  saved,         \* the saved profiles
  visible,       \* the access-point objects
  changes,
  \* history
  hist        \* what was true while each request ran

localVars == <<proxy, status, list, scan>>
daemonVars == <<bus, open, pc, answer, localVars>>
worldVars == <<busUp, dead, nm, managed, on, saved, visible, changes>>
vars == <<daemonVars, worldVars, hist>>

Running(r) == pc[r] \notin {"idle", "done"}
Snapshot == {<<d, on[d]>> : d \in Devices}
Dropped == bus \in open \cap dead   \* dbus closed the connection in self.bus
Healthy == busUp /\ nm /\ managed /\ ~Dropped

NoStatus == [todo |-> {}, dev |-> WifiDevice, conn |-> None, ip |-> None,
             entries |-> {}, ssid |-> None]
NoList == [todo |-> {}, active |-> {}, found |-> {}]
NoScan == [todo |-> {}, read |-> {}, active |-> None, got |-> NoNetworks]
NoHistory == [well |-> FALSE, absent |-> FALSE, was |-> {}, ever |-> {}, always |-> {}]

Init ==
  /\ bus = NoBus /\ open = {}
  /\ pc = [r \in Callers |-> "idle"]
  /\ proxy = [r \in Callers |-> FALSE]
  /\ answer = [r \in Callers |-> "none"]
  /\ status = [r \in StatusQueries |-> NoStatus]
  /\ list = [r \in ProfileQueries |-> NoList]
  /\ scan = [r \in ApReads |-> NoScan]
  /\ busUp \in BOOLEAN /\ dead = {}
  /\ nm \in BOOLEAN /\ managed \in BOOLEAN
  /\ on = [d \in Devices |-> None]
  /\ saved = Profiles /\ visible = IF nm THEN Aps ELSE {}
  /\ changes = 0
  /\ hist = [r \in Requests |-> NoHistory]

-----------------------------------------------------------------------------
(***************************************************************************)
(* dbus and NetworkManager (external). loss: something went away.          *)
(***************************************************************************)

World(loss) ==
  /\ changes < MaxChanges
  /\ changes' = changes + 1
  /\ hist' = [r \in Requests |->
       IF ~Running(r) THEN hist[r]
       ELSE [well |-> hist[r].well /\ ~loss,
             absent |-> hist[r].absent /\ ~loss /\ ~(nm' /\ managed'),
             was |-> hist[r].was \cup Snapshot',
             ever |-> hist[r].ever \cup saved',
             always |-> hist[r].always \cap saved']]
  /\ UNCHANGED daemonVars

\* dbus stops: every connection is lost for good, also when dbus is back.
BusStops ==
  /\ busUp /\ busUp' = FALSE /\ dead' = open
  /\ UNCHANGED <<nm, managed, on, saved, visible>> /\ World(TRUE)

BusStarts ==
  /\ ~busUp /\ busUp' = TRUE
  /\ UNCHANGED <<dead, nm, managed, on, saved, visible>> /\ World(FALSE)

\* NetworkManager stops and its objects with it; the profiles are on disk.
NmStops ==
  /\ nm /\ nm' = FALSE
  /\ on' = [d \in Devices |-> None] /\ visible' = {}
  /\ UNCHANGED <<busUp, dead, managed, saved>> /\ World(TRUE)

NmStarts ==
  /\ ~nm /\ nm' = TRUE /\ visible' = Aps
  /\ UNCHANGED <<busUp, dead, managed, on, saved>> /\ World(FALSE)

\* The adapter is pulled or taken over, or comes back.
DeviceComesOrGoes ==
  /\ managed' = ~managed
  /\ on' = [on EXCEPT ![WifiDevice] = None]
  /\ UNCHANGED <<busUp, dead, nm, saved, visible>> /\ World(managed)

\* A device changes its connection; the objects of the old one are gone.
ConnectionChanges ==
  /\ nm
  /\ UNCHANGED <<busUp, dead, nm, managed, saved, visible>>
  /\ \E d \in Devices : \E c \in (saved \cup {None}) \ {on[d]} :
       /\ d = WifiDevice => managed
       /\ \A e \in Devices : c # None => on[e] # c
       /\ on' = [on EXCEPT ![d] = c]
       /\ World(on[d] # None)

ProfileDeleted ==
  /\ nm
  /\ \E p \in saved :
       /\ saved' = saved \ {p}
       /\ on' = [d \in Devices |-> IF on[d] = p THEN None ELSE on[d]]
  /\ UNCHANGED <<busUp, dead, nm, managed, visible>> /\ World(TRUE)

\* Bound: only while one is reading them does it matter which access points there are.
AccessPointLeaves ==
  /\ \E r \in ApReads : Running(r)
  /\ \E a \in visible : visible' = visible \ {a}
  /\ UNCHANGED <<busUp, dead, nm, managed, on, saved>> /\ World(TRUE)

-----------------------------------------------------------------------------
(***************************************************************************)
(* The connection and the calls.                                           *)
(***************************************************************************)

Reached == nm /\ bus \notin dead

\* On to the next await; a handler that goes to "done" returns its result.
Goto(r, next) ==
  /\ pc' = [pc EXCEPT ![r] = next]
  /\ proxy' = [proxy EXCEPT ![r] = pc[r] = "active"]
  /\ answer' = IF next = "done" THEN [answer EXCEPT ![r] = "ok"] ELSE answer
  /\ UNCHANGED <<bus, open, worldVars, hist>>

Forget(R) ==
  /\ status' = [r \in StatusQueries |-> IF r \in R THEN NoStatus ELSE status[r]]
  /\ list' = [r \in ProfileQueries |-> IF r \in R THEN NoList ELSE list[r]]
  /\ scan' = [r \in ApReads |-> IF r \in R THEN NoScan ELSE scan[r]]

\* The handler raises.
Fail(r, code) ==
  /\ pc' = [pc EXCEPT ![r] = "done"]
  /\ proxy' = [proxy EXCEPT ![r] = FALSE]
  /\ answer' = [answer EXCEPT ![r] = code]
  /\ Forget({r})
  /\ hist' = [q \in Requests |->
       IF q = r THEN [NoHistory EXCEPT !.well = hist[q].well, !.absent = hist[q].absent]
       ELSE hist[q]]
  /\ UNCHANGED <<bus, open, worldVars>>

\* Requests are cut off.
Cut(R) ==
  /\ answer' = [r \in Callers |-> IF r \in R THEN "cut" ELSE answer[r]]
  /\ Forget(R)
  /\ hist' = [r \in Requests |-> IF r \in R THEN NoHistory ELSE hist[r]]

\* The handler is called, or the readiness check: start() connects the first time.
\* The daemon accepts requests when the readiness check is over, whatever its result.
Start(r, first) ==
  /\ pc[r] = "idle"
  /\ r # Boot => /\ pc[Boot] = "done"
                 /\ Cardinality({q \in Requests : pc[q] # "idle"}) < MaxRequests
  /\ pc' = [pc EXCEPT ![r] = first]
  /\ hist' = IF r = Boot THEN hist
             ELSE [hist EXCEPT ![r] = [well |-> Healthy, absent |-> ~(nm /\ managed),
                                       was |-> Snapshot, ever |-> saved, always |-> saved]]
  /\ UNCHANGED <<bus, open, answer, localVars, worldVars>>

MutAlwaysConnect(r) == Start(r, "connect")
Begin(r) == Start(r, IF bus = NoBus THEN "connect" ELSE "owner")

\* MessageBus.connect() returns; nobody closes the connection that self.bus may have
\* got from another request meanwhile.
Connect(r) ==
  /\ pc[r] = "connect"
  /\ busUp
  /\ bus' = r /\ open' = open \cup {r}
  /\ pc' = [pc EXCEPT ![r] = "owner"]
  /\ UNCHANGED <<answer, localVars, worldVars, hist>>

\* self.bus set before the connection is made.
MutBusBeforeConnect(r) ==
  /\ pc[r] = "connect" /\ ~busUp
  /\ bus' = r /\ dead' = dead \cup {r}
  /\ pc' = [pc EXCEPT ![r] = "done"]
  /\ answer' = [answer EXCEPT ![r] = "unavailable"]
  /\ UNCHANGED <<open, localVars, busUp, nm, managed, on, saved, visible, changes, hist>>
ConnectFails(r) == pc[r] = "connect" /\ ~busUp /\ Fail(r, "unavailable")

\* _name_has_owner is asked of dbus itself.
NameHasOwner(r) ==
  /\ pc[r] = "owner" /\ nm /\ bus \notin dead
  /\ Goto(r, "devices") /\ UNCHANGED <<status, list, scan>>

NotActive(r) == pc[r] = "owner" /\ ~nm /\ bus \notin dead /\ Fail(r, "unavailable")

\* These calls are made on the proxy that _interfaces returned, outside any try; an
\* ApRead has its proxy before it reads the active access point.
Bare == {"devices", "list", "settings"}
GetProxy(r) ==
  /\ pc[r] \in Bare \cup {"active"} /\ ~proxy[r] /\ Reached
  /\ pc[r] = "settings" => list[r].todo \cap saved # {}
  /\ proxy' = [proxy EXCEPT ![r] = TRUE]
  /\ UNCHANGED <<bus, open, pc, answer, status, list, scan, worldVars, hist>>

\* GetDevices.
ListDevices(r) ==
  /\ pc[r] = "devices" /\ proxy[r] /\ Reached
  /\ Goto(r, "device") /\ UNCHANGED <<status, list, scan>>

\* _wifi_device(require_ready=True) reads the configured device.
FirstCall(r) == IF r \in ApReads THEN "active" ELSE IF r = Boot THEN "ready" ELSE "nm"
DeviceReady(r) ==
  /\ pc[r] = "device" /\ managed /\ Reached
  /\ Goto(r, FirstCall(r)) /\ UNCHANGED <<status, list, scan>>

\* The default of require_ready taken for FALSE.
MutIgnoreReadiness(r) ==
  /\ pc[r] = "device" /\ ~managed /\ Reached
  /\ Goto(r, FirstCall(r)) /\ UNCHANGED <<status, list, scan>>
NotManaged(r) == pc[r] = "device" /\ ~managed /\ Reached /\ Fail(r, "unavailable")

\* An object that is there is read also when its device is no longer managed.
Ready ==
  /\ pc[Boot] = "ready" /\ Reached
  /\ Goto(Boot, "done") /\ UNCHANGED <<status, list, scan>>

-----------------------------------------------------------------------------
(***************************************************************************)
(* network.status: NetworkManager's own properties, then for each device   *)
(* its properties, and by the paths in them connection and IP objects.     *)
(***************************************************************************)

StatusGoto(r, next, s) ==
  /\ Goto(r, next)
  /\ status' = [status EXCEPT ![r] = s]
  /\ UNCHANGED <<list, scan>>

\* The path of a connection that no device has any more leads nowhere. (A profile that
\* was deactivated and activated again has a new path; here it is the same.)
Exists(c) == c = None \/ \E d \in Devices : on[d] = c

\* PrimaryConnection is the connection of one of the devices.
ReadStatus(r) ==
  /\ pc[r] = "nm" /\ Reached
  /\ \E d \in Devices : StatusGoto(r, "primary", [status[r] EXCEPT !.conn = on[d]])

ReadPrimary(r) ==
  /\ pc[r] = "primary" /\ Exists(status[r].conn) /\ Reached
  /\ StatusGoto(r, "list", status[r])

OnTo(r, s) ==
  \E d \in s.todo : StatusGoto(r, "props", [s EXCEPT !.dev = d, !.todo = s.todo \ {d}])

StatusDevices(r) ==
  /\ pc[r] = "list" /\ proxy[r] /\ Reached
  /\ OnTo(r, [status[r] EXCEPT !.todo = Devices])

\* One GetAll gives the state and the paths of connection and IP configuration.
ReadProps(r) ==
  /\ pc[r] = "props" /\ Reached
  /\ StatusGoto(r, "name", [status[r] EXCEPT !.conn = on[status[r].dev]])

ReadName(r) ==
  /\ pc[r] = "name" /\ Exists(status[r].conn) /\ Reached
  /\ StatusGoto(r, "ip4", status[r])

\* The IP configuration by its path.
MutIp4OfTheDevice(r) ==
  /\ pc[r] = "ip4" /\ Reached
  /\ StatusGoto(r, "link", [status[r] EXCEPT !.ip = on[status[r].dev]])
ReadIp4Config(r) ==
  /\ pc[r] = "ip4" /\ Exists(status[r].conn) /\ Reached
  /\ StatusGoto(r, "link", [status[r] EXCEPT !.ip = status[r].conn])

NextDevice(r, s) == IF s.todo = {} THEN StatusGoto(r, "done", s) ELSE OnTo(r, s)

\* Carrier, or the path of the access point that is active now. Wi-Fi without one leaves the
\* SSID alone; else it will be that of the access point, named after its connection. (The
\* entry is complete in either case.)
ReadLink(r) ==
  /\ pc[r] = "link" /\ Reached
  /\ LET s == status[r]
         ap == IF s.dev \in WifiDevices THEN on[s.dev] ELSE None
         new == [s EXCEPT !.entries = @ \cup {[dev |-> s.dev, conn |-> s.conn, ip |-> s.ip]}]
     IN  \/ ap # None /\ StatusGoto(r, "ssid", [new EXCEPT !.conn = ap])
         \/ ap = None /\ NextDevice(r, new)

\* current_ssid is set for whichever device of kind Wi-Fi it is: the last one wins. The
\* access point may outlive the connection, or not (Gone).
ReadSsid(r) ==
  /\ pc[r] = "ssid" /\ Reached
  /\ NextDevice(r, [status[r] EXCEPT !.ssid = status[r].conn])

Status(r) ==
  \/ ReadStatus(r) \/ ReadPrimary(r) \/ StatusDevices(r) \/ ReadProps(r) \/ ReadName(r)
  \/ ReadIp4Config(r) \/ ReadLink(r) \/ ReadSsid(r)

-----------------------------------------------------------------------------
(***************************************************************************)
(* network.profiles: the UUIDs of the active connections, then the saved   *)
(* profiles one by one.                                                    *)
(***************************************************************************)

ListGoto(r, next, l) ==
  /\ Goto(r, next)
  /\ list' = [list EXCEPT ![r] = l]
  /\ UNCHANGED <<status, scan>>

ReadActive(r) ==
  /\ pc[r] = "nm" /\ Reached
  /\ LET todo == {on[d] : d \in Devices} \ {None}
     IN  ListGoto(r, IF todo = {} THEN "list" ELSE "uuid", [list[r] EXCEPT !.todo = todo])

ReadUuid(r) ==
  /\ pc[r] = "uuid" /\ Reached
  /\ \E c \in list[r].todo :
       /\ Exists(c)
       /\ ListGoto(r, IF list[r].todo = {c} THEN "list" ELSE "uuid",
                   [list[r] EXCEPT !.todo = @ \ {c}, !.active = @ \cup {c}])

ListConnections(r) ==
  /\ pc[r] = "list" /\ proxy[r] /\ Reached
  /\ ListGoto(r, IF saved = {} THEN "done" ELSE "settings", [list[r] EXCEPT !.todo = saved])

MutStopAtDeleted(r) ==
  /\ pc[r] = "settings" /\ Reached
  /\ \E p \in list[r].todo :
       ListGoto(r, IF list[r].todo = {p} \/ p \notin saved THEN "done" ELSE "settings",
                [list[r] EXCEPT !.todo = @ \ {p},
                                !.found = @ \cup {<<p, p \in list[r].active>>}])
GetSettings(r) ==
  /\ pc[r] = "settings" /\ proxy[r] /\ Reached
  /\ \E p \in list[r].todo \cap saved :
       ListGoto(r, IF list[r].todo = {p} THEN "done" ELSE "settings",
                [list[r] EXCEPT !.todo = @ \ {p},
                                !.found = @ \cup {<<p, p \in list[r].active>>}])

ProfileList(r) == ReadActive(r) \/ ReadUuid(r) \/ ListConnections(r) \/ GetSettings(r)

-----------------------------------------------------------------------------
(***************************************************************************)
(* _read_access_points: the path of the active one, the list, and each.    *)
(***************************************************************************)

ScanGoto(r, next, s) ==
  /\ Goto(r, next)
  /\ scan' = [scan EXCEPT ![r] = s]
  /\ UNCHANGED <<status, list>>

ReadActiveAp(r) ==
  /\ pc[r] = "active" /\ proxy[r] /\ Reached
  /\ \E a \in visible \cup {None} : ScanGoto(r, "list", [scan[r] EXCEPT !.active = a])

ListAps(r) ==
  /\ pc[r] = "list" /\ proxy[r] /\ Reached
  /\ ScanGoto(r, IF visible = {} THEN "done" ELSE "ap", [scan[r] EXCEPT !.todo = visible])

ReadAp(r) ==
  /\ pc[r] = "ap" /\ Reached
  /\ \E a \in scan[r].todo \cap visible :
       ScanGoto(r, IF scan[r].todo = {a} THEN "done" ELSE "ap",
                [scan[r] EXCEPT !.todo = @ \ {a}, !.read = @ \cup {a},
                                !.got = Merge(@, a, scan[r].active)])

ApRead(r) == ReadActiveAp(r) \/ ListAps(r) \/ ReadAp(r)

-----------------------------------------------------------------------------
\* The next object the handler reads is gone; that of an unmanaged device may be.
Gone(r) ==
  \/ pc[r] \in {"primary", "name", "ip4", "ssid"} /\ ~Exists(status[r].conn)
  \/ pc[r] \in {"props", "link"} /\ status[r].dev = WifiDevice /\ ~managed
  \/ pc[r] = "uuid" /\ \E c \in list[r].todo : ~Exists(c)
  \/ pc[r] = "settings" /\ ~(list[r].todo \subseteq saved)
  \/ pc[r] = "ap" /\ ~(scan[r].todo \subseteq visible)
  \/ pc[r] \in {"ready", "active"} /\ ~managed
  \/ pc[r] = "list" /\ r \in ApReads /\ ~managed

\* The process ends, and every request with it; systemd starts it again.
Leave ==
  LET cut == {r \in Requests : Running(r)}
  IN  /\ bus' = NoBus /\ open' = {} /\ dead' = {}
      /\ pc' = [r \in Callers |-> IF r \in cut THEN "done" ELSE IF r = Boot THEN "idle" ELSE pc[r]]
      /\ proxy' = [r \in Callers |-> FALSE]
      /\ Cut(cut)
      /\ UNCHANGED <<busUp, nm, managed, on, saved, visible>>

\* A call fails, and one failure fails the query. What is raised inside _interfaces or
\* _properties is typed; a bare call raises what D-Bus raised,
\* and run catches only the typed error.
CallFails(r) ==
  /\ Running(r) /\ pc[r] # "connect"
  /\ bus \in dead \/ (pc[r] # "owner" /\ ~nm) \/ Gone(r)
  /\ IF r = Boot /\ proxy[r] THEN Leave /\ UNCHANGED changes
     ELSE Fail(r, IF proxy[r] /\ pc[r] \in Bare THEN "internal" ELSE "unavailable")

\* wait_for in the server; the readiness check has no time limit.
Cancel(r) ==
  /\ r # Boot /\ Running(r)
  /\ pc' = [pc EXCEPT ![r] = "done"]
  /\ proxy' = [proxy EXCEPT ![r] = FALSE]
  /\ Cut({r})
  /\ UNCHANGED <<bus, open, worldVars>>

\* The daemon stops (network.close()) or dies, and is started again.
Restart ==
  /\ pc[Boot] = "done"
  /\ changes < MaxChanges /\ changes' = changes + 1
  /\ Leave

Handler(r) ==
  \/ Begin(r) \/ Connect(r) \/ ConnectFails(r) \/ NameHasOwner(r) \/ NotActive(r)
  \/ GetProxy(r) \/ ListDevices(r) \/ DeviceReady(r) \/ NotManaged(r) \/ CallFails(r)
  \/ Cancel(r)

Environment ==
  \/ BusStops \/ BusStarts \/ NmStops \/ NmStarts \/ DeviceComesOrGoes
  \/ ConnectionChanges \/ ProfileDeleted \/ AccessPointLeaves

Next ==
  \/ \E r \in Callers : Handler(r)
  \/ Ready
  \/ \E r \in StatusQueries : Status(r)
  \/ \E r \in ProfileQueries : ProfileList(r)
  \/ \E r \in ApReads : ApRead(r)
  \/ Environment
  \/ Restart

Spec == Init /\ [][Next]_vars

-----------------------------------------------------------------------------
(***************************************************************************)
(* Properties.                                                             *)
(***************************************************************************)

PCs == {"idle", "connect", "owner", "devices", "device", "ready", "nm", "primary", "list",
        "props", "name", "ip4", "link", "ssid", "uuid", "settings", "active", "ap", "done"}
Answers == {"none", "ok", "unavailable", "internal", "cut"}

TypeOK ==
  /\ bus \in Callers \cup {NoBus} /\ open \subseteq Callers /\ dead \subseteq open
  /\ pc \in [Callers -> PCs]
  /\ proxy \in [Callers -> BOOLEAN]
  /\ answer \in [Callers -> Answers]
  /\ busUp \in BOOLEAN /\ nm \in BOOLEAN /\ managed \in BOOLEAN
  /\ on \in [Devices -> saved \cup {None}]
  /\ saved \subseteq Profiles /\ visible \subseteq Aps
  /\ changes \in 0..MaxChanges

\* main.run: "NetworkManager/device state may recover without restarting this daemon".
\* Nothing that failed before sticks: a query that runs while dbus, NetworkManager and
\* the device are there is not refused - unless the connection it found in self.bus
\* was one that dbus had dropped, which no later query of this process replaces.
HealthyIsAnswered ==
  \A r \in Requests : pc[r] = "done" /\ hist[r].well => answer[r] = "ok"

\* README: with no NetworkManager or no usable device "network operations return the
\* typed network_backend_unavailable error". "internal" needs one that went away
\* between the proxy and the call.
AbsenceIsTyped ==
  \A r \in Requests : pc[r] = "done" /\ hist[r].absent => answer[r] = "unavailable"

\* start() tests self.bus before its await. Connections are opened more than once, and
\* all but the last left open, only after a readiness check that could not connect.
ConnectedOnce == Boot \in open => open = {Boot}

\* Each entry of network.status is a state its device was in during the call, with name
\* and addresses of one connection, although it is read in several calls. The SSID, of
\* which there is one for all adapters, is of a connection that some Wi-Fi device had during
\* the call - not always the configured one - and is missing only if each of them had none
\* at some moment.
StatusWasTrue ==
  \A r \in StatusQueries : answer[r] = "ok" =>
    LET s == status[r]
        was == hist[r].was
    IN  /\ {e.dev : e \in s.entries} = Devices
        /\ \A e \in s.entries : e.ip = e.conn /\ <<e.dev, e.conn>> \in was
        /\ IF s.ssid = None THEN \A d \in WifiDevices : <<d, None>> \in was
           ELSE \E d \in WifiDevices : <<d, s.ssid>> \in was

\* network.profiles lists every profile that was there throughout, none that was not
\* there at all, and as active only what was active at some moment of the call.
ListWasTrue ==
  \A r \in ProfileQueries : answer[r] = "ok" =>
    LET found == {f[1] : f \in list[r].found}
    IN  /\ hist[r].always \subseteq found /\ found \subseteq hist[r].ever
        /\ \A f \in list[r].found : f[2] => \E d \in Devices : <<d, f[1]>> \in hist[r].was

\* In whatever order the access points are read, the networks represent those read.
NetworksRepresent ==
  \A r \in ApReads : Represents(scan[r].got, scan[r].read, scan[r].active)
=============================================================================
