------------------------- MODULE NetworkQueriesProofs -------------------------
(***************************************************************************)
(* What the queries keep for any number of requests, devices, profiles and *)
(* access points. First the merge of access points, a function of its      *)
(* arguments alone; then the state machine.                                *)
(***************************************************************************)
EXTENDS NetworkQueries, TLAPS

Bssids == {Info[a].bssid : a \in Aps}
Keys == {Key(a) : a \in Aps}
Network == [bssid : Bssids, bssids : SUBSET Bssids, strength : Nat, active : BOOLEAN]
IsNetworks(got) == \A k \in DOMAIN got : got[k] \in Network

-----------------------------------------------------------------------------
\* A fresh entry is a network.
LEMMA ItemType ==
  ASSUME NEW a \in Aps, NEW active
  PROVE  /\ Item(a, active) \in Network
         /\ Item(a, active).bssid = Info[a].bssid
         /\ Item(a, active).bssids = {Info[a].bssid}
         /\ Item(a, active).strength = Info[a].strength
         /\ Item(a, active).active = (a = active)
BY InfoAssumption DEF Item, Network, Bssids

\* Networks whose key is not that of a are left as they were.
LEMMA MembersOthers ==
  ASSUME NEW S, NEW a, NEW k, k # Key(a) \/ Info[a].ssid = Hidden
  PROVE  Members(S \cup {a}, k) = Members(S, k)
BY DEF Members

LEMMA MembersOwn ==
  ASSUME NEW S, NEW a, Info[a].ssid # Hidden
  PROVE  Members(S \cup {a}, Key(a)) = Members(S, Key(a)) \cup {a}
BY DEF Members

\* What a turn of the loop leaves for the key of the access point it read.
LEMMA MergeOwn ==
  ASSUME NEW a \in Aps, NEW active, NEW G \in SUBSET Aps,
         NEW old \in Network, Stands(old, G, active)
  PROVE  /\ Combine(old, Item(a, active)) \in Network
         /\ Stands(Combine(old, Item(a, active)), G \cup {a}, active)
<1> DEFINE item == Item(a, active)
           new == Combine(old, item)
<1>1. /\ item \in Network /\ item.bssid = Info[a].bssid
      /\ item.strength = Info[a].strength /\ item.active = (a = active)
  BY ItemType
<1>2. \A b \in G \cup {a} : Info[b].strength \in Nat /\ Info[b].bssid \in Bssids
  BY InfoAssumption DEF Bssids
<1>3. Twins(G) => Twins(G \cup {a})
  BY DEF Twins
<1> SUFFICES new \in Network /\ Stands(new, G \cup {a}, active)
  OBVIOUS
<1> HIDE DEF item, new
<1>7. /\ old.bssids \cup {item.bssid} \in SUBSET Bssids
      /\ (item.active \/ old.active) \in BOOLEAN
  BY <1>1 DEF Network
<1>8. old.strength \in Nat /\ \A b \in G : Info[b].strength <= old.strength
  BY DEF Stands, Network
<1>9. item.strength = Info[a].strength /\ item.strength \in Nat
  BY <1>1, <1>2
<1>4. CASE item.strength > old.strength
  <2> DEFINE B == old.bssids \cup {item.bssid}
             flag == item.active \/ old.active
  <2>1. new = [item EXCEPT !.bssids = B, !.active = flag]
    BY <1>4 DEF new, Combine
  <2>2. B \in SUBSET Bssids /\ flag \in BOOLEAN
    BY <1>7
  <2> HIDE DEF B, flag
  <2>3. /\ new \in Network /\ new.bssid = item.bssid /\ new.strength = item.strength
        /\ new.bssids = B /\ new.active = flag
    BY <1>1, <2>1, <2>2 DEF Network
  <2>4. /\ \E b \in G \cup {a} : new.bssid = Info[b].bssid /\ new.strength = Info[b].strength
        /\ new.bssids = {Info[b].bssid : b \in G \cup {a}}
    BY <1>1, <2>3 DEF Stands, B
  <2>5. new.strength = item.strength
    BY <2>3
  <2>6. \A b \in G \cup {a} : Info[b].strength <= new.strength
    BY <1>4, <1>2, <1>8, <1>9, <2>5
  <2>7. /\ new.active => active \in G \cup {a}
        /\ active \in G \cup {a} => new.active \/ Twins(G \cup {a})
    BY <1>1, <1>3, <2>3 DEF Stands, flag
  <2> QED  BY <2>3, <2>4, <2>6, <2>7 DEF Stands
<1>5. CASE ~(item.strength > old.strength) /\ item.bssid \notin old.bssids
  <2> DEFINE B == old.bssids \cup {item.bssid}
             flag == item.active \/ old.active
  <2>1. new = [old EXCEPT !.bssids = B, !.active = flag]
    BY <1>5 DEF new, Combine
  <2>2. B \in SUBSET Bssids /\ flag \in BOOLEAN
    BY <1>7
  <2> HIDE DEF B, flag
  <2>3. /\ new \in Network /\ new.bssid = old.bssid /\ new.strength = old.strength
        /\ new.bssids = B /\ new.active = flag
    BY <1>1, <2>1, <2>2 DEF Network
  <2>4. /\ \E b \in G \cup {a} : new.bssid = Info[b].bssid /\ new.strength = Info[b].strength
        /\ new.bssids = {Info[b].bssid : b \in G \cup {a}}
    BY <1>1, <2>3 DEF Stands, B
  <2>5. new.strength = old.strength
    BY <2>3
  <2>6. \A b \in G \cup {a} : Info[b].strength <= new.strength
    BY <1>5, <1>2, <1>8, <1>9, <2>5
  <2>7. /\ new.active => active \in G \cup {a}
        /\ active \in G \cup {a} => new.active \/ Twins(G \cup {a})
    BY <1>1, <1>3, <2>3 DEF Stands, flag
  <2> QED  BY <2>3, <2>4, <2>6, <2>7 DEF Stands
<1>6. CASE ~(item.strength > old.strength) /\ item.bssid \in old.bssids
  <2>1. new = old
    BY <1>6 DEF new, Combine
  <2>2. PICK b \in G : Info[b].bssid = Info[a].bssid
    BY <1>1, <1>6 DEF Stands
  <2>3. old.bssids = {Info[c].bssid : c \in G \cup {a}}
    BY <2>2 DEF Stands
  <2>4. \A c \in G \cup {a} : Info[c].strength <= old.strength
    BY <1>1, <1>2, <1>6 DEF Stands, Network
  <2>5. a \in G \/ Twins(G \cup {a})
    BY <2>2 DEF Twins
  <2>6. /\ old.active => active \in G \cup {a}
        /\ active \in G \cup {a} => old.active \/ Twins(G \cup {a})
    BY <1>3, <2>5 DEF Stands
  <2> QED  BY <2>1, <2>3, <2>4, <2>6 DEF Stands
<1> QED  BY <1>4, <1>5, <1>6

\* In whatever order the access points come: one more read, and the networks represent
\* it with the others (the loop of _read_access_points).
THEOREM MergeRepresents ==
  ASSUME NEW S \in SUBSET Aps, NEW a \in Aps, NEW active, NEW got,
         IsNetworks(got), Represents(got, S, active)
  PROVE  /\ IsNetworks(Merge(got, a, active))
         /\ Represents(Merge(got, a, active), S \cup {a}, active)
<1> DEFINE k == Key(a)
           new == Merge(got, a, active)
           Seen(T) == {Key(c) : c \in {b \in T : Info[b].ssid # Hidden}}
<1>1. CASE Info[a].ssid = Hidden
  <2>1. new = got
    BY <1>1 DEF Merge
  <2>2. Seen(S \cup {a}) = Seen(S) /\ \A j : Members(S \cup {a}, j) = Members(S, j)
    BY <1>1, MembersOthers
  <2> QED  BY <2>1, <2>2 DEF Represents
<1>2. CASE Info[a].ssid # Hidden
  <2>1. Seen(S \cup {a}) = Seen(S) \cup {k}
    BY <1>2
  <2>2. PICK v : /\ v \in Network /\ Stands(v, Members(S \cup {a}, k), active)
                 /\ new = Put(got, k, v)
    <3>1. CASE k \notin DOMAIN got
      <4> DEFINE item == Item(a, active)
      <4>1. new = Put(got, k, item)
        BY <1>2, <3>1 DEF Merge
      <4>2. Members(S \cup {a}, k) = {a}
        BY <1>2, <3>1, MembersOwn DEF Represents, Members
      <4>3. Stands(item, {a}, active)
        <5>1. /\ item.bssid = Info[a].bssid /\ item.strength = Info[a].strength
              /\ item.bssids = {Info[a].bssid} /\ item.active = (a = active)
          BY ItemType
        <5>2. Info[a].strength <= Info[a].strength
          BY InfoAssumption
        <5> HIDE DEF item
        <5>3. item.bssids = {Info[b].bssid : b \in {a}}
          BY <5>1
        <5> QED  BY <5>1, <5>2, <5>3 DEF Stands
      <4>4. item \in Network
        BY ItemType
      <4> HIDE DEF item
      <4> QED  BY <4>1, <4>2, <4>3, <4>4
    <3>2. CASE k \in DOMAIN got
      <4> DEFINE v == Combine(got[k], Item(a, active))
      <4>1. new = Put(got, k, v)
        BY <1>2, <3>2 DEF Merge
      <4>2. got[k] \in Network /\ Stands(got[k], Members(S, k), active)
        BY <3>2 DEF IsNetworks, Represents
      <4>3. Members(S, k) \in SUBSET Aps
        BY DEF Members
      <4>4. v \in Network /\ Stands(v, Members(S, k) \cup {a}, active)
        BY <4>2, <4>3, MergeOwn
      <4> QED  BY <1>2, <4>1, <4>4, MembersOwn
    <3> QED  BY <3>1, <3>2
  <2>3. DOMAIN new = DOMAIN got \cup {k} /\ new[k] = v
    BY <2>2 DEF Put
  <2>4. \A j \in DOMAIN got \ {k} : new[j] = got[j] /\ Members(S \cup {a}, j) = Members(S, j)
    BY <2>2, MembersOthers DEF Put
  <2>5. IsNetworks(new)
    BY <2>2, <2>3, <2>4 DEF IsNetworks
  <2>6. \A j \in DOMAIN new : Stands(new[j], Members(S \cup {a}, j), active)
    BY <2>2, <2>3, <2>4 DEF Represents
  <2> HIDE DEF new
  <2> QED  BY <2>1, <2>3, <2>5, <2>6 DEF Represents, new
<1> QED  BY <1>1, <1>2

-----------------------------------------------------------------------------
(***************************************************************************)
(* The inductive invariant. What an access-point read has in its locals:   *)
(* nothing before it reads the first one, so that the active access point  *)
(* it compares with is fixed by then. What the connections are: none while *)
(* the readiness check may still connect, and no request runs beside it.   *)
(***************************************************************************)

Shape(s) == [f \in {"todo", "read", "active", "got"} |-> s[f]]
Locals(s, at) ==
  /\ s = Shape(s)
  /\ s.todo \subseteq Aps /\ s.read \subseteq Aps
  /\ IsNetworks(s.got) /\ Represents(s.got, s.read, s.active)
  /\ at \notin {"ap", "done"} => s.read = {} /\ s.got = NoNetworks

ScanInv ==
  /\ scan = [r \in ApReads |-> scan[r]]
  /\ \A r \in ApReads : Locals(scan[r], pc[r])

ConnInv ==
  /\ bus = NoBus <=> open = {}
  /\ pc[Boot] \in {"idle", "connect"} => open = {}
  /\ \A r \in Requests : Running(r) => pc[Boot] = "done"
  /\ \A r \in Requests : pc[r] = "connect" => Boot \notin open
  /\ ConnectedOnce

IInv == TypeOK /\ ScanInv /\ ConnInv

LEMMA NothingRead == ASSUME NEW active
                     PROVE  IsNetworks(NoNetworks) /\ Represents(NoNetworks, {}, active)
BY DEF IsNetworks, Represents, NoNetworks

LEMMA NoScanLocals == ASSUME NEW at PROVE Locals(NoScan, at)
<1>1. NoScan = Shape(NoScan) /\ NoScan.todo = {} /\ NoScan.read = {} /\ NoScan.got = NoNetworks
  BY DEF NoScan, Shape
<1> QED  BY <1>1, NothingRead DEF Locals

LEMMA Distinct == Boot \notin Requests /\ NoBus \notin Callers /\ Requests \subseteq Callers
                  /\ Boot \in Callers /\ ApReads \subseteq Requests
                  /\ ApReads \cap (StatusQueries \cup ProfileQueries) = {}
                  /\ StatusQueries \subseteq Requests /\ ProfileQueries \subseteq Requests
BY QueryAssumption DEF Requests, Callers

-----------------------------------------------------------------------------
\* A step of caller r from one await to another, or to the end of its handler.
Onward(r, next) ==
  /\ Running(r) /\ next \in PCs \ {"idle", "connect"}
  /\ pc' = [pc EXCEPT ![r] = next]
  /\ proxy' \in [Callers -> BOOLEAN] /\ answer' \in [Callers -> Answers]
  /\ UNCHANGED <<bus, open, worldVars>>

LEMMA OnwardTyped ==
  ASSUME IInv, NEW r \in Callers, NEW next, Onward(r, next)
  PROVE  TypeOK' /\ ConnInv'
<1> USE Distinct
<1>1. TypeOK'
  BY DEF IInv, TypeOK, Onward, worldVars
<1>2. \A q \in Callers : pc'[q] = IF q = r THEN next ELSE pc[q]
  BY DEF IInv, TypeOK, Onward
<1>3. ConnInv'
  BY <1>2 DEF IInv, ConnInv, ConnectedOnce, Onward, Running, worldVars
<1> QED  BY <1>1, <1>3

\* Where the locals of r become s, and no one else's change.
LEMMA ScanStep ==
  ASSUME IInv, NEW r \in ApReads, NEW next, NEW s, Locals(s, next),
         pc' = [pc EXCEPT ![r] = next], scan' = [scan EXCEPT ![r] = s]
  PROVE  ScanInv'
<1> USE Distinct
<1>1. \A q \in ApReads : /\ pc'[q] = IF q = r THEN next ELSE pc[q]
                         /\ scan'[q] = IF q = r THEN s ELSE scan[q]
  BY DEF IInv, TypeOK, ScanInv
<1>2. scan' = [q \in ApReads |-> scan'[q]]
  BY DEF IInv, ScanInv
<1> QED  BY <1>1, <1>2 DEF IInv, ScanInv

\* Where no locals change, a read has not started or does not move.
LEMMA ScanKept ==
  ASSUME IInv, NEW r \in Callers, NEW next, scan' = scan,
         pc' = [pc EXCEPT ![r] = next], r \in ApReads => pc[r] \notin {"ap", "done"}
  PROVE  ScanInv'
<1> USE Distinct
<1>1. \A q \in ApReads : pc'[q] = IF q = r THEN next ELSE pc[q]
  BY DEF IInv, TypeOK
<1>2. \A q \in ApReads : Locals(scan[q], pc'[q])
  BY <1>1 DEF IInv, ScanInv, Locals
<1> QED  BY <1>2 DEF IInv, ScanInv

LEMMA Forgotten ==
  ASSUME IInv, NEW R, Forget(R), \A q \in ApReads : q \notin R => pc'[q] = pc[q]
  PROVE  ScanInv'
<1>1. /\ scan' = [q \in ApReads |-> scan'[q]]
      /\ \A q \in ApReads : scan'[q] = IF q \in R THEN NoScan ELSE scan[q]
  BY DEF Forget
<1>2. \A q \in ApReads : Locals(scan'[q], pc'[q])
  BY <1>1, NoScanLocals DEF IInv, ScanInv
<1> QED  BY <1>1, <1>2 DEF ScanInv

LEMMA Typed == ASSUME IInv PROVE
  /\ pc \in [Callers -> PCs] /\ answer \in [Callers -> Answers]
  /\ proxy \in [Callers -> BOOLEAN]
BY DEF IInv, TypeOK

-----------------------------------------------------------------------------
\* On to the next await, with the locals of no access-point read changed.
LEMMA GotoKeeps ==
  ASSUME IInv, NEW r \in Callers, NEW next, Goto(r, next), scan' = scan,
         Running(r), next \in PCs \ {"idle", "connect"},
         r \in ApReads => pc[r] \notin {"ap", "done"}
  PROVE  IInv'
<1>1. Onward(r, next)
  BY Typed DEF Goto, Onward, Answers
<1>2. pc' = [pc EXCEPT ![r] = next]
  BY DEF Goto
<1> QED  BY <1>1, <1>2, OnwardTyped, ScanKept DEF IInv

LEMMA FailKeeps ==
  ASSUME IInv, NEW r \in Callers, NEW code \in Answers, Fail(r, code), Running(r)
  PROVE  IInv'
<1>1. Onward(r, "done")
  BY Typed DEF Fail, Onward, PCs
<1>2. \A q \in ApReads : q \notin {r} => pc'[q] = pc[q]
  BY Typed, Distinct DEF Fail
<1>3. ScanInv'
  BY <1>2, Forgotten DEF Fail
<1> QED  BY <1>1, <1>3, OnwardTyped DEF IInv

LEMMA ScanGotoKeeps ==
  ASSUME IInv, NEW r \in ApReads, NEW next, NEW s, ScanGoto(r, next, s), Locals(s, next),
         Running(r), next \in PCs \ {"idle", "connect"}
  PROVE  IInv'
<1> USE Distinct
<1>1. Onward(r, next)
  BY Typed DEF ScanGoto, Goto, Onward, Answers
<1>2. pc' = [pc EXCEPT ![r] = next] /\ scan' = [scan EXCEPT ![r] = s]
  BY DEF ScanGoto, Goto
<1> QED  BY <1>1, <1>2, OnwardTyped, ScanStep DEF IInv

\* The end of the process.
LEMMA LeaveKeeps ==
  ASSUME IInv, Leave, changes' \in 0..MaxChanges
  PROVE  IInv'
<1> USE Distinct
<1> DEFINE cut == {r \in Requests : Running(r)}
<1>1. /\ bus' = NoBus /\ open' = {} /\ dead' = {}
      /\ pc' = [r \in Callers |-> IF r \in cut THEN "done" ELSE IF r = Boot THEN "idle" ELSE pc[r]]
      /\ proxy' = [r \in Callers |-> FALSE]
      /\ Cut(cut)
      /\ UNCHANGED <<busUp, nm, managed, on, saved, visible>>
  BY DEF Leave
<1> HIDE DEF cut
<1>2. pc' \in [Callers -> PCs] /\ answer' \in [Callers -> Answers]
  BY <1>1, Typed DEF PCs, Answers, Cut
<1>3. TypeOK'
  BY <1>1, <1>2 DEF IInv, TypeOK
<1>4. ScanInv'
  BY <1>1, Forgotten DEF Cut
<1>5. ConnInv'
  <2>1. \A r \in Requests : pc'[r] \in {"idle", "done"}
    BY <1>1 DEF cut, Running
  <2>2. bus' = NoBus /\ open' = {}
    BY <1>1
  <2> QED  BY <2>1, <2>2 DEF ConnInv, ConnectedOnce, Running
<1> QED  BY <1>3, <1>4, <1>5 DEF IInv

\* The steps of every handler.
LEMMA HandlerKeeps == ASSUME IInv, NEW r \in Callers, Handler(r) PROVE IInv'
<1> USE Distinct
<1>1. CASE Begin(r)
  <2> DEFINE first == IF bus = NoBus THEN "connect" ELSE "owner"
  <2>1. /\ pc[r] = "idle" /\ pc' = [pc EXCEPT ![r] = first]
        /\ r # Boot => pc[Boot] = "done"
        /\ UNCHANGED <<bus, open, proxy, answer, scan, worldVars>>
    BY <1>1 DEF Begin, Start, localVars
  <2>2. TypeOK'
    BY <2>1 DEF IInv, TypeOK, PCs, worldVars
  <2>3. ScanInv'
    BY <2>1, ScanKept
  <2>4. \A q \in Callers : pc'[q] = IF q = r THEN first ELSE pc[q]
    BY <2>1, Typed
  <2>5. ConnInv'
    BY <2>1, <2>4 DEF IInv, ConnInv, ConnectedOnce, Running, worldVars
  <2> QED  BY <2>2, <2>3, <2>5 DEF IInv
<1>2. CASE Connect(r)
  <2>1. /\ pc[r] = "connect" /\ pc' = [pc EXCEPT ![r] = "owner"]
        /\ bus' = r /\ open' = open \cup {r}
        /\ UNCHANGED <<proxy, answer, scan, worldVars>>
    BY <1>2 DEF Connect, localVars
  <2>2. TypeOK'
    BY <2>1 DEF IInv, TypeOK, PCs, worldVars
  <2>3. ScanInv'
    BY <2>1, ScanKept
  <2>4. \A q \in Callers : pc'[q] = IF q = r THEN "owner" ELSE pc[q]
    BY <2>1, Typed
  <2>5. r = Boot \/ r \in Requests
    BY DEF Callers
  <2>6. ConnInv'
    BY <2>1, <2>4, <2>5 DEF IInv, ConnInv, ConnectedOnce, Running
  <2> QED  BY <2>2, <2>3, <2>6 DEF IInv
<1>3. CASE GetProxy(r)
  <2>1. /\ proxy' = [proxy EXCEPT ![r] = TRUE]
        /\ UNCHANGED <<bus, open, pc, answer, scan, worldVars>>
    BY <1>3 DEF GetProxy
  <2>2. TypeOK'
    BY <2>1 DEF IInv, TypeOK, worldVars
  <2> QED  BY <2>1, <2>2 DEF IInv, ScanInv, ConnInv, ConnectedOnce, Running, worldVars
<1>4. CASE Cancel(r)
  <2>1. Onward(r, "done")
    <3>1. answer' \in [Callers -> Answers]
      BY <1>4, Typed DEF Cancel, Cut, Answers
    <3> QED  BY <1>4, <3>1, Typed DEF Cancel, Onward, PCs
  <2>2. \A q \in ApReads : q \notin {r} => pc'[q] = pc[q]
    BY <1>4, Typed DEF Cancel
  <2>3. ScanInv'
    BY <1>4, <2>2, Forgotten DEF Cancel, Cut
  <2> QED  BY <2>1, <2>3, OnwardTyped DEF IInv
<1>5. CASE CallFails(r) /\ ~(r = Boot /\ proxy[r])
  BY <1>5, FailKeeps DEF CallFails, Answers
<1>6. CASE ConnectFails(r) \/ NotActive(r) \/ NotManaged(r)
  BY <1>6, FailKeeps DEF ConnectFails, NotActive, NotManaged, Answers, Running
<1>7. CASE NameHasOwner(r) \/ ListDevices(r)
  BY <1>7, GotoKeeps DEF NameHasOwner, ListDevices, Running, PCs
<1>8. CASE DeviceReady(r)
  BY <1>8, GotoKeeps DEF DeviceReady, FirstCall, Running, PCs
<1>9. CASE CallFails(r) /\ r = Boot /\ proxy[r]
  BY <1>9, LeaveKeeps DEF CallFails, IInv, TypeOK
<1> QED
  BY <1>1, <1>2, <1>3, <1>4, <1>5, <1>6, <1>7, <1>8, <1>9 DEF Handler

\* The queries themselves.
LEMMA StatusKeeps == ASSUME IInv, NEW r \in StatusQueries, Status(r) PROVE IInv'
<1> USE Distinct
<1>1. ASSUME NEW next, NEW s, StatusGoto(r, next, s), Running(r), next \in PCs \ {"idle", "connect"}
      PROVE  IInv'
  BY <1>1, GotoKeeps DEF StatusGoto
<1>2. CASE ReadStatus(r)
  BY <1>1, <1>2 DEF ReadStatus, Running, PCs
<1>3. CASE ReadPrimary(r)
  BY <1>1, <1>3 DEF ReadPrimary, Running, PCs
<1>4. CASE StatusDevices(r)
  <2>1. \E s : StatusGoto(r, "props", s)
    BY <1>4 DEF StatusDevices, OnTo
  <2> QED  BY <1>1, <1>4, <2>1 DEF StatusDevices, Running, PCs
<1>5. CASE ReadProps(r)
  BY <1>1, <1>5 DEF ReadProps, Running, PCs
<1>6. CASE ReadName(r)
  BY <1>1, <1>6 DEF ReadName, Running, PCs
<1>7. CASE ReadIp4Config(r)
  BY <1>1, <1>7 DEF ReadIp4Config, Running, PCs
<1>8. CASE ReadLink(r)
  <2>1. Running(r)
    BY <1>8 DEF ReadLink, Running
  <2>2. \E next \in {"done", "props", "ssid"} : \E s : StatusGoto(r, next, s)
    BY <1>8 DEF ReadLink, NextDevice, OnTo
  <2> QED  BY <1>1, <2>1, <2>2 DEF PCs
<1>9. CASE ReadSsid(r)
  <2>1. Running(r)
    BY <1>9 DEF ReadSsid, Running
  <2>2. \E next \in {"done", "props"} : \E s : StatusGoto(r, next, s)
    BY <1>9 DEF ReadSsid, NextDevice, OnTo
  <2> QED  BY <1>1, <2>1, <2>2 DEF PCs
<1> QED  BY <1>2, <1>3, <1>4, <1>5, <1>6, <1>7, <1>8, <1>9 DEF Status

LEMMA ListKeeps == ASSUME IInv, NEW r \in ProfileQueries, ProfileList(r) PROVE IInv'
<1> USE Distinct
<1>1. ASSUME NEW next, NEW l, ListGoto(r, next, l), Running(r), next \in PCs \ {"idle", "connect"}
      PROVE  IInv'
  BY <1>1, GotoKeeps DEF ListGoto
<1>2. CASE ReadActive(r)
  BY <1>1, <1>2 DEF ReadActive, Running, PCs
<1>3. CASE ReadUuid(r)
  BY <1>1, <1>3 DEF ReadUuid, Running, PCs
<1>4. CASE ListConnections(r)
  BY <1>1, <1>4 DEF ListConnections, Running, PCs
<1>5. CASE GetSettings(r)
  BY <1>1, <1>5 DEF GetSettings, Running, PCs
<1> QED  BY <1>2, <1>3, <1>4, <1>5 DEF ProfileList

LEMMA ApReadKeeps == ASSUME IInv, NEW r \in ApReads, ApRead(r) PROVE IInv'
<1> USE Distinct
<1> DEFINE old == scan[r]
<1>1. Locals(old, pc[r]) /\ visible \subseteq Aps
  BY DEF IInv, TypeOK, ScanInv
<1> HIDE DEF old
<1>2. CASE ReadActiveAp(r)
  <2>1. PICK a : ScanGoto(r, "list", [old EXCEPT !.active = a])
    BY <1>2 DEF ReadActiveAp, old
  <2> DEFINE s == [old EXCEPT !.active = a]
  <2>2. /\ s = Shape(s) /\ s.todo = old.todo /\ s.read = old.read /\ s.got = old.got
        /\ s.active = a
    BY <1>1 DEF Locals, Shape
  <2>3. pc[r] = "active" /\ old.read = {} /\ old.got = NoNetworks
    BY <1>1, <1>2 DEF ReadActiveAp, Locals
  <2> HIDE DEF s
  <2>4. Locals(s, "list")
    BY <1>1, <2>2, <2>3, NothingRead DEF Locals
  <2>5. ScanGoto(r, "list", s)
    BY <2>1 DEF s
  <2> QED  BY <2>3, <2>4, <2>5, ScanGotoKeeps DEF Running, PCs
<1>3. CASE ListAps(r)
  <2> DEFINE s == [old EXCEPT !.todo = visible]
             next == IF visible = {} THEN "done" ELSE "ap"
  <2>1. ScanGoto(r, next, s)
    BY <1>3 DEF ListAps, old
  <2>2. /\ s = Shape(s) /\ s.todo = visible /\ s.read = old.read /\ s.got = old.got
        /\ s.active = old.active
    BY <1>1 DEF Locals, Shape
  <2>3. pc[r] = "list" /\ next \in {"done", "ap"}
    BY <1>3 DEF ListAps
  <2> HIDE DEF s, next
  <2>4. Locals(s, next)
    BY <1>1, <2>2, <2>3 DEF Locals
  <2> QED  BY <2>1, <2>3, <2>4, ScanGotoKeeps DEF Running, PCs
<1>4. CASE ReadAp(r)
  <2>1. PICK a \in old.todo \cap visible :
          ScanGoto(r, IF old.todo = {a} THEN "done" ELSE "ap",
                   [old EXCEPT !.todo = old.todo \ {a}, !.read = old.read \cup {a},
                               !.got = Merge(old.got, a, old.active)])
    BY <1>4 DEF ReadAp, old
  <2> DEFINE m == Merge(old.got, a, old.active)
             s == [old EXCEPT !.todo = old.todo \ {a}, !.read = old.read \cup {a}, !.got = m]
             next == IF old.todo = {a} THEN "done" ELSE "ap"
  <2> HIDE DEF m
  <2>2. /\ s = Shape(s) /\ s.todo = old.todo \ {a} /\ s.read = old.read \cup {a}
        /\ s.got = m /\ s.active = old.active
    <3>1. old = Shape(old)
      BY <1>1 DEF Locals
    <3>2. s = Shape(s)
      BY <3>1 DEF Shape
    <3> QED  BY <3>1, <3>2 DEF Shape
  <2>3. ScanGoto(r, next, s) /\ next \in {"done", "ap"} /\ pc[r] = "ap"
    BY <1>4, <2>1 DEF ReadAp, m
  <2> HIDE DEF s, next
  <2>4. /\ IsNetworks(m)
        /\ Represents(m, old.read \cup {a}, old.active)
    BY <1>1, <2>1, MergeRepresents DEF Locals, m
  <2>5. Locals(s, next)
    BY <1>1, <2>1, <2>2, <2>3, <2>4 DEF Locals
  <2> QED  BY <2>3, <2>5, ScanGotoKeeps DEF Running, PCs
<1> QED  BY <1>2, <1>3, <1>4 DEF ApRead

LEMMA EnvironmentKeeps == ASSUME IInv, Environment PROVE IInv'
<1>1. UNCHANGED <<daemonVars>> /\ changes' = changes + 1 /\ changes < MaxChanges
  BY DEF Environment, BusStops, BusStarts, NmStops, NmStarts, DeviceComesOrGoes,
         ConnectionChanges, ProfileDeleted, AccessPointLeaves, World
<1>2. changes' \in 0..MaxChanges
  BY <1>1, QueryAssumption DEF IInv, TypeOK
<1>3. busUp' \in BOOLEAN /\ nm' \in BOOLEAN /\ managed' \in BOOLEAN /\ dead' \subseteq open'
  BY <1>1 DEF IInv, TypeOK, Environment, BusStops, BusStarts, NmStops, NmStarts,
     DeviceComesOrGoes, ConnectionChanges, ProfileDeleted, AccessPointLeaves, daemonVars
<1>4. saved' \subseteq Profiles /\ visible' \subseteq Aps
  BY DEF IInv, TypeOK, Environment, BusStops, BusStarts, NmStops, NmStarts,
     DeviceComesOrGoes, ConnectionChanges, ProfileDeleted, AccessPointLeaves
<1>5. on' \in [Devices -> saved' \cup {None}]
  <2>1. on \in [Devices -> saved \cup {None}]
    BY DEF IInv, TypeOK
  <2>2. CASE ConnectionChanges
    BY <2>1, <2>2 DEF ConnectionChanges
  <2>3. CASE ProfileDeleted
    BY <2>1, <2>3 DEF ProfileDeleted
  <2>4. CASE NmStops \/ DeviceComesOrGoes
    BY <2>1, <2>4 DEF NmStops, DeviceComesOrGoes
  <2>5. CASE BusStops \/ BusStarts \/ NmStarts \/ AccessPointLeaves
    BY <2>1, <2>5 DEF BusStops, BusStarts, NmStarts, AccessPointLeaves
  <2> QED  BY <2>2, <2>3, <2>4, <2>5 DEF Environment
<1>6. TypeOK'
  BY <1>1, <1>2, <1>3, <1>4, <1>5 DEF IInv, TypeOK, daemonVars, localVars
<1> QED  BY <1>1, <1>6 DEF IInv, ScanInv, ConnInv, ConnectedOnce, Running, daemonVars, localVars

-----------------------------------------------------------------------------
LEMMA Invariant == Spec => []IInv
<1>1. Init => IInv
  <2> SUFFICES ASSUME Init PROVE IInv
    OBVIOUS
  <2>1. TypeOK
    BY QueryAssumption DEF Init, TypeOK, PCs, Answers
  <2>2. ScanInv
    BY NoScanLocals DEF Init, ScanInv
  <2>3. ConnInv
    BY Distinct DEF Init, ConnInv, ConnectedOnce, Running
  <2> QED  BY <2>1, <2>2, <2>3 DEF IInv
<1>2. IInv /\ [Next]_vars => IInv'
  <2> SUFFICES ASSUME IInv, [Next]_vars PROVE IInv'
    OBVIOUS
  <2>1. CASE \E r \in Callers : Handler(r)
    BY <2>1, HandlerKeeps
  <2>2. CASE Ready
    BY <2>2, GotoKeeps, Distinct DEF Ready, Running, PCs
  <2>3. CASE \E r \in StatusQueries : Status(r)
    BY <2>3, StatusKeeps
  <2>4. CASE \E r \in ProfileQueries : ProfileList(r)
    BY <2>4, ListKeeps
  <2>5. CASE \E r \in ApReads : ApRead(r)
    BY <2>5, ApReadKeeps
  <2>6. CASE Environment
    BY <2>6, EnvironmentKeeps
  <2>7. CASE Restart
    <3>1. changes' \in 0..MaxChanges
      BY <2>7, QueryAssumption DEF Restart, IInv, TypeOK
    <3> QED  BY <2>7, <3>1, LeaveKeeps DEF Restart
  <2>8. CASE UNCHANGED vars
    BY <2>8 DEF IInv, TypeOK, ScanInv, ConnInv, ConnectedOnce, Running, vars, daemonVars,
       localVars, worldVars
  <2> QED  BY <2>1, <2>2, <2>3, <2>4, <2>5, <2>6, <2>7, <2>8 DEF Next
<1> QED  BY <1>1, <1>2, PTL DEF Spec

\* The variables keep their types.
THEOREM TypeCorrect == Spec => []TypeOK
<1>1. IInv => TypeOK
  BY DEF IInv
<1> QED  BY <1>1, Invariant, PTL

\* The networks that _read_access_points has merged stand for exactly the access points
\* it has read: the strongest of each with the BSSIDs of all, and the one in use marked.
THEOREM NetworksStandForTheirAccessPoints == Spec => []NetworksRepresent
<1>1. IInv => NetworksRepresent
  BY DEF IInv, ScanInv, Locals, NetworksRepresent
<1> QED  BY <1>1, Invariant, PTL

\* start() opens one connection for the life of the process when the readiness check
\* could open it, however the requests interleave.
THEOREM OneConnection == Spec => []ConnectedOnce
<1>1. IInv => ConnectedOnce
  BY DEF IInv, ConnInv
<1> QED  BY <1>1, Invariant, PTL
-----------------------------------------------------------------------------
(***************************************************************************)
(* What the queries answer. The invariant of one request relates its       *)
(* locals to the history of the world while it runs: a window that only    *)
(* grows, in which everything it has read lies; and as long as nothing has *)
(* gone away (well), what it is about to read is there.                    *)
(***************************************************************************)

Conns == Profiles \cup {None}
History == [well : BOOLEAN, absent : BOOLEAN, was : SUBSET (Devices \X Conns),
            ever : SUBSET Profiles, always : SUBSET Profiles]
Entry == [dev : Devices, conn : Conns, ip : Conns]
StatusRecord == [todo : SUBSET Devices, dev : Devices, conn : Conns, ip : Conns,
                 entries : SUBSET Entry, ssid : Conns]
ListRecord == [todo : SUBSET Profiles, active : SUBSET Profiles,
               found : SUBSET (Profiles \X BOOLEAN)]

RecordsOK ==
  /\ hist \in [Requests -> History]
  /\ status \in [StatusQueries -> StatusRecord]
  /\ list \in [ProfileQueries -> ListRecord]

\* The awaits of each handler.
Early == {"connect", "owner", "devices", "device"}
PerDevice == {"props", "name", "ip4", "link"}
Awaits(r) ==
  {"idle", "done"} \cup Early \cup
  (IF r \in StatusQueries THEN {"nm", "primary", "list", "ssid"} \cup PerDevice
   ELSE IF r \in ProfileQueries THEN {"nm", "uuid", "list", "settings"}
   ELSE {"active", "list", "ap"})

\* What the next call of r is made on exists.
AtHand(r) ==
  /\ r \in StatusQueries /\ pc[r] \in {"primary", "name", "ip4", "ssid"} => Exists(status[r].conn)
  /\ r \in ProfileQueries /\ pc[r] = "uuid" => \A c \in list[r].todo : Exists(c)
  /\ r \in ProfileQueries /\ pc[r] = "settings" => list[r].todo \subseteq saved
  /\ r \in ApReads /\ pc[r] = "ap" => scan[r].todo \subseteq visible

WellOf(r) ==
  hist[r].well =>
    /\ Running(r) => busUp /\ nm /\ managed /\ bus \notin dead /\ AtHand(r)
    /\ pc[r] = "done" => answer[r] = "ok"

AbsentOf(r) ==
  hist[r].absent =>
    /\ Running(r) => /\ ~(nm /\ managed) /\ pc[r] \in Early
                     /\ pc[r] = "devices" /\ proxy[r] => nm /\ bus \notin dead
    /\ pc[r] = "done" => answer[r] = "unavailable"

WindowOf(r) ==
  Running(r) => /\ Snapshot \subseteq hist[r].was
                /\ hist[r].always \subseteq saved /\ saved \subseteq hist[r].ever

DevsOf(s) == {e.dev : e \in s.entries}
WasUsed(was, c) == \E d \in Devices : <<d, c>> \in was
FoundIn(l) == {f[1] : f \in l.found}

\* The SSID after the Wi-Fi devices in D.
SsidTrue(s, was, D) ==
  /\ s.ssid = None => \A d \in WifiDevices \cap D : <<d, None>> \in was
  /\ s.ssid # None => \E d \in WifiDevices : <<d, s.ssid>> \in was

\* The entries made so far, and the one that is being made; at "ssid" the entry is made and
\* its access point still to be read.
StatusTrue(s, was, at) ==
  /\ \A e \in s.entries : e.ip = e.conn /\ <<e.dev, e.conn>> \in was
  /\ SsidTrue(s, was, DevsOf(s) \ (IF at = "ssid" THEN {s.dev} ELSE {}))
  /\ at \notin PerDevice \cup {"ssid", "done"} => s.entries = {} /\ s.ssid = None
  /\ at \in PerDevice => s.dev \notin s.todo /\ DevsOf(s) = Devices \ (s.todo \cup {s.dev})
  /\ at \in {"name", "ip4", "link", "ssid"} => <<s.dev, s.conn>> \in was
  /\ at = "link" => s.ip = s.conn
  /\ at = "ssid" => s.dev \in WifiDevices /\ s.conn # None /\ DevsOf(s) = Devices \ s.todo

StatusOf(r) ==
  /\ StatusTrue(status[r], hist[r].was, pc[r])
  /\ answer[r] = "ok" => DevsOf(status[r]) = Devices

\* The profiles found so far, and those still to be asked for.
ListTrue(l, h, at) ==
  /\ \A c \in l.active : WasUsed(h.was, c)
  /\ at = "idle" => l.active = {} /\ l.found = {}
  /\ at = "uuid" => \A c \in l.todo : WasUsed(h.was, c)
  /\ \A f \in l.found : f[1] \in h.ever /\ (f[2] => f[1] \in l.active)
  /\ at = "settings" => l.todo \subseteq h.ever /\ h.always \subseteq FoundIn(l) \cup l.todo

ListOf(r) ==
  /\ ListTrue(list[r], hist[r], pc[r])
  /\ answer[r] = "ok" => hist[r].always \subseteq FoundIn(list[r])

RequestOK(r) ==
  /\ pc[r] \in Awaits(r)
  /\ pc[r] \in {"idle", "connect"} => r \notin open
  /\ pc[r] # "done" => answer[r] = "none"
  /\ WellOf(r) /\ AbsentOf(r) /\ WindowOf(r)
  /\ r \in StatusQueries => StatusOf(r)
  /\ r \in ProfileQueries => ListOf(r)

QueryInv == RecordsOK /\ \A r \in Requests : RequestOK(r)

-----------------------------------------------------------------------------
\* The requests by kind.
LEMMA Kinds ==
  /\ \A r \in StatusQueries : r \in Requests /\ r \notin ProfileQueries /\ r \notin ApReads
  /\ \A r \in ProfileQueries : r \in Requests /\ r \notin StatusQueries /\ r \notin ApReads
  /\ \A r \in ApReads : r \in Requests /\ r \notin StatusQueries /\ r \notin ProfileQueries
  /\ \A r \in Requests : r \in Callers /\ r # Boot
BY QueryAssumption DEF Requests, Callers

\* A request that a step does not touch, in a world it does not touch.
LEMMA Untouched ==
  ASSUME NEW q \in Requests, RequestOK(q),
         pc'[q] = pc[q], proxy'[q] = proxy[q], answer'[q] = answer[q], hist'[q] = hist[q],
         q \in StatusQueries => status'[q] = status[q],
         q \in ProfileQueries => list'[q] = list[q],
         q \in ApReads => scan'[q] = scan[q],
         UNCHANGED worldVars, bus' = bus \/ bus' \notin dead, q \in open' => q \in open
  PROVE  RequestOK(q)'
<1> USE DEF worldVars
<1>1. AtHand(q)' <=> AtHand(q)
  BY DEF AtHand, Exists
<1>2. WellOf(q) => WellOf(q)'
  BY <1>1 DEF WellOf, Running
<1>3. AbsentOf(q) => AbsentOf(q)'
  BY DEF AbsentOf, Running
<1>4. WindowOf(q)' <=> WindowOf(q)
  BY DEF WindowOf, Running, Snapshot
<1>5. q \in StatusQueries => (StatusOf(q)' <=> StatusOf(q))
  BY DEF StatusOf
<1>6. q \in ProfileQueries => (ListOf(q)' <=> ListOf(q))
  BY DEF ListOf
<1> QED  BY <1>2, <1>3, <1>4, <1>5, <1>6 DEF RequestOK

\* A step that touches one caller only, and opens no connection but its own.
Alone(r) ==
  /\ \A q \in Requests \ {r} :
       /\ pc'[q] = pc[q] /\ proxy'[q] = proxy[q] /\ answer'[q] = answer[q] /\ hist'[q] = hist[q]
       /\ q \in StatusQueries => status'[q] = status[q]
       /\ q \in ProfileQueries => list'[q] = list[q]
       /\ q \in ApReads => scan'[q] = scan[q]
  /\ UNCHANGED worldVars
  /\ bus' = bus \/ bus' \notin dead
  /\ open' \subseteq open \cup {r}

LEMMA AloneKeeps ==
  ASSUME QueryInv, NEW r \in Callers, Alone(r), RecordsOK', r \in Requests => RequestOK(r)'
  PROVE  QueryInv'
<1>1. ASSUME NEW q \in Requests PROVE RequestOK(q)'
  <2>1. CASE q = r
    BY <2>1
  <2>2. CASE q # r
    <3>1. RequestOK(q)
      BY DEF QueryInv
    <3> QED  BY <2>2, <3>1, Untouched DEF Alone
  <2> QED  BY <2>1, <2>2
<1> QED  BY <1>1 DEF QueryInv

\* A request that goes on from one await to another, or returns its result.
LEMMA OnwardOK ==
  ASSUME TypeOK, NEW r \in Requests, RequestOK(r), NEW next, Goto(r, next), Running(r),
         next \in Awaits(r) \ {"idle", "connect"},
         hist[r].well => AtHand(r)',
         hist[r].absent => next \in {"devices", "device"},
         r \in StatusQueries => StatusOf(r)',
         r \in ProfileQueries => ListOf(r)'
  PROVE  RequestOK(r)'
<1> USE Kinds
<1>1. /\ pc'[r] = next /\ hist' = hist /\ UNCHANGED <<bus, open>> /\ UNCHANGED worldVars
      /\ answer'[r] = IF next = "done" THEN "ok" ELSE answer[r]
      /\ proxy'[r] = (pc[r] = "active")
  BY DEF TypeOK, Goto
<1>2. answer[r] = "none" /\ next # "idle" /\ next # "connect" /\ next \in Awaits(r)
  BY DEF RequestOK, Running
<1>3. WellOf(r)'
  BY <1>1 DEF RequestOK, WellOf, Running, worldVars
<1>4. AbsentOf(r)'
  BY <1>1 DEF RequestOK, AbsentOf, Running, Early, worldVars
<1>5. WindowOf(r)'
  BY <1>1 DEF RequestOK, WindowOf, Running, Snapshot, worldVars
<1>6. pc'[r] \in Awaits(r)
  BY <1>1, <1>2
<1> QED  BY <1>1, <1>2, <1>3, <1>4, <1>5, <1>6 DEF RequestOK, Awaits

-----------------------------------------------------------------------------
\* A step of r is its own.
LEMMA GotoAlone ==
  ASSUME TypeOK, NEW r \in Callers, NEW next, Goto(r, next),
         \A q \in StatusQueries \ {r} : status'[q] = status[q],
         \A q \in ProfileQueries \ {r} : list'[q] = list[q],
         \A q \in ApReads \ {r} : scan'[q] = scan[q]
  PROVE  Alone(r)
BY Kinds DEF TypeOK, Goto, Alone

\* A request that is past _wifi_device found NetworkManager and the device.
LEMMA NotAbsent ==
  ASSUME NEW r \in Requests, RequestOK(r), Running(r), pc[r] \notin Early
  PROVE  ~hist[r].absent
BY DEF RequestOK, AbsentOf

\* The common part of the handlers, in which no locals change.
LEMMA CommonKeeps ==
  ASSUME TypeOK, QueryInv, NEW r \in Callers, NEW next, Goto(r, next),
         UNCHANGED <<status, list, scan>>, pc[r] \in {"owner", "devices", "device"},
         next \in {"devices", "device", "nm", "active", "ready"},
         r \in Requests => /\ next \in Awaits(r)
                           /\ hist[r].absent => next \in {"devices", "device"}
  PROVE  QueryInv'
<1> USE Kinds
<1>1. Alone(r)
  BY GotoAlone
<1>2. RecordsOK'
  BY DEF QueryInv, RecordsOK, Goto
<1>3. ASSUME r \in Requests PROVE RequestOK(r)'
  <2>1. RequestOK(r)
    BY <1>3 DEF QueryInv
  <2>2. pc'[r] = next /\ answer'[r] = answer[r] /\ hist' = hist
    BY DEF TypeOK, Goto
  <2>3. answer[r] = "none" /\ Running(r)
    BY <1>3, <2>1 DEF RequestOK, Running
  <2>4. AtHand(r)'
    BY <2>2 DEF AtHand
  <2>5. r \in StatusQueries => StatusOf(r)'
    BY <2>1, <2>2, <2>3 DEF RequestOK, StatusOf, StatusTrue, SsidTrue, PerDevice
  <2>6. r \in ProfileQueries => ListOf(r)'
    BY <2>1, <2>2, <2>3 DEF RequestOK, ListOf, ListTrue
  <2> QED  BY <1>3, <2>1, <2>3, <2>4, <2>5, <2>6, OnwardOK
<1> QED  BY <1>1, <1>2, <1>3, AloneKeeps

-----------------------------------------------------------------------------
\* network.status: what StatusGoto needs to keep the invariant.
LEMMA StatusGotoOK ==
  ASSUME TypeOK, QueryInv, NEW r \in StatusQueries, NEW next, NEW s \in StatusRecord,
         StatusGoto(r, next, s), Running(r), pc[r] \notin Early,
         next \in {"primary", "list", "ssid", "done"} \cup PerDevice,
         hist[r].well /\ next \in {"primary", "name", "ip4", "ssid"} => Exists(s.conn),
         StatusTrue(s, hist[r].was, next),
         next = "done" => DevsOf(s) = Devices
  PROVE  QueryInv'
<1> USE Kinds
<1>1. Goto(r, next) /\ status' = [status EXCEPT ![r] = s] /\ UNCHANGED <<list, scan>>
  BY DEF StatusGoto
<1>2. /\ status' \in [StatusQueries -> StatusRecord] /\ status'[r] = s
      /\ \A q \in StatusQueries \ {r} : status'[q] = status[q]
  BY <1>1 DEF QueryInv, RecordsOK
<1>3. Alone(r)
  BY <1>1, <1>2, GotoAlone
<1>4. RecordsOK'
  BY <1>1, <1>2 DEF QueryInv, RecordsOK, Goto
<1>5. RequestOK(r) /\ pc'[r] = next /\ hist' = hist
  BY <1>1 DEF QueryInv, TypeOK, Goto
<1>6. next = "done" \/ answer'[r] = "none"
  BY <1>1, <1>5 DEF Goto, RequestOK, Running
<1>7. next \in Awaits(r) \ {"idle", "connect"}
  BY DEF Awaits, PerDevice
<1>8. hist[r].well => AtHand(r)'
  BY <1>1, <1>2, <1>5 DEF AtHand, Exists, Goto, worldVars
<1>9. StatusOf(r)'
  BY <1>2, <1>5, <1>6 DEF StatusOf
<1>10. RequestOK(r)'
  BY <1>1, <1>5, <1>7, <1>8, <1>9, NotAbsent, OnwardOK
<1> QED  BY <1>3, <1>4, <1>10, AloneKeeps

\* What a status query knows, taken apart.
LEMMA StatusKnows ==
  ASSUME TypeOK, QueryInv, NEW r \in StatusQueries, Running(r)
  PROVE  /\ status[r] \in StatusRecord
         /\ StatusTrue(status[r], hist[r].was, pc[r])
         /\ \A d \in Devices : on[d] \in Conns /\ <<d, on[d]>> \in hist[r].was
<1>1. RequestOK(r) /\ status[r] \in StatusRecord
  BY Kinds DEF QueryInv, RecordsOK
<1>2. StatusOf(r) /\ WindowOf(r)
  BY <1>1 DEF RequestOK
<1>3. \A d \in Devices : on[d] \in Conns
  BY DEF TypeOK, Conns
<1> QED  BY <1>1, <1>2, <1>3 DEF StatusOf, WindowOf, Snapshot

\* The next device is taken: OnTo.
LEMMA OnToOK ==
  ASSUME TypeOK, QueryInv, NEW r \in StatusQueries, NEW s \in StatusRecord,
         OnTo(r, s), Running(r), pc[r] \notin Early,
         \A e \in s.entries : e.ip = e.conn /\ <<e.dev, e.conn>> \in hist[r].was,
         SsidTrue(s, hist[r].was, DevsOf(s)), DevsOf(s) = Devices \ s.todo
  PROVE  QueryInv'
<1>1. PICK d \in s.todo : StatusGoto(r, "props", [s EXCEPT !.dev = d, !.todo = s.todo \ {d}])
  BY DEF OnTo
<1> DEFINE t == [s EXCEPT !.dev = d, !.todo = s.todo \ {d}]
<1>2. /\ t \in StatusRecord /\ t.dev = d /\ t.todo = s.todo \ {d}
      /\ t.entries = s.entries /\ t.ssid = s.ssid
  BY <1>1 DEF StatusRecord
<1>3. d \in Devices /\ s.todo \subseteq Devices
  BY <1>1 DEF StatusRecord
<1>4. StatusGoto(r, "props", t)
  BY <1>1
<1> HIDE DEF t
<1>5. StatusTrue(t, hist[r].was, "props")
  BY <1>2, <1>3, <1>1 DEF StatusTrue, SsidTrue, DevsOf, PerDevice
<1> QED  BY <1>2, <1>4, <1>5, StatusGotoOK DEF PerDevice

\* The device just read was the last one, or the next is taken.
LEMMA NextDeviceOK ==
  ASSUME TypeOK, QueryInv, NEW r \in StatusQueries, NEW s \in StatusRecord,
         NextDevice(r, s), Running(r), pc[r] \notin Early,
         \A e \in s.entries : e.ip = e.conn /\ <<e.dev, e.conn>> \in hist[r].was,
         SsidTrue(s, hist[r].was, DevsOf(s)), DevsOf(s) = Devices \ s.todo
  PROVE  QueryInv'
<1>1. CASE s.todo = {}
  <2>1. StatusTrue(s, hist[r].was, "done")
    BY DEF StatusTrue, SsidTrue, PerDevice
  <2> QED  BY <1>1, <2>1, StatusGotoOK DEF NextDevice
<1>2. CASE s.todo # {}
  BY <1>2, OnToOK DEF NextDevice
<1> QED  BY <1>1, <1>2

\* The steps of network.status.
LEMMA StatusKeepsQuery ==
  ASSUME TypeOK, QueryInv, NEW r \in StatusQueries, Status(r)
  PROVE  QueryInv'
<1> DEFINE s == status[r]
           was == hist[r].was
<1> USE Kinds
<1>1. Running(r) /\ pc[r] \notin Early
  BY DEF Status, ReadStatus, ReadPrimary, StatusDevices, ReadProps, ReadName, ReadIp4Config,
         ReadLink, ReadSsid, Running, Early
<1>2. /\ s \in StatusRecord /\ StatusTrue(s, was, pc[r])
      /\ \A d \in Devices : on[d] \in Conns /\ <<d, on[d]>> \in was
  BY <1>1, StatusKnows
<1> HIDE DEF s, was
<1>3. CASE ReadStatus(r)
  <2>1. PICK d \in Devices : StatusGoto(r, "primary", [s EXCEPT !.conn = on[d]])
    BY <1>3 DEF ReadStatus, s
  <2> DEFINE t == [s EXCEPT !.conn = on[d]]
  <2>2. t \in StatusRecord /\ t.conn = on[d] /\ t.entries = s.entries /\ t.ssid = s.ssid
    BY <1>2 DEF StatusRecord
  <2>3. StatusGoto(r, "primary", t)
    BY <2>1
  <2> HIDE DEF t
  <2>4. Exists(t.conn)
    BY <2>2 DEF Exists
  <2>5. pc[r] = "nm"
    BY <1>3 DEF ReadStatus
  <2>6. StatusTrue(t, was, "primary")
    BY <1>2, <2>2, <2>5 DEF StatusTrue, SsidTrue, DevsOf, PerDevice
  <2> QED  BY <1>1, <2>2, <2>3, <2>4, <2>6, StatusGotoOK DEF was
<1>4. CASE ReadPrimary(r)
  <2>1. StatusTrue(s, was, "list")
    BY <1>2, <1>4 DEF ReadPrimary, StatusTrue, SsidTrue, PerDevice
  <2> QED  BY <1>1, <1>2, <1>4, <2>1, StatusGotoOK DEF ReadPrimary, s, was
<1>5. CASE StatusDevices(r)
  <2> DEFINE t == [s EXCEPT !.todo = Devices]
  <2>1. /\ t \in StatusRecord /\ t.todo = Devices /\ t.entries = s.entries /\ t.ssid = s.ssid
    BY <1>2 DEF StatusRecord
  <2>2. OnTo(r, t)
    BY <1>5 DEF StatusDevices, s
  <2> HIDE DEF t
  <2>3. t.entries = {} /\ t.ssid = None
    BY <1>2, <1>5, <2>1 DEF StatusDevices, StatusTrue, PerDevice
  <2>4. DevsOf(t) = {}
    BY <2>3 DEF DevsOf
  <2>5. SsidTrue(t, hist[r].was, DevsOf(t))
    BY <2>3, <2>4 DEF SsidTrue
  <2> QED  BY <1>1, <2>1, <2>2, <2>3, <2>4, <2>5, OnToOK
<1>6. CASE ReadProps(r)
  <2> DEFINE t == [s EXCEPT !.conn = on[s.dev]]
  <2>1. s.dev \in Devices
    BY <1>2 DEF StatusRecord
  <2>2. /\ t \in StatusRecord /\ t.conn = on[s.dev] /\ t.dev = s.dev /\ t.todo = s.todo
        /\ t.entries = s.entries /\ t.ssid = s.ssid
    BY <1>2, <2>1 DEF StatusRecord
  <2>3. StatusGoto(r, "name", t)
    BY <1>6 DEF ReadProps, s
  <2> HIDE DEF t
  <2>4. Exists(t.conn)
    BY <2>1, <2>2 DEF Exists
  <2>5. StatusTrue(t, was, "name")
    BY <1>2, <1>6, <2>1, <2>2 DEF ReadProps, StatusTrue, SsidTrue, DevsOf, PerDevice
  <2> QED  BY <1>1, <2>2, <2>3, <2>4, <2>5, StatusGotoOK DEF was, PerDevice
<1>7. CASE ReadName(r)
  <2>1. StatusTrue(s, was, "ip4")
    BY <1>2, <1>7 DEF ReadName, StatusTrue, SsidTrue, PerDevice
  <2> QED  BY <1>1, <1>2, <1>7, <2>1, StatusGotoOK DEF ReadName, s, was, PerDevice
<1>8. CASE ReadIp4Config(r)
  <2> DEFINE t == [s EXCEPT !.ip = s.conn]
  <2>1. /\ t \in StatusRecord /\ t.conn = s.conn /\ t.ip = s.conn /\ t.dev = s.dev
        /\ t.todo = s.todo /\ t.entries = s.entries /\ t.ssid = s.ssid
    BY <1>2 DEF StatusRecord
  <2>2. StatusGoto(r, "link", t)
    BY <1>8 DEF ReadIp4Config, s
  <2> HIDE DEF t
  <2>3. StatusTrue(t, was, "link")
    BY <1>2, <1>8, <2>1 DEF ReadIp4Config, StatusTrue, SsidTrue, DevsOf, PerDevice
  <2> QED  BY <1>1, <2>1, <2>2, <2>3, StatusGotoOK DEF was, PerDevice
<1>9. CASE ReadLink(r)
  <2> DEFINE e0 == [dev |-> s.dev, conn |-> s.conn, ip |-> s.ip]
             ap == IF s.dev \in WifiDevices THEN on[s.dev] ELSE None
             t == [s EXCEPT !.entries = s.entries \cup {e0}]
             u == [t EXCEPT !.conn = ap]
  <2>1. s.dev \in Devices
    BY <1>2 DEF StatusRecord
  <2>2. e0 \in Entry /\ ap \in Conns
    BY <1>2, <2>1 DEF StatusRecord, Entry, Conns
  <2>3. e0.dev = s.dev /\ e0.conn = s.conn /\ e0.ip = s.ip
    OBVIOUS
  <2>4. \/ ap # None /\ StatusGoto(r, "ssid", u)
        \/ ap = None /\ NextDevice(r, t)
    BY <1>9 DEF ReadLink, s
  <2>5. ap = IF s.dev \in WifiDevices THEN on[s.dev] ELSE None
    OBVIOUS
  <2> HIDE DEF e0, ap
  <2>6. /\ t \in StatusRecord /\ t.todo = s.todo /\ t.entries = s.entries \cup {e0}
        /\ t.ssid = s.ssid /\ t.dev = s.dev
    BY <1>2, <2>2 DEF StatusRecord
  <2> HIDE DEF t
  <2>7. /\ u \in StatusRecord /\ u.todo = t.todo /\ u.entries = t.entries
        /\ u.ssid = t.ssid /\ u.dev = t.dev /\ u.conn = ap
    BY <2>2, <2>6 DEF StatusRecord
  <2> HIDE DEF u
  <2>8. pc[r] = "link"
    BY <1>9 DEF ReadLink
  <2>9. \A e \in t.entries : e.ip = e.conn /\ <<e.dev, e.conn>> \in was
    BY <1>2, <2>3, <2>6, <2>8 DEF StatusTrue
  <2>10. DevsOf(t) = DevsOf(s) \cup {s.dev}
    BY <2>3, <2>6 DEF DevsOf
  <2>11. /\ DevsOf(s) = Devices \ (s.todo \cup {s.dev}) /\ s.dev \notin s.todo
         /\ SsidTrue(s, was, DevsOf(s))
    BY <1>2, <2>8 DEF StatusTrue, SsidTrue, PerDevice
  <2>12. DevsOf(t) = Devices \ s.todo
    BY <2>1, <2>10, <2>11
  <2>13. CASE ap # None
    <3>1. StatusGoto(r, "ssid", u) /\ s.dev \in WifiDevices /\ ap = on[s.dev]
      BY <2>4, <2>5, <2>13
    <3>2. DevsOf(u) = DevsOf(t)
      BY <2>7 DEF DevsOf
    <3>3. SsidTrue(u, was, DevsOf(u) \ {u.dev})
      BY <2>6, <2>7, <2>10, <2>11, <3>2 DEF SsidTrue
    <3>4. <<u.dev, u.conn>> \in was
      BY <1>2, <2>1, <2>6, <2>7, <3>1
    <3>5. StatusTrue(u, was, "ssid")
      BY <2>6, <2>7, <2>9, <2>12, <2>13, <3>1, <3>2, <3>3, <3>4 DEF StatusTrue, SsidTrue, PerDevice
    <3>6. Exists(u.conn)
      BY <2>1, <2>7, <3>1 DEF Exists
    <3> QED  BY <1>1, <2>7, <3>1, <3>5, <3>6, StatusGotoOK DEF was
  <2>14. CASE ap = None
    <3>1. s.dev \in WifiDevices => <<s.dev, None>> \in was
      BY <1>2, <2>1, <2>5, <2>14
    <3>2. SsidTrue(t, was, DevsOf(t))
      BY <2>6, <2>10, <2>11, <3>1 DEF SsidTrue
    <3> QED  BY <1>1, <2>4, <2>6, <2>9, <2>12, <2>14, <3>2, NextDeviceOK DEF was
  <2> QED  BY <2>13, <2>14
<1>10. CASE ReadSsid(r)
  <2> DEFINE t == [s EXCEPT !.ssid = s.conn]
  <2>1. pc[r] = "ssid"
    BY <1>10 DEF ReadSsid
  <2>2. NextDevice(r, t)
    BY <1>10 DEF ReadSsid, s
  <2>3. /\ t \in StatusRecord /\ t.todo = s.todo /\ t.entries = s.entries
        /\ t.ssid = s.conn
    BY <1>2 DEF StatusRecord
  <2> HIDE DEF t
  <2>4. /\ s.dev \in WifiDevices /\ s.conn # None /\ <<s.dev, s.conn>> \in was
        /\ DevsOf(s) = Devices \ s.todo
        /\ \A e \in s.entries : e.ip = e.conn /\ <<e.dev, e.conn>> \in was
    BY <1>2, <2>1 DEF StatusTrue
  <2>5. DevsOf(t) = DevsOf(s)
    BY <2>3 DEF DevsOf
  <2>6. SsidTrue(t, was, DevsOf(t))
    BY <2>3, <2>4 DEF SsidTrue
  <2> QED  BY <1>1, <2>2, <2>3, <2>4, <2>5, <2>6, NextDeviceOK DEF was
<1> QED  BY <1>3, <1>4, <1>5, <1>6, <1>7, <1>8, <1>9, <1>10 DEF Status

-----------------------------------------------------------------------------
\* network.profiles: what ListGoto needs to keep the invariant.
LEMMA ListGotoOK ==
  ASSUME TypeOK, QueryInv, NEW r \in ProfileQueries, NEW next, NEW l \in ListRecord,
         ListGoto(r, next, l), Running(r), pc[r] \notin Early,
         next \in {"uuid", "list", "settings", "done"},
         hist[r].well /\ next = "uuid" => \A c \in l.todo : Exists(c),
         hist[r].well /\ next = "settings" => l.todo \subseteq saved,
         ListTrue(l, hist[r], next),
         next = "done" => hist[r].always \subseteq FoundIn(l)
  PROVE  QueryInv'
<1> USE Kinds
<1>1. Goto(r, next) /\ list' = [list EXCEPT ![r] = l] /\ UNCHANGED <<status, scan>>
  BY DEF ListGoto
<1>2. /\ list' \in [ProfileQueries -> ListRecord] /\ list'[r] = l
      /\ \A q \in ProfileQueries \ {r} : list'[q] = list[q]
  BY <1>1 DEF QueryInv, RecordsOK
<1>3. Alone(r)
  BY <1>1, <1>2, GotoAlone
<1>4. RecordsOK'
  BY <1>1, <1>2 DEF QueryInv, RecordsOK, Goto
<1>5. RequestOK(r) /\ pc'[r] = next /\ hist' = hist
  BY <1>1 DEF QueryInv, TypeOK, Goto
<1>6. next = "done" \/ answer'[r] = "none"
  BY <1>1, <1>5 DEF Goto, RequestOK, Running
<1>7. next \in Awaits(r) \ {"idle", "connect"}
  BY DEF Awaits
<1>8. hist[r].well => AtHand(r)'
  BY <1>1, <1>2, <1>5 DEF AtHand, Exists, Goto, worldVars
<1>9. ListOf(r)'
  BY <1>2, <1>5, <1>6 DEF ListOf
<1>10. RequestOK(r)'
  BY <1>1, <1>5, <1>7, <1>8, <1>9, NotAbsent, OnwardOK
<1> QED  BY <1>3, <1>4, <1>10, AloneKeeps

\* The steps of network.profiles.
LEMMA ListKeepsQuery ==
  ASSUME TypeOK, QueryInv, NEW r \in ProfileQueries, ProfileList(r)
  PROVE  QueryInv'
<1> DEFINE l == list[r]
           h == hist[r]
<1> USE Kinds
<1>1. Running(r) /\ pc[r] \notin Early
  BY DEF ProfileList, ReadActive, ReadUuid, ListConnections, GetSettings, Running, Early
<1>2. l \in ListRecord /\ RequestOK(r) /\ h \in History
  BY DEF QueryInv, RecordsOK
<1>3. /\ ListTrue(l, h, pc[r]) /\ h.always \subseteq saved /\ saved \subseteq h.ever
      /\ \A d \in Devices : <<d, on[d]>> \in h.was
  BY <1>1, <1>2 DEF RequestOK, ListOf, WindowOf, Snapshot
<1>4. saved \subseteq Profiles /\ \A d \in Devices : on[d] \in saved \cup {None}
  BY DEF TypeOK
<1>5. h.well /\ pc[r] = "uuid" => \A c \in l.todo : Exists(c)
  BY <1>1, <1>2 DEF RequestOK, WellOf, AtHand
<1>6. h.well /\ pc[r] = "settings" => l.todo \subseteq saved
  BY <1>1, <1>2 DEF RequestOK, WellOf, AtHand
<1> HIDE DEF l, h
<1>7. CASE ReadActive(r)
  <2> DEFINE todo == {on[d] : d \in Devices} \ {None}
             t == [l EXCEPT !.todo = todo]
             next == IF todo = {} THEN "list" ELSE "uuid"
  <2>1. ListGoto(r, next, t) /\ pc[r] = "nm"
    BY <1>7 DEF ReadActive, l
  <2>2. todo \subseteq Profiles /\ \A c \in todo : \E d \in Devices : c = on[d]
    BY <1>4
  <2> HIDE DEF todo
  <2>3. t \in ListRecord /\ t.todo = todo /\ t.active = l.active /\ t.found = l.found
    BY <1>2, <2>2 DEF ListRecord
  <2>4. next \in {"list", "uuid"}
    OBVIOUS
  <2> HIDE DEF t, next
  <2>5. \A c \in t.todo : Exists(c) /\ WasUsed(h.was, c)
    BY <1>3, <2>2, <2>3 DEF Exists, WasUsed
  <2>6. ListTrue(t, h, next)
    BY <1>3, <2>1, <2>3, <2>4, <2>5 DEF ListTrue
  <2> QED  BY <1>1, <2>1, <2>3, <2>4, <2>5, <2>6, ListGotoOK DEF h
<1>8. CASE ReadUuid(r)
  <2>1. PICK c \in l.todo :
          /\ Exists(c)
          /\ ListGoto(r, IF l.todo = {c} THEN "list" ELSE "uuid",
                      [l EXCEPT !.todo = l.todo \ {c}, !.active = l.active \cup {c}])
    BY <1>8 DEF ReadUuid, l
  <2> DEFINE t == [l EXCEPT !.todo = l.todo \ {c}, !.active = l.active \cup {c}]
             next == IF l.todo = {c} THEN "list" ELSE "uuid"
  <2>2. /\ t \in ListRecord /\ t.todo = l.todo \ {c} /\ t.active = l.active \cup {c}
        /\ t.found = l.found
    BY <1>2, <2>1 DEF ListRecord
  <2>3. next \in {"list", "uuid"} /\ pc[r] = "uuid" /\ ListGoto(r, next, t)
    BY <1>8, <2>1 DEF ReadUuid
  <2> HIDE DEF t, next
  <2>4. h.well => \A p \in t.todo : Exists(p)
    BY <1>5, <2>2, <2>3
  <2>5. ListTrue(t, h, next)
    BY <1>3, <2>1, <2>2, <2>3 DEF ListTrue
  <2> QED  BY <1>1, <2>2, <2>3, <2>4, <2>5, ListGotoOK DEF h
<1>9. CASE ListConnections(r)
  <2> DEFINE t == [l EXCEPT !.todo = saved]
             next == IF saved = {} THEN "done" ELSE "settings"
  <2>1. t \in ListRecord /\ t.todo = saved /\ t.active = l.active /\ t.found = l.found
    BY <1>2, <1>4 DEF ListRecord
  <2>2. ListGoto(r, next, t)
    BY <1>9 DEF ListConnections, l
  <2>3. next \in {"done", "settings"} /\ (next = "done" => saved = {})
    OBVIOUS
  <2> HIDE DEF t, next
  <2>4. ListTrue(t, h, next)
    BY <1>3, <2>1, <2>3 DEF ListTrue, FoundIn
  <2>5. next = "done" => h.always \subseteq FoundIn(t)
    BY <1>3, <2>3
  <2> QED  BY <1>1, <2>1, <2>2, <2>3, <2>4, <2>5, ListGotoOK DEF h
<1>10. CASE GetSettings(r)
  <2>1. PICK p \in l.todo \cap saved :
          ListGoto(r, IF l.todo = {p} THEN "done" ELSE "settings",
                   [l EXCEPT !.todo = l.todo \ {p},
                             !.found = l.found \cup {<<p, p \in l.active>>}])
    BY <1>10 DEF GetSettings, l
  <2> DEFINE used == p \in l.active
             f0 == <<p, used>>
             t == [l EXCEPT !.todo = l.todo \ {p}, !.found = l.found \cup {f0}]
             next == IF l.todo = {p} THEN "done" ELSE "settings"
  <2>2. ListGoto(r, next, t)
    BY <2>1
  <2>3. used \in BOOLEAN
    OBVIOUS
  <2>4. used => p \in l.active
    OBVIOUS
  <2> HIDE DEF used
  <2>5. f0 \in Profiles \X BOOLEAN /\ f0[1] = p /\ f0[2] = used
    BY <1>4, <2>3
  <2>6. f0 \in Profiles \X BOOLEAN /\ f0[1] = p /\ (f0[2] => p \in l.active)
    BY <2>5, <2>4, Zenon
  <2> HIDE DEF f0
  <2>7. /\ t \in ListRecord /\ t.todo = l.todo \ {p} /\ t.active = l.active
        /\ t.found = l.found \cup {f0}
    BY <1>2, <2>6 DEF ListRecord
  <2>8. next \in {"done", "settings"} /\ (next = "done" => l.todo = {p}) /\ pc[r] = "settings"
    BY <1>10 DEF GetSettings
  <2> HIDE DEF t, next
  <2>9. FoundIn(t) = FoundIn(l) \cup {p}
    BY <2>6, <2>7 DEF FoundIn
  <2>10. l.todo \subseteq h.ever /\ h.always \subseteq FoundIn(l) \cup l.todo
    BY <1>3, <2>8 DEF ListTrue
  <2>11. \A f \in t.found : f[1] \in h.ever /\ (f[2] => f[1] \in t.active)
    BY <1>3, <2>1, <2>6, <2>7 DEF ListTrue
  <2>12. ListTrue(t, h, next)
    BY <1>3, <2>7, <2>8, <2>9, <2>10, <2>11 DEF ListTrue
  <2>13. next = "done" => h.always \subseteq FoundIn(t)
    BY <2>8, <2>9, <2>10
  <2>14. h.well => t.todo \subseteq saved
    BY <1>6, <2>7, <2>8
  <2> QED  BY <1>1, <2>2, <2>7, <2>8, <2>12, <2>13, <2>14, ListGotoOK DEF h
<1> QED  BY <1>7, <1>8, <1>9, <1>10 DEF ProfileList

-----------------------------------------------------------------------------
\* The access points of wifi.scan.
LEMMA ApReadKeepsQuery ==
  ASSUME IInv, QueryInv, NEW r \in ApReads, ApRead(r)
  PROVE  QueryInv'
<1> USE Kinds
<1>1. TypeOK /\ Running(r) /\ pc[r] \notin Early /\ RequestOK(r)
  BY DEF IInv, QueryInv, ApRead, ReadActiveAp, ListAps, ReadAp, Running, Early
<1>2. hist[r].well /\ pc[r] = "ap" => scan[r].todo \subseteq visible
  BY <1>1 DEF RequestOK, WellOf, AtHand
<1>3. scan[r] = Shape(scan[r]) /\ scan = [q \in ApReads |-> scan[q]]
  BY DEF IInv, ScanInv, Locals
<1>4. ASSUME NEW next, NEW s, ScanGoto(r, next, s), next \in {"list", "ap", "done"},
             hist[r].well /\ next = "ap" => s.todo \subseteq visible
      PROVE  QueryInv'
  <2>1. Goto(r, next) /\ scan' = [scan EXCEPT ![r] = s] /\ UNCHANGED <<status, list>>
    BY <1>4 DEF ScanGoto
  <2>2. scan'[r] = s /\ \A q \in ApReads \ {r} : scan'[q] = scan[q]
    BY <1>3, <2>1
  <2>3. Alone(r)
    BY <1>1, <2>1, <2>2, GotoAlone
  <2>4. RecordsOK'
    BY <2>1 DEF QueryInv, RecordsOK, Goto
  <2>5. pc'[r] = next /\ visible' = visible
    BY <1>1, <2>1 DEF TypeOK, Goto, worldVars
  <2>6. hist[r].well => AtHand(r)'
    BY <1>4, <2>2, <2>5 DEF AtHand
  <2>7. next \in Awaits(r) \ {"idle", "connect"}
    BY <1>4 DEF Awaits
  <2>8. RequestOK(r)'
    BY <1>1, <2>1, <2>6, <2>7, NotAbsent, OnwardOK
  <2> QED  BY <2>3, <2>4, <2>8, AloneKeeps
<1>5. CASE ReadActiveAp(r)
  BY <1>4, <1>5 DEF ReadActiveAp
<1>6. CASE ListAps(r)
  <2> DEFINE s == [scan[r] EXCEPT !.todo = visible]
  <2>1. s.todo = visible
    BY <1>3 DEF Shape
  <2>2. ScanGoto(r, IF visible = {} THEN "done" ELSE "ap", s)
    BY <1>6 DEF ListAps
  <2> HIDE DEF s
  <2> QED  BY <1>4, <2>1, <2>2
<1>7. CASE ReadAp(r)
  <2>1. PICK a, m : ScanGoto(r, IF scan[r].todo = {a} THEN "done" ELSE "ap",
                             [scan[r] EXCEPT !.todo = scan[r].todo \ {a},
                                             !.read = scan[r].read \cup {a}, !.got = m])
    BY <1>7 DEF ReadAp
  <2> DEFINE s == [scan[r] EXCEPT !.todo = scan[r].todo \ {a},
                                  !.read = scan[r].read \cup {a}, !.got = m]
  <2>2. s.todo = scan[r].todo \ {a}
    BY <1>3 DEF Shape
  <2>3. ScanGoto(r, IF scan[r].todo = {a} THEN "done" ELSE "ap", s) /\ pc[r] = "ap"
    BY <1>7, <2>1 DEF ReadAp
  <2> HIDE DEF s
  <2> QED  BY <1>2, <1>4, <2>2, <2>3
<1> QED  BY <1>5, <1>6, <1>7 DEF ApRead

-----------------------------------------------------------------------------
\* The end of a request that is refused or cut off: it keeps nothing it has read.
LEMMA EndedOK ==
  ASSUME NEW q \in Requests, pc'[q] = "done", answer'[q] # "ok", ~hist'[q].well,
         hist'[q].absent => answer'[q] = "unavailable",
         q \in StatusQueries => status'[q] = NoStatus,
         q \in ProfileQueries => list'[q] = NoList
  PROVE  RequestOK(q)'
<1>1. WellOf(q)' /\ AbsentOf(q)' /\ WindowOf(q)'
  BY DEF WellOf, AbsentOf, WindowOf, Running
<1>2. q \in StatusQueries => StatusOf(q)'
  BY DEF StatusOf, StatusTrue, SsidTrue, NoStatus, DevsOf, PerDevice
<1>3. q \in ProfileQueries => ListOf(q)'
  BY DEF ListOf, ListTrue, NoList
<1> QED  BY <1>1, <1>2, <1>3 DEF RequestOK, Awaits

\* What happens to the world, or to the process, does not touch a request that has not
\* begun or has ended.
LEMMA RestOK ==
  ASSUME NEW q \in Requests, RequestOK(q), ~Running(q),
         pc'[q] = pc[q], answer'[q] = answer[q], hist'[q] = hist[q],
         q \in StatusQueries => status'[q] = status[q],
         q \in ProfileQueries => list'[q] = list[q], open' \subseteq open
  PROVE  RequestOK(q)'
<1>1. WellOf(q)' /\ AbsentOf(q)' /\ WindowOf(q)'
  BY DEF RequestOK, WellOf, AbsentOf, WindowOf, Running
<1>2. q \in StatusQueries => StatusOf(q)'
  BY DEF RequestOK, StatusOf
<1>3. q \in ProfileQueries => ListOf(q)'
  BY DEF RequestOK, ListOf
<1> QED  BY <1>1, <1>2, <1>3 DEF RequestOK

LEMMA EmptyRecords == NoStatus \in StatusRecord /\ NoList \in ListRecord /\ NoHistory \in History
BY QueryAssumption DEF NoStatus, StatusRecord, Conns, NoList, ListRecord, NoHistory, History

LEMMA ForgetRecords ==
  ASSUME RecordsOK, NEW R, Forget(R)
  PROVE  /\ status' \in [StatusQueries -> StatusRecord]
         /\ list' \in [ProfileQueries -> ListRecord]
         /\ \A q \in StatusQueries : status'[q] = IF q \in R THEN NoStatus ELSE status[q]
         /\ \A q \in ProfileQueries : list'[q] = IF q \in R THEN NoList ELSE list[q]
         /\ \A q \in ApReads : q \notin R => scan'[q] = scan[q]
BY EmptyRecords DEF RecordsOK, Forget

\* A handler that raises: the request had lost something, or never had it.
LEMMA FailOK ==
  ASSUME TypeOK, QueryInv, NEW r \in Callers, NEW code, code # "ok", Fail(r, code),
         r \in Requests => ~hist[r].well /\ (hist[r].absent => code = "unavailable")
  PROVE  QueryInv'
<1> USE Kinds
<1> DEFINE h == [NoHistory EXCEPT !.well = hist[r].well, !.absent = hist[r].absent]
<1>1. /\ pc' = [pc EXCEPT ![r] = "done"] /\ proxy' = [proxy EXCEPT ![r] = FALSE]
      /\ answer' = [answer EXCEPT ![r] = code]
      /\ Forget({r}) /\ hist' = [q \in Requests |-> IF q = r THEN h ELSE hist[q]]
      /\ UNCHANGED <<bus, open, worldVars>>
  BY DEF Fail
<1>2. /\ status' \in [StatusQueries -> StatusRecord]
      /\ list' \in [ProfileQueries -> ListRecord]
      /\ \A q \in StatusQueries : status'[q] = IF q = r THEN NoStatus ELSE status[q]
      /\ \A q \in ProfileQueries : list'[q] = IF q = r THEN NoList ELSE list[q]
      /\ \A q \in ApReads : q # r => scan'[q] = scan[q]
  BY <1>1, ForgetRecords DEF QueryInv
<1>3. ASSUME r \in Requests
      PROVE  h \in History /\ h.well = hist[r].well /\ h.absent = hist[r].absent
  <2>1. hist[r] \in History
    BY <1>3 DEF QueryInv, RecordsOK
  <2> QED  BY <2>1 DEF History, NoHistory
<1> HIDE DEF h
<1>4. RecordsOK'
  BY <1>1, <1>2, <1>3 DEF QueryInv, RecordsOK
<1>5. Alone(r)
  BY <1>1, <1>2 DEF TypeOK, Alone
<1>6. ASSUME r \in Requests PROVE RequestOK(r)'
  <2>1. pc'[r] = "done" /\ answer'[r] = code /\ hist'[r] = h
    BY <1>1, <1>6 DEF TypeOK
  <2> QED  BY <1>2, <1>3, <1>6, <2>1, EndedOK
<1> QED  BY <1>4, <1>5, <1>6, AloneKeeps

LEMMA CancelOK == ASSUME TypeOK, QueryInv, NEW r \in Callers, Cancel(r) PROVE QueryInv'
<1> USE Kinds
<1>1. /\ r \in Requests /\ pc' = [pc EXCEPT ![r] = "done"] /\ proxy' = [proxy EXCEPT ![r] = FALSE]
      /\ answer' = [q \in Callers |-> IF q = r THEN "cut" ELSE answer[q]]
      /\ Forget({r}) /\ hist' = [q \in Requests |-> IF q = r THEN NoHistory ELSE hist[q]]
      /\ UNCHANGED <<bus, open, worldVars>>
  BY DEF Cancel, Cut, Callers
<1>2. /\ status' \in [StatusQueries -> StatusRecord]
      /\ list' \in [ProfileQueries -> ListRecord]
      /\ \A q \in StatusQueries : status'[q] = IF q = r THEN NoStatus ELSE status[q]
      /\ \A q \in ProfileQueries : list'[q] = IF q = r THEN NoList ELSE list[q]
      /\ \A q \in ApReads : q # r => scan'[q] = scan[q]
  BY <1>1, ForgetRecords DEF QueryInv
<1>3. RecordsOK'
  BY <1>1, <1>2, EmptyRecords DEF QueryInv, RecordsOK
<1>4. Alone(r)
  BY <1>1, <1>2 DEF TypeOK, Alone
<1>5. RequestOK(r)'
  <2>1. pc'[r] = "done" /\ answer'[r] = "cut" /\ ~hist'[r].well /\ ~hist'[r].absent
    BY <1>1 DEF TypeOK, NoHistory
  <2> QED  BY <1>1, <1>2, <2>1, EndedOK
<1> QED  BY <1>3, <1>4, <1>5, AloneKeeps

\* The end of the process cuts off what runs and leaves alone what does not.
LEMMA LeaveOK == ASSUME TypeOK, QueryInv, Leave PROVE QueryInv'
<1> USE Kinds
<1> DEFINE cut == {r \in Requests : Running(r)}
<1>1. /\ open' = {}
      /\ pc' = [r \in Callers |-> IF r \in cut THEN "done" ELSE IF r = Boot THEN "idle" ELSE pc[r]]
      /\ answer' = [r \in Callers |-> IF r \in cut THEN "cut" ELSE answer[r]]
      /\ Forget(cut) /\ hist' = [r \in Requests |-> IF r \in cut THEN NoHistory ELSE hist[r]]
  BY DEF Leave, Cut
<1>2. /\ status' \in [StatusQueries -> StatusRecord]
      /\ list' \in [ProfileQueries -> ListRecord]
      /\ \A q \in StatusQueries : status'[q] = IF q \in cut THEN NoStatus ELSE status[q]
      /\ \A q \in ProfileQueries : list'[q] = IF q \in cut THEN NoList ELSE list[q]
  BY <1>1, ForgetRecords DEF QueryInv
<1>3. \A q \in Requests : q \in cut <=> Running(q)
  OBVIOUS
<1> HIDE DEF cut
<1>4. RecordsOK'
  BY <1>1, <1>2, EmptyRecords DEF QueryInv, RecordsOK
<1>5. ASSUME NEW q \in Requests PROVE RequestOK(q)'
  <2>1. CASE Running(q)
    <3>1. pc'[q] = "done" /\ answer'[q] = "cut" /\ ~hist'[q].well /\ ~hist'[q].absent
      BY <1>1, <1>3, <2>1 DEF NoHistory
    <3> QED  BY <1>2, <1>3, <2>1, <3>1, EndedOK
  <2>2. CASE ~Running(q)
    <3>1. RequestOK(q)
      BY DEF QueryInv
    <3>2. pc'[q] = pc[q] /\ answer'[q] = answer[q] /\ hist'[q] = hist[q]
      BY <1>1, <1>3, <2>2
    <3> QED  BY <1>1, <1>2, <1>3, <2>2, <3>1, <3>2, RestOK
  <2> QED  BY <2>1, <2>2
<1> QED  BY <1>4, <1>5 DEF QueryInv

-----------------------------------------------------------------------------
\* A request that begins: its window is the world as it is.
LEMMA BeginOK == ASSUME IInv, QueryInv, NEW r \in Callers, Begin(r) PROVE QueryInv'
<1> USE Kinds
<1> DEFINE first == IF bus = NoBus THEN "connect" ELSE "owner"
           h == [well |-> Healthy, absent |-> ~(nm /\ managed),
                 was |-> Snapshot, ever |-> saved, always |-> saved]
<1>1. /\ pc[r] = "idle" /\ pc' = [pc EXCEPT ![r] = first]
      /\ hist' = IF r = Boot THEN hist ELSE [hist EXCEPT ![r] = h]
      /\ UNCHANGED <<bus, open, answer, localVars, worldVars>>
  BY DEF Begin, Start
<1>2. /\ TypeOK /\ dead \subseteq open /\ saved \subseteq Profiles
      /\ \A d \in Devices : on[d] \in saved \cup {None}
  BY DEF IInv, TypeOK
<1>3. first \in {"connect", "owner"} /\ (first = "connect" => bus = NoBus)
  OBVIOUS
<1>4. /\ h \in History /\ h.was = Snapshot /\ h.ever = saved /\ h.always = saved
      /\ (h.well => Healthy) /\ (h.absent => ~(nm /\ managed))
  <2>1. Healthy \in BOOLEAN /\ (~(nm /\ managed)) \in BOOLEAN
    <3>1. Healthy \in BOOLEAN
      BY ONLY Zenon DEF Healthy
    <3>2. (~(nm /\ managed)) \in BOOLEAN
      BY ONLY Zenon
    <3> QED  BY ONLY <3>1, <3>2
  <2>2. Snapshot \in SUBSET (Devices \X Conns) /\ saved \in SUBSET Profiles
    BY <1>2 DEF Snapshot, Conns
  <2>3. h \in History
    BY <2>1, <2>2 DEF History
  <2>4. h.was = Snapshot /\ h.ever = saved /\ h.always = saved
    OBVIOUS
  <2>5. h.well = Healthy /\ h.absent = ~(nm /\ managed)
    OBVIOUS
  <2>6. (h.well => Healthy) /\ (h.absent => ~(nm /\ managed))
    BY ONLY <2>5, Zenon
  <2> QED  BY <2>3, <2>4, <2>6
<1> HIDE DEF first, h
<1>5. RecordsOK'
  BY <1>1, <1>4 DEF QueryInv, RecordsOK, localVars
<1>6. Alone(r)
  BY <1>1, <1>2 DEF TypeOK, QueryInv, RecordsOK, Alone, localVars
<1>7. ASSUME r \in Requests PROVE RequestOK(r)'
  <2>1. RequestOK(r) /\ pc'[r] = first /\ hist'[r] = h
    BY <1>1, <1>2, <1>7 DEF QueryInv, RecordsOK, TypeOK
  <2>2. UNCHANGED <<bus, open, answer, status, list, worldVars>>
    BY <1>1 DEF localVars
  <2>3. WellOf(r)'
    <3>1. Healthy => busUp /\ nm /\ managed /\ bus \notin dead
      BY <1>2 DEF Healthy, Dropped
    <3> QED  BY <1>3, <1>4, <2>1, <2>2, <3>1 DEF WellOf, AtHand, worldVars
  <2>4. AbsentOf(r)' /\ WindowOf(r)'
    BY <1>3, <1>4, <2>1, <2>2 DEF AbsentOf, WindowOf, Early, Snapshot, worldVars
  <2>5. r \in StatusQueries => StatusOf(r)'
    BY <1>1, <1>3, <2>1, <2>2 DEF RequestOK, StatusOf, StatusTrue, SsidTrue, PerDevice, DevsOf
  <2>6. r \in ProfileQueries => ListOf(r)'
    BY <1>1, <1>3, <2>1, <2>2 DEF RequestOK, ListOf, ListTrue
  <2>7. first \in Awaits(r)
    BY <1>3 DEF Awaits, Early
  <2> QED
    BY <1>1, <1>3, <2>1, <2>2, <2>3, <2>4, <2>5, <2>6, <2>7 DEF RequestOK
<1> QED  BY <1>5, <1>6, <1>7, AloneKeeps

\* A connection that has just been made is one that dbus has not dropped.
LEMMA ConnectOK == ASSUME IInv, QueryInv, NEW r \in Callers, Connect(r) PROVE QueryInv'
<1> USE Kinds
<1>1. /\ pc[r] = "connect" /\ pc' = [pc EXCEPT ![r] = "owner"]
      /\ bus' = r /\ open' = open \cup {r}
      /\ UNCHANGED <<answer, localVars, worldVars, hist>>
  BY DEF Connect
<1>2. TypeOK /\ dead \subseteq open
  BY DEF IInv, TypeOK
<1>3. r \notin open
  <2>1. CASE r = Boot
    BY <1>1, <2>1 DEF IInv, ConnInv
  <2>2. CASE r \in Requests
    BY <1>1, <2>2 DEF QueryInv, RequestOK
  <2> QED  BY <2>1, <2>2 DEF Callers
<1>4. RecordsOK'
  BY <1>1 DEF QueryInv, RecordsOK, localVars
<1>5. Alone(r)
  BY <1>1, <1>2, <1>3 DEF TypeOK, Alone, localVars
<1>6. ASSUME r \in Requests PROVE RequestOK(r)'
  <2>1. RequestOK(r) /\ pc'[r] = "owner"
    BY <1>1, <1>2, <1>6 DEF QueryInv, TypeOK
  <2>2. UNCHANGED <<answer, hist, status, list, worldVars>>
    BY <1>1 DEF localVars
  <2>3. WellOf(r)'
    BY <1>1, <1>2, <1>3, <2>1, <2>2 DEF RequestOK, WellOf, AtHand, Running, worldVars
  <2>4. AbsentOf(r)' /\ WindowOf(r)'
    BY <1>1, <2>1, <2>2 DEF RequestOK, AbsentOf, WindowOf, Running, Early, Snapshot, worldVars
  <2>5. r \in StatusQueries => StatusOf(r)'
    BY <1>1, <2>1, <2>2 DEF RequestOK, StatusOf, StatusTrue, SsidTrue, PerDevice
  <2>6. r \in ProfileQueries => ListOf(r)'
    BY <1>1, <2>1, <2>2 DEF RequestOK, ListOf, ListTrue
  <2>7. "owner" \in Awaits(r)
    BY DEF Awaits, Early
  <2> QED  BY <1>1, <2>1, <2>2, <2>3, <2>4, <2>5, <2>6, <2>7 DEF RequestOK
<1> QED  BY <1>4, <1>5, <1>6, AloneKeeps

LEMMA GetProxyOK == ASSUME TypeOK, QueryInv, NEW r \in Callers, GetProxy(r) PROVE QueryInv'
<1> USE Kinds
<1>1. /\ nm /\ bus \notin dead /\ proxy' = [proxy EXCEPT ![r] = TRUE]
      /\ UNCHANGED <<bus, open, pc, answer, status, list, scan, worldVars, hist>>
  BY DEF GetProxy, Reached
<1>2. RecordsOK'
  BY <1>1 DEF QueryInv, RecordsOK
<1>3. Alone(r)
  BY <1>1 DEF TypeOK, Alone
<1>4. ASSUME r \in Requests PROVE RequestOK(r)'
  <2>1. RequestOK(r)
    BY <1>4 DEF QueryInv
  <2>2. WellOf(r)'
    BY <1>1, <2>1 DEF RequestOK, WellOf, AtHand, Exists, Running, worldVars
  <2>3. AbsentOf(r)' /\ WindowOf(r)'
    BY <1>1, <2>1 DEF RequestOK, AbsentOf, WindowOf, Running, Snapshot, worldVars
  <2>4. /\ r \in StatusQueries => StatusOf(r)'
        /\ r \in ProfileQueries => ListOf(r)'
    BY <1>1, <2>1 DEF RequestOK, StatusOf, ListOf
  <2> QED  BY <1>1, <2>1, <2>2, <2>3, <2>4 DEF RequestOK
<1> QED  BY <1>2, <1>3, <1>4, AloneKeeps

\* A call fails only for a request that has lost something; and, while the backend is
\* absent, never between a proxy and the call on it.
LEMMA CallFailsOK ==
  ASSUME TypeOK, QueryInv, NEW r \in Callers, CallFails(r), ~(r = Boot /\ proxy[r])
  PROVE  QueryInv'
<1> USE Kinds
<1> DEFINE code == IF proxy[r] /\ pc[r] \in Bare THEN "internal" ELSE "unavailable"
<1>1. /\ Running(r) /\ (bus \in dead \/ (pc[r] # "owner" /\ ~nm) \/ Gone(r))
      /\ Fail(r, code)
  BY DEF CallFails
<1>2. code # "ok" /\ (code # "unavailable" => proxy[r] /\ pc[r] \in Bare)
  OBVIOUS
<1> HIDE DEF code
<1>3. ASSUME r \in Requests PROVE ~hist[r].well /\ (hist[r].absent => code = "unavailable")
  <2>1. RequestOK(r)
    BY <1>3 DEF QueryInv
  <2>2. ~hist[r].well
    <3> SUFFICES ASSUME hist[r].well PROVE FALSE
      OBVIOUS
    <3>1. busUp /\ nm /\ managed /\ bus \notin dead /\ AtHand(r)
      BY <1>1, <2>1 DEF RequestOK, WellOf
    <3>2. pc[r] \in Awaits(r)
      BY <2>1 DEF RequestOK
    <3>3. Gone(r)
      BY <1>1, <3>1
    <3> QED  BY <1>3, <3>1, <3>2, <3>3 DEF Requests, Gone, AtHand, Awaits, Early, PerDevice
  <2>3. hist[r].absent => code = "unavailable"
    <3> SUFFICES ASSUME hist[r].absent, code # "unavailable" PROVE FALSE
      OBVIOUS
    <3>1. pc[r] = "devices" /\ nm /\ bus \notin dead
      BY <1>1, <1>2, <2>1 DEF RequestOK, AbsentOf, Bare, Early
    <3> QED  BY <1>1, <3>1 DEF Gone
  <2> QED  BY <2>2, <2>3
<1> QED  BY <1>1, <1>2, <1>3, FailOK

\* The steps of every handler.
LEMMA HandlerKeepsQuery == ASSUME IInv, QueryInv, NEW r \in Callers, Handler(r) PROVE QueryInv'
<1> USE Kinds
<1>1. TypeOK
  BY DEF IInv
<1>2. ASSUME r \in Requests PROVE RequestOK(r)
  BY <1>2 DEF QueryInv
<1>3. CASE ConnectFails(r) \/ NotActive(r) \/ NotManaged(r)
  <2>1. Fail(r, "unavailable") /\ Running(r) /\ pc[r] \in Early
    BY <1>3 DEF ConnectFails, NotActive, NotManaged, Running, Early
  <2>2. ~(busUp /\ nm /\ managed)
    BY <1>3 DEF ConnectFails, NotActive, NotManaged
  <2>3. r \in Requests => ~hist[r].well
    BY <1>2, <2>1, <2>2 DEF RequestOK, WellOf
  <2> QED  BY <1>1, <2>1, <2>3, FailOK
<1>4. CASE NameHasOwner(r)
  BY <1>1, <1>4, CommonKeeps DEF NameHasOwner, Awaits, Early
<1>5. CASE ListDevices(r)
  BY <1>1, <1>5, CommonKeeps DEF ListDevices, Awaits, Early
<1>6. CASE DeviceReady(r)
  <2>1. pc[r] = "device" /\ Goto(r, FirstCall(r)) /\ UNCHANGED <<status, list, scan>>
    BY <1>6 DEF DeviceReady
  <2>2. r \in Requests => ~hist[r].absent
    BY <1>2, <1>6 DEF DeviceReady, Reached, RequestOK, AbsentOf, Running
  <2>3. /\ FirstCall(r) \in {"active", "ready", "nm"}
        /\ r \in Requests => FirstCall(r) \in Awaits(r)
    BY DEF FirstCall, Awaits, Requests
  <2> HIDE DEF FirstCall
  <2> QED  BY <1>1, <2>1, <2>2, <2>3, CommonKeeps
<1>7. CASE CallFails(r) /\ r = Boot /\ proxy[r]
  BY <1>1, <1>7, LeaveOK DEF CallFails
<1> QED
  BY <1>1, <1>3, <1>4, <1>5, <1>6, <1>7, BeginOK, ConnectOK, GetProxyOK, CancelOK, CallFailsOK
  DEF Handler
-----------------------------------------------------------------------------
\* What a change of the world in which nothing goes away leaves as it was.
Kept ==
  /\ dead' = dead /\ (nm => nm')
  /\ busUp /\ nm /\ managed =>
       /\ busUp' /\ nm' /\ managed' /\ saved' = saved /\ visible' = visible
       /\ \A c : Exists(c) => Exists(c)'

LEMMA EnvironmentIsWorld ==
  ASSUME TypeOK, Environment
  PROVE  \E loss \in BOOLEAN : World(loss) /\ (~loss => Kept)
<1> USE DEF Kept, Exists
<1>1. CASE BusStops \/ NmStops \/ ProfileDeleted \/ AccessPointLeaves
  <2>1. World(TRUE)
    BY <1>1 DEF BusStops, NmStops, ProfileDeleted, AccessPointLeaves
  <2> QED  BY <2>1
<1>2. CASE BusStarts \/ NmStarts
  <2>1. World(FALSE) /\ dead' = dead /\ nm' \in BOOLEAN /\ (nm => nm') /\ ~(busUp /\ nm)
    BY <1>2 DEF BusStarts, NmStarts, TypeOK
  <2> QED  BY <2>1
<1>3. CASE DeviceComesOrGoes
  <2>1. World(managed) /\ managed \in BOOLEAN /\ dead' = dead /\ nm' = nm
    BY <1>3 DEF DeviceComesOrGoes, TypeOK
  <2>2. ~managed => Kept
    BY <2>1
  <2> HIDE DEF Kept
  <2> QED  BY <2>1, <2>2
<1>4. CASE ConnectionChanges
  <2>1. PICK d \in Devices : \E c : on' = [on EXCEPT ![d] = c] /\ World(on[d] # None)
    BY <1>4 DEF ConnectionChanges
  <2>2. UNCHANGED <<busUp, dead, nm, managed, saved, visible>>
    BY <1>4 DEF ConnectionChanges
  <2>3. PICK c : on' = [on EXCEPT ![d] = c] /\ World(on[d] # None)
    BY <2>1
  <2>4. \A e \in Devices : e # d => on'[e] = on[e]
    BY <2>3 DEF TypeOK
  <2>5. on[d] = None => \A x : Exists(x) => Exists(x)'
    BY <2>4
  <2>6. ~(on[d] # None) => Kept
    BY <2>2, <2>5
  <2>7. (on[d] # None) \in BOOLEAN
    BY ONLY Zenon
  <2> HIDE DEF Kept
  <2> QED  BY <2>3, <2>6, <2>7
<1> QED  BY <1>1, <1>2, <1>3, <1>4 DEF Environment

\* A change of the world while r runs: its window takes in the world as it now is, and
\* what it still calls well or absent has lost nothing.
LEMMA WorldMoves ==
  ASSUME NEW loss \in BOOLEAN, World(loss), ~loss => Kept, RecordsOK, TypeOK',
         NEW r \in Requests, Running(r)
  PROVE  /\ hist'[r] \in History
         /\ hist'[r].well => hist[r].well /\ Kept
         /\ hist'[r].absent => hist[r].absent /\ Kept /\ ~(nm' /\ managed')
         /\ hist'[r].was = hist[r].was \cup Snapshot'
         /\ hist'[r].ever = hist[r].ever \cup saved'
         /\ hist'[r].always = hist[r].always \cap saved'
<1> DEFINE well == hist[r].well /\ ~loss
           absent == hist[r].absent /\ ~loss /\ ~(nm' /\ managed')
           was == hist[r].was \cup Snapshot'
           ever == hist[r].ever \cup saved'
           always == hist[r].always \cap saved'
           h == [well |-> well, absent |-> absent, was |-> was, ever |-> ever, always |-> always]
<1>1. hist'[r] = h
  BY DEF World
<1>2. (well => hist[r].well /\ ~loss) /\ (absent => hist[r].absent /\ ~loss /\ ~(nm' /\ managed'))
  OBVIOUS
<1>3. well \in BOOLEAN /\ absent \in BOOLEAN
  <2>1. well \in BOOLEAN
    BY ONLY Zenon
  <2>2. absent \in BOOLEAN
    BY ONLY Zenon
  <2> QED  BY ONLY <2>1, <2>2
<1>4. was \in SUBSET (Devices \X Conns)
  <2>1. hist[r].was \in SUBSET (Devices \X Conns)
    BY DEF RecordsOK, History
  <2>2. \A d \in Devices : on'[d] \in Conns
    BY DEF TypeOK, Conns
  <2>3. Snapshot' \in SUBSET (Devices \X Conns)
    BY <2>2 DEF Snapshot
  <2> QED  BY <2>1, <2>3
<1>5. ever \in SUBSET Profiles /\ always \in SUBSET Profiles
  BY DEF RecordsOK, History, TypeOK
<1> HIDE DEF well, absent, was, ever, always
<1>6. h \in History
  BY <1>3, <1>4, <1>5 DEF History
<1>7. h.well = well /\ h.absent = absent /\ h.was = was /\ h.ever = ever /\ h.always = always
  OBVIOUS
<1> HIDE DEF h
<1>8. (hist'[r].well => well) /\ (hist'[r].absent => absent)
  <2>1. hist'[r].well = well /\ hist'[r].absent = absent
    BY <1>1, <1>7
  <2> QED  BY ONLY <2>1, Zenon
<1>9. /\ hist'[r].was = hist[r].was \cup Snapshot'
      /\ hist'[r].ever = hist[r].ever \cup saved'
      /\ hist'[r].always = hist[r].always \cap saved'
  BY <1>1, <1>7 DEF was, ever, always
<1> QED  BY <1>1, <1>2, <1>6, <1>8, <1>9


\* What a request has read stays true, in the window that has grown.
LEMMA StatusStays ==
  ASSUME NEW s, NEW was, NEW wider, NEW at, was \subseteq wider, StatusTrue(s, was, at)
  PROVE  StatusTrue(s, wider, at)
BY DEF StatusTrue, SsidTrue

LEMMA ListStays ==
  ASSUME NEW l, NEW h, NEW wider, NEW at, ListTrue(l, h, at),
         h.was \subseteq wider.was, h.ever \subseteq wider.ever, wider.always \subseteq h.always
  PROVE  ListTrue(l, wider, at)
<1>1. \A c : WasUsed(h.was, c) => WasUsed(wider.was, c)
  BY DEF WasUsed
<1> QED  BY <1>1 DEF ListTrue

LEMMA EnvironmentKeepsQuery ==
  ASSUME IInv, QueryInv, Environment
  PROVE  QueryInv'
<1> USE Kinds
<1>1. TypeOK /\ TypeOK'
  BY EnvironmentKeeps DEF IInv
<1>2. PICK loss \in BOOLEAN : World(loss) /\ (~loss => Kept)
  BY <1>1, EnvironmentIsWorld
<1>3. UNCHANGED <<bus, open, pc, answer, proxy, status, list, scan>>
  BY <1>2 DEF World, daemonVars, localVars
<1>4. hist' = [r \in Requests |-> hist'[r]] /\ \A r \in Requests : ~Running(r) => hist'[r] = hist[r]
  BY <1>2 DEF World
<1>5. ASSUME NEW r \in Requests
      PROVE  RequestOK(r)' /\ hist'[r] \in History
  <2>1. RequestOK(r) /\ hist[r] \in History
    BY DEF QueryInv, RecordsOK
  <2>2. CASE ~Running(r)
    <3>1. hist'[r] = hist[r]
      BY <1>4, <2>2
    <3> QED  BY <1>3, <2>1, <2>2, <3>1, RestOK
  <2>3. CASE Running(r)
    <3>1. /\ hist'[r] \in History
          /\ hist'[r].well => hist[r].well /\ Kept
          /\ hist'[r].absent => hist[r].absent /\ Kept /\ ~(nm' /\ managed')
          /\ hist'[r].was = hist[r].was \cup Snapshot'
          /\ hist'[r].ever = hist[r].ever \cup saved'
          /\ hist'[r].always = hist[r].always \cap saved'
      BY <1>1, <1>2, <2>3, WorldMoves DEF QueryInv
    <3>2. pc[r] # "done" /\ pc'[r] = pc[r] /\ answer'[r] = answer[r] /\ answer[r] = "none"
      BY <1>3, <2>1, <2>3 DEF Running, RequestOK
    <3>3. WellOf(r)'
      <4>1. hist'[r].well => busUp /\ nm /\ managed /\ bus \notin dead /\ AtHand(r) /\ Kept
        BY <2>1, <2>3, <3>1 DEF RequestOK, WellOf
      <4>2. hist'[r].well => AtHand(r)'
        BY <1>3, <4>1 DEF AtHand, Kept
      <4> QED  BY <1>3, <3>2, <4>1, <4>2 DEF WellOf, Kept
    <3>4. AbsentOf(r)'
      <4>1. hist'[r].absent => /\ pc[r] \in Early /\ Kept /\ ~(nm' /\ managed')
                               /\ pc[r] = "devices" /\ proxy[r] => nm /\ bus \notin dead
        BY <2>1, <2>3, <3>1 DEF RequestOK, AbsentOf
      <4> QED  BY <1>3, <3>2, <4>1 DEF AbsentOf, Kept
    <3>5. WindowOf(r)'
      BY <3>1 DEF WindowOf
    <3>6. r \in StatusQueries => StatusOf(r)'
      <4> SUFFICES ASSUME r \in StatusQueries PROVE StatusOf(r)'
        OBVIOUS
      <4>1. StatusTrue(status[r], hist[r].was, pc[r])
        BY <2>1 DEF RequestOK, StatusOf
      <4>2. StatusTrue(status[r], hist'[r].was, pc[r])
        BY <3>1, <4>1, StatusStays
      <4> QED  BY <1>3, <3>2, <4>2 DEF StatusOf
    <3>7. r \in ProfileQueries => ListOf(r)'
      <4> SUFFICES ASSUME r \in ProfileQueries PROVE ListOf(r)'
        OBVIOUS
      <4>1. ListTrue(list[r], hist[r], pc[r])
        BY <2>1 DEF RequestOK, ListOf
      <4>2. ListTrue(list[r], hist'[r], pc[r])
        BY <3>1, <4>1, ListStays
      <4> QED  BY <1>3, <3>2, <4>2 DEF ListOf
    <3>8. pc'[r] \in Awaits(r) /\ (pc'[r] \in {"idle", "connect"} => r \notin open')
      BY <1>3, <2>1 DEF RequestOK
    <3>9. Awaits(r)' = Awaits(r)
      BY DEF Awaits, Early, PerDevice
    <3> QED  BY <3>1, <3>2, <3>3, <3>4, <3>5, <3>6, <3>7, <3>8, <3>9 DEF RequestOK
  <2> QED  BY <2>2, <2>3
<1>6. RecordsOK'
  BY <1>3, <1>4, <1>5 DEF QueryInv, RecordsOK
<1> QED  BY <1>5, <1>6 DEF QueryInv

-----------------------------------------------------------------------------
LEMMA InitQuery == Init => QueryInv
<1> SUFFICES ASSUME Init PROVE QueryInv
  OBVIOUS
<1> USE Kinds
<1>1. RecordsOK
  BY EmptyRecords DEF Init, RecordsOK
<1>2. ASSUME NEW r \in Requests PROVE RequestOK(r)
  <2>1. /\ pc[r] = "idle" /\ answer[r] = "none" /\ open = {} /\ hist[r] = NoHistory
        /\ r \in StatusQueries => status[r] = NoStatus
        /\ r \in ProfileQueries => list[r] = NoList
    BY DEF Init
  <2>2. WellOf(r) /\ AbsentOf(r) /\ WindowOf(r)
    BY <2>1 DEF WellOf, AbsentOf, WindowOf, Running, NoHistory
  <2>3. r \in StatusQueries => StatusOf(r)
    BY <2>1 DEF StatusOf, StatusTrue, SsidTrue, NoStatus, DevsOf, PerDevice
  <2>4. r \in ProfileQueries => ListOf(r)
    BY <2>1 DEF ListOf, ListTrue, NoList
  <2> QED  BY <2>1, <2>2, <2>3, <2>4 DEF RequestOK, Awaits
<1> QED  BY <1>1, <1>2 DEF QueryInv

LEMMA ReadyOK == ASSUME TypeOK, QueryInv, Ready PROVE QueryInv'
<1>1. Boot \in Callers /\ Boot \notin Requests
  BY QueryAssumption DEF Callers
<1>2. Goto(Boot, "done") /\ UNCHANGED <<status, list, scan>>
  BY DEF Ready
<1>3. Alone(Boot)
  BY <1>1, <1>2, GotoAlone
<1>4. RecordsOK'
  BY <1>2 DEF Goto, QueryInv, RecordsOK
<1> QED  BY <1>1, <1>3, <1>4, AloneKeeps

LEMMA StutterQuery == ASSUME QueryInv, UNCHANGED vars PROVE QueryInv'
<1> USE Kinds DEF vars, daemonVars, localVars
<1>1. ASSUME NEW r \in Requests PROVE RequestOK(r)'
  <2>1. RequestOK(r)
    BY DEF QueryInv
  <2> QED  BY <2>1, Untouched
<1>2. RecordsOK'
  BY DEF QueryInv, RecordsOK
<1> QED  BY <1>1, <1>2 DEF QueryInv

\* What every request has read and is about to read agrees with the world as it was while
\* it ran, through every interleaving with the other requests, the world and restarts.
THEOREM QueryInvariant == Spec => []QueryInv
<1>1. IInv /\ QueryInv /\ [Next]_vars => QueryInv'
  <2> SUFFICES ASSUME IInv, QueryInv, [Next]_vars PROVE QueryInv'
    OBVIOUS
  <2>0. TypeOK
    BY DEF IInv
  <2>1. CASE \E r \in Callers : Handler(r)
    BY <2>1, HandlerKeepsQuery
  <2>2. CASE Ready
    BY <2>0, <2>2, ReadyOK
  <2>3. CASE \E r \in StatusQueries : Status(r)
    BY <2>0, <2>3, StatusKeepsQuery
  <2>4. CASE \E r \in ProfileQueries : ProfileList(r)
    BY <2>0, <2>4, ListKeepsQuery
  <2>5. CASE \E r \in ApReads : ApRead(r)
    BY <2>0, <2>5, ApReadKeepsQuery
  <2>6. CASE Environment
    BY <2>6, EnvironmentKeepsQuery
  <2>7. CASE Restart
    BY <2>0, <2>7, LeaveOK DEF Restart
  <2>8. CASE UNCHANGED vars
    BY <2>8, StutterQuery
  <2> QED  BY <2>1, <2>2, <2>3, <2>4, <2>5, <2>6, <2>7, <2>8 DEF Next
<1> QED  BY <1>1, InitQuery, Invariant, PTL DEF Spec

\* A query is refused only when dbus, NetworkManager or the device has been away, or has
\* lost what the query was about to read, while it ran, or when self.bus held a
\* connection that dbus had dropped: no earlier failure sticks.
THEOREM HealthyAnswered == Spec => []HealthyIsAnswered
<1>1. QueryInv => HealthyIsAnswered
  BY DEF QueryInv, RequestOK, WellOf, HealthyIsAnswered
<1> QED  BY <1>1, QueryInvariant, PTL

\* A query that runs while NetworkManager or a usable device is missing throughout ends
\* with the typed network_backend_unavailable error, wherever it notices.
THEOREM AbsenceTyped == Spec => []AbsenceIsTyped
<1>1. QueryInv => AbsenceIsTyped
  BY DEF QueryInv, RequestOK, AbsentOf, AbsenceIsTyped
<1> QED  BY <1>1, QueryInvariant, PTL

\* network.status answers with one entry for each device, and each is a state the device
\* was in during the call, although its parts are read in several calls; its SSID is that of
\* a connection some Wi-Fi device had, and missing only if each had none at some moment.
THEOREM StatusIsTrue == Spec => []StatusWasTrue
<1>1. ASSUME QueryInv, NEW r \in StatusQueries, answer[r] = "ok"
      PROVE  /\ DevsOf(status[r]) = Devices
             /\ \A e \in status[r].entries : e.ip = e.conn /\ <<e.dev, e.conn>> \in hist[r].was
             /\ SsidTrue(status[r], hist[r].was, Devices)
  <2>1. RequestOK(r)
    BY <1>1, Kinds DEF QueryInv
  <2>2. StatusOf(r) /\ pc[r] = "done"
    BY <1>1, <2>1, Kinds DEF RequestOK
  <2> QED  BY <1>1, <2>2 DEF StatusOf, StatusTrue, SsidTrue
<1>2. QueryInv => StatusWasTrue
  BY <1>1, QueryAssumption DEF StatusWasTrue, SsidTrue, DevsOf
<1> QED  BY <1>2, QueryInvariant, PTL

\* network.profiles lists every profile that was there throughout and none that was not
\* there at all, and as active only one that was active during the call.
THEOREM ListIsTrue == Spec => []ListWasTrue
<1>1. ASSUME QueryInv PROVE ListWasTrue
  <2> SUFFICES ASSUME NEW r \in ProfileQueries, answer[r] = "ok"
               PROVE  /\ hist[r].always \subseteq FoundIn(list[r])
                      /\ FoundIn(list[r]) \subseteq hist[r].ever
                      /\ \A f \in list[r].found : f[2] => WasUsed(hist[r].was, f[1])
    BY DEF ListWasTrue, FoundIn, WasUsed
  <2>1. ListOf(r)
    BY <1>1, Kinds DEF QueryInv, RequestOK
  <2> QED  BY <2>1 DEF ListOf, ListTrue, FoundIn
<1>2. QueryInv => ListWasTrue
  BY <1>1
<1> QED  BY <1>2, QueryInvariant, PTL

=============================================================================
