----------------------------- MODULE AccessPoints -----------------------------
(***************************************************************************)
(* How _read_access_points merges the access points of NetworkManager into *)
(* the networks it answers: one entry per SSID and kind of security, with  *)
(* the strongest access point for its own and the BSSIDs of all. bssids is *)
(* a list in the code; here it is the set of its members.                  *)
(***************************************************************************)
EXTENDS Naturals

CONSTANTS
  Aps,     \* access-point objects
  Info,    \* their properties: [ssid, secured, bssid, strength]
  Hidden   \* the empty SSID

ASSUME InfoAssumption == \A a \in Aps : Info[a].strength \in Nat

Key(a) == <<Info[a].ssid, Info[a].secured>>

Item(a, active) == [bssid |-> Info[a].bssid, bssids |-> {Info[a].bssid},
                    strength |-> Info[a].strength, active |-> a = active]

NoNetworks == [k \in {} |-> {}]
Put(got, k, item) == [j \in DOMAIN got \cup {k} |-> IF j = k THEN item ELSE got[j]]

\* Without the flag of the entry that a stronger access point replaces.
MutCombineForgetsActive(old, item) ==
  IF item.strength > old.strength
  THEN [item EXCEPT !.bssids = old.bssids \cup {item.bssid}]
  ELSE [old EXCEPT !.bssids = old.bssids \cup {item.bssid},
                   !.active = item.active \/ old.active]
Combine(old, item) ==
  IF item.strength > old.strength
  THEN [item EXCEPT !.bssids = old.bssids \cup {item.bssid},
                    !.active = item.active \/ old.active]
  ELSE IF item.bssid \notin old.bssids
  THEN [old EXCEPT !.bssids = old.bssids \cup {item.bssid},
                   !.active = item.active \/ old.active]
  ELSE old

\* One turn of the loop: access point a is read, active is the one in use.
Merge(got, a, active) ==
  LET k == Key(a)
  IN  IF Info[a].ssid = Hidden THEN got
      ELSE Put(got, k, IF k \in DOMAIN got THEN Combine(got[k], Item(a, active))
                       ELSE Item(a, active))

-----------------------------------------------------------------------------
(***************************************************************************)
(* What the answer must be, whatever the order the access points came in.  *)
(***************************************************************************)

Members(read, k) == {a \in read : Info[a].ssid # Hidden /\ Key(a) = k}

\* Two objects for one BSSID in the same network: NetworkManager keeps an object per
\* BSSID and SSID, so this is a passing state while one replaces the other.
Twins(G) == \E a, b \in G : a # b /\ Info[a].bssid = Info[b].bssid

\* Entry e stands for the access points G.
Stands(e, G, active) ==
  /\ \E a \in G : e.bssid = Info[a].bssid /\ e.strength = Info[a].strength
  /\ \A a \in G : Info[a].strength <= e.strength
  /\ e.bssids = {Info[a].bssid : a \in G}
  /\ e.active => active \in G
  /\ active \in G => e.active \/ Twins(G)

Represents(got, read, active) ==
  /\ DOMAIN got = {Key(a) : a \in {b \in read : Info[b].ssid # Hidden}}
  /\ \A k \in DOMAIN got : Stands(got[k], Members(read, k), active)
=============================================================================
