----------------------------- MODULE ConfigChange -----------------------------
(***************************************************************************)
(* What the daemon promises about its Wi-Fi configuration changes, without *)
(* handlers, locks, D-Bus calls or clocks: a change is made on approval,   *)
(* and ends kept, or undone to what it found, or abandoned to the next     *)
(* change. NetworkTransaction implements it.                               *)
(***************************************************************************)
CONSTANTS
  Changes,    \* wifi.connect and network.profile.activate requests
  Adders,     \* those that save a new profile, named after the request
  FirstSaved, \* the profiles saved at the start
  NoProfile

VARIABLES
  saved,      \* the saved profiles
  inUse,      \* the profile the Wi-Fi device is to use
  change,     \* what has become of each change
  before,     \* saved and inUse as the pending change found them
  accepted    \* the changes that were reported as accepted

changeVars == <<saved, inUse, change, before, accepted>>

Nothing == [saved |-> {}, inUse |-> NoProfile]
Pending(t) == change[t] = "pending"

Init ==
  /\ saved = FirstSaved
  /\ inUse \in FirstSaved \cup {NoProfile}
  /\ change = [t \in Changes |-> "none"]
  /\ before = Nothing
  /\ accepted = {}

\* One change at a time is on approval; one that was left behind is abandoned.
Begin(t) ==
  /\ change[t] = "none"
  /\ change' = [u \in Changes |-> IF u = t THEN "pending"
                                  ELSE IF Pending(u) THEN "abandoned" ELSE change[u]]
  /\ before' = [saved |-> saved, inUse |-> inUse]
  /\ UNCHANGED <<saved, inUse, accepted>>

\* The change itself: a new profile, or a saved one, is to be used.
Apply(t) ==
  /\ Pending(t)
  /\ \/ t \in Adders /\ saved' = saved \cup {t} /\ inUse' = t
     \/ saved' = saved /\ inUse' \in saved
  /\ UNCHANGED <<change, before, accepted>>

End(t, outcome) ==
  /\ Pending(t)
  /\ change' = [change EXCEPT ![t] = outcome]
  /\ before' = Nothing
  /\ UNCHANGED accepted

Keep(t) == End(t, "kept") /\ UNCHANGED <<saved, inUse>>

\* What the change added goes, what was deleted meanwhile stays deleted, and the
\* profile that was in use is in use again, even if it was deleted.
Undo(t) ==
  /\ End(t, "undone")
  /\ saved' = (saved \cap before.saved) \cup ({before.inUse} \ {NoProfile})
  /\ inUse' = before.inUse

\* Only a change that was kept is ever reported as accepted.
Accept(t) ==
  /\ change[t] = "kept"
  /\ accepted' = accepted \cup {t}
  /\ UNCHANGED <<saved, inUse, change, before>>

\* Somebody deletes a profile; one in use is no longer used.
Delete(p) ==
  /\ saved' = saved \ {p}
  /\ inUse' = IF inUse = p THEN NoProfile ELSE inUse
  /\ UNCHANGED <<change, before, accepted>>

\* The device is disconnected, fails, or connects to a saved profile by itself.
Switch ==
  /\ inUse' \in saved \cup {NoProfile}
  /\ UNCHANGED <<saved, change, before, accepted>>

Next ==
  \/ \E t \in Changes : Begin(t) \/ Apply(t) \/ Keep(t) \/ Undo(t) \/ Accept(t)
  \/ \E p \in saved : Delete(p)
  \/ Switch

Spec == Init /\ [][Next]_changeVars
=============================================================================
