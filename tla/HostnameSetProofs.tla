-------------------------- MODULE HostnameSetProofs --------------------------
(***************************************************************************)
(* Machine-checked proofs about HostnameSet, for any number of concurrent  *)
(* requests, any names and any request timeout.                            *)
(***************************************************************************)
EXTENDS HostnameSet, TLAPS

-----------------------------------------------------------------------------
(***************************************************************************)
(* Types.                                                                  *)
(***************************************************************************)

\* What Goto, Finish and Except write.
HandlerTypes ==
  /\ pc \in [Requests -> PCs]
  /\ cmd \in [Requests -> {"none", "running", "effective"}]
  /\ spent \in [Requests -> Nat]
  /\ undo \in [Requests -> {"clean", "failed"}]
  /\ answer \in [Requests -> Answers]
  /\ left \in [Requests -> NameStates]

\* A time limit is a number.
LEMMA LimitType == ASSUME NEW p PROVE Limit(p) \in Nat
BY DEF Limit

\* Going on to the next await keeps the types.
LEMMA GotoTypes ==
  ASSUME TypeOK, NEW r \in Requests, NEW next \in PCs, Goto(r, next)
  PROVE  /\ pc' \in [Requests -> PCs]
         /\ cmd' \in [Requests -> {"none", "running", "effective"}]
         /\ spent' \in [Requests -> Nat]
BY LimitType DEF TypeOK, Goto

\* Ending a handler keeps the types.
LEMMA FinishTypes ==
  ASSUME TypeOK, NEW r \in Requests, NEW a \in Answers, Finish(r, a)
  PROVE  /\ pc' \in [Requests -> PCs]
         /\ cmd' \in [Requests -> {"none", "running", "effective"}]
         /\ spent' \in [Requests -> Nat]
         /\ answer' \in [Requests -> Answers]
         /\ left' \in [Requests -> NameStates]
BY DEF TypeOK, Finish, PCs, NameStates

\* So do the except clauses.
LEMMA ExceptTypes ==
  ASSUME TypeOK, NEW r \in Requests, Except(r)
  PROVE  HandlerTypes'
<1>1. CASE pc[r] \in {"setLinux", "setAvahi", "wait", "fqdn"}
  <2>1. Goto(r, "undoLinux") /\ UNCHANGED <<undo, answer, left>>
    BY <1>1 DEF Except
  <2>2. QED
    BY <2>1, GotoTypes DEF HandlerTypes, TypeOK, PCs, ActivePCs, SetPCs
<1>2. CASE pc[r] = "undoLinux"
  <2>1. Goto(r, "undoAvahi") /\ undo' = [undo EXCEPT ![r] = "failed"] /\ UNCHANGED <<answer, left>>
    BY <1>2 DEF Except
  <2>2. QED
    BY <2>1, GotoTypes DEF HandlerTypes, TypeOK, PCs, ActivePCs, SetPCs
<1>3. CASE pc[r] \in {"undoAvahi", "undoWait", "undoFqdn"}
  <2>1. Finish(r, "unrestored") /\ undo' = [undo EXCEPT ![r] = "failed"]
    BY <1>3 DEF Except
  <2>2. QED
    BY <2>1, FinishTypes DEF HandlerTypes, TypeOK, Answers
<1>4. QED
  BY <1>1, <1>2, <1>3 DEF Except

\* Every step keeps the types, given that names are set only once they are known.
LEMMA TypeStep ==
  ASSUME IInv, Next
  PROVE  TypeOK'
<1> USE NamesAssumption
    DEF IInv, TypeOK, CommandInv, PCs, ActivePCs, SetPCs, WaitPCs, FqdnPCs, Answers, Running,
        handlerVars, Commands, Avahis, AllNames
<1>1. ASSUME NEW r \in Requests, Submit(r) PROVE TypeOK'
  <2>1. pc' \in [Requests -> PCs] /\ cmd' \in [Requests -> {"none", "running", "effective"}]
        /\ spent' \in [Requests -> Nat]
    BY <1>1, GotoTypes DEF Submit
  <2>2. want' \in [Requests -> AllNames \cup {NoName}]
    BY <1>1 DEF Submit
  <2>3. alone' \in [Requests -> BOOLEAN]
    BY <1>1, Zenon DEF Submit
  <2>4. QED
    BY <1>1, <2>1, <2>2, <2>3 DEF Submit
<1>2. ASSUME NEW r \in Requests, RejectParams(r) PROVE TypeOK'
  BY <1>2, FinishTypes DEF RejectParams
<1>3. ASSUME NEW r \in Requests, ReadHostname(r) PROVE TypeOK'
  BY <1>3, GotoTypes DEF ReadHostname
<1>4. ASSUME NEW r \in Requests, TakesEffect(r) PROVE TypeOK'
  BY <1>4 DEF TakesEffect, SetName, Command
<1>5. ASSUME NEW r \in Requests, CommandSucceeds(r) PROVE TypeOK'
  BY <1>5, GotoTypes DEF CommandSucceeds, AfterSuccess
<1>6. ASSUME NEW r \in Requests, CommandFails(r) PROVE TypeOK'
  BY <1>6, ExceptTypes DEF CommandFails, HandlerTypes
<1>7. ASSUME NEW r \in Requests, PollState(r) PROVE TypeOK'
  BY <1>7, GotoTypes DEF PollState
<1>8. ASSUME NEW r \in Requests, PollAgain(r) PROVE TypeOK'
  BY <1>8 DEF PollAgain
<1>9. ASSUME NEW r \in Requests, WaitTimesOut(r) PROVE TypeOK'
  BY <1>9, ExceptTypes DEF WaitTimesOut, HandlerTypes
<1>10. ASSUME NEW r \in Requests, ReadFqdn(r) PROVE TypeOK'
  <2>1. HandlerTypes'
    BY <1>10, FinishTypes, ExceptTypes DEF ReadFqdn, HandlerTypes
  <2>2. QED
    BY <1>10, <2>1 DEF ReadFqdn, HandlerTypes
<1>11. ASSUME NEW r \in Requests, SpawnFails(r) PROVE TypeOK'
  BY <1>11, FinishTypes DEF SpawnFails
<1>12. ASSUME NEW r \in Requests, Cancel(r) PROVE TypeOK'
  <2>1. Command(r) \in Commands \/ cmd[r] # "running"
    BY DEF Command
  <2>2. orphans' \in SUBSET Commands
    BY <1>12, <2>1 DEF Cancel
  <2>3. QED
    BY <1>12, <2>2, FinishTypes DEF Cancel
<1>13. CASE AvahiRegisters
  BY <1>13 DEF AvahiRegisters
<1>14. CASE AvahiConflict
  BY <1>14 DEF AvahiConflict
<1>15. CASE OrphanEnds
  BY <1>15 DEF OrphanEnds, SetName
<1>16. CASE DaemonStops
  BY <1>16 DEF DaemonStops, NameStates
<1>17. QED
  BY <1>1, <1>2, <1>3, <1>4, <1>5, <1>6, <1>7, <1>8, <1>9, <1>10, <1>11, <1>12, <1>13,
     <1>14, <1>15, <1>16 DEF Next, Handler

-----------------------------------------------------------------------------
(***************************************************************************)
(* Safety. A request that is alone finds the names as it left them, up to  *)
(* a conflict that another host causes in Avahi, and that one always shows *)
(* in the name that GetHostNameFqdn returns.                               *)
(***************************************************************************)

NamesInv == linux \in Names /\ \A c \in orphans : c.name \in Names

SafeInv ==
  /\ NamesInv /\ CommandInv /\ AloneInv /\ LinuxInv /\ AvahiInv
  /\ AcceptedIsPublished /\ RestoredIsOriginal

\* The initial state satisfies the inductive invariant.
LEMMA IInvInit == Init => IInv
BY NamesAssumption
DEF Init, IInv, TypeOK, CommandInv, AloneInv, LinuxInv, AvahiInv, AcceptedIsPublished,
    RestoredIsOriginal, Running, SetPCs, ActivePCs, WaitPCs, FqdnPCs, PCs, Answers, Commands,
    Avahis, NameStates, AllNames

\* Submitting makes every running request share the names, and is alone itself only
\* when nothing else runs.
LEMMA SubmitKeepsIInv ==
  ASSUME IInv, NEW r \in Requests, Submit(r)
  PROVE  SafeInv'
<1> USE NamesAssumption DEF IInv, TypeOK, Submit, Goto, Running, SetPCs, FqdnPCs, ActivePCs,
    WaitPCs
<1>1. \A q \in Requests \ {r} : /\ pc'[q] = pc[q] /\ want'[q] = want[q]
                                /\ alone'[q] => alone[q] /\ ~Running(q)
  OBVIOUS
<1>2. pc'[r] = "read" /\ (alone'[r] => orphans = {} /\ \A q \in Requests : ~Running(q))
  OBVIOUS
<1>3. AloneInv'
  BY <1>1, <1>2 DEF AloneInv
<1>4. NamesInv' /\ CommandInv'
  BY DEF NamesInv, CommandInv
<1>5. LinuxInv' /\ AvahiInv'
  BY <1>1, <1>2 DEF LinuxInv, AvahiInv
<1>6. AcceptedIsPublished' /\ RestoredIsOriginal'
  BY <1>1, <1>2 DEF AcceptedIsPublished, RestoredIsOriginal, CommandInv
<1>7. QED
  BY <1>3, <1>4, <1>5, <1>6 DEF SafeInv

\* A setting command's effect reaches nobody else who is alone.
LEMMA EffectKeepsIInv ==
  ASSUME IInv, NEW r \in Requests, TakesEffect(r)
  PROVE  SafeInv'
<1> USE DEF IInv, TypeOK, TakesEffect, SetName, Command, SetPCs, WaitPCs, FqdnPCs, ActivePCs
<1>1. \A q \in Requests \ {r} : alone[q] => ~Running(q)
  BY DEF AloneInv, Running
<1>2. \A q \in Requests \ {r} : cmd'[q] = cmd[q]
  OBVIOUS
<1>3. NamesInv' /\ CommandInv' /\ AloneInv'
  BY DEF NamesInv, CommandInv, AloneInv, Running
<1>4. LinuxInv'
  BY <1>1, <1>2 DEF LinuxInv, Running
<1>5. AvahiInv'
  BY <1>1, <1>2 DEF AvahiInv, Running
<1>6. AcceptedIsPublished' /\ RestoredIsOriginal'
  BY DEF AcceptedIsPublished, RestoredIsOriginal
<1>7. QED
  BY <1>3, <1>4, <1>5, <1>6 DEF SafeInv

\* The comparison with Avahi's name decides; no conflict or fallback can match it.
LEMMA FqdnKeepsIInv ==
  ASSUME IInv, NEW r \in Requests, ReadFqdn(r)
  PROVE  SafeInv'
<1> USE NamesAssumption
    DEF IInv, TypeOK, ReadFqdn, Except, Goto, Finish, SetPCs, WaitPCs, FqdnPCs, ActivePCs
<1>1. \A q \in Requests \ {r} : pc'[q] = pc[q]
  OBVIOUS
<1>2. Running(r)
  BY DEF Running
<1>3. AloneInv'
  BY <1>1, <1>2 DEF AloneInv, Running
<1>4. NamesInv' /\ CommandInv'
  BY DEF NamesInv, CommandInv, Running
<1>5. LinuxInv' /\ AvahiInv'
  BY DEF LinuxInv, AvahiInv
<1>a. ASSUME alone[r], pc[r] = "fqdn", Lower[avahi.name] = want[r]
      PROVE  linux = want[r] /\ avahi = [name |-> want[r], state |-> "running"]
  <2>1. want[r] \in Names /\ avahi.name \in {want[r], AltName} /\ linux = want[r]
    BY <1>2, <1>a DEF CommandInv, LinuxInv, AvahiInv
  <2>2. avahi.name = want[r] /\ avahi.state = "running"
    BY <1>a, <2>1 DEF AvahiInv
  <2>3. QED
    BY <2>1, <2>2 DEF Avahis
<1>b. ASSUME alone[r], pc[r] = "undoFqdn", undo[r] = "clean", Lower[avahi.name] = orig[r]
      PROVE  linux = orig[r] /\ avahi = [name |-> orig[r], state |-> "running"]
  <2>1. orig[r] \in Names /\ avahi.name \in {orig[r], AltName} /\ linux = orig[r]
    BY <1>2, <1>b DEF CommandInv, LinuxInv, AvahiInv
  <2>2. avahi.name = orig[r] /\ avahi.state = "running"
    BY <1>b, <2>1 DEF AvahiInv
  <2>3. QED
    BY <2>1, <2>2 DEF Avahis
<1>6. AcceptedIsPublished'
  BY <1>a DEF AcceptedIsPublished
<1>7. RestoredIsOriginal'
  BY <1>b DEF RestoredIsOriginal
<1>8. QED
  BY <1>3, <1>4, <1>5, <1>6, <1>7 DEF SafeInv

\* Every step keeps the invariant.
LEMMA SafeStep ==
  ASSUME IInv, Next
  PROVE  SafeInv'
<1> USE NamesAssumption
    DEF IInv, TypeOK, SafeInv, NamesInv, CommandInv, AloneInv, LinuxInv, AvahiInv,
        AcceptedIsPublished, RestoredIsOriginal, Running, SetPCs, WaitPCs, FqdnPCs, ActivePCs,
        PCs, AllNames, Avahis, handlerVars, Goto, Finish
<1>1. ASSUME NEW r \in Requests, RejectParams(r) PROVE SafeInv'
  BY <1>1 DEF RejectParams
<1>2. ASSUME NEW r \in Requests, ReadHostname(r) PROVE SafeInv'
  BY <1>2 DEF ReadHostname
<1>3. ASSUME NEW r \in Requests, CommandSucceeds(r) PROVE SafeInv'
  BY <1>3 DEF CommandSucceeds, AfterSuccess
<1>4. ASSUME NEW r \in Requests, CommandFails(r) PROVE SafeInv'
  <2>1. NamesInv' /\ CommandInv' /\ AloneInv'
    BY <1>4 DEF CommandFails, Except
  <2>2. LinuxInv'
    BY <1>4 DEF CommandFails, Except
  <2>3. AvahiInv'
    BY <1>4 DEF CommandFails, Except
  <2>4. AcceptedIsPublished' /\ RestoredIsOriginal'
    BY <1>4 DEF CommandFails, Except
  <2>5. QED
    BY <2>1, <2>2, <2>3, <2>4
<1>5. ASSUME NEW r \in Requests, PollState(r) PROVE SafeInv'
  BY <1>5 DEF PollState
<1>6. ASSUME NEW r \in Requests, PollAgain(r) PROVE SafeInv'
  BY <1>6 DEF PollAgain
<1>7. ASSUME NEW r \in Requests, WaitTimesOut(r) PROVE SafeInv'
  BY <1>7 DEF WaitTimesOut, Except
<1>8. ASSUME NEW r \in Requests, SpawnFails(r) PROVE SafeInv'
  BY <1>8 DEF SpawnFails
<1>9. ASSUME NEW r \in Requests, Cancel(r) PROVE SafeInv'
  BY <1>9 DEF Cancel, Command
<1>10. CASE AvahiRegisters
  BY <1>10 DEF AvahiRegisters
<1>11. CASE AvahiConflict
  BY <1>11 DEF AvahiConflict
<1>12. CASE OrphanEnds
  BY <1>12 DEF OrphanEnds, SetName
<1>13. CASE DaemonStops
  BY <1>13 DEF DaemonStops
<1>14. QED
  BY <1>1, <1>2, <1>3, <1>4, <1>5, <1>6, <1>7, <1>8, <1>9, <1>10, <1>11, <1>12, <1>13,
     SubmitKeepsIInv, EffectKeepsIInv, FqdnKeepsIInv DEF Next, Handler

\* Names, commands and handlers stay consistent, whatever fails or is cancelled.
THEOREM InductiveInvariant == Spec => []IInv
<1>1. IInv /\ [Next]_vars => IInv'
  <2> SUFFICES ASSUME IInv, [Next]_vars PROVE IInv'
    OBVIOUS
  <2>1. CASE Next
    <3>1. TypeOK' /\ SafeInv'
      BY <2>1, TypeStep, SafeStep
    <3>2. QED
      BY <3>1 DEF SafeInv, NamesInv, IInv
  <2>2. CASE UNCHANGED vars
    BY <2>2 DEF vars, IInv, TypeOK, CommandInv, AloneInv, LinuxInv, AvahiInv,
       AcceptedIsPublished, RestoredIsOriginal, Running
  <2>3. QED
    BY <2>1, <2>2
<1>2. QED
  BY IInvInit, <1>1, PTL DEF Spec

\* An undisturbed hostname.set that is answered "accepted" has both names set and
\* registered, for any names, collisions and failing commands before it.
THEOREM Accepted == Spec => []AcceptedIsPublished
<1>1. IInv => AcceptedIsPublished
  BY DEF IInv
<1>2. QED
  BY <1>1, InductiveInvariant, PTL

\* An undisturbed hostname.set that reports "the original hostname was restored" has
\* restored both names.
THEOREM Restored == Spec => []RestoredIsOriginal
<1>1. IInv => RestoredIsOriginal
  BY DEF IInv
<1>2. QED
  BY <1>1, InductiveInvariant, PTL
\* Every reachable state is well typed.
THEOREM TypeCorrectness == Spec => []TypeOK
<1>1. IInv => TypeOK
  BY DEF IInv
<1>2. QED
  BY <1>1, InductiveInvariant, PTL
=============================================================================
