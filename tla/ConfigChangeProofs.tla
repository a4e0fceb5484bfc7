-------------------------- MODULE ConfigChangeProofs --------------------------
(***************************************************************************)
(* NetworkTransaction implements ConfigChange, for any sets of requests    *)
(* and profiles and any timeouts that satisfy its assumptions.             *)
(***************************************************************************)
EXTENDS NetworkTransactionProofs

-----------------------------------------------------------------------------
(***************************************************************************)
(* Besides IInv the step to ConfigChange needs to know what a checkpoint   *)
(* remembers (SavedInv) and that it is made once (OnceInv).                *)
(***************************************************************************)

\* The profile in use is saved, now and in the checkpoint; and since the checkpoint
\* only its owner can have added a profile.
SavedInv ==
  /\ ac.profile \in profiles \cup {NoProfile}
  /\ ckpt.was.profile \in ckpt.known \cup {NoProfile}
  /\ ckpt.owner = NoRequest => ckpt = NoCheckpoint
  /\ ckpt.owner # NoRequest =>
       profiles \subseteq ckpt.known \cup ({ckpt.owner} \cap Connects)

\* A change begins once.
OnceInv ==
  \A t \in Transactions :
    pc[t] \in {"idle", "lock", "device", "lookup", "checkpoint"} => fate[t] = "none"

\* The initial state satisfies them.
LEMMA SavedInit == Init => SavedInv /\ OnceInv
BY DEF Init, SavedInv, OnceInv, NoCheckpoint, NoActive, Saved, Requests

\* Handlers add profiles only in Apply, where CoverInv makes them the owner; Restore
\* saves again what it makes active again.
LEMMA SavedStep == IInv /\ SavedInv /\ [Next]_vars => SavedInv'
<1> SUFFICES ASSUME IInv, SavedInv, [Next]_vars PROVE SavedInv'
  OBVIOUS
<1> USE KindsDisjoint DEF SavedInv
<1>1. CASE UNCHANGED nmVars
  BY <1>1 DEF nmVars
<1>2. ASSUME NEW t \in Transactions, NEW outcome, ckpt.owner = t, Restore(t, outcome)
      PROVE  SavedInv'
  BY <1>2 DEF Restore, NoCheckpoint, NoActive
<1>3. ASSUME NEW r \in Requests, Handler(r) PROVE SavedInv'
  <2>1. CASE Disconnect(r)
    BY <2>1 DEF Disconnect, NoActive
  <2>2. CASE DeleteProfile(r)
    BY <2>2 DEF DeleteProfile, NoActive
  <2>3. QED
    BY <1>1, <1>3, <2>1, <2>2 DEF Handler, Submit, RejectParams, DeviceReady,
       LookupProfile, RefuseEarly, CallFails, Reply, Cancel, nmVars
<1>4. ASSUME NEW r \in Transactions, Transaction(r) PROVE SavedInv'
  <2>1. CASE CreateCheckpoint(r)
    BY <2>1 DEF CreateCheckpoint, Transactions, Requests
  <2>2. CASE Apply(r)
    <3>1. ckpt.owner = r
      BY <2>2 DEF Apply, IInv, CoverInv, Live
    <3>2. target[r] = r \/ r \notin Connects
      BY <2>2 DEF Apply, IInv, ProfileInv, Running
    <3>3. QED
      BY <2>2, <3>1, <3>2 DEF Apply
  <2>3. CASE DestroyCheckpoint(r)
    BY <2>3 DEF DestroyCheckpoint, NoCheckpoint, NoActive
  <2>4. CASE Rollback(r)
    BY <2>4, <1>1, <1>2 DEF Rollback
  <2>5. QED
    BY <1>1, <1>4, <2>1, <2>2, <2>3, <2>4 DEF Transaction, Acquire, GetProxy,
       GetProxyFails, ApplyFails, BeginVerify, ReadDevice, VerifyTimesOut, ReadActive,
       ReadIp4, CheckConnectivity, VerifyFails, nmVars
<1>5. CASE NetworkManager
  <2>1. CASE Expire
    <3>1. ckpt.owner \in Transactions
      BY <2>1 DEF Expire, IInv, TypeOK, Checkpoints
    <3>2. QED
      BY <2>1, <3>1, <1>2 DEF Expire
  <2>2. QED
    BY <1>5, <2>1 DEF NetworkManager, DeviceFollows, DeviceActivated, DeviceFailed,
       AutoConnect, NoActive
<1>6. CASE Crash
  BY <1>6, <1>1 DEF Crash
<1>7. CASE Tick
  <2>1. ckpt \in Checkpoints
    BY DEF IInv, TypeOK
  <2>2. QED
    BY <1>7, <2>1 DEF Tick, Checkpoints
<1>8. CASE UNCHANGED vars
  BY <1>8, <1>1 DEF vars, nmVars
<1>9. QED
  BY <1>3, <1>4, <1>5, <1>6, <1>7, <1>8 DEF Next

\* Only an open checkpoint's fate changes, and the way back to a new one is closed.
LEMMA OnceStep == IInv /\ OnceInv /\ [Next]_vars => OnceInv'
<1> SUFFICES ASSUME IInv, OnceInv, [Next]_vars PROVE OnceInv'
  OBVIOUS
<1> USE KindsDisjoint DEF OnceInv, IInv, TypeOK, FateInv, Requests, Goto, Finish, nmVars
<1>1. ASSUME NEW r \in Requests, Handler(r) PROVE OnceInv'
  BY <1>1 DEF Handler, Submit, RejectParams, DeviceReady, LookupProfile, RefuseEarly,
     CallFails, Reply, Disconnect, DeleteProfile, Cancel, Running
<1>2. ASSUME NEW r \in Transactions, Transaction(r) PROVE OnceInv'
  BY <1>2 DEF Transaction, Acquire, CreateCheckpoint, GetProxy, GetProxyFails, Apply,
     ApplyFails, BeginVerify, ReadDevice, VerifyTimesOut, ReadActive, ReadIp4,
     CheckConnectivity, VerifyFails, DestroyCheckpoint, Rollback, Restore, Live, Verifying
<1>3. CASE NetworkManager \/ Crash \/ Tick
  BY <1>3 DEF NetworkManager, Expire, Restore, DeviceFollows, DeviceActivated,
     DeviceFailed, AutoConnect, Crash, Tick, daemonVars, Checkpoints
<1>4. CASE UNCHANGED vars
  BY <1>4 DEF vars
<1>5. QED
  BY <1>1, <1>2, <1>3, <1>4 DEF Next

-----------------------------------------------------------------------------
(***************************************************************************)
(* Every step is a step of ConfigChange or leaves its variables alone.     *)
(***************************************************************************)

AbstractStep == Change!Next \/ UNCHANGED Change!changeVars

\* A request that ends with anything but "ok" was not accepted, and is not now.
LEMMA NotAccepted ==
  ASSUME IInv, NEW r \in Requests, pc[r] # "done", NEW a, a # "ok", Finish(r, a)
  PROVE  UNCHANGED AbstractAccepted
BY DEF Finish, AbstractAccepted, IInv, TypeOK, AnswerInv, Requests

\* NetworkManager's state decides all but the acceptance.
LEMMA Stutter ==
  ASSUME UNCHANGED <<profiles, ac.profile, fate, AbstractBefore, AbstractAccepted>>
  PROVE  AbstractStep
BY DEF AbstractStep, Change!changeVars, AbstractChange

\* The live checkpoint is the one pending change.
LEMMA PendingIsOpen ==
  ASSUME IInv, NEW t \in Transactions
  PROVE  AbstractChange[t] = "pending" <=> ckpt.owner = t
BY DEF IInv, TypeOK, FateInv, AbstractChange, Outcome, Fates

\* A rollback or an expiry of the live checkpoint undoes the change.
LEMMA RestoreUndoes ==
  ASSUME IInv, SavedInv, NEW t \in Transactions, ckpt.owner = t,
         NEW outcome \in {"rolledBack", "expired"}, Restore(t, outcome),
         UNCHANGED AbstractAccepted
  PROVE  AbstractStep
<1>1. AbstractChange[t] = "pending"
  BY PendingIsOpen
<1>2. AbstractChange' = [AbstractChange EXCEPT ![t] = "undone"]
  BY DEF Restore, AbstractChange, Outcome, IInv, TypeOK
<1>3. AbstractBefore' = Change!Nothing
  BY DEF Restore, AbstractBefore, Change!Nothing, NoCheckpoint, NoActive
<1>4. profiles' = (profiles \cap AbstractBefore.saved)
                    \cup ({AbstractBefore.inUse} \ {NoProfile})
  BY DEF Restore, AbstractBefore, CheckpointFlags
<1>5. ac'.profile = AbstractBefore.inUse
  BY DEF Restore, AbstractBefore
<1>6. Change!Undo(t)
  BY <1>1, <1>2, <1>3, <1>4, <1>5 DEF Change!Undo, Change!End, Change!Pending
<1>7. QED
  BY <1>6 DEF AbstractStep, Change!Next

\* The handlers outside the transactions: a delete, a disconnect, and the reply that
\* accepts a change.
LEMMA HandlerImplements ==
  ASSUME IInv, SavedInv, NEW r \in Requests, Handler(r)
  PROVE  AbstractStep
<1>1. CASE UNCHANGED nmVars /\ UNCHANGED answer
  BY <1>1, Stutter DEF nmVars, AbstractBefore, AbstractAccepted
<1>2. ASSUME UNCHANGED nmVars, UNCHANGED AbstractAccepted PROVE AbstractStep
  BY <1>2, Stutter DEF nmVars, AbstractBefore
<1>3. CASE RejectParams(r) \/ RefuseEarly(r) \/ CallFails(r) \/ Cancel(r)
  BY <1>2, <1>3, NotAccepted
  DEF RejectParams, RefuseEarly, CallFails, Cancel, Running
<1>4. CASE Reply(r)
  <2>1. CASE r \in Transactions
    <3>1. AbstractChange[r] = "kept"
      BY <1>4, <2>1 DEF Reply, IInv, AnswerInv, AbstractChange, Outcome
    <3>2. AbstractAccepted' = AbstractAccepted \cup {r}
      BY <1>4, <2>1 DEF Reply, Finish, AbstractAccepted, IInv, TypeOK, Requests
    <3>3. Change!Accept(r)
      BY <1>4, <3>1, <3>2 DEF Change!Accept, Reply, nmVars, AbstractChange, AbstractBefore
    <3>4. QED
      BY <2>1, <3>3 DEF AbstractStep, Change!Next
  <2>2. CASE r \notin Transactions
    BY <1>4, <2>2, <1>2 DEF Reply, Finish, AbstractAccepted, IInv, TypeOK, Requests
  <2>3. QED
    BY <2>1, <2>2
<1>5. CASE Disconnect(r)
  <2>1. Change!Switch
    BY <1>5 DEF Disconnect, Goto, Change!Switch, NoActive, AbstractChange, AbstractBefore,
       AbstractAccepted
  <2>2. QED
    BY <2>1 DEF AbstractStep, Change!Next
<1>6. CASE DeleteProfile(r)
  <2>1. Change!Delete(target[r])
    BY <1>6 DEF DeleteProfile, Goto, Change!Delete, NoActive, AbstractChange,
       AbstractBefore, AbstractAccepted
  <2>2. QED
    BY <1>6, <2>1 DEF AbstractStep, Change!Next, DeleteProfile
<1>7. CASE Submit(r) \/ DeviceReady(r) \/ LookupProfile(r)
  BY <1>7, <1>1 DEF Submit, DeviceReady, LookupProfile, Goto
<1>8. QED
  BY <1>3, <1>4, <1>5, <1>6, <1>7 DEF Handler

\* The transaction: its checkpoint begins, its call applies, its end keeps or undoes.
LEMMA TransactionImplements ==
  ASSUME IInv, SavedInv, OnceInv, NEW r \in Transactions, Transaction(r)
  PROVE  AbstractStep
<1>0. r \in Requests
  BY DEF Requests
<1>1. CASE UNCHANGED nmVars /\ UNCHANGED answer
  BY <1>1, Stutter DEF nmVars, AbstractBefore, AbstractAccepted
<1>2. CASE GetProxyFails(r)
  BY <1>0, <1>2, NotAccepted, Stutter DEF GetProxyFails, nmVars, AbstractBefore
<1>3. CASE CreateCheckpoint(r)
  <2>1. AbstractChange[r] = "none"
    BY <1>3 DEF CreateCheckpoint, OnceInv, AbstractChange, Outcome
  <2>2. \A u \in Transactions \ {r} :
          AbstractChange'[u] = IF AbstractChange[u] = "pending" THEN "abandoned"
                               ELSE AbstractChange[u]
    <3> TAKE u \in Transactions \ {r}
    <3>1. CASE u = ckpt.owner
      BY <1>3, <3>1, PendingIsOpen DEF CreateCheckpoint, AbstractChange, Outcome
    <3>2. CASE u # ckpt.owner
      BY <1>3, <3>2, PendingIsOpen DEF CreateCheckpoint, AbstractChange
    <3>3. QED
      BY <3>1, <3>2
  <2>3. AbstractChange'[r] = "pending"
    BY <1>3 DEF CreateCheckpoint, AbstractChange, Outcome
  <2>4. AbstractBefore' = [saved |-> profiles, inUse |-> ac.profile]
    BY <1>3 DEF CreateCheckpoint, AbstractBefore
  <2>5. AbstractChange' = [u \in Transactions |->
                             IF u = r THEN "pending"
                             ELSE IF AbstractChange[u] = "pending" THEN "abandoned"
                             ELSE AbstractChange[u]]
    BY <2>2, <2>3 DEF AbstractChange
  <2>6. Change!Begin(r)
    BY <1>3, <2>1, <2>4, <2>5
    DEF CreateCheckpoint, Goto, Change!Begin, Change!Pending, AbstractAccepted
  <2>7. QED
    BY <2>6 DEF AbstractStep, Change!Next
<1>4. CASE Apply(r)
  <2>1. AbstractChange[r] = "pending"
    BY <1>4, PendingIsOpen DEF Apply, IInv, CoverInv, Live
  <2>2. r \in Connects => target[r] = r
    BY <1>4 DEF Apply, IInv, ProfileInv, Running
  <2>3. UNCHANGED <<AbstractChange, AbstractBefore, AbstractAccepted>>
    BY <1>4 DEF Apply, Goto, AbstractChange, AbstractBefore, AbstractAccepted
  <2>4. Change!Apply(r)
    BY <1>4, <2>1, <2>2, <2>3 DEF Apply, Change!Apply, Change!Pending
  <2>5. QED
    BY <2>4 DEF AbstractStep, Change!Next
<1>5. CASE DestroyCheckpoint(r)
  <2>1. AbstractChange[r] = "pending"
    BY <1>5, PendingIsOpen DEF DestroyCheckpoint
  <2>2. AbstractChange' = [AbstractChange EXCEPT ![r] = "kept"]
    BY <1>5 DEF DestroyCheckpoint, AbstractChange, Outcome, IInv, TypeOK
  <2>3. AbstractBefore' = Change!Nothing /\ UNCHANGED AbstractAccepted
    BY <1>5 DEF DestroyCheckpoint, Goto, AbstractBefore, AbstractAccepted, Change!Nothing,
       NoCheckpoint, NoActive
  <2>4. Change!Keep(r)
    BY <1>5, <2>1, <2>2, <2>3
    DEF DestroyCheckpoint, Change!Keep, Change!End, Change!Pending
  <2>5. QED
    BY <2>4 DEF AbstractStep, Change!Next
<1>6. CASE Rollback(r)
  <2>1. UNCHANGED AbstractAccepted
    BY <1>0, <1>6, NotAccepted DEF Rollback, Goto, AbstractAccepted
  <2>2. QED
    BY <1>6, <2>1, RestoreUndoes, Stutter DEF Rollback, nmVars, AbstractBefore
<1>7. QED
  BY <1>1, <1>2, <1>3, <1>4, <1>5, <1>6 DEF Transaction, Acquire, GetProxy, ApplyFails,
     BeginVerify, ReadDevice, VerifyTimesOut, ReadActive, ReadIp4, CheckConnectivity,
     VerifyFails, Goto

\* NetworkManager on its own undoes or switches; crashes and time change nothing.
LEMMA OtherImplements ==
  ASSUME IInv, SavedInv, NetworkManager \/ Crash \/ Tick
  PROVE  AbstractStep
<1>1. CASE Expire
  <2>1. ckpt.owner \in Transactions
    BY <1>1 DEF Expire, IInv, TypeOK, Checkpoints
  <2>2. UNCHANGED AbstractAccepted
    BY <1>1 DEF Expire, daemonVars, AbstractAccepted
  <2>3. QED
    BY <1>1, <2>1, <2>2, RestoreUndoes DEF Expire
<1>2. CASE DeviceFailed \/ AutoConnect
  <2>1. Change!Switch
    BY <1>2 DEF DeviceFailed, AutoConnect, daemonVars, Change!Switch, NoActive,
       AbstractChange, AbstractBefore, AbstractAccepted
  <2>2. QED
    BY <2>1 DEF AbstractStep, Change!Next
<1>3. CASE DeviceFollows \/ DeviceActivated
  BY <1>3, Stutter DEF DeviceFollows, DeviceActivated, daemonVars, AbstractBefore,
     AbstractAccepted
<1>4. CASE Crash
  <2>1. \A t \in Transactions : answer'[t] = "ok" <=> answer[t] = "ok"
    BY <1>4 DEF Crash, IInv, TypeOK, AnswerInv, Running, Requests
  <2>2. QED
    BY <1>4, <2>1, Stutter DEF Crash, nmVars, AbstractBefore, AbstractAccepted
<1>5. CASE Tick
  <2>1. ckpt \in Checkpoints
    BY DEF IInv, TypeOK
  <2>2. UNCHANGED AbstractBefore
    BY <1>5, <2>1 DEF Tick, Checkpoints, AbstractBefore
  <2>3. QED
    BY <1>5, <2>2, Stutter DEF Tick, AbstractAccepted
<1>6. QED
  BY <1>1, <1>2, <1>3, <1>4, <1>5 DEF NetworkManager

\* Every behaviour of the handlers, NetworkManager, the clock and daemon crashes is,
\* on profiles, active connection, checkpoint and answers, one of ConfigChange: for
\* any number of requests, and through failures, timeouts and crashes.
THEOREM Refinement == Spec => ImplementsConfigChange
<1>1. Init => Change!Init
  BY DEF Init, Change!Init, Change!Nothing, NoCheckpoint, NoActive, Saved, AbstractChange,
     AbstractBefore, AbstractAccepted, Outcome, Requests
<1>2. IInv /\ SavedInv /\ OnceInv /\ [Next]_vars => [Change!Next]_Change!changeVars
  <2> SUFFICES ASSUME IInv, SavedInv, OnceInv, [Next]_vars PROVE AbstractStep
    BY DEF AbstractStep
  <2>1. CASE UNCHANGED vars
    BY <2>1, Stutter DEF vars, AbstractBefore, AbstractAccepted
  <2>2. CASE Next
    BY <2>2, HandlerImplements, TransactionImplements, OtherImplements DEF Next
  <2>3. QED
    BY <2>1, <2>2
<1>3. Spec => [](SavedInv /\ OnceInv)
  BY SavedInit, SavedStep, OnceStep, InductiveInvariant, PTL DEF Spec
<1>4. QED
  BY <1>1, <1>2, <1>3, InductiveInvariant, PTL DEF Spec, ImplementsConfigChange, Change!Spec
=============================================================================
