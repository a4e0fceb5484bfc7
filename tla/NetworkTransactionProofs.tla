---------------------- MODULE NetworkTransactionProofs ----------------------
(***************************************************************************)
(* Machine-checked proofs about NetworkTransaction, for any sets of        *)
(* requests and profiles and any timeouts that satisfy its assumptions.    *)
(***************************************************************************)
EXTENDS NetworkTransaction, TLAPS

-----------------------------------------------------------------------------
(***************************************************************************)
(* Type correctness.                                                       *)
(***************************************************************************)

\* The daemon's half and NetworkManager's half of TypeOK.
DaemonTypes ==
  /\ pc \in [Requests -> PCs]
  /\ answer \in [Requests -> Answers]
  /\ target \in [Requests -> Profiles \cup {NoProfile}]
  /\ age \in [Requests -> 0..RequestTimeout]
  /\ deadline \in [Requests -> 0..(RequestTimeout + ActivationTimeout)]
  /\ seen \in [Requests -> Devices]
  /\ lock \in Transactions \cup {NoRequest}

NMTypes ==
  /\ profiles \in SUBSET Profiles
  /\ ac \in ActiveConnections
  /\ dev \in Devices
  /\ ckpt \in Checkpoints
  /\ fate \in [Transactions -> Fates]

\* The constant records have their types.
LEMMA NullTypes ==
  /\ NoActive \in ActiveConnections
  /\ NoDevice \in Devices
  /\ NoCheckpoint \in Checkpoints
BY TimeoutsAreNat DEF NoActive, ActiveConnections, NoDevice, Devices, NoCheckpoint,
   Checkpoints

\* The initial state is well typed.
LEMMA TypeInit == Init => TypeOK
<1> SUFFICES ASSUME Init PROVE TypeOK
  OBVIOUS
<1>1. ac \in ActiveConnections
  BY DEF Init, ActiveConnections, Profiles, Saved
<1>2. dev \in Devices
  BY <1>1 DEF Init, Devices
<1>3. QED
  BY <1>1, <1>2, NullTypes, TimeoutsAreNat
  DEF Init, TypeOK, PCs, Answers, Fates, Profiles

\* Moving a handler to its next await keeps the daemon's types.
LEMMA GotoTypes ==
  ASSUME DaemonTypes, NEW r \in Requests, NEW next \in PCs, Goto(r, next)
  PROVE  DaemonTypes'
BY DEF DaemonTypes, Goto

\* Ending a handler keeps the daemon's types.
LEMMA FinishTypes ==
  ASSUME DaemonTypes, NEW r \in Requests, NEW a \in Answers, Finish(r, a)
  PROVE  DaemonTypes'
BY NullTypes, TimeoutsAreNat DEF DaemonTypes, Finish, PCs

\* A rollback or an expiry keeps NetworkManager's types.
LEMMA RestoreTypes ==
  ASSUME NMTypes, NEW t \in Transactions, NEW outcome \in Fates, Restore(t, outcome)
  PROVE  NMTypes'
<1>1. ckpt.was \in ActiveConnections
  BY DEF NMTypes, Checkpoints
<1>2. ac' \in ActiveConnections /\ profiles' \in SUBSET Profiles
  BY <1>1 DEF NMTypes, Restore, ActiveConnections
<1>3. QED
  BY <1>2, NullTypes DEF NMTypes, Restore

\* Losing the Ip4Config objects keeps the type of what the handlers have read.
LEMMA Ip4GoneTypes ==
  ASSUME DaemonTypes, Ip4ConfigGone
  PROVE  seen' \in [Requests -> Devices]
BY NullTypes DEF DaemonTypes, Ip4ConfigGone, Devices

\* Every daemon action of a request keeps the daemon's types.
LEMMA HandlerTypes ==
  ASSUME TypeOK, NEW r \in Requests, Handler(r)
  PROVE  TypeOK'
<1> USE DEF PCs, Live, Locked, Verifying, Answers
<1>0. DaemonTypes /\ NMTypes
  BY DEF TypeOK, DaemonTypes, NMTypes
<1>a. SUFFICES DaemonTypes' /\ NMTypes'
  BY DEF TypeOK, DaemonTypes, NMTypes
<1>1. CASE Submit(r)
  <2>1. PICK p \in Profiles \cup {NoProfile} : target' = [target EXCEPT ![r] = p]
    BY <1>1, <1>0 DEF Submit, Profiles, NMTypes, Requests
  <2>2. QED
    BY <1>1, <1>0, <2>1 DEF Submit, DaemonTypes, NMTypes, nmVars, FirstAwait
<1>2. CASE RejectParams(r)
  BY <1>2, <1>0, FinishTypes DEF RejectParams, NMTypes, nmVars
<1>3. CASE DeviceReady(r)
  BY <1>3, <1>0, GotoTypes DEF DeviceReady, NMTypes, nmVars
<1>4. CASE LookupProfile(r)
  BY <1>4, <1>0, GotoTypes DEF LookupProfile, NMTypes, nmVars
<1>5. CASE RefuseEarly(r)
  BY <1>5, <1>0, FinishTypes DEF RefuseEarly, NMTypes, nmVars
<1>6. CASE CallFails(r)
  BY <1>6, <1>0, FinishTypes DEF CallFails, NMTypes, nmVars
<1>7. CASE Reply(r)
  BY <1>7, <1>0, FinishTypes DEF Reply, NMTypes, nmVars
<1>8. CASE Disconnect(r)
  BY <1>8, <1>0, GotoTypes, NullTypes DEF Disconnect, NMTypes
<1>9. CASE DeleteProfile(r)
  BY <1>9, <1>0, GotoTypes, NullTypes DEF DeleteProfile, NMTypes
<1>10. CASE Cancel(r)
  BY <1>10, <1>0, FinishTypes DEF Cancel, NMTypes, nmVars
<1>11. QED
  BY <1>1, <1>2, <1>3, <1>4, <1>5, <1>6, <1>7, <1>8, <1>9, <1>10 DEF Handler

\* Every action of a transaction keeps the types.
LEMMA TransactionTypes ==
  ASSUME TypeOK, NEW r \in Transactions, Transaction(r)
  PROVE  TypeOK'
<1> USE DEF PCs, Live, Locked, Verifying, Answers
<1>0. DaemonTypes /\ NMTypes /\ r \in Requests
  BY DEF TypeOK, DaemonTypes, NMTypes, Requests
<1>a. SUFFICES DaemonTypes' /\ NMTypes'
  BY DEF TypeOK, DaemonTypes, NMTypes
<1>1. CASE Acquire(r)
  BY <1>1, <1>0 DEF Acquire, DaemonTypes, NMTypes, nmVars
<1>2. CASE CreateCheckpoint(r)
  <2>1. ckpt' \in Checkpoints
    BY <1>2, <1>0, TimeoutsAreNat DEF CreateCheckpoint, NMTypes, Checkpoints
  <2>2. fate' \in [Transactions -> Fates]
    BY <1>2, <1>0 DEF CreateCheckpoint, NMTypes, Fates
  <2>3. QED
    BY <1>2, <1>0, <2>1, <2>2, GotoTypes DEF CreateCheckpoint, NMTypes
<1>3. CASE GetProxy(r)
  BY <1>3, <1>0, GotoTypes DEF GetProxy, NMTypes, nmVars
<1>4. CASE GetProxyFails(r)
  BY <1>4, <1>0, FinishTypes DEF GetProxyFails, NMTypes, nmVars
<1>5. CASE Apply(r)
  <2>1. profiles' \in SUBSET Profiles
    BY <1>5, <1>0 DEF Apply, NMTypes, Profiles
  <2>2. ac' \in ActiveConnections
    BY <1>5, <1>0 DEF Apply, DaemonTypes, ActiveConnections
  <2>3. QED
    BY <1>5, <1>0, <2>1, <2>2, GotoTypes DEF Apply, NMTypes
<1>6. CASE ApplyFails(r)
  BY <1>6, <1>0, GotoTypes DEF ApplyFails, NMTypes, nmVars
<1>7. CASE BeginVerify(r)
  <2>1. age[r] + ActivationTimeout \in 0..(RequestTimeout + ActivationTimeout)
    BY <1>0, TimeoutsAreNat DEF DaemonTypes
  <2>2. QED
    BY <1>7, <1>0, <2>1 DEF BeginVerify, DaemonTypes, NMTypes, nmVars
<1>8. CASE ReadDevice(r)
  BY <1>8, <1>0 DEF ReadDevice, DaemonTypes, NMTypes, nmVars
<1>9. CASE VerifyTimesOut(r)
  BY <1>9, <1>0, GotoTypes DEF VerifyTimesOut, NMTypes, nmVars
<1>10. CASE ReadActive(r)
  BY <1>10, <1>0, GotoTypes DEF ReadActive, NMTypes, nmVars
<1>11. CASE ReadIp4(r)
  BY <1>11, <1>0, GotoTypes DEF ReadIp4, NMTypes, nmVars
<1>12. CASE CheckConnectivity(r)
  BY <1>12, <1>0, GotoTypes DEF CheckConnectivity, NMTypes, nmVars
<1>13. CASE VerifyFails(r)
  BY <1>13, <1>0, GotoTypes DEF VerifyFails, NMTypes, nmVars
<1>14. CASE DestroyCheckpoint(r)
  BY <1>14, <1>0, GotoTypes, NullTypes DEF DestroyCheckpoint, NMTypes, Fates
<1>15. CASE Rollback(r)
  <2>1. DaemonTypes'
    BY <1>15, <1>0, GotoTypes, FinishTypes DEF Rollback
  <2>2. NMTypes'
    BY <1>15, <1>0, RestoreTypes DEF Rollback, NMTypes, nmVars, Fates
  <2>3. QED
    BY <2>1, <2>2
<1>16. QED
  BY <1>1, <1>2, <1>3, <1>4, <1>5, <1>6, <1>7, <1>8, <1>9, <1>10, <1>11, <1>12,
     <1>13, <1>14, <1>15 DEF Transaction

\* The remaining steps keep the types: NetworkManager's, a crash, a tick.
LEMMA OtherTypes ==
  ASSUME TypeOK, NetworkManager \/ Crash \/ Tick
  PROVE  TypeOK'
<1>0. DaemonTypes /\ NMTypes
  BY DEF TypeOK, DaemonTypes, NMTypes
<1>a. SUFFICES DaemonTypes' /\ NMTypes'
  BY DEF TypeOK, DaemonTypes, NMTypes
<1>1. CASE Expire
  <2>1. ckpt.owner \in Transactions
    BY <1>1, <1>0 DEF Expire, NMTypes, Checkpoints
  <2>2. NMTypes'
    BY <1>1, <1>0, <2>1, RestoreTypes DEF Expire, Fates
  <2>3. QED
    BY <1>1, <1>0, <2>2 DEF Expire, DaemonTypes, daemonVars
<1>2. CASE DeviceFollows
  <2>1. dev' \in Devices
    BY <1>2, <1>0 DEF DeviceFollows, NMTypes, Devices
  <2>2. QED
    BY <1>2, <1>0, <2>1, Ip4GoneTypes DEF DeviceFollows, NMTypes, DaemonTypes
<1>3. CASE DeviceActivated
  <2>1. dev' \in Devices
    BY <1>3, <1>0 DEF DeviceActivated, NMTypes, Devices
  <2>2. QED
    BY <1>3, <1>0, <2>1 DEF DeviceActivated, NMTypes, DaemonTypes, daemonVars
<1>4. CASE DeviceFailed
  <2>1. dev' \in Devices
    BY <1>4, NullTypes DEF DeviceFailed, Devices
  <2>2. QED
    BY <1>4, <1>0, <2>1, Ip4GoneTypes, NullTypes DEF DeviceFailed, NMTypes, DaemonTypes
<1>5. CASE AutoConnect
  <2>1. ac' \in ActiveConnections
    BY <1>5, <1>0 DEF AutoConnect, NMTypes, ActiveConnections
  <2>2. QED
    BY <1>5, <1>0, <2>1 DEF AutoConnect, NMTypes, DaemonTypes, daemonVars
<1>6. CASE Crash
  BY <1>6, <1>0, NullTypes, TimeoutsAreNat
  DEF Crash, DaemonTypes, NMTypes, nmVars, PCs, Answers
<1>7. CASE Tick
  <2>1. age' \in [Requests -> 0..RequestTimeout]
    BY <1>7, <1>0, TimeoutsAreNat DEF Tick, DaemonTypes
  <2>2. ckpt' \in Checkpoints
    BY <1>7, <1>0, TimeoutsAreNat DEF Tick, NMTypes, Checkpoints
  <2>3. QED
    BY <1>7, <1>0, <2>1, <2>2 DEF Tick, DaemonTypes, NMTypes
<1>8. QED
  BY <1>1, <1>2, <1>3, <1>4, <1>5, <1>6, <1>7 DEF NetworkManager

\* Every step keeps the types.
LEMMA TypeStep == TypeOK /\ [Next]_vars => TypeOK'
<1> SUFFICES ASSUME TypeOK, [Next]_vars PROVE TypeOK'
  OBVIOUS
<1>1. CASE UNCHANGED vars
  BY <1>1 DEF TypeOK, vars
<1>2. CASE Next
  BY <1>2, HandlerTypes, TransactionTypes, OtherTypes DEF Next
<1>3. QED
  BY <1>1, <1>2

\* Type correctness of the whole specification, whatever the requests do.
THEOREM TypeCorrectness == Spec => []TypeOK
<1>1. QED
  BY TypeInit, TypeStep, PTL DEF Spec

-----------------------------------------------------------------------------
(***************************************************************************)
(* The safety invariants. IInv is inductive: the lock keeps a second       *)
(* transaction from CreateCheckpoint and Rollback while one is live        *)
(* (LockInv), the two clocks keep the checkpoint from expiring under it    *)
(* (CoverInv), and the checkpoint knows every profile that other           *)
(* transactions have added (ProfileInv), so no rollback removes them.      *)
(***************************************************************************)

\* The conjuncts of IInv besides the types.
SafeInv == LockInv /\ CoverInv /\ AnswerInv /\ FateInv /\ ProfileInv /\ KeptInv

\* The initial state satisfies the inductive invariant.
LEMMA IInvInit == Init => IInv
BY TypeInit, KindsDisjoint
DEF Init, IInv, LockInv, CoverInv, AnswerInv, FateInv, ProfileInv, KeptInv, NoCheckpoint,
    NotApplied, Undone, Running, Locked, Live, Verifying, Requests, Transactions, Saved,
    NoActive

\* The steps of a handler outside its transaction keep the invariant. Only the two
\* unlocked calls touch NetworkManager: a disconnect adds no profile and ends no
\* checkpoint, and a delete is what KeptInv allows for.
LEMMA HandlerKeepsIInv ==
  ASSUME IInv, TypeOK', NEW r \in Requests, Handler(r)
  PROVE  SafeInv'
<1> USE KindsDisjoint
    DEF IInv, TypeOK, LockInv, CoverInv, AnswerInv, FateInv, ProfileInv, KeptInv, SafeInv,
        MayBeDeleted, NotApplied, Undone, Running, Live, Locked, Verifying, PCs, nmVars,
        Requests, Transactions, Goto, Finish
<1>1. CASE Submit(r)
  BY <1>1 DEF Submit, FirstAwait
<1>2. CASE RejectParams(r)
  BY <1>2 DEF RejectParams
<1>3. CASE DeviceReady(r)
  BY <1>3 DEF DeviceReady
<1>4. CASE LookupProfile(r)
  BY <1>4 DEF LookupProfile
<1>5. CASE RefuseEarly(r)
  BY <1>5 DEF RefuseEarly
<1>6. CASE CallFails(r)
  BY <1>6 DEF CallFails
<1>7. CASE Reply(r)
  BY <1>7 DEF Reply
<1>8. CASE Disconnect(r)
  BY <1>8 DEF Disconnect, NoActive
<1>9. CASE DeleteProfile(r)
  <2>1. LockInv' /\ CoverInv' /\ AnswerInv' /\ FateInv'
    BY <1>9 DEF DeleteProfile
  <2>2. ProfileInv'
    BY <1>9 DEF DeleteProfile, NoActive
  <2>3. KeptInv'
    BY <1>9 DEF DeleteProfile
  <2>4. QED
    BY <2>1, <2>2, <2>3
<1>10. CASE Cancel(r)
  BY <1>10 DEF Cancel
<1>11. QED
  BY <1>1, <1>2, <1>3, <1>4, <1>5, <1>6, <1>7, <1>8, <1>9, <1>10 DEF Handler

\* The steps of a transaction keep the invariant.
LEMMA TransactionKeepsIInv ==
  ASSUME IInv, TypeOK', NEW r \in Transactions, Transaction(r)
  PROVE  SafeInv'
<1> USE KindsDisjoint
    DEF IInv, TypeOK, LockInv, CoverInv, AnswerInv, FateInv, ProfileInv, KeptInv, SafeInv,
        MayBeDeleted, NotApplied, Undone, Running, Live, Locked, Verifying, PCs, nmVars,
        Requests, Transactions, Goto, Finish
<1>1. CASE Acquire(r)
  BY <1>1 DEF Acquire
\* r holds the lock, so no other transaction is live; r's own profile and every
\* profile that is undone are not saved, hence not in the new checkpoint.
<1>2. CASE CreateCheckpoint(r)
  <2>1. LockInv' /\ CoverInv' /\ FateInv'
    BY <1>2, TimeoutsAreNat DEF CreateCheckpoint
  <2>2. AnswerInv'
    BY <1>2 DEF CreateCheckpoint
  <2>3. ProfileInv' /\ KeptInv'
    BY <1>2 DEF CreateCheckpoint
  <2>4. QED
    BY <2>1, <2>2, <2>3
<1>3. CASE GetProxy(r)
  BY <1>3 DEF GetProxy
<1>4. CASE GetProxyFails(r)
  BY <1>4 DEF GetProxyFails
\* r owns the checkpoint (CoverInv), so the profile it adds is the owner's; and an
\* activated profile is a saved one.
<1>5. CASE Apply(r)
  <2>1. LockInv' /\ CoverInv' /\ AnswerInv' /\ FateInv'
    BY <1>5 DEF Apply
  <2>2. ProfileInv'
    BY <1>5 DEF Apply
  <2>3. KeptInv'
    BY <1>5 DEF Apply
  <2>4. QED
    BY <2>1, <2>2, <2>3
<1>6. CASE ApplyFails(r)
  BY <1>6 DEF ApplyFails
<1>7. CASE BeginVerify(r)
  BY <1>7 DEF BeginVerify
<1>8. CASE ReadDevice(r)
  BY <1>8 DEF ReadDevice
<1>9. CASE VerifyTimesOut(r)
  BY <1>9 DEF VerifyTimesOut
<1>10. CASE ReadActive(r)
  BY <1>10 DEF ReadActive
<1>11. CASE ReadIp4(r)
  BY <1>11 DEF ReadIp4
<1>12. CASE CheckConnectivity(r)
  BY <1>12 DEF CheckConnectivity
<1>13. CASE VerifyFails(r)
  BY <1>13 DEF VerifyFails
<1>14. CASE DestroyCheckpoint(r)
  BY <1>14 DEF DestroyCheckpoint, NoCheckpoint, NoActive
<1>15. CASE Rollback(r)
  <2>1. CASE ckpt.owner = r /\ Restore(r, "rolledBack")
    <3>1. LockInv' /\ CoverInv' /\ AnswerInv' /\ FateInv'
      BY <1>15, <2>1 DEF Rollback, Restore, NoCheckpoint
    <3>2. ProfileInv'
      BY <1>15, <2>1 DEF Rollback, Restore, NoCheckpoint, NoActive, CheckpointFlags
    <3>3. KeptInv'
      BY <1>15, <2>1 DEF Rollback, Restore, CheckpointFlags
    <3>4. QED
      BY <3>1, <3>2, <3>3
  <2>2. CASE UNCHANGED nmVars
    BY <1>15, <2>2 DEF Rollback
  <2>3. QED
    BY <1>15, <2>1, <2>2 DEF Rollback
<1>16. QED
  BY <1>1, <1>2, <1>3, <1>4, <1>5, <1>6, <1>7, <1>8, <1>9, <1>10, <1>11, <1>12,
     <1>13, <1>14, <1>15 DEF Transaction

\* NetworkManager's own steps, a daemon crash and the clock keep the invariant.
LEMMA OtherKeepsIInv ==
  ASSUME IInv, TypeOK', NetworkManager \/ Crash \/ Tick
  PROVE  SafeInv'
<1> USE KindsDisjoint
    DEF IInv, TypeOK, LockInv, CoverInv, AnswerInv, FateInv, ProfileInv, KeptInv, SafeInv,
        MayBeDeleted, NotApplied, Undone, Running, Live, Locked, Verifying, PCs, nmVars,
        daemonVars, Requests, Transactions, Checkpoints
\* An expiring checkpoint is nobody's live one: its owner would be older than its
\* request timeout. Nor is it an accepted one's, whose fate is "destroyed".
<1>1. CASE Expire
  <2>1. PICK t \in Transactions : ckpt.owner = t /\ fate[t] = "open"
    BY <1>1 DEF Expire
  <2>2. pc[t] \notin Live
    <3>1. age[t] <= RequestTimeout /\ age[t] \in Nat
      BY TimeoutsAreNat
    <3>2. QED
      BY <1>1, <2>1, <3>1, TimeoutsAreNat, RequestEndsBeforeCheckpoint DEF Expire
  <2>3. LockInv' /\ CoverInv' /\ AnswerInv' /\ FateInv'
    BY <1>1, <2>1, <2>2 DEF Expire, Restore, NoCheckpoint
  <2>4. ProfileInv'
    BY <1>1, <2>1 DEF Expire, Restore, NoCheckpoint, NoActive, CheckpointFlags
  <2>5. KeptInv'
    BY <1>1, <2>1, <2>2 DEF Expire, Restore, CheckpointFlags
  <2>6. QED
    BY <2>3, <2>4, <2>5
<1>2. CASE DeviceFollows
  BY <1>2 DEF DeviceFollows
<1>3. CASE DeviceActivated
  BY <1>3 DEF DeviceActivated
<1>4. CASE DeviceFailed
  BY <1>4 DEF DeviceFailed, NoActive
<1>5. CASE AutoConnect
  BY <1>5 DEF AutoConnect
<1>6. CASE Crash
  BY <1>6 DEF Crash
<1>7. CASE Tick
  <2>1. CoverInv'
    BY <1>7, TimeoutsAreNat DEF Tick
  <2>2. (LockInv /\ AnswerInv /\ FateInv /\ ProfileInv /\ KeptInv)'
    BY <1>7 DEF Tick
  <2>3. QED
    BY <2>1, <2>2
<1>8. QED
  BY <1>1, <1>2, <1>3, <1>4, <1>5, <1>6, <1>7 DEF NetworkManager

\* The inductive invariant holds for every value of the constants: lock, checkpoint,
\* answers and profiles of concurrent connects, activations, disconnects and deletes
\* stay consistent through failures, request timeouts and daemon crashes.
THEOREM InductiveInvariant == Spec => []IInv
<1>1. IInv /\ [Next]_vars => IInv'
  <2> SUFFICES ASSUME IInv, [Next]_vars PROVE IInv'
    OBVIOUS
  <2>1. TypeOK'
    BY TypeStep DEF IInv
  <2>2. CASE UNCHANGED vars
    BY <2>2 DEF vars, IInv, TypeOK, LockInv, CoverInv, AnswerInv, FateInv, ProfileInv,
       KeptInv, MayBeDeleted, NotApplied, Undone, Running
  <2>3. CASE Next
    <3>1. SafeInv'
      BY <2>1, <2>3, HandlerKeepsIInv, TransactionKeepsIInv, OtherKeepsIInv DEF Next
    <3>2. QED
      BY <2>1, <3>1 DEF SafeInv, IInv
  <2>4. QED
    BY <2>2, <2>3
<1>2. QED
  BY IInvInit, <1>1, PTL DEF Spec

\* No transaction applies, verifies or commits a change that its own checkpoint
\* does not cover, for any timeouts with request timeout < checkpoint timeout.
THEOREM LiveCheckpoint == Spec => []LiveTransactionKeepsItsCheckpoint
<1>1. IInv => LiveTransactionKeepsItsCheckpoint
  BY DEF IInv, CoverInv, LiveTransactionKeepsItsCheckpoint
<1>2. QED
  BY <1>1, InductiveInvariant, PTL

\* A profile answered "accepted" is never removed by another transaction's rollback
\* or by an expiring checkpoint, only by a delete.
THEOREM AcceptedSurvives == Spec => []AcceptedProfileSurvives
<1>1. IInv => AcceptedProfileSurvives
  BY DEF IInv, KeptInv, AcceptedProfileSurvives
<1>2. QED
  BY <1>1, InductiveInvariant, PTL

\* A connect whose checkpoint was rolled back or expired leaves no profile behind,
\* then and ever after.
THEOREM RollbackIsComplete == Spec => []RolledBackLeavesNothing
<1>1. IInv => RolledBackLeavesNothing
  BY DEF IInv, ProfileInv, Undone, RolledBackLeavesNothing
<1>2. QED
  BY <1>1, InductiveInvariant, PTL

-----------------------------------------------------------------------------
(***************************************************************************)
(* What a transaction accepts is its own. OwnInv follows the Ip4Config     *)
(* path through the three reads; it is inductive together with TypeOK.     *)
(***************************************************************************)

\* Nothing is active for a request before it is submitted.
LEMMA OwnInit == Init => OwnInv
BY KindsDisjoint DEF Init, OwnInv, Own, NoCheckpoint, NoDevice, NoActive, Requests

\* A handler's steps outside the transaction keep OwnInv.
LEMMA HandlerKeepsOwn ==
  ASSUME TypeOK, OwnInv, NEW r \in Requests, Handler(r)
  PROVE  OwnInv'
<1> USE KindsDisjoint
    DEF TypeOK, OwnInv, Own, Requests, Transactions, nmVars, Goto, Finish
<1>1. CASE Submit(r)
  <2>1. pc' = [pc EXCEPT ![r] = FirstAwait(r)] /\ FirstAwait(r) \in {"lock", "device", "lookup"}
    BY <1>1 DEF Submit, FirstAwait
  <2>2. \A q \in Requests \ {r} : target'[q] = target[q] /\ pc'[q] = pc[q]
    BY <1>1 DEF Submit
  <2>3. pc[r] = "idle" /\ UNCHANGED <<ac, dev, ckpt, seen>>
    BY <1>1 DEF Submit
  <2>4. SUFFICES ASSUME NEW q \in Transactions
                 PROVE  /\ \A a \in {ac, dev.ac, ckpt.was} :
                             a.by = q => a = Own(q)' /\ pc'[q] # "idle"
                        /\ pc'[q] \in {"readActive", "readIp4"} =>
                             seen[q].ac \in {NoActive, dev.ac}
                        /\ pc'[q] = "readIp4" => seen[q].ac \in {NoActive, Own(q)'}
                        /\ pc'[q] \in {"connectivity", "destroy"} => seen[q].ac = Own(q)'
    BY <2>3
  <2>5. CASE q = r
    BY <2>1, <2>3, <2>5
  <2>6. CASE q # r
    <3>1. Own(q)' = Own(q) /\ pc'[q] = pc[q]
      BY <2>2, <2>6
    <3>2. QED
      BY <3>1
  <2>7. QED
    BY <2>5, <2>6
<1>2. CASE RejectParams(r)
  BY <1>2 DEF RejectParams
<1>3. CASE DeviceReady(r)
  BY <1>3 DEF DeviceReady
<1>4. CASE LookupProfile(r)
  BY <1>4 DEF LookupProfile
<1>5. CASE RefuseEarly(r)
  BY <1>5 DEF RefuseEarly
<1>6. CASE CallFails(r)
  BY <1>6 DEF CallFails
<1>7. CASE Reply(r)
  BY <1>7 DEF Reply
<1>8. CASE Disconnect(r)
  BY <1>8 DEF Disconnect, NoActive
<1>9. CASE DeleteProfile(r)
  BY <1>9 DEF DeleteProfile, NoActive
<1>10. CASE Cancel(r)
  BY <1>10 DEF Cancel
<1>11. QED
  BY <1>1, <1>2, <1>3, <1>4, <1>5, <1>6, <1>7, <1>8, <1>9, <1>10 DEF Handler

\* A transaction's steps keep OwnInv.
LEMMA TransactionKeepsOwn ==
  ASSUME TypeOK, OwnInv, NEW r \in Transactions, Transaction(r)
  PROVE  OwnInv'
<1> USE KindsDisjoint
    DEF TypeOK, OwnInv, Own, Requests, Transactions, nmVars, Goto, Finish
<1>1. CASE Acquire(r)
  BY <1>1 DEF Acquire
<1>2. CASE CreateCheckpoint(r)
  BY <1>2 DEF CreateCheckpoint
<1>3. CASE GetProxy(r)
  BY <1>3 DEF GetProxy
<1>4. CASE GetProxyFails(r)
  BY <1>4 DEF GetProxyFails
<1>5. CASE Apply(r)
  BY <1>5 DEF Apply
<1>6. CASE ApplyFails(r)
  BY <1>6 DEF ApplyFails
<1>7. CASE BeginVerify(r)
  BY <1>7 DEF BeginVerify
<1>8. CASE ReadDevice(r)
  BY <1>8 DEF ReadDevice
<1>9. CASE VerifyTimesOut(r)
  BY <1>9 DEF VerifyTimesOut
\* The active connection is found activated only while the device serves it, so a
\* path that is still alive is the path of r's own configuration.
<1>10. CASE ReadActive(r)
  <2>1. pc'[r] = "readIp4" => ac.by = r /\ dev.ac = ac
    BY <1>10 DEF ReadActive, ActiveState
  <2>2. pc'[r] \in {"readIp4", "rollback", "verify"}
    BY <1>10 DEF ReadActive
  <2>3. QED
    BY <1>10, <2>1, <2>2 DEF ReadActive
<1>11. CASE ReadIp4(r)
  BY <1>11 DEF ReadIp4
<1>12. CASE CheckConnectivity(r)
  BY <1>12 DEF CheckConnectivity
<1>13. CASE VerifyFails(r)
  BY <1>13 DEF VerifyFails
<1>14. CASE DestroyCheckpoint(r)
  BY <1>14 DEF DestroyCheckpoint, NoCheckpoint, NoActive
<1>15. CASE Rollback(r)
  BY <1>15 DEF Rollback, Restore, NoCheckpoint, NoActive
<1>16. QED
  BY <1>1, <1>2, <1>3, <1>4, <1>5, <1>6, <1>7, <1>8, <1>9, <1>10, <1>11, <1>12,
     <1>13, <1>14, <1>15 DEF Transaction

\* The device changing under a reading handler, and the other steps, keep OwnInv.
LEMMA OtherKeepsOwn ==
  ASSUME TypeOK, OwnInv, NetworkManager \/ Crash \/ Tick
  PROVE  OwnInv'
<1> USE KindsDisjoint
    DEF TypeOK, OwnInv, Own, Requests, Transactions, nmVars, daemonVars, NoActive
<1>1. CASE Expire
  BY <1>1 DEF Expire, Restore, NoCheckpoint
<1>2. CASE DeviceFollows
  BY <1>2 DEF DeviceFollows, Ip4ConfigGone, Devices
<1>3. CASE DeviceActivated
  BY <1>3 DEF DeviceActivated, Devices
<1>4. CASE DeviceFailed
  BY <1>4 DEF DeviceFailed, Ip4ConfigGone, Devices
<1>5. CASE AutoConnect
  BY <1>5 DEF AutoConnect
<1>6. CASE Crash
  BY <1>6 DEF Crash, Running
<1>7. CASE Tick
  BY <1>7 DEF Tick, Checkpoints
<1>8. QED
  BY <1>1, <1>2, <1>3, <1>4, <1>5, <1>6, <1>7 DEF NetworkManager

\* What the handlers have read belongs together at every moment: active connections
\* are for the profile of the request that asked for them, and the Ip4Config path a
\* handler holds is its own connection's or dead.
THEOREM ReadsBelongTogether == Spec => []OwnInv
<1>1. TypeOK /\ OwnInv /\ [Next]_vars => OwnInv'
  <2> SUFFICES ASSUME TypeOK, OwnInv, [Next]_vars PROVE OwnInv'
    OBVIOUS
  <2>1. CASE UNCHANGED vars
    BY <2>1 DEF vars, OwnInv, Own
  <2>2. CASE Next
    BY <2>2, HandlerKeepsOwn, TransactionKeepsOwn, OtherKeepsOwn DEF Next
  <2>3. QED
    BY <2>1, <2>2
<1>2. QED
  BY OwnInit, <1>1, TypeCorrectness, PTL DEF Spec

\* Although _verify_activation reads device, active connection and addresses in
\* three calls, what a transaction accepts are the addresses of its own connection.
THEOREM AcceptedIsOwn == Spec => []AcceptedDetailsAreOwn
<1>1. OwnInv => AcceptedDetailsAreOwn
  BY DEF OwnInv, Own, AcceptedDetailsAreOwn
<1>2. QED
  BY <1>1, ReadsBelongTogether, PTL
=============================================================================
