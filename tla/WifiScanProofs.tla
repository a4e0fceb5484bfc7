---------------------------- MODULE WifiScanProofs ----------------------------
(***************************************************************************)
(* What wifi.scan keeps for any number of requests and any intervals.      *)
(***************************************************************************)
EXTENDS WifiScan, TLAPS

(***************************************************************************)
(* The inductive invariant. One request is inside the lock at a time, the  *)
(* list told last is the one in the cache, and the list the holder has     *)
(* read is no older: so answers do not go back. A scan that a request saw  *)
(* complete was completed after the request read the clock.                *)
(***************************************************************************)

LockInv == \A r \in Requests : pc[r] \in Holding <=> lock = r

VersionInv ==
  /\ told = cache.version
  /\ cache.version <= aps.version
  /\ \A r \in Requests :
       /\ result[r].version <= aps.version
       /\ pc[r] = "store" => cache.version <= result[r].version

ClockInv ==
  /\ lastRequest <= clock /\ lastResult <= clock /\ lastCall <= clock /\ scannedAt <= clock
  /\ \A r \in Requests : now[r] <= clock

EventInv ==
  \A r \in Requests :
    /\ pc[r] \in {"idle", "lock", "device", "previous"} => ~finished[r]
    /\ pc[r] \in Scanning /\ lastScan # previous[r] => scannedAt >= now[r]
    /\ pc[r] \in Scanning /\ finished[r] => lastScan # previous[r]
    /\ pc[r] \in Scanning => previous[r] <= lastScan

Accounted(r) ==
  \/ scannedAt > now[r] - MinInterval
  \/ now[r] < MinInterval
  \/ fellBack[r]

AccountInv == \A r \in Requests : pc[r] \in {"read", "store"} => Accounted(r)

IInv ==
  /\ TypeOK /\ LockInv /\ VersionInv /\ ClockInv /\ EventInv
  /\ CountedScansCompleted /\ AccountInv

PCs == {"idle", "lock", "done"} \cup Holding

\* The requests after a step of one of them.
LEMMA PcAt ==
  ASSUME TypeOK, NEW r \in Requests, NEW next, Goto(r, next)
  PROVE  \A q \in Requests : pc'[q] = IF q = r THEN next ELSE pc[q]
BY DEF TypeOK, Goto

\* The end of a request, whatever it is told: what it leaves of the manager's variables
\* and of the history but told and cache.
LEMMA FinishKeeps ==
  ASSUME IInv, NEW r \in Requests, pc[r] # "done",
         NEW a \in {"none", "cached", "fresh", "busy", "error", "timeout"}, Finish(r, a),
         lastRequest' = lastRequest, UNCHANGED nmVars,
         lastResult' \in 0..clock
  PROVE  /\ lock' \in Requests \cup {NoRequest} /\ pc' \in [Requests -> PCs]
         /\ answer' \in [Requests -> {"none", "cached", "fresh", "busy", "error", "timeout"}]
         /\ started' \in [Requests -> 0..MaxClock] /\ now' \in [Requests -> 0..MaxClock]
         /\ previous' \in [Requests -> 0..MaxScans] /\ waiting' \in [Requests -> 0..MaxClock]
         /\ finished' \in [Requests -> BOOLEAN] /\ fellBack' \in [Requests -> BOOLEAN]
         /\ LockInv' /\ ClockInv' /\ EventInv' /\ CountedScansCompleted' /\ AccountInv'
         /\ UNCHANGED <<lastCall, gap, scannedAt>>
<1>1. \A q \in Requests : pc'[q] = IF q = r THEN "done" ELSE pc[q]
  BY PcAt DEF Finish, IInv
<1>2. \A q \in Requests : q # r => /\ now'[q] = now[q] /\ previous'[q] = previous[q]
                                   /\ fellBack'[q] = fellBack[q]
                                   /\ finished'[q] = finished[q]
  BY DEF IInv, TypeOK, Finish
<1>3. UNCHANGED <<lastCall, gap, scannedAt>> /\ UNCHANGED <<clock, lastScan, aps>>
  BY DEF Finish, nmVars
<1>4. now'[r] = 0 /\ clock \in Nat
  BY ConstantsAssumption DEF Finish, IInv, TypeOK
<1>5. lock' \in Requests \cup {NoRequest} /\ pc' \in [Requests -> PCs]
  BY DEF IInv, TypeOK, Finish, Goto, PCs
<1>6. answer' \in [Requests -> {"none", "cached", "fresh", "busy", "error", "timeout"}]
  BY DEF IInv, TypeOK, Finish
<1>7. /\ started' \in [Requests -> 0..MaxClock] /\ now' \in [Requests -> 0..MaxClock]
      /\ previous' \in [Requests -> 0..MaxScans] /\ waiting' \in [Requests -> 0..MaxClock]
  BY ConstantsAssumption DEF IInv, TypeOK, Finish
<1>8. finished' \in [Requests -> BOOLEAN] /\ fellBack' \in [Requests -> BOOLEAN]
  BY DEF IInv, TypeOK, Finish
<1>9. LockInv'
  BY <1>1, ConstantsAssumption DEF IInv, LockInv, Finish, Holding, Scanning
<1>10. ClockInv'
  BY <1>2, <1>3, <1>4 DEF IInv, ClockInv
<1>11. EventInv'
  BY <1>1, <1>2, <1>3 DEF IInv, EventInv, Scanning
<1>12. CountedScansCompleted' /\ AccountInv'
  BY <1>1, <1>2, <1>3 DEF IInv, CountedScansCompleted, AccountInv, Accounted
<1> QED  BY <1>3, <1>5, <1>6, <1>7, <1>8, <1>9, <1>10, <1>11, <1>12

\* Its types, once those of cache and answer are known.
LEMMA FinishTyped ==
  ASSUME IInv, NEW r \in Requests, pc[r] # "done",
         NEW a \in {"none", "cached", "fresh", "busy", "error", "timeout"}, Finish(r, a),
         lastRequest' = lastRequest, UNCHANGED nmVars, lastResult' \in 0..clock,
         lastResult' \in 0..MaxClock, cache' \in Lists, told' \in 0..MaxVersion,
         result' \in [Requests -> Lists]
  PROVE  TypeOK'
<1>1. /\ pc' \in [Requests -> PCs] /\ UNCHANGED <<lastCall, gap, scannedAt>>
      /\ lock' \in Requests \cup {NoRequest}
      /\ answer' \in [Requests -> {"none", "cached", "fresh", "busy", "error", "timeout"}]
      /\ started' \in [Requests -> 0..MaxClock] /\ now' \in [Requests -> 0..MaxClock]
      /\ previous' \in [Requests -> 0..MaxScans] /\ waiting' \in [Requests -> 0..MaxClock]
      /\ finished' \in [Requests -> BOOLEAN] /\ fellBack' \in [Requests -> BOOLEAN]
  BY FinishKeeps
<1>2. /\ lastRequest' \in 0..MaxClock /\ clock' \in 0..MaxClock /\ lastScan' \in 0..MaxScans
      /\ scanning' \in BOOLEAN /\ aps' \in Lists
  BY DEF IInv, TypeOK, nmVars
<1>3. lastCall' \in -1..MaxClock /\ gap' \in 0..MaxClock \cup {MinInterval}
      /\ scannedAt' \in -1..MaxClock
  BY <1>1 DEF IInv, TypeOK
<1> QED  BY <1>1, <1>2, <1>3, Zenon DEF TypeOK, PCs

\* A request that ends without a list.
LEMMA RefusedKeeps ==
  ASSUME IInv, NEW r \in Requests, pc[r] # "done", NEW a \in {"busy", "error", "timeout"},
         Finish(r, a), UNCHANGED <<lastRequest, lastResult, cache, result, nmVars, told>>
  PROVE  IInv'
<1> USE DEF nmVars
<1>1. lastResult' \in 0..clock
  BY DEF IInv, TypeOK, ClockInv
<1>2. \A q \in Requests : pc'[q] = IF q = r THEN "done" ELSE pc[q]
  BY PcAt DEF Finish, IInv
<1>3. TypeOK'
  <2>1. /\ cache' \in Lists /\ told' \in 0..MaxVersion /\ result' \in [Requests -> Lists]
        /\ lastResult' \in 0..MaxClock
    BY DEF IInv, TypeOK
  <2> QED  BY <1>1, <2>1, FinishTyped
<1>4. VersionInv'
  BY <1>2 DEF IInv, VersionInv
<1> QED  BY <1>1, <1>3, <1>4, FinishKeeps DEF IInv

-----------------------------------------------------------------------------
LEMMA AnswerFromCacheKeeps == ASSUME IInv, NEW r \in Requests, AnswerFromCache(r) PROVE IInv'
<1> USE DEF nmVars
<1>1. lastResult' \in 0..clock /\ Finish(r, "cached") /\ pc[r] # "done" /\ lastRequest' = lastRequest
  BY DEF IInv, TypeOK, ClockInv, AnswerFromCache
<1>2. \A q \in Requests : pc'[q] = IF q = r THEN "done" ELSE pc[q]
  BY <1>1, PcAt DEF Finish, IInv
<1>3. UNCHANGED <<lastRequest, lastResult, cache, nmVars>>
  BY DEF AnswerFromCache
<1>4. \A q \in Requests : result'[q] = IF q = r THEN cache ELSE result[q]
  BY DEF IInv, TypeOK, AnswerFromCache
<1>5. told' = cache.version /\ result' \in [Requests -> Lists] /\ told' \in 0..MaxVersion
      /\ cache' \in Lists /\ lastResult' \in 0..MaxClock
  BY DEF IInv, TypeOK, AnswerFromCache, Lists
<1>6. TypeOK'
  BY <1>1, <1>3, <1>5, FinishTyped
<1>7. VersionInv'
  BY <1>2, <1>3, <1>4, <1>5 DEF IInv, VersionInv
<1> QED  BY <1>1, <1>3, <1>6, <1>7, FinishKeeps DEF IInv

LEMMA StoreResultKeeps == ASSUME IInv, NEW r \in Requests, StoreResult(r) PROVE IInv'
<1> USE DEF nmVars
<1>1. lastResult' \in 0..clock /\ Finish(r, "fresh") /\ pc[r] = "store" /\ lastRequest' = lastRequest
  BY ConstantsAssumption DEF IInv, TypeOK, StoreResult
<1>2. \A q \in Requests : pc'[q] = IF q = r THEN "done" ELSE pc[q]
  BY <1>1, PcAt DEF Finish, IInv
<1>3. UNCHANGED <<lastRequest, result, nmVars>>
  BY DEF StoreResult
<1>4. cache' = result[r] /\ told' = result[r].version
  BY DEF StoreResult
<1>5. cache' \in Lists /\ told' \in 0..MaxVersion
  BY <1>4 DEF IInv, TypeOK, Lists
<1>6. TypeOK'
  <2>1. result' \in [Requests -> Lists] /\ lastResult' \in 0..MaxClock
    BY <1>3 DEF IInv, TypeOK, StoreResult
  <2> QED  BY <1>1, <1>3, <1>5, <2>1, FinishTyped
<1>7. \A q \in Requests \ {r} : pc[q] # "store"
  BY <1>1, ConstantsAssumption DEF IInv, LockInv, Holding
<1>8. VersionInv'
  BY <1>2, <1>3, <1>4, <1>7 DEF IInv, VersionInv
<1> QED  BY <1>1, <1>3, <1>6, <1>8, FinishKeeps DEF IInv

-----------------------------------------------------------------------------
LEMMA GoForLockKeeps == ASSUME IInv, NEW r \in Requests, GoForLock(r) PROVE IInv'
<1> USE DEF nmVars, managerVars, historyVars
<1>1. \A q \in Requests : pc'[q] = IF q = r THEN "lock" ELSE pc[q]
  BY PcAt DEF GoForLock, IInv
<1>2. TypeOK'
  BY ConstantsAssumption DEF IInv, TypeOK, GoForLock, Goto, Holding, Scanning
<1>3. LockInv'
  BY <1>1, ConstantsAssumption DEF IInv, LockInv, GoForLock, Holding, Scanning
<1>4. VersionInv'
  BY <1>1 DEF IInv, TypeOK, VersionInv, GoForLock
<1>5. ClockInv'
  BY ConstantsAssumption DEF IInv, TypeOK, ClockInv, GoForLock
<1>6. EventInv'
  BY <1>1, ConstantsAssumption DEF IInv, TypeOK, EventInv, ClockInv, GoForLock, Scanning
<1>7. CountedScansCompleted' /\ AccountInv'
  BY <1>1, ConstantsAssumption
     DEF IInv, TypeOK, CountedScansCompleted, AccountInv, Accounted, EventInv, ClockInv, GoForLock, Scanning
<1> QED  BY <1>2, <1>3, <1>4, <1>5, <1>6, <1>7 DEF IInv

LEMMA AcquireKeeps == ASSUME IInv, NEW r \in Requests, Acquire(r) PROVE IInv'
<1> USE DEF nmVars, managerVars, historyVars
<1>1. \A q \in Requests : pc'[q] = IF q = r THEN "device" ELSE pc[q]
  BY PcAt DEF Acquire, IInv
<1>2. TypeOK'
  BY ConstantsAssumption DEF IInv, TypeOK, Acquire, Goto, Holding, Scanning
<1>3. LockInv'
  BY <1>1, ConstantsAssumption DEF IInv, LockInv, Acquire, Holding, Scanning
<1>4. VersionInv'
  BY <1>1 DEF IInv, TypeOK, VersionInv, Acquire
<1>5. ClockInv'
  BY ConstantsAssumption DEF IInv, TypeOK, ClockInv, Acquire
<1>6. EventInv'
  BY <1>1, ConstantsAssumption DEF IInv, TypeOK, EventInv, ClockInv, Acquire, Scanning
<1>7. CountedScansCompleted' /\ AccountInv'
  BY <1>1, ConstantsAssumption
     DEF IInv, TypeOK, CountedScansCompleted, AccountInv, Accounted, EventInv, ClockInv, Acquire, Scanning
<1> QED  BY <1>2, <1>3, <1>4, <1>5, <1>6, <1>7 DEF IInv

LEMMA DeviceReadyKeeps == ASSUME IInv, NEW r \in Requests, DeviceReady(r) PROVE IInv'
<1> USE DEF nmVars, managerVars, historyVars
<1>1. \A q \in Requests : pc'[q] = IF q = r THEN (IF clock - lastRequest >= MinInterval THEN "previous" ELSE "read") ELSE pc[q]
  BY PcAt DEF DeviceReady, IInv
<1>2. TypeOK'
  BY ConstantsAssumption DEF IInv, TypeOK, DeviceReady, Goto, Holding, Scanning
<1>3. LockInv'
  BY <1>1, ConstantsAssumption DEF IInv, LockInv, DeviceReady, Holding, Scanning
<1>4. VersionInv'
  BY <1>1 DEF IInv, TypeOK, VersionInv, DeviceReady
<1>5. ClockInv'
  BY ConstantsAssumption DEF IInv, TypeOK, ClockInv, DeviceReady
<1>6. EventInv'
  BY <1>1, ConstantsAssumption DEF IInv, TypeOK, EventInv, ClockInv, DeviceReady, Scanning
<1>7. CountedScansCompleted' /\ AccountInv'
  BY <1>1, ConstantsAssumption
     DEF IInv, TypeOK, CountedScansCompleted, AccountInv, Accounted, EventInv, ClockInv, DeviceReady, Scanning
<1> QED  BY <1>2, <1>3, <1>4, <1>5, <1>6, <1>7 DEF IInv

LEMMA ReadPreviousKeeps == ASSUME IInv, NEW r \in Requests, ReadPrevious(r) PROVE IInv'
<1> USE DEF nmVars, managerVars, historyVars
<1>1. \A q \in Requests : pc'[q] = IF q = r THEN "request" ELSE pc[q]
  BY PcAt DEF ReadPrevious, IInv
<1>2. TypeOK'
  BY ConstantsAssumption DEF IInv, TypeOK, ReadPrevious, Goto, Holding, Scanning
<1>3. LockInv'
  BY <1>1, ConstantsAssumption DEF IInv, LockInv, ReadPrevious, Holding, Scanning
<1>4. VersionInv'
  BY <1>1 DEF IInv, TypeOK, VersionInv, ReadPrevious
<1>5. ClockInv'
  BY ConstantsAssumption DEF IInv, TypeOK, ClockInv, ReadPrevious
<1>6. EventInv'
  BY <1>1, ConstantsAssumption DEF IInv, TypeOK, EventInv, ClockInv, ReadPrevious, Scanning
<1>7. CountedScansCompleted' /\ AccountInv'
  BY <1>1, ConstantsAssumption
     DEF IInv, TypeOK, CountedScansCompleted, AccountInv, Accounted, EventInv, ClockInv, ReadPrevious, Scanning
<1> QED  BY <1>2, <1>3, <1>4, <1>5, <1>6, <1>7 DEF IInv

LEMMA RequestScanKeeps == ASSUME IInv, NEW r \in Requests, RequestScan(r) PROVE IInv'
<1> USE DEF nmVars, managerVars, historyVars
<1>1. \A q \in Requests : pc'[q] = IF q = r THEN "wait" ELSE pc[q]
  BY PcAt DEF RequestScan, IInv
<1>2. TypeOK'
  <2>1. gap' \in 0..MaxClock \cup {MinInterval}
    BY ConstantsAssumption DEF IInv, TypeOK, ClockInv, RequestScan
  <2>2. /\ pc' \in [Requests -> {"idle", "lock", "done"} \cup Holding]
        /\ waiting' \in [Requests -> 0..MaxClock] /\ lastCall' \in -1..MaxClock
        /\ scanning' \in BOOLEAN
    BY ConstantsAssumption DEF IInv, TypeOK, RequestScan, Goto, Holding, Scanning
  <2> QED  BY <2>1, <2>2 DEF IInv, TypeOK, RequestScan
<1>3. LockInv'
  BY <1>1, ConstantsAssumption DEF IInv, LockInv, RequestScan, Holding, Scanning
<1>4. VersionInv'
  BY <1>1 DEF IInv, TypeOK, VersionInv, RequestScan
<1>5. ClockInv'
  BY ConstantsAssumption DEF IInv, TypeOK, ClockInv, RequestScan
<1>6. EventInv'
  BY <1>1, ConstantsAssumption DEF IInv, TypeOK, EventInv, ClockInv, RequestScan, Scanning
<1>7. CountedScansCompleted' /\ AccountInv'
  BY <1>1, ConstantsAssumption
     DEF IInv, TypeOK, CountedScansCompleted, AccountInv, Accounted, EventInv, ClockInv, RequestScan, Scanning
<1> QED  BY <1>2, <1>3, <1>4, <1>5, <1>6, <1>7 DEF IInv

LEMMA WaitTimesOutKeeps == ASSUME IInv, NEW r \in Requests, WaitTimesOut(r) PROVE IInv'
<1> USE DEF nmVars, managerVars, historyVars
<1>1. \A q \in Requests : pc'[q] = IF q = r THEN "recheck" ELSE pc[q]
  BY PcAt DEF WaitTimesOut, IInv
<1>2. TypeOK'
  BY ConstantsAssumption DEF IInv, TypeOK, WaitTimesOut, Goto, Holding, Scanning
<1>3. LockInv'
  BY <1>1, ConstantsAssumption DEF IInv, LockInv, WaitTimesOut, Holding, Scanning
<1>4. VersionInv'
  BY <1>1 DEF IInv, TypeOK, VersionInv, WaitTimesOut
<1>5. ClockInv'
  BY ConstantsAssumption DEF IInv, TypeOK, ClockInv, WaitTimesOut
<1>6. EventInv'
  BY <1>1, ConstantsAssumption DEF IInv, TypeOK, EventInv, ClockInv, WaitTimesOut, Scanning
<1>7. CountedScansCompleted' /\ AccountInv'
  BY <1>1, ConstantsAssumption
     DEF IInv, TypeOK, CountedScansCompleted, AccountInv, Accounted, EventInv, ClockInv, WaitTimesOut, Scanning
<1> QED  BY <1>2, <1>3, <1>4, <1>5, <1>6, <1>7 DEF IInv

LEMMA ReadAccessPointsKeeps == ASSUME IInv, NEW r \in Requests, ReadAccessPoints(r) PROVE IInv'
<1> USE DEF nmVars, managerVars, historyVars
<1>1. \A q \in Requests : pc'[q] = IF q = r THEN "store" ELSE pc[q]
  BY PcAt DEF ReadAccessPoints, IInv
<1>2. TypeOK'
  BY ConstantsAssumption DEF IInv, TypeOK, ReadAccessPoints, Goto, Holding, Scanning, Lists
<1>3. LockInv'
  BY <1>1, ConstantsAssumption DEF IInv, LockInv, ReadAccessPoints, Holding, Scanning
<1>4. VersionInv'
  BY <1>1 DEF IInv, TypeOK, VersionInv, ReadAccessPoints, Lists
<1>5. ClockInv'
  BY ConstantsAssumption DEF IInv, TypeOK, ClockInv, ReadAccessPoints
<1>6. EventInv'
  BY <1>1, ConstantsAssumption DEF IInv, TypeOK, EventInv, ClockInv, ReadAccessPoints, Scanning
<1>7. CountedScansCompleted' /\ AccountInv'
  BY <1>1, ConstantsAssumption
     DEF IInv, TypeOK, CountedScansCompleted, AccountInv, Accounted, EventInv, ClockInv, ReadAccessPoints, Scanning
<1> QED  BY <1>2, <1>3, <1>4, <1>5, <1>6, <1>7 DEF IInv

LEMMA SucceedsKeeps == ASSUME IInv, NEW r \in Requests, ScanSucceeds(r), pc[r] \in Scanning, lastScan # previous[r] PROVE IInv'
<1> USE DEF nmVars, managerVars, historyVars
<1>1. \A q \in Requests : pc'[q] = IF q = r THEN "read" ELSE pc[q]
  BY PcAt DEF ScanSucceeds, IInv
<1>2. TypeOK'
  BY ConstantsAssumption DEF IInv, TypeOK, ScanSucceeds, Goto, Holding, Scanning
<1>3. LockInv'
  BY <1>1, ConstantsAssumption DEF IInv, LockInv, ScanSucceeds, Holding, Scanning
<1>4. VersionInv'
  BY <1>1 DEF IInv, TypeOK, VersionInv, ScanSucceeds
<1>5. ClockInv'
  BY ConstantsAssumption DEF IInv, TypeOK, ClockInv, ScanSucceeds
<1>6. EventInv'
  BY <1>1, ConstantsAssumption DEF IInv, TypeOK, EventInv, ClockInv, ScanSucceeds, Scanning
<1>7. CountedScansCompleted' /\ AccountInv'
  BY <1>1, ConstantsAssumption
     DEF IInv, TypeOK, CountedScansCompleted, AccountInv, Accounted, EventInv, ClockInv, ScanSucceeds, Scanning
<1> QED  BY <1>2, <1>3, <1>4, <1>5, <1>6, <1>7 DEF IInv

LEMMA GoOnKeeps == ASSUME IInv, NEW r \in Requests, GoOn(r), pc[r] \in Scanning, fellBack' = [fellBack EXCEPT ![r] = TRUE],
         UNCHANGED <<lastRequest, lastResult, cache, result, nmVars>> PROVE IInv'
<1> USE DEF nmVars, managerVars, historyVars
<1>1. \A q \in Requests : pc'[q] = IF q = r THEN "read" ELSE pc[q]
  BY PcAt DEF GoOn, IInv
<1>2. TypeOK'
  BY ConstantsAssumption DEF IInv, TypeOK, GoOn, Goto, Holding, Scanning
<1>3. LockInv'
  BY <1>1, ConstantsAssumption DEF IInv, LockInv, GoOn, Holding, Scanning
<1>4. VersionInv'
  BY <1>1 DEF IInv, TypeOK, VersionInv, GoOn
<1>5. ClockInv'
  BY ConstantsAssumption DEF IInv, TypeOK, ClockInv, GoOn
<1>6. EventInv'
  BY <1>1, ConstantsAssumption DEF IInv, TypeOK, EventInv, ClockInv, GoOn, Scanning
<1>7. CountedScansCompleted' /\ AccountInv'
  BY <1>1, ConstantsAssumption
     DEF IInv, TypeOK, CountedScansCompleted, AccountInv, Accounted, EventInv, ClockInv, GoOn, Scanning
<1> QED  BY <1>2, <1>3, <1>4, <1>5, <1>6, <1>7 DEF IInv

-----------------------------------------------------------------------------
\* One lemma for each way a scan can end.
LEMMA ScanFailsKeeps ==
  ASSUME IInv, NEW r \in Requests, ScanFails(r), pc[r] \in Scanning,
         UNCHANGED <<lastRequest, lastResult, cache, result, nmVars>>
  PROVE  IInv'
<1>1. pc[r] # "done"
  BY DEF Scanning
<1>2. CASE Finish(r, "busy") /\ UNCHANGED told
  BY <1>1, <1>2, RefusedKeeps
<1>3. CASE GoOn(r) /\ fellBack' = [fellBack EXCEPT ![r] = TRUE]
  BY <1>3, GoOnKeeps
<1> QED  BY <1>2, <1>3 DEF ScanFails

LEMMA HandlerKeeps == ASSUME IInv, NEW r \in Requests, Handler(r) PROVE IInv'
<1>1. CASE AnswerFromCache(r) \/ GoForLock(r) \/ Acquire(r) \/ DeviceReady(r)
  BY <1>1, AnswerFromCacheKeeps, GoForLockKeeps, AcquireKeeps, DeviceReadyKeeps
<1>2. CASE ReadPrevious(r) \/ RequestScan(r) \/ WaitTimesOut(r)
  BY <1>2, ReadPreviousKeeps, RequestScanKeeps, WaitTimesOutKeeps
<1>3. CASE ReadAccessPoints(r) \/ StoreResult(r)
  BY <1>3, ReadAccessPointsKeeps, StoreResultKeeps
<1>4. CASE RequestFails(r)
  BY <1>4, ScanFailsKeeps DEF RequestFails, Scanning
<1>5. CASE EventSet(r)
  <2>1. pc[r] \in Scanning /\ lastScan # previous[r]
    BY <1>5 DEF EventSet, IInv, EventInv, Scanning
  <2> QED  BY <1>5, <2>1, SucceedsKeeps DEF EventSet
<1>6. CASE Recheck(r)
  <2>1. pc[r] \in Scanning
    BY <1>6 DEF Recheck, Scanning
  <2>2. CASE lastScan # previous[r] /\ ScanSucceeds(r)
    BY <2>1, <2>2, SucceedsKeeps
  <2>3. CASE ScanFails(r) /\ UNCHANGED <<lastRequest, lastResult, cache, result, nmVars>>
    BY <2>1, <2>3, ScanFailsKeeps
  <2> QED  BY <1>6, <2>2, <2>3 DEF Recheck
<1>7. CASE Refuse(r)
  BY <1>7, RefusedKeeps DEF Refuse
<1>8. CASE Cancel(r)
  BY <1>8, RefusedKeeps DEF Cancel
<1> QED  BY <1>1, <1>2, <1>3, <1>4, <1>5, <1>6, <1>7, <1>8 DEF Handler

LEMMA EnvironmentKeeps == ASSUME IInv, Tick \/ ScanCompletes \/ ListChanges PROVE IInv'
<1> USE DEF managerVars, handlerVars, historyVars
<1>1. CASE Tick
  <2>1. TypeOK'
    BY <1>1, ConstantsAssumption DEF IInv, TypeOK, Tick
  <2>2. ClockInv'
    BY <1>1 DEF IInv, TypeOK, ClockInv, Tick
  <2>3. LockInv' /\ VersionInv' /\ EventInv' /\ CountedScansCompleted' /\ AccountInv'
    BY <1>1 DEF IInv, LockInv, VersionInv, EventInv, CountedScansCompleted, AccountInv, Accounted, Tick
  <2> QED  BY <2>1, <2>2, <2>3 DEF IInv
<1>2. CASE ScanCompletes
  <2>1. /\ finished' \in [Requests -> BOOLEAN]
        /\ \A q \in Requests : finished'[q] =>
             finished[q] \/ (pc[q] \in {"request", "wait"} /\ lastScan' # previous[q])
    BY <1>2 DEF IInv, TypeOK, ScanCompletes
  <2>2. /\ lastScan' = lastScan + 1 /\ lastScan < MaxScans /\ scanning' = FALSE /\ scannedAt' = clock
        /\ UNCHANGED <<managerVars, pc, started, now, previous, waiting, result, answer, clock, aps,
                       told, lastCall, gap, fellBack>>
    BY <1>2 DEF ScanCompletes
  <2>3. TypeOK'
    <3>1. lastScan' \in 0..MaxScans
      BY <2>2, ConstantsAssumption DEF IInv, TypeOK
    <3>2. scannedAt' \in -1..MaxClock
      BY <2>2, ConstantsAssumption DEF IInv, TypeOK
    <3> QED  BY <2>1, <2>2, <3>1, <3>2 DEF IInv, TypeOK
  <2>4. LockInv' /\ VersionInv' /\ ClockInv'
    BY <2>2 DEF IInv, TypeOK, LockInv, VersionInv, ClockInv
  <2>5. \A q \in Requests : /\ pc'[q] \in {"idle", "lock", "device", "previous"} => ~finished'[q]
                            /\ pc'[q] \in Scanning /\ finished'[q] => lastScan' # previous'[q]
                            /\ pc'[q] \in Scanning => previous'[q] <= lastScan'
                            /\ scannedAt' >= now'[q]
    BY <2>1, <2>2 DEF IInv, TypeOK, EventInv, ClockInv, Scanning
  <2>6. EventInv'
    BY <2>5 DEF EventInv
  <2>7. CountedScansCompleted' /\ AccountInv'
    BY <2>2, ConstantsAssumption
       DEF IInv, TypeOK, CountedScansCompleted, AccountInv, Accounted, ClockInv
  <2> QED  BY <2>3, <2>4, <2>6, <2>7 DEF IInv
<1>3. CASE ListChanges
  <2>1. TypeOK'
    <3>1. aps' \in Lists
      BY <1>3, ConstantsAssumption DEF IInv, TypeOK, ListChanges, Lists
    <3> QED  BY <1>3, <3>1 DEF IInv, TypeOK, ListChanges, nmVars
  <2>2. aps'.version = aps.version + 1 /\ UNCHANGED <<told, cache, result, pc>>
    BY <1>3 DEF ListChanges
  <2>3. VersionInv'
    BY <2>2 DEF IInv, TypeOK, VersionInv, Lists
  <2>4. LockInv' /\ ClockInv' /\ EventInv' /\ CountedScansCompleted' /\ AccountInv'
    BY <1>3 DEF IInv, LockInv, ClockInv, EventInv, CountedScansCompleted, AccountInv, Accounted,
       ListChanges
  <2> QED  BY <2>1, <2>3, <2>4 DEF IInv
<1> QED  BY <1>1, <1>2, <1>3

-----------------------------------------------------------------------------
LEMMA Initially == Init => IInv
<1> SUFFICES ASSUME Init PROVE IInv
  OBVIOUS
<1>1. TypeOK
  <2>1. NoList \in Lists /\ aps \in Lists
    BY ConstantsAssumption DEF Init, NoList, Lists
  <2>2. 0 \in 0..MaxClock /\ 0 \in 0..MaxScans /\ 0 \in 0..MaxVersion /\ -1 \in -1..MaxClock
    BY ConstantsAssumption
  <2> QED  BY <2>1, <2>2 DEF Init, TypeOK
<1>2. LockInv
  BY ConstantsAssumption DEF Init, LockInv, Holding, Scanning
<1>3. VersionInv
  BY DEF Init, VersionInv, NoList
<1>4. ClockInv /\ EventInv /\ CountedScansCompleted /\ AccountInv
  BY ConstantsAssumption
     DEF Init, ClockInv, EventInv, CountedScansCompleted, AccountInv, Scanning
<1> QED  BY <1>1, <1>2, <1>3, <1>4 DEF IInv

LEMMA Invariant == Spec => []IInv
<1>1. IInv /\ [Next]_vars => IInv'
  <2>1. ASSUME IInv, UNCHANGED vars PROVE IInv'
    BY <2>1 DEF IInv, TypeOK, LockInv, VersionInv, ClockInv, EventInv, CountedScansCompleted,
       AccountInv, Accounted, vars, managerVars, handlerVars, nmVars, historyVars
  <2> QED  BY <2>1, HandlerKeeps, EnvironmentKeeps DEF Next
<1> QED  BY <1>1, Initially, PTL DEF Spec

\* The variables keep their types.
THEOREM TypeCorrect == Spec => []TypeOK
<1>1. IInv => TypeOK
  BY DEF IInv
<1> QED  BY <1>1, Invariant, PTL

\* The rate limit counts from scans that did complete: _last_scan_request is never later
\* than the last completed scan.
THEOREM CountedScans == Spec => []CountedScansCompleted
<1>1. IInv => CountedScansCompleted
  BY DEF IInv
<1> QED  BY <1>1, Invariant, PTL

\* What stands behind every list that wifi.scan reads and answers as fresh.
THEOREM ListsAreAccountedFor == Spec => []ListIsAccountedFor
<1>1. IInv => ListIsAccountedFor
  BY DEF IInv, AccountInv, Accounted, ListIsAccountedFor
<1> QED  BY <1>1, Invariant, PTL

\* No requester is shown an older list than the requester before.
THEOREM AnswersInOrder == Spec => AnswersDoNotGoBack
<1>1. ASSUME IInv, [Next]_vars
      PROVE  told' >= told
  <2>1. /\ told = cache.version /\ told \in Nat
        /\ \A q \in Requests : pc[q] = "store" => told <= result[q].version
    <3>1. cache.version \in Nat
      BY <1>1 DEF IInv, TypeOK, Lists
    <3> QED  BY <1>1, <3>1 DEF IInv, VersionInv
  <2>2. ASSUME NEW r \in Requests, Handler(r), told' # told
        PROVE  told' = cache.version \/ (pc[r] = "store" /\ told' = result[r].version)
    BY <2>2 DEF Handler, AnswerFromCache, GoForLock, Acquire, DeviceReady, ReadPrevious,
       RequestScan, RequestFails, ScanFails, GoOn, EventSet, ScanSucceeds, WaitTimesOut, Recheck,
       ReadAccessPoints, StoreResult, Refuse, Cancel, historyVars
  <2>3. ASSUME told' # told
        PROVE  \E r \in Requests : Handler(r)
    BY <1>1, <2>3 DEF Next, Tick, ScanCompletes, ListChanges, vars, historyVars
  <2> QED  BY <2>1, <2>2, <2>3
<1>2. IInv /\ [Next]_vars => [told' >= told]_vars
  BY <1>1
<1> QED  BY <1>2, Invariant, PTL DEF Spec, AnswersDoNotGoBack
=============================================================================
