----------------------- MODULE RecoveryPublisherProofs -----------------------
(***************************************************************************)
(* What the publisher's loop keeps, for any addresses and processes.       *)
(***************************************************************************)
EXTENDS RecoveryPublisher, TLAPS

(***************************************************************************)
(* The inductive invariant. While the script runs it knows every publisher *)
(* that runs, under its own address; so when it dies they are still one    *)
(* per address, and none is left when the next script starts. An inner     *)
(* loop has yet to visit whatever its turn is not done with.               *)
(***************************************************************************)

Known ==
  /\ pc # "down" => \A p \in Pids : proc[p] # None => publishers[proc[p]] = p
  /\ pc = "down" => publishers = NoPublishers
  /\ OnePublisherPerAddress

LoopInv ==
  /\ pc = "stop" => asked = {} /\ Tracked \subseteq todo
  /\ pc = "reap" => Tracked \ active \subseteq todo
  /\ pc \in {"reap", "start"} => asked = active
  /\ pc = "start" => Tracked \cup todo \subseteq active /\ (stopping \/ active \subseteq Tracked \cup todo)
  /\ pc = "sleep" => Tracked \subseteq asked /\ (stopping \/ Tracked = asked)

IInv == TypeOK /\ Known /\ LoopInv
-----------------------------------------------------------------------------
\* stop_publisher: the address is no longer tracked, its process no longer runs.
LEMMA StopPublisherDoes ==
  ASSUME IInv, NEW a \in Addresses, pc # "down", StopPublisher(a)
  PROVE  /\ publishers' \in [Addresses -> Pids \cup {None}]
         /\ proc' \in [Pids -> Addresses \cup {None}]
         /\ \A p \in Pids : proc'[p] # None => publishers'[proc'[p]] = p
         /\ OnePublisherPerAddress'
         /\ Tracked' = Tracked \ {a}
<1> USE PublisherAssumption DEF IInv, TypeOK, Known, StopPublisher
<1>1. \A b \in Addresses : publishers'[b] = IF b = a THEN None ELSE publishers[b]
  OBVIOUS
<1>2. \A p \in Pids : proc'[p] = IF p = publishers[a] THEN None ELSE proc[p]
  OBVIOUS
<1>3. /\ publishers' \in [Addresses -> Pids \cup {None}]
      /\ proc' \in [Pids -> Addresses \cup {None}]
  OBVIOUS
<1>4. \A p \in Pids : proc'[p] # None => publishers'[proc'[p]] = p
  BY <1>1, <1>2
<1>5. OnePublisherPerAddress'
  BY <1>2 DEF OnePublisherPerAddress
<1>6. Tracked' = Tracked \ {a}
  BY <1>1 DEF Tracked
<1>7. QED
  BY <1>3, <1>4, <1>5, <1>6

\* Every way the script ends - Exit, a signal, a death - leaves what the next one needs.
LEMMA DownKeepsIInv ==
  ASSUME IInv, pc' = "down", todo' = {}, active' = {}, asked' = {}, publishers' = NoPublishers,
         proc' \in [Pids -> Addresses \cup {None}],
         \A p \in Pids : proc'[p] \in {proc[p], None},
         native' = native, up' = up, stopping' \in BOOLEAN
  PROVE  IInv'
BY PublisherAssumption DEF IInv, TypeOK, Known, LoopInv, NoPublishers, OnePublisherPerAddress

LEMMA ExitKeepsIInv ==
  ASSUME IInv, Exit, UNCHANGED <<native, up, stopping>>
  PROVE  IInv'
<1>1. proc' \in [Pids -> Addresses \cup {None}] /\ \A p \in Pids : proc'[p] \in {proc[p], None}
  BY DEF Exit, IInv, TypeOK
<1>2. QED
  BY <1>1, DownKeepsIInv DEF Exit, IInv, TypeOK

\* Steps that only move the loop on, or only change its surroundings.
LEMMA Moving ==
  ASSUME IInv,
         \/ ReadHostname \/ HostnameFails \/ ReadAddresses \/ IpFails \/ Wake
         \/ AddressesChange \/ HostnameChanges
  PROVE  IInv'
<1> USE DEF IInv, TypeOK, Known, LoopInv, OnePublisherPerAddress, Tracked
<1>1. CASE ReadHostname
  BY <1>1 DEF ReadHostname
<1>2. CASE HostnameFails
  BY <1>2 DEF HostnameFails
<1>3. CASE ReadAddresses \/ IpFails
  BY <1>3 DEF ReadAddresses, IpFails, PollGives
<1>4. CASE Wake
  BY <1>4 DEF Wake
<1>5. CASE AddressesChange \/ HostnameChanges
  BY <1>5 DEF AddressesChange, HostnameChanges, scriptVars
<1>6. QED
  BY <1>1, <1>2, <1>3, <1>4, <1>5

\* stop_all in the loop.
LEMMA StopKeepsIInv ==
  ASSUME IInv, StopNext
  PROVE  IInv'
<1>1. CASE todo = {} /\ pc' = "sleep" /\ UNCHANGED <<todo, publishers, proc>>
  BY <1>1 DEF StopNext, IInv, TypeOK, Known, LoopInv, OnePublisherPerAddress, Tracked
<1>2. ASSUME NEW a \in todo, todo' = todo \ {a}, pc' = pc, publishers[a] # None,
             StopPublisher(a)
      PROVE  IInv'
  <2>1. a \in Addresses /\ pc = "stop" /\ asked' = asked
    BY DEF StopNext, IInv, TypeOK
  <2>2. Tracked' = Tracked \ {a}
    BY <1>2, <2>1, StopPublisherDoes
  <2>3. Known'
    BY <1>2, <2>1, StopPublisherDoes DEF Known
  <2>4. TypeOK'
    BY <1>2, <2>1, StopPublisherDoes DEF StopNext, IInv, TypeOK
  <2>5. LoopInv'
    BY <1>2, <2>1, <2>2 DEF IInv, LoopInv
  <2>6. QED
    BY <2>3, <2>4, <2>5 DEF IInv
<1>3. ASSUME NEW a \in todo, todo' = todo \ {a}, pc' = pc, publishers[a] = None,
             UNCHANGED <<publishers, proc>>
      PROVE  IInv'
  BY <1>3 DEF StopNext, IInv, TypeOK, Known, LoopInv, OnePublisherPerAddress, Tracked
<1>4. QED
  BY <1>1, <1>2, <1>3 DEF StopNext

\* A turn of the second loop: what stays tracked has its address in the poll.
LEMMA ReapKeepsIInv ==
  ASSUME IInv, ReapNext
  PROVE  IInv'
<1>1. CASE todo = {} /\ pc' = "start" /\ todo' = active /\ UNCHANGED <<active, asked, publishers, proc>>
  BY <1>1 DEF ReapNext, IInv, TypeOK, Known, LoopInv, OnePublisherPerAddress, Tracked
<1>2. ASSUME NEW a \in todo, publishers[a] = None, Exit
      PROVE  IInv'
  BY <1>2, ExitKeepsIInv DEF ReapNext
<1>3. ASSUME NEW a \in todo, ReapAddress(a)
      PROVE  IInv'
  <2> DEFINE stale == a \notin active \/ proc[publishers[a]] = None
  <2>1. a \in Addresses /\ pc = "reap" /\ pc' = "reap" /\ active' = active /\ todo' = todo \ {a} /\ asked' = asked
    BY <1>3 DEF ReapNext, ReapAddress, Reap, IInv, TypeOK
  <2>2. UNCHANGED <<native, up, stopping>>
    BY DEF ReapNext
  <2>3. CASE stale
    <3>1. StopPublisher(a)
      BY <1>3, <2>3 DEF ReapAddress, Reap
    <3>2. Tracked' = Tracked \ {a}
      BY <2>1, <3>1, StopPublisherDoes
    <3>3. Known' /\ TypeOK'
      BY <2>1, <2>2, <3>1, StopPublisherDoes DEF Known, IInv, TypeOK
    <3>4. LoopInv'
      BY <2>1, <3>2 DEF IInv, LoopInv
    <3>5. QED
      BY <3>3, <3>4 DEF IInv
  <2>4. CASE ~stale
    <3>1. UNCHANGED <<publishers, proc>> /\ a \in active
      BY <1>3, <2>4 DEF ReapAddress, Reap
    <3>2. QED
      BY <2>1, <2>2, <3>1 DEF IInv, TypeOK, Known, LoopInv, OnePublisherPerAddress, Tracked
  <2>5. QED
    BY <2>3, <2>4
<1>4. QED
  BY <1>1, <1>2, <1>3 DEF ReapNext

\* A turn of the third loop: the new process is not one the script knows.
LEMMA StartKeepsIInv ==
  ASSUME IInv, StartNext
  PROVE  IInv'
<1>1. CASE todo = {} /\ pc' = "sleep" /\ UNCHANGED <<todo, publishers, proc>>
  BY <1>1 DEF StartNext, IInv, TypeOK, Known, LoopInv, OnePublisherPerAddress, Tracked
<1>2. ASSUME NEW a \in todo, todo' = todo \ {a}, pc' = pc, publishers[a] # None,
             UNCHANGED <<publishers, proc>>
      PROVE  IInv'
  BY <1>2 DEF StartNext, IInv, TypeOK, Known, LoopInv, OnePublisherPerAddress, Tracked
<1>3. ASSUME NEW a \in todo, todo' = todo \ {a}, pc' = pc, publishers[a] = None,
             NEW p \in Pids, proc[p] = None, \A b \in Addresses : publishers[b] # p,
             publishers' = [publishers EXCEPT ![a] = p], proc' = [proc EXCEPT ![p] = a]
      PROVE  IInv'
  <2>1. a \in Addresses /\ pc = "start" /\ UNCHANGED <<active, asked, native, up, stopping>>
    BY DEF StartNext, IInv, TypeOK
  <2>2. /\ \A b \in Addresses : publishers'[b] = IF b = a THEN p ELSE publishers[b]
        /\ \A q \in Pids : proc'[q] = IF q = p THEN a ELSE proc[q]
    BY <1>3, <2>1 DEF IInv, TypeOK
  <2>3. TypeOK'
    BY <1>3, <2>1 DEF IInv, TypeOK
  <2>4. \A q \in Pids : proc'[q] # None => publishers'[proc'[q]] = q
    BY <1>3, <2>1, <2>2, PublisherAssumption DEF IInv, TypeOK, Known
  <2>5. Known'
    BY <1>3, <2>1, <2>4 DEF Known, OnePublisherPerAddress
  <2>6. Tracked' = Tracked \cup {a}
    BY <2>1, <2>2, PublisherAssumption DEF Tracked
  <2>7. LoopInv'
    BY <1>3, <2>1, <2>6 DEF IInv, LoopInv
  <2>8. QED
    BY <2>3, <2>5, <2>7 DEF IInv
<1>4. QED
  BY <1>1, <1>2, <1>3 DEF StartNext

\* systemd, and publishers that die.
LEMMA OthersKeepIInv ==
  ASSUME IInv, Term \/ Kill \/ Crash \/ CleanUp \/ Restart \/ PublisherDies
  PROVE  IInv'
<1>1. CASE Term
  <2>1. CASE pc' = "down" /\ todo' = {} /\ active' = {} /\ asked' = {}
    BY <1>1, <2>1, DownKeepsIInv DEF Term, NoProcess, IInv, TypeOK
  <2>2. CASE pc # "sleep" /\ UNCHANGED <<pc, todo, active, asked>>
    <3>1. Tracked' = {}
      BY <1>1, PublisherAssumption DEF Term, NoPublishers, Tracked
    <3>2. QED
      BY <1>1, <2>2, <3>1 DEF Term, NoProcess, NoPublishers, IInv, TypeOK, Known, LoopInv,
         OnePublisherPerAddress
  <2>3. QED
    BY <1>1, <2>1, <2>2 DEF Term
<1>2. CASE Kill
  BY <1>2, DownKeepsIInv DEF Kill, NoProcess, IInv, TypeOK
<1>3. CASE Crash
  BY <1>3, DownKeepsIInv DEF Crash, IInv, TypeOK
<1>4. CASE CleanUp
  BY <1>4 DEF CleanUp, scriptVars, NoProcess, IInv, TypeOK, Known, LoopInv, Tracked,
     OnePublisherPerAddress
<1>5. CASE Restart
  BY <1>5 DEF Restart, NoProcess, IInv, TypeOK, Known, LoopInv, Tracked,
     OnePublisherPerAddress
<1>6. CASE PublisherDies
  BY <1>6 DEF PublisherDies, scriptVars, IInv, TypeOK, Known, LoopInv, Tracked,
     OnePublisherPerAddress
<1>7. QED
  BY <1>1, <1>2, <1>3, <1>4, <1>5, <1>6

\* The loop always knows the publishers that run.
THEOREM InductiveInvariant == Spec => []IInv
<1>1. Init => IInv
  BY PublisherAssumption DEF Init, IInv, TypeOK, Known, LoopInv, OnePublisherPerAddress,
     NoPublishers, NoProcess
<1>2. IInv /\ [Next]_vars => IInv'
  <2> SUFFICES ASSUME IInv, [Next]_vars PROVE IInv'
    OBVIOUS
  <2>1. CASE Next
    BY <2>1, Moving, StopKeepsIInv, ReapKeepsIInv, StartKeepsIInv, OthersKeepIInv
       DEF Next, Script, Fault
  <2>2. CASE UNCHANGED vars
    BY <2>2 DEF vars, scriptVars, IInv, TypeOK, Known, LoopInv, OnePublisherPerAddress,
       Tracked
  <2>3. QED
    BY <2>1, <2>2
<1>3. QED
  BY <1>1, <1>2, PTL DEF Spec

\* No address is ever published twice.
THEOREM PublishedOnce == Spec => []OnePublisherPerAddress
<1>1. IInv => OnePublisherPerAddress
  BY DEF IInv, Known
<1>2. QED
  BY <1>1, InductiveInvariant, PTL

\* Each turn of the loop ends with the publishers it was to leave: those its poll asked for,
\* none if the name is the system's own; fewer only once the script has been told to end.
THEOREM TurnsAreComplete == Spec => []SleepsAsPolled
<1>1. IInv => SleepsAsPolled
  BY PublisherAssumption DEF IInv, TypeOK, Known, LoopInv, SleepsAsPolled, Tracked
<1>2. QED
  BY <1>1, InductiveInvariant, PTL
=============================================================================
