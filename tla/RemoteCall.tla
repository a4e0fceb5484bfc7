------------------------------ MODULE RemoteCall ------------------------------
(***************************************************************************)
(* What a call of the daemon promises to the web process, without sockets, *)
(* lines, timers or the daemon's life: the work of a call is begun at most *)
(* once, within the call; a call succeeds only after its work has; and a   *)
(* call that ends leaves no work behind, unless the work was begun late.   *)
(* A call that failed says nothing of its work, and one that was refused   *)
(* has none. IpcSession implements it.                                     *)
(***************************************************************************)
CONSTANT Calls

VARIABLES
  outcome,   \* what the caller of each call knows
  work       \* what has become of its work

callVars == <<outcome, work>>

Begun == {"running", "late"}

Init ==
  /\ outcome = [c \in Calls |-> "none"]
  /\ work = [c \in Calls |-> "none"]

Call(c) ==
  /\ outcome[c] = "none"
  /\ outcome' = [outcome EXCEPT ![c] = "pending"]
  /\ UNCHANGED work

\* The work of a call that nobody waits for any more can only be late.
Start(c) ==
  /\ work[c] = "none"
  /\ \/ outcome[c] = "pending" /\ \E w \in Begun : work' = [work EXCEPT ![c] = w]
     \/ outcome[c] = "failed" /\ work' = [work EXCEPT ![c] = "late"]
  /\ UNCHANGED outcome

Finish(c) ==
  /\ work[c] \in Begun
  /\ \E w \in {"succeeded", "failed"} : work' = [work EXCEPT ![c] = w]
  /\ UNCHANGED outcome

\* The daemon ends, and all work that is not finished with it.
Lose ==
  /\ work' = [c \in Calls |-> IF work[c] \in Begun THEN "lost" ELSE work[c]]
  /\ UNCHANGED outcome

Refuse(c) ==
  /\ outcome[c] \in {"none", "pending"} /\ work[c] = "none"
  /\ outcome' = [outcome EXCEPT ![c] = "refused"]
  /\ UNCHANGED work

Succeed(c) ==
  /\ outcome[c] = "pending" /\ work[c] = "succeeded"
  /\ outcome' = [outcome EXCEPT ![c] = "ok"]
  /\ UNCHANGED work

Fail(c) ==
  /\ outcome[c] = "pending" /\ work[c] # "running"
  /\ outcome' = [outcome EXCEPT ![c] = "failed"]
  /\ UNCHANGED work

Next ==
  \/ \E c \in Calls : Call(c) \/ Start(c) \/ Finish(c) \/ Refuse(c) \/ Succeed(c) \/ Fail(c)
  \/ Lose

Spec == Init /\ [][Next]_callVars
=============================================================================
