-------------------------- MODULE ExclusiveTasks --------------------------
(***************************************************************************)
(* What the job queue promises its users, without rows, leases or locks: a *)
(* task waits, is active, is done; it is handed out at most once; and no   *)
(* two tasks of one machine are active together.  JobQueue implements it.  *)
(***************************************************************************)
CONSTANTS Jobs, Machines

Tasks == Jobs \X Machines

VARIABLE phase

Init == phase = [t \in Tasks |-> "none"]

\* A job adds tasks, one per machine it names.
Submit(S) ==
  /\ \A t \in S : phase[t] = "none"
  /\ phase' = [t \in Tasks |-> IF t \in S THEN "waiting" ELSE phase[t]]

\* A waiting task is handed out, if no task of its machine is active.
Begin(t) ==
  /\ phase[t] = "waiting"
  /\ \A u \in Tasks : u[2] = t[2] => phase[u] # "active"
  /\ phase' = [phase EXCEPT ![t] = "active"]

\* The outcome of an active task becomes known.
Settle(t) ==
  /\ phase[t] = "active"
  /\ phase' = [phase EXCEPT ![t] = "done"]

\* Waiting tasks are cancelled; active ones are not touched.
Withdraw(S) ==
  /\ \A t \in S : phase[t] = "waiting"
  /\ phase' = [t \in Tasks |-> IF t \in S THEN "done" ELSE phase[t]]

Next ==
  \/ \E S \in SUBSET Tasks : Submit(S) \/ Withdraw(S)
  \/ \E t \in Tasks : Begin(t) \/ Settle(t)

Spec == Init /\ [][Next]_phase
=============================================================================
