------------------------------ MODULE JobQueue ------------------------------
(***************************************************************************)
(* The job queue of the controller: the tables jobs, job_targets,          *)
(* machine_locks and machines, and the repository methods that change      *)
(* them.  Every method is one short transaction; all but the first         *)
(* statement of expire_leases and save_machine run under one advisory      *)
(* lock, so each is one step here.  Callers are arbitrary: a worker may    *)
(* present any lease it was ever given, at any time (module Dispatch says  *)
(* which calls the real workers make).  Clocks are abstracted: a lease of  *)
(* a running target may lapse at any moment, a retry time may come at any  *)
(* moment.                                                                 *)
(***************************************************************************)
EXTENDS Integers, FiniteSets

CONSTANTS
  Machines,         \* machine ids
  Keys,             \* (actor_id, idempotency_key) pairs
  Kinds,            \* the action kinds submitted
  MaxJobs,          \* bound: jobs ever created
  MaxClaims,        \* bound: leases handed out per target
  MaxAttempts,      \* MAX_RECONCILE_ATTEMPTS, the cap on automatic re-queries
  MaxControllers,   \* bound: machines flagged is_controller at a time
  NoTarget          \* no row in machine_locks

ASSUME MachinesAssumption == IsFiniteSet(Machines)
ASSUME BoundsAssumption ==
  /\ MaxJobs \in Nat
  /\ MaxClaims \in Nat
  /\ MaxAttempts \in Nat
  /\ MaxControllers \in Nat

Jobs == 1..MaxJobs                 \* in the order of created_at
Targets == Jobs \X Machines        \* UNIQUE(job_id, machine_id)
JobOf(t) == t[1]
MachineOf(t) == t[2]

ASSUME NoTargetAssumption == NoTarget \notin Targets

Definite == {"succeeded", "failed", "cancelled"}
Open == {"queued", "running", "reconciling", "unknown"}
Held == {"running", "reconciling", "unknown"}
Statuses == Definite \cup Open
Results == Definite \cup {"unknown"}

VARIABLES
  fleet,            \* machines row: "absent", "active", "retired" (deleted_at set)
  controllers,      \* machines whose is_controller is set
  njobs,            \* rows of jobs
  request,          \* jobs.idempotency_key and jobs.action
  cancelRequested,  \* jobs.cancel_requested
  jobStatus,        \* jobs.status, the aggregate the job list shows
  status,           \* job_targets.status
  ordinal,          \* job_targets.ordinal: the place in the job's machine list
  lease,            \* job_targets.lease, 0 for NULL
  claims,           \* leases generated so far: the UUIDs in order of issue
  due,              \* retry_at is NULL or in the past
  attempts,         \* job_targets.attempts
  locks             \* machine_locks: machine -> target

vars == <<fleet, controllers, njobs, request, cancelRequested, jobStatus,
          status, ordinal, lease, claims, due, attempts, locks>>

queueVars == <<njobs, request, cancelRequested, jobStatus,
               status, ordinal, lease, claims, due, attempts, locks>>
-----------------------------------------------------------------------------
Requests == [key : Keys, kind : Kinds]
NoRequest == [key |-> "none", kind |-> "none"]

TargetsOf(j) == {t \in Targets : JobOf(t) = j}
StatusesOf(st, j) == {st[t] : t \in TargetsOf(j)}

\* update_job: the CASE over the statuses of the job's targets.
Aggregate(st, j) ==
  LET present == StatusesOf(st, j) IN
  IF present \cap {"running", "reconciling"} # {} THEN "running"
  ELSE IF "unknown" \in present THEN "unknown"
  ELSE IF "queued" \in present THEN "queued"
  ELSE IF "failed" \in present THEN "failed"
  ELSE IF "cancelled" \in present THEN "cancelled"
  ELSE "succeeded"

UpdateJob(st, j) == [jobStatus EXCEPT ![j] = Aggregate(st, j)]

Locked(m) == locks[m] # NoTarget
Unlock(t) == [m \in Machines |-> IF locks[m] = t THEN NoTarget ELSE locks[m]]
-----------------------------------------------------------------------------
Init ==
  /\ fleet = [m \in Machines |-> "absent"]
  /\ controllers = {}
  /\ njobs = 0
  /\ request = [j \in Jobs |-> NoRequest]
  /\ cancelRequested = [j \in Jobs |-> FALSE]
  /\ jobStatus = [j \in Jobs |-> "none"]
  /\ status = [t \in Targets |-> "none"]
  /\ ordinal = [t \in Targets |-> 0]
  /\ lease = [t \in Targets |-> 0]
  /\ claims = [t \in Targets |-> 0]
  /\ due = [t \in Targets |-> TRUE]
  /\ attempts = [t \in Targets |-> 0]
  /\ locks = [m \in Machines |-> NoTarget]

(***************************************************************************)
(* save_machine: insert or overwrite a machine that is not retired.        *)
(***************************************************************************)
SaveMachine(m, isController) ==
  /\ fleet[m] # "retired"
  /\ controllers' = IF isController THEN controllers \cup {m} ELSE controllers \ {m}
  /\ Cardinality(controllers') <= MaxControllers
  /\ fleet' = [fleet EXCEPT ![m] = "active"]
  /\ UNCHANGED queueVars

\* Faulty: only the lock counts as work, a queued target does not.
BusyWhenLocked(m) == Locked(m)

Busy(m) ==
  \/ \E t \in Targets : MachineOf(t) = m /\ status[t] \in Open
  \/ Locked(m)

(***************************************************************************)
(* delete_machine: soft delete, refused while the machine has work.        *)
(***************************************************************************)
DeleteMachine(m) ==
  /\ fleet[m] = "active"
  /\ ~ Busy(m)
  /\ fleet' = [fleet EXCEPT ![m] = "retired"]
  /\ UNCHANGED <<controllers, queueVars>>

Listed(ms) == {ms[i] : i \in DOMAIN ms}

\* submit_job: power skips controllers unless they are asked for.
Chosen(kind, ms, includeController) ==
  IF kind = "power" /\ ~ includeController THEN Listed(ms) \ controllers ELSE Listed(ms)

\* submit_job: machines keep their order, but power sorts controllers last.
SortKey(kind, ms, m) ==
  (CHOOSE i \in DOMAIN ms : ms[i] = m)
    + (IF kind = "power" /\ m \in controllers THEN Cardinality(Machines) ELSE 0)

PlaceIn(chosen, kind, ms, m) ==
  Cardinality({x \in chosen : SortKey(kind, ms, x) < SortKey(kind, ms, m)})

(***************************************************************************)
(* submit_job and enqueue.  A key seen before changes nothing: the caller  *)
(* gets the old id, or a conflict when the request differs.                *)
(***************************************************************************)
SubmitJob(key, kind, ms, includeController) ==
  LET j == njobs + 1
      chosen == Chosen(kind, ms, includeController)
      added == {t \in Targets : JobOf(t) = j /\ MachineOf(t) \in chosen}
  IN /\ njobs < MaxJobs
     /\ \A m \in Listed(ms) : fleet[m] = "active"
     /\ chosen # {}
     /\ kind = "bios" => \E m \in Machines : chosen = {m}
     /\ \A i \in 1..njobs : request[i].key # key
     /\ njobs' = j
     /\ request' = [request EXCEPT ![j] = [key |-> key, kind |-> kind]]
     /\ status' = [t \in Targets |-> IF t \in added THEN "queued" ELSE status[t]]
     /\ ordinal' = [t \in Targets |->
          IF t \in added THEN PlaceIn(chosen, kind, ms, MachineOf(t)) ELSE ordinal[t]]
     /\ jobStatus' = [jobStatus EXCEPT ![j] = "queued"]
     /\ UNCHANGED <<fleet, controllers, cancelRequested, lease, claims, due, attempts, locks>>

\* Faulty: the controller also waits for itself (c.id <> t.id is missing).
ControllerWaitsForAll(t) ==
  \/ MachineOf(t) \notin controllers
  \/ request[JobOf(t)].kind # "power"
  \/ \A c \in TargetsOf(JobOf(t)) : status[c] \in Definite \cup {"none"}

\* claim, the last condition on queued rows: a controller is powered after its siblings.
ControllerMayGo(t) ==
  \/ MachineOf(t) \notin controllers
  \/ request[JobOf(t)].kind # "power"
  \/ \A c \in TargetsOf(JobOf(t)) \ {t} : status[c] \in Definite \cup {"none"}

\* Faulty: a queued target is taken whether or not its machine is locked.
DispatchableThoughLocked(t) ==
  /\ fleet[MachineOf(t)] = "active"
  /\ \/ status[t] = "reconciling" /\ due[t]
     \/ /\ status[t] = "queued"
        /\ ~ cancelRequested[JobOf(t)]
        /\ ControllerMayGo(t)

Dispatchable(t) ==
  /\ fleet[MachineOf(t)] = "active"
  /\ \/ status[t] = "reconciling" /\ due[t]
     \/ /\ status[t] = "queued"
        /\ ~ cancelRequested[JobOf(t)]
        /\ ~ Locked(MachineOf(t))
        /\ ControllerMayGo(t)

\* ORDER BY reconciling first, created_at, ordinal.
Precedes(t, u) ==
  LET rank(x) == IF status[x] = "reconciling" THEN 0 ELSE 1 IN
  \/ rank(t) < rank(u)
  \/ rank(t) = rank(u) /\ JobOf(t) < JobOf(u)
  \/ rank(t) = rank(u) /\ JobOf(t) = JobOf(u) /\ ordinal[t] < ordinal[u]

(***************************************************************************)
(* claim: take the first dispatchable target, lock its machine, lease it.  *)
(* A claim that meets the advisory lock taken returns None: no step.       *)
(***************************************************************************)
Claim(t) ==
  /\ Dispatchable(t)
  /\ \A u \in Targets \ {t} : Dispatchable(u) => Precedes(t, u)
  /\ claims[t] < MaxClaims
  /\ locks' = IF Locked(MachineOf(t)) THEN locks ELSE [locks EXCEPT ![MachineOf(t)] = t]
  /\ claims' = [claims EXCEPT ![t] = @ + 1]
  /\ lease' = [lease EXCEPT ![t] = claims[t] + 1]
  /\ status' = [status EXCEPT ![t] = "running"]
  /\ jobStatus' = [jobStatus EXCEPT ![JobOf(t)] = "running"]
  /\ UNCHANGED <<fleet, controllers, njobs, request, cancelRequested, ordinal, due, attempts>>

\* Faulty: a settled target still accepts the lease it was settled under.
HoldsLeaseInAnyStatus(t, l) == lease[t] = l

\* WHERE id=$1 AND lease=$2 AND status='running': the guard of every worker's write.
HoldsLease(t, l) == lease[t] = l /\ status[t] = "running"

\* Faulty: every result gives the machine back, "unknown" too.
FinishUnlocksAlways(t, l, s) ==
  /\ HoldsLease(t, l)
  /\ status' = [status EXCEPT ![t] = s]
  /\ locks' = Unlock(t)
  /\ jobStatus' = UpdateJob(status', JobOf(t))
  /\ UNCHANGED <<fleet, controllers, njobs, request, cancelRequested, ordinal, lease,
                 claims, due, attempts>>

(***************************************************************************)
(* finish: record a result under the lease; only "unknown" keeps the lock. *)
(* Without the lease it changes nothing and returns Ok.                    *)
(***************************************************************************)
Finish(t, l, s) ==
  /\ HoldsLease(t, l)
  /\ status' = [status EXCEPT ![t] = s]
  /\ locks' = IF s = "unknown" THEN locks ELSE Unlock(t)
  /\ jobStatus' = UpdateJob(status', JobOf(t))
  /\ UNCHANGED <<fleet, controllers, njobs, request, cancelRequested, ordinal, lease,
                 claims, due, attempts>>

\* Faulty: the cap on re-queries is compared with <=.
DeferReconcilePastCap(t, l) ==
  /\ HoldsLease(t, l)
  /\ attempts[t] <= MaxAttempts
  /\ status' = [status EXCEPT ![t] = "reconciling"]
  /\ lease' = [lease EXCEPT ![t] = 0]
  /\ due' = [due EXCEPT ![t] = FALSE]
  /\ attempts' = [attempts EXCEPT ![t] = @ + 1]
  /\ jobStatus' = UpdateJob(status', JobOf(t))
  /\ UNCHANGED <<fleet, controllers, njobs, request, cancelRequested, ordinal, claims,
                 locks>>

(***************************************************************************)
(* defer_reconcile: hand the target back for a later re-query; the machine *)
(* lock stays.  The caller has checked attempts < MaxAttempts.             *)
(***************************************************************************)
DeferReconcile(t, l) ==
  /\ HoldsLease(t, l)
  /\ attempts[t] < MaxAttempts
  /\ status' = [status EXCEPT ![t] = "reconciling"]
  /\ lease' = [lease EXCEPT ![t] = 0]
  /\ due' = [due EXCEPT ![t] = FALSE]
  /\ attempts' = [attempts EXCEPT ![t] = @ + 1]
  /\ jobStatus' = UpdateJob(status', JobOf(t))
  /\ UNCHANGED <<fleet, controllers, njobs, request, cancelRequested, ordinal, claims,
                 locks>>

\* The clock reaches retry_at.
RetryTimeComes(t) ==
  /\ ~ due[t]
  /\ due' = [due EXCEPT ![t] = TRUE]
  /\ UNCHANGED <<fleet, controllers, njobs, request, cancelRequested, jobStatus,
                 status, ordinal, lease, claims, attempts, locks>>

\* expire_leases, second statement: jobs shown as live with nothing left to do.
StaleJobs(st) ==
  {j \in 1..njobs : /\ jobStatus[j] \in {"queued", "running"}
                    /\ StatusesOf(st, j) \cap {"queued", "running", "reconciling"} = {}}

(***************************************************************************)
(* expire_leases: every running target whose lease lapsed is to be         *)
(* re-queried; then stale job rows are repaired.                           *)
(***************************************************************************)
ExpireLeases(lapsed) ==
  /\ lapsed \subseteq {t \in Targets : status[t] = "running"}
  /\ status' = [t \in Targets |-> IF t \in lapsed THEN "reconciling" ELSE status[t]]
  /\ lease' = [t \in Targets |-> IF t \in lapsed THEN 0 ELSE lease[t]]
  /\ jobStatus' = [j \in Jobs |->
       IF j \in StaleJobs(status') THEN Aggregate(status', j) ELSE jobStatus[j]]
  /\ UNCHANGED <<fleet, controllers, njobs, request, cancelRequested, ordinal, claims,
                 due, attempts, locks>>

(***************************************************************************)
(* resolve_target: an operator settles an unknown target, or sends it back *)
(* to be re-queried.                                                       *)
(***************************************************************************)
ResolveTarget(t, decision) ==
  LET state == IF decision = "reconcile" THEN "reconciling" ELSE decision IN
  /\ status[t] = "unknown"
  /\ status' = [status EXCEPT ![t] = state]
  /\ lease' = [lease EXCEPT ![t] = 0]
  /\ due' = [due EXCEPT ![t] = TRUE]
  /\ attempts' = [attempts EXCEPT ![t] = 0]
  /\ locks' = IF state = "reconciling" THEN locks ELSE Unlock(t)
  /\ jobStatus' = UpdateJob(status', JobOf(t))
  /\ UNCHANGED <<fleet, controllers, njobs, request, cancelRequested, ordinal, claims>>

\* Faulty: the job row is set to cancelled instead of being recomputed.
CancelJobOutright(j) ==
  /\ j <= njobs
  /\ cancelRequested' = [cancelRequested EXCEPT ![j] = TRUE]
  /\ status' = [t \in Targets |->
       IF JobOf(t) = j /\ status[t] = "queued" THEN "cancelled" ELSE status[t]]
  /\ jobStatus' = [jobStatus EXCEPT ![j] = "cancelled"]
  /\ UNCHANGED <<fleet, controllers, njobs, request, ordinal, lease, claims, due,
                 attempts, locks>>

(***************************************************************************)
(* cancel_job: queued targets are cancelled; running ones are told.        *)
(***************************************************************************)
CancelJob(j) ==
  /\ j <= njobs
  /\ cancelRequested' = [cancelRequested EXCEPT ![j] = TRUE]
  /\ status' = [t \in Targets |->
       IF JobOf(t) = j /\ status[t] = "queued" THEN "cancelled" ELSE status[t]]
  /\ jobStatus' = UpdateJob(status', j)
  /\ UNCHANGED <<fleet, controllers, njobs, request, ordinal, lease, claims, due,
                 attempts, locks>>

\* Machine lists as submit_job sees them: at least one machine, duplicates dropped.
MachineLists ==
  UNION {{ms \in [1..n -> Machines] : \A a, b \in 1..n : ms[a] = ms[b] => a = b} :
         n \in 1..Cardinality(Machines)}

AdminStep ==
  \/ \E m \in Machines, isController \in BOOLEAN : SaveMachine(m, isController)
  \/ \E m \in Machines : DeleteMachine(m)
  \/ \E key \in Keys, kind \in Kinds, ms \in MachineLists, include \in BOOLEAN :
       SubmitJob(key, kind, ms, include)
  \/ \E j \in Jobs : CancelJob(j)
  \/ \E t \in Targets, decision \in Definite \cup {"reconcile"} : ResolveTarget(t, decision)

SchedulerStep ==
  \/ \E t \in Targets : Claim(t)
  \/ \E t \in Targets : RetryTimeComes(t)
  \/ \E lapsed \in SUBSET Targets : ExpireLeases(lapsed)

WorkerStep ==
  \E t \in Targets : \E l \in 1..claims[t] :
    \/ \E s \in Results : Finish(t, l, s)
    \/ DeferReconcile(t, l)

Next == AdminStep \/ SchedulerStep \/ WorkerStep

Spec == Init /\ [][Next]_vars
-----------------------------------------------------------------------------
TypeOK ==
  /\ fleet \in [Machines -> {"absent", "active", "retired"}]
  /\ controllers \in SUBSET Machines
  /\ njobs \in 0..MaxJobs
  /\ request \in [Jobs -> Requests \cup {NoRequest}]
  /\ cancelRequested \in [Jobs -> BOOLEAN]
  /\ jobStatus \in [Jobs -> Statuses \cup {"none"}]
  /\ status \in [Targets -> Statuses \cup {"none"}]
  /\ ordinal \in [Targets -> Nat]
  /\ lease \in [Targets -> 0..MaxClaims]
  /\ claims \in [Targets -> 0..MaxClaims]
  /\ due \in [Targets -> BOOLEAN]
  /\ attempts \in [Targets -> 0..MaxAttempts]
  /\ locks \in [Machines -> Targets \cup {NoTarget}]

(***************************************************************************)
(* The lock table is exactly the set of targets whose outcome is not       *)
(* settled: whatever claims, late finishes, deferrals, lapsed leases and   *)
(* operator decisions interleave, a machine is locked by t if and only if  *)
(* t is running, being re-queried or unknown on it.  A machine is never    *)
(* left locked by settled work, nor unlocked under unsettled work.         *)
(***************************************************************************)
LockMeansUnsettled ==
  \A t \in Targets : locks[MachineOf(t)] = t <=> status[t] \in Held

(***************************************************************************)
(* The status a job shows is at all times the aggregate of its targets,    *)
(* although claim writes it directly and expire_leases moves targets       *)
(* without recomputing it; so the repair pass never finds a stale row.     *)
(***************************************************************************)
JobStatusIsAggregate ==
  \A j \in 1..njobs : jobStatus[j] = Aggregate(status, j)

(***************************************************************************)
(* A machine with work that is queued or not settled is never retired, so  *)
(* claim's filter on deleted_at never strands a target.                    *)
(***************************************************************************)
OpenWorkKeepsMachine ==
  \A t \in Targets : status[t] \in Open => fleet[MachineOf(t)] = "active"

(***************************************************************************)
(* The queue cannot wedge itself: when nothing is dispatched or unsettled  *)
(* and some target is still queued, some target can be claimed (the rule   *)
(* that holds a controller back until its siblings are settled leaves      *)
(* another target to go first).                                            *)
(***************************************************************************)
QueueMoves ==
  (/\ \A t \in Targets : status[t] \notin Held
   /\ \E t \in Targets : status[t] = "queued")
  => \E t \in Targets : Dispatchable(t)

(***************************************************************************)
(* A settled result is never overwritten, whatever stale lease comes back  *)
(* late and whoever cancels or resolves the job afterwards.                *)
(***************************************************************************)
SettledStays ==
  [][\A t \in Targets : status[t] \in Definite => status'[t] = status[t]]_vars

(***************************************************************************)
(* The queue implements ExclusiveTasks: each target is handed out once and *)
(* at most one per machine is active, the lock table and the statuses      *)
(* being how that is done.  A re-query of an active target is no new step. *)
(***************************************************************************)
Phase(s) ==
  IF s = "none" THEN "none"
  ELSE IF s = "queued" THEN "waiting"
  ELSE IF s \in Held THEN "active"
  ELSE "done"

Phases == [t \in Targets |-> Phase(status[t])]

Abstract == INSTANCE ExclusiveTasks WITH phase <- Phases

ImplementsExclusiveTasks == Abstract!Spec
=============================================================================
