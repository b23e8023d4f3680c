--------------------------- MODULE JobQueueProofs ---------------------------
(***************************************************************************)
(* Proofs about JobQueue, for every set of machines and every bound: the   *)
(* inductive invariant IInv, the invariants it implies, that settled       *)
(* results stay, that the queue moves where one machine is the controller, *)
(* and that the queue implements ExclusiveTasks.                           *)
(***************************************************************************)
EXTENDS JobQueue, FiniteSetTheorems, TLAPS

\* Targets of jobs that do not exist yet have no row.
UnbornHaveNoRows == \A t \in Targets : JobOf(t) > njobs => status[t] = "none"

IInv ==
  /\ TypeOK
  /\ UnbornHaveNoRows
  /\ LockMeansUnsettled
  /\ OpenWorkKeepsMachine
  /\ JobStatusIsAggregate

(***************************************************************************)
(* Facts about the aggregate: its range, that it reads only its own job's  *)
(* targets, and its value in the two cases that code assumes.              *)
(***************************************************************************)
LEMMA AggregateRange == \A st, j : Aggregate(st, j) \in Statuses
BY DEF Aggregate, Statuses, Open, Definite

LEMMA AggregateIsLocal ==
  ASSUME NEW st1, NEW st2, NEW j \in Jobs,
         \A t \in Targets : JobOf(t) = j => st1[t] = st2[t]
  PROVE  Aggregate(st1, j) = Aggregate(st2, j)
<1>1. StatusesOf(st1, j) = StatusesOf(st2, j)
  BY DEF StatusesOf, TargetsOf
<1>2. QED
  BY <1>1 DEF Aggregate

LEMMA AggregateWithRunning ==
  ASSUME NEW st, NEW j \in Jobs, NEW t \in Targets,
         JobOf(t) = j, st[t] \in {"running", "reconciling"}
  PROVE  Aggregate(st, j) = "running"
<1>1. st[t] \in StatusesOf(st, j)
  BY DEF StatusesOf, TargetsOf
<1>2. QED
  BY <1>1 DEF Aggregate

LEMMA AggregateOfQueued ==
  ASSUME NEW st, NEW j \in Jobs, NEW t \in Targets,
         JobOf(t) = j, st[t] = "queued",
         \A u \in Targets : JobOf(u) = j => st[u] \in {"queued", "none"}
  PROVE  Aggregate(st, j) = "queued"
<1>1. "queued" \in StatusesOf(st, j)
  BY DEF StatusesOf, TargetsOf
<1>2. StatusesOf(st, j) \subseteq {"queued", "none"}
  BY DEF StatusesOf, TargetsOf
<1>3. QED
  BY <1>1, <1>2 DEF Aggregate

LEMMA PlaceIsNatural ==
  ASSUME NEW chosen \in SUBSET Machines, NEW kind, NEW ms, NEW m
  PROVE  PlaceIn(chosen, kind, ms, m) \in Nat
<1> DEFINE before == {x \in chosen : SortKey(kind, ms, x) < SortKey(kind, ms, m)}
<1>1. IsFiniteSet(before)
  <2>1. before \subseteq Machines
    OBVIOUS
  <2>2. QED
    BY <2>1, MachinesAssumption, FS_Subset
<1>2. Cardinality(before) \in Nat
  BY <1>1, FS_CardinalityType
<1>3. QED
  BY <1>2 DEF PlaceIn

LEMMA TargetParts ==
  ASSUME NEW t \in Targets
  PROVE  JobOf(t) \in Jobs /\ MachineOf(t) \in Machines /\ t = <<JobOf(t), MachineOf(t)>>
BY DEF Targets, JobOf, MachineOf
-----------------------------------------------------------------------------
LEMMA InitIInv == Init => IInv
<1> SUFFICES ASSUME Init PROVE IInv
  OBVIOUS
<1>1. TypeOK
  BY BoundsAssumption DEF Init, TypeOK, Statuses, Targets
<1>2. UnbornHaveNoRows /\ OpenWorkKeepsMachine /\ JobStatusIsAggregate
  BY DEF Init, UnbornHaveNoRows, OpenWorkKeepsMachine, JobStatusIsAggregate, Open
<1>3. LockMeansUnsettled
  BY NoTargetAssumption, TargetParts DEF Init, LockMeansUnsettled, Held
<1>4. QED
  BY <1>1, <1>2, <1>3 DEF IInv

(***************************************************************************)
(* A step that sets the status of one target t, and the lock and job row   *)
(* with it, preserves the invariants of those tables.                      *)
(***************************************************************************)
LEMMA OneTargetStep ==
  ASSUME IInv, NEW t \in Targets, NEW s \in Statuses,
         status' = [status EXCEPT ![t] = s],
         status[t] \in Held,
         jobStatus' = UpdateJob(status', JobOf(t)),
         locks' = (IF s \in Held THEN locks ELSE Unlock(t)),
         s # "queued",
         UNCHANGED <<fleet, njobs>>
  PROVE  /\ UnbornHaveNoRows'
         /\ LockMeansUnsettled'
         /\ OpenWorkKeepsMachine'
         /\ JobStatusIsAggregate'
         /\ jobStatus' \in [Jobs -> Statuses \cup {"none"}]
         /\ locks' \in [Machines -> Targets \cup {NoTarget}]
         /\ status' \in [Targets -> Statuses \cup {"none"}]
<1> USE DEF IInv
<1>1. JobOf(t) \in Jobs /\ MachineOf(t) \in Machines
  BY TargetParts
<1>2. status' \in [Targets -> Statuses \cup {"none"}]
  BY DEF TypeOK
<1>3. UnbornHaveNoRows'
  BY <1>1 DEF UnbornHaveNoRows, TypeOK, Held
<1>4. LockMeansUnsettled' /\ locks' \in [Machines -> Targets \cup {NoTarget}]
  <2>1. CASE s \in Held
    BY <2>1, TargetParts DEF LockMeansUnsettled, TypeOK
  <2>2. CASE s \notin Held
    <3>1. locks' = [m \in Machines |-> IF locks[m] = t THEN NoTarget ELSE locks[m]]
      BY <2>2 DEF Unlock
    <3>2. ASSUME NEW u \in Targets PROVE locks'[MachineOf(u)] = u <=> status'[u] \in Held
      <4>1. MachineOf(u) \in Machines
        BY TargetParts
      <4>2. CASE u = t
        BY <2>2, <3>1, <4>1, <4>2, NoTargetAssumption DEF TypeOK
      <4>3. CASE u # t
        BY <3>1, <4>1, <4>3, NoTargetAssumption DEF TypeOK, LockMeansUnsettled
      <4>4. QED
        BY <4>2, <4>3
    <3>3. locks' \in [Machines -> Targets \cup {NoTarget}]
      BY <3>1 DEF TypeOK
    <3>4. QED
      BY <3>2, <3>3 DEF LockMeansUnsettled
  <2>3. QED
    BY <2>1, <2>2
<1>5. OpenWorkKeepsMachine'
  BY DEF OpenWorkKeepsMachine, Held, Open, TypeOK
<1>6. JobStatusIsAggregate'
  <2>1. ASSUME NEW j \in 1..njobs PROVE jobStatus'[j] = Aggregate(status', j)
    <3>1. j \in Jobs
      BY BoundsAssumption DEF TypeOK, Jobs
    <3>2. CASE j = JobOf(t)
      BY <3>1, <3>2 DEF UpdateJob, TypeOK
    <3>3. CASE j # JobOf(t)
      <4>1. \A u \in Targets : JobOf(u) = j => status'[u] = status[u]
        BY <3>3 DEF TypeOK
      <4>2. Aggregate(status', j) = Aggregate(status, j)
        BY <3>1, <4>1, AggregateIsLocal
      <4>3. QED
        BY <3>1, <3>3, <4>2 DEF UpdateJob, TypeOK, JobStatusIsAggregate
    <3>4. QED
      BY <3>2, <3>3
  <2>2. QED
    BY <2>1 DEF JobStatusIsAggregate
<1>7. jobStatus' \in [Jobs -> Statuses \cup {"none"}]
  BY AggregateRange, <1>1 DEF TypeOK, UpdateJob
<1>8. QED
  BY <1>2, <1>3, <1>4, <1>5, <1>6, <1>7
-----------------------------------------------------------------------------
(***************************************************************************)
(* Every step preserves IInv: one lemma per group of actions.              *)
(***************************************************************************)
LEMMA FleetSteps ==
  ASSUME IInv, NEW m \in Machines
  PROVE  /\ \A c \in BOOLEAN : SaveMachine(m, c) => IInv'
         /\ DeleteMachine(m) => IInv'
<1> USE DEF IInv, queueVars
<1>1. ASSUME NEW c \in BOOLEAN, SaveMachine(m, c) PROVE IInv'
  <2>1. TypeOK'
    BY <1>1 DEF SaveMachine, TypeOK
  <2>2. UnbornHaveNoRows' /\ LockMeansUnsettled' /\ JobStatusIsAggregate'
    BY <1>1 DEF SaveMachine, UnbornHaveNoRows, LockMeansUnsettled, JobStatusIsAggregate
  <2>3. OpenWorkKeepsMachine'
    BY <1>1, TargetParts DEF SaveMachine, OpenWorkKeepsMachine, TypeOK
  <2>4. QED
    BY <2>1, <2>2, <2>3
<1>2. ASSUME DeleteMachine(m) PROVE IInv'
  <2>1. TypeOK'
    BY <1>2 DEF DeleteMachine, TypeOK
  <2>2. UnbornHaveNoRows' /\ LockMeansUnsettled' /\ JobStatusIsAggregate'
    BY <1>2 DEF DeleteMachine, UnbornHaveNoRows, LockMeansUnsettled, JobStatusIsAggregate
  <2>3. OpenWorkKeepsMachine'
    BY <1>2, TargetParts DEF DeleteMachine, Busy, OpenWorkKeepsMachine, TypeOK
  <2>4. QED
    BY <2>1, <2>2, <2>3
<1>3. QED
  BY <1>1, <1>2

LEMMA SubmitStep ==
  ASSUME IInv, NEW key \in Keys, NEW kind \in Kinds, NEW ms \in MachineLists,
         NEW include \in BOOLEAN, SubmitJob(key, kind, ms, include)
  PROVE  IInv'
<1> USE DEF IInv
<1> DEFINE j == njobs + 1
           chosen == Chosen(kind, ms, include)
           added == {t \in Targets : JobOf(t) = j /\ MachineOf(t) \in chosen}
<1>1. j \in Jobs /\ njobs' = j /\ j \in 0..MaxJobs /\ njobs \in Nat
  BY BoundsAssumption DEF SubmitJob, TypeOK, Jobs
<1>2. chosen \in SUBSET Machines /\ chosen # {}
  <2>1. Cardinality(Machines) \in Nat
    BY MachinesAssumption, FS_CardinalityType
  <2>2. PICK n \in 1..Cardinality(Machines) : ms \in [1..n -> Machines]
    BY DEF MachineLists
  <2>3. Listed(ms) \subseteq Machines
    BY <2>2 DEF Listed
  <2>4. QED
    BY <2>3 DEF Chosen, SubmitJob
<1>3. \A m \in chosen : fleet[m] = "active"
  BY DEF SubmitJob, Chosen
<1>4. status' = [t \in Targets |-> IF t \in added THEN "queued" ELSE status[t]]
  BY DEF SubmitJob
<1>5. \A t \in Targets : JobOf(t) = j => status[t] = "none"
  BY <1>1 DEF UnbornHaveNoRows, TypeOK
<1>6. TypeOK'
  <2>1. request' \in [Jobs -> Requests \cup {NoRequest}]
    BY DEF SubmitJob, TypeOK, Requests
  <2>2. status' \in [Targets -> Statuses \cup {"none"}]
    BY <1>4 DEF TypeOK, Statuses, Open
  <2>3. ordinal' \in [Targets -> Nat]
    BY <1>2, PlaceIsNatural DEF SubmitJob, TypeOK
  <2>4. jobStatus' \in [Jobs -> Statuses \cup {"none"}]
    BY DEF SubmitJob, TypeOK, Statuses, Open
  <2>5. QED
    BY <1>1, <2>1, <2>2, <2>3, <2>4 DEF SubmitJob, TypeOK
<1>7. UnbornHaveNoRows'
  <2>1. ASSUME NEW t \in Targets, JobOf(t) > njobs' PROVE status'[t] = "none"
    <3>1. JobOf(t) \in Nat
      BY BoundsAssumption, TargetParts DEF Jobs
    <3>2. JobOf(t) # j /\ JobOf(t) > njobs
      BY <1>1, <2>1, <3>1
    <3>3. QED
      BY <1>4, <3>2 DEF UnbornHaveNoRows
  <2>2. QED
    BY <2>1 DEF UnbornHaveNoRows
<1>8. LockMeansUnsettled'
  BY <1>4, <1>5 DEF LockMeansUnsettled, SubmitJob, Held
<1>9. OpenWorkKeepsMachine'
  BY <1>3, <1>4 DEF OpenWorkKeepsMachine, SubmitJob
<1>10. JobStatusIsAggregate'
  <2>1. jobStatus' = [jobStatus EXCEPT ![j] = "queued"]
    BY DEF SubmitJob
  <2>2. ASSUME NEW i \in 1..njobs' PROVE jobStatus'[i] = Aggregate(status', i)
    <3>1. i \in Jobs
      BY <1>1, BoundsAssumption DEF Jobs
    <3>2. CASE i = j
      <4>1. PICK m \in Machines : m \in chosen
        BY <1>2
      <4>2. <<j, m>> \in Targets /\ JobOf(<<j, m>>) = j /\ MachineOf(<<j, m>>) = m
        BY <1>1 DEF Targets, JobOf, MachineOf
      <4>3. status'[<<j, m>>] = "queued"
        BY <1>4, <4>1, <4>2
      <4>4. \A u \in Targets : JobOf(u) = j => status'[u] \in {"queued", "none"}
        BY <1>4, <1>5
      <4>5. Aggregate(status', j) = "queued"
        BY <1>1, <4>2, <4>3, <4>4, AggregateOfQueued
      <4>6. QED
        BY <1>1, <2>1, <3>2, <4>5 DEF TypeOK
    <3>3. CASE i # j
      <4>1. \A u \in Targets : JobOf(u) = i => status'[u] = status[u]
        BY <1>4, <3>3
      <4>2. Aggregate(status', i) = Aggregate(status, i)
        BY <3>1, <4>1, AggregateIsLocal
      <4>3. i \in 1..njobs
        BY <1>1, <3>3
      <4>4. QED
        BY <2>1, <3>1, <3>3, <4>2, <4>3 DEF JobStatusIsAggregate, TypeOK
    <3>4. QED
      BY <3>2, <3>3
  <2>3. QED
    BY <2>2 DEF JobStatusIsAggregate
<1>11. QED
  BY <1>6, <1>7, <1>8, <1>9, <1>10

LEMMA ClaimStep ==
  ASSUME IInv, NEW t \in Targets, Claim(t)
  PROVE  IInv'
<1> USE DEF IInv
<1>1. JobOf(t) \in Jobs /\ MachineOf(t) \in Machines
  BY TargetParts
<1>2. status' = [status EXCEPT ![t] = "running"] /\ status[t] \in {"queued", "reconciling"}
  BY DEF Claim, Dispatchable
<1>3. TypeOK'
  <2>1. claims[t] + 1 \in 0..MaxClaims
    BY BoundsAssumption DEF Claim, TypeOK
  <2>2. locks' \in [Machines -> Targets \cup {NoTarget}]
    BY DEF Claim, TypeOK
  <2>3. status' \in [Targets -> Statuses \cup {"none"}]
    BY <1>2 DEF TypeOK, Statuses, Open
  <2>4. jobStatus' \in [Jobs -> Statuses \cup {"none"}]
    BY DEF Claim, TypeOK, Statuses, Open
  <2>5. QED
    BY <2>1, <2>2, <2>3, <2>4 DEF Claim, TypeOK
<1>4. UnbornHaveNoRows'
  BY <1>2 DEF UnbornHaveNoRows, TypeOK, Claim
<1>5. LockMeansUnsettled'
  <2>1. CASE status[t] = "reconciling"
    <3>1. locks' = locks
      BY <1>1, <2>1, NoTargetAssumption DEF Claim, Locked, LockMeansUnsettled, Held
    <3>2. QED
      BY <1>2, <2>1, <3>1 DEF LockMeansUnsettled, Held, TypeOK
  <2>2. CASE status[t] = "queued"
    <3>1. locks[MachineOf(t)] = NoTarget
      BY <2>2 DEF Claim, Dispatchable, Locked
    <3>2. locks' = [locks EXCEPT ![MachineOf(t)] = t]
      BY <3>1 DEF Claim, Locked
    <3>3. ASSUME NEW u \in Targets PROVE locks'[MachineOf(u)] = u <=> status'[u] \in Held
      <4>1. MachineOf(u) \in Machines
        BY TargetParts
      <4>2. CASE u = t
        BY <1>1, <1>2, <3>2, <4>2 DEF TypeOK, Held
      <4>3. CASE u # t /\ MachineOf(u) = MachineOf(t)
        BY <1>1, <1>2, <3>1, <3>2, <4>3, NoTargetAssumption DEF TypeOK, LockMeansUnsettled
      <4>4. CASE MachineOf(u) # MachineOf(t)
        BY <1>1, <1>2, <3>2, <4>1, <4>4 DEF TypeOK, LockMeansUnsettled
      <4>5. QED
        BY <4>2, <4>3, <4>4
    <3>4. QED
      BY <3>3 DEF LockMeansUnsettled
  <2>3. QED
    BY <1>2, <2>1, <2>2
<1>6. OpenWorkKeepsMachine'
  BY <1>2 DEF OpenWorkKeepsMachine, Claim, Dispatchable, TypeOK
<1>7. JobStatusIsAggregate'
  <2>1. ASSUME NEW j \in 1..njobs PROVE jobStatus'[j] = Aggregate(status', j)
    <3>1. j \in Jobs
      BY BoundsAssumption DEF TypeOK, Jobs
    <3>2. CASE j = JobOf(t)
      <4>1. status'[t] = "running"
        BY <1>2 DEF TypeOK
      <4>2. Aggregate(status', j) = "running"
        BY <3>1, <3>2, <4>1, AggregateWithRunning
      <4>3. QED
        BY <1>1, <3>2, <4>2 DEF Claim, TypeOK
    <3>3. CASE j # JobOf(t)
      <4>1. \A u \in Targets : JobOf(u) = j => status'[u] = status[u]
        BY <1>2, <3>3 DEF TypeOK
      <4>2. Aggregate(status', j) = Aggregate(status, j)
        BY <3>1, <4>1, AggregateIsLocal
      <4>3. QED
        BY <3>1, <3>3, <4>2 DEF Claim, TypeOK, JobStatusIsAggregate
    <3>4. QED
      BY <3>2, <3>3
  <2>2. njobs' = njobs
    BY DEF Claim
  <2>3. QED
    BY <2>1, <2>2 DEF JobStatusIsAggregate
<1>8. QED
  BY <1>3, <1>4, <1>5, <1>6, <1>7

LEMMA RetrySteps ==
  ASSUME IInv, NEW t \in Targets
  PROVE  /\ RetryTimeComes(t) => IInv'
         /\ \A l \in 1..claims[t] : DeferReconcile(t, l) => IInv'
<1> USE DEF IInv
<1>1. ASSUME RetryTimeComes(t) PROVE IInv'
  <2>1. TypeOK'
    BY <1>1 DEF RetryTimeComes, TypeOK
  <2>2. QED
    BY <1>1, <2>1 DEF RetryTimeComes, UnbornHaveNoRows, LockMeansUnsettled,
                      OpenWorkKeepsMachine, JobStatusIsAggregate
<1>2. ASSUME NEW l \in 1..claims[t], DeferReconcile(t, l) PROVE IInv'
  <2>1. /\ status' = [status EXCEPT ![t] = "reconciling"]
        /\ status[t] = "running"
        /\ jobStatus' = UpdateJob(status', JobOf(t))
        /\ UNCHANGED <<fleet, njobs, locks>>
    BY <1>2 DEF DeferReconcile, HoldsLease
  <2>2. /\ UnbornHaveNoRows' /\ LockMeansUnsettled' /\ OpenWorkKeepsMachine'
        /\ JobStatusIsAggregate'
        /\ jobStatus' \in [Jobs -> Statuses \cup {"none"}]
        /\ status' \in [Targets -> Statuses \cup {"none"}]
    <3>1. "reconciling" \in Statuses /\ "reconciling" \in Held /\ "running" \in Held
      BY DEF Statuses, Open, Held
    <3>2. locks' = (IF "reconciling" \in Held THEN locks ELSE Unlock(t))
      BY <2>1, <3>1
    <3>3. QED
      BY <2>1, <3>1, <3>2, OneTargetStep
  <2>3. attempts[t] + 1 \in 0..MaxAttempts
    BY <1>2, BoundsAssumption DEF DeferReconcile, TypeOK
  <2>4. /\ lease' \in [Targets -> 0..MaxClaims]
        /\ due' \in [Targets -> BOOLEAN]
        /\ attempts' \in [Targets -> 0..MaxAttempts]
    BY <1>2, <2>3, BoundsAssumption DEF DeferReconcile, TypeOK
  <2>5. TypeOK'
    BY <1>2, <2>2, <2>4 DEF DeferReconcile, TypeOK
  <2>6. QED
    BY <2>2, <2>5
<1>3. QED
  BY <1>1, <1>2

LEMMA FinishStep ==
  ASSUME IInv, NEW t \in Targets, NEW l \in 1..claims[t], NEW s \in Results,
         Finish(t, l, s)
  PROVE  IInv'
<1> USE DEF IInv
<1>1. s \in Statuses /\ s # "queued" /\ (s \in Held <=> s = "unknown") /\ "running" \in Held
  BY DEF Results, Statuses, Definite, Open, Held
<1>2. /\ status' = [status EXCEPT ![t] = s]
      /\ status[t] \in Held
      /\ jobStatus' = UpdateJob(status', JobOf(t))
      /\ locks' = (IF s \in Held THEN locks ELSE Unlock(t))
      /\ UNCHANGED <<fleet, njobs>>
  BY <1>1 DEF Finish, HoldsLease
<1>3. /\ UnbornHaveNoRows' /\ LockMeansUnsettled' /\ OpenWorkKeepsMachine'
      /\ JobStatusIsAggregate'
      /\ jobStatus' \in [Jobs -> Statuses \cup {"none"}]
      /\ locks' \in [Machines -> Targets \cup {NoTarget}]
      /\ status' \in [Targets -> Statuses \cup {"none"}]
  BY <1>1, <1>2, OneTargetStep
<1>4. TypeOK'
  BY <1>3 DEF Finish, TypeOK
<1>5. QED
  BY <1>3, <1>4

LEMMA ResolveStep ==
  ASSUME IInv, NEW t \in Targets, NEW decision \in Definite \cup {"reconcile"},
         ResolveTarget(t, decision)
  PROVE  IInv'
<1> USE DEF IInv
<1> DEFINE state == IF decision = "reconcile" THEN "reconciling" ELSE decision
<1>1. /\ state \in Statuses /\ state # "queued" /\ (state \in Held <=> state = "reconciling")
      /\ "unknown" \in Held
  BY DEF Statuses, Definite, Open, Held
<1>2. /\ status' = [status EXCEPT ![t] = state]
      /\ status[t] \in Held
      /\ jobStatus' = UpdateJob(status', JobOf(t))
      /\ locks' = (IF state \in Held THEN locks ELSE Unlock(t))
      /\ UNCHANGED <<fleet, njobs>>
  BY <1>1 DEF ResolveTarget
<1>3. /\ UnbornHaveNoRows' /\ LockMeansUnsettled' /\ OpenWorkKeepsMachine'
      /\ JobStatusIsAggregate'
      /\ jobStatus' \in [Jobs -> Statuses \cup {"none"}]
      /\ locks' \in [Machines -> Targets \cup {NoTarget}]
      /\ status' \in [Targets -> Statuses \cup {"none"}]
  BY <1>1, <1>2, OneTargetStep
<1>4. /\ lease' \in [Targets -> 0..MaxClaims]
      /\ due' \in [Targets -> BOOLEAN]
      /\ attempts' \in [Targets -> 0..MaxAttempts]
  BY BoundsAssumption DEF ResolveTarget, TypeOK
<1>5. TypeOK'
  BY <1>3, <1>4 DEF ResolveTarget, TypeOK
<1>6. QED
  BY <1>3, <1>5

LEMMA ExpireStep ==
  ASSUME IInv, NEW lapsed \in SUBSET Targets, ExpireLeases(lapsed)
  PROVE  IInv'
<1> USE DEF IInv
<1>1. /\ status' = [t \in Targets |-> IF t \in lapsed THEN "reconciling" ELSE status[t]]
      /\ \A t \in lapsed : status[t] = "running"
      /\ UNCHANGED <<fleet, njobs, locks>>
  BY DEF ExpireLeases
<1>2. jobStatus' = [j \in Jobs |->
        IF j \in StaleJobs(status') THEN Aggregate(status', j) ELSE jobStatus[j]]
  BY DEF ExpireLeases
<1>3. TypeOK'
  <2>1. status' \in [Targets -> Statuses \cup {"none"}]
    BY <1>1 DEF TypeOK, Statuses, Open
  <2>2. jobStatus' \in [Jobs -> Statuses \cup {"none"}]
    BY <1>2, AggregateRange DEF TypeOK
  <2>3. lease' \in [Targets -> 0..MaxClaims]
    BY BoundsAssumption DEF ExpireLeases, TypeOK
  <2>4. QED
    BY <2>1, <2>2, <2>3 DEF ExpireLeases, TypeOK
<1>4. UnbornHaveNoRows'
  BY <1>1 DEF UnbornHaveNoRows
<1>5. LockMeansUnsettled'
  BY <1>1 DEF LockMeansUnsettled, Held
<1>6. OpenWorkKeepsMachine'
  BY <1>1 DEF OpenWorkKeepsMachine, Open
<1>7. JobStatusIsAggregate'
  <2>1. ASSUME NEW j \in 1..njobs PROVE jobStatus'[j] = Aggregate(status', j)
    <3>1. j \in Jobs
      BY BoundsAssumption DEF TypeOK, Jobs
    <3>2. jobStatus[j] = Aggregate(status, j)
      BY DEF JobStatusIsAggregate
    <3>3. CASE j \in StaleJobs(status')
      BY <1>2, <3>1, <3>3
    <3>4. CASE j \notin StaleJobs(status') /\ \E t \in lapsed : JobOf(t) = j
      <4>1. PICK t \in lapsed : JobOf(t) = j
        BY <3>4
      <4>2. Aggregate(status, j) = "running"
        BY <1>1, <3>1, <4>1, AggregateWithRunning
      <4>3. status'[t] = "reconciling"
        BY <1>1, <4>1
      <4>4. Aggregate(status', j) = "running"
        BY <3>1, <4>1, <4>3, AggregateWithRunning
      <4>5. QED
        BY <1>2, <3>1, <3>2, <3>4, <4>2, <4>4
    <3>5. CASE j \notin StaleJobs(status') /\ \A t \in lapsed : JobOf(t) # j
      <4>1. \A t \in Targets : JobOf(t) = j => status'[t] = status[t]
        BY <1>1, <3>5
      <4>2. Aggregate(status', j) = Aggregate(status, j)
        BY <3>1, <4>1, AggregateIsLocal
      <4>3. QED
        BY <1>2, <3>1, <3>2, <3>5, <4>2
    <3>6. QED
      BY <3>3, <3>4, <3>5
  <2>2. QED
    BY <1>1, <2>1 DEF JobStatusIsAggregate
<1>8. QED
  BY <1>3, <1>4, <1>5, <1>6, <1>7

LEMMA CancelStep ==
  ASSUME IInv, NEW j \in Jobs, CancelJob(j)
  PROVE  IInv'
<1> USE DEF IInv
<1>1. /\ status' = [t \in Targets |->
           IF JobOf(t) = j /\ status[t] = "queued" THEN "cancelled" ELSE status[t]]
      /\ jobStatus' = UpdateJob(status', j)
      /\ UNCHANGED <<fleet, njobs, locks>>
  BY DEF CancelJob
<1>2. TypeOK'
  <2>1. status' \in [Targets -> Statuses \cup {"none"}]
    BY <1>1 DEF TypeOK, Statuses, Definite
  <2>2. jobStatus' \in [Jobs -> Statuses \cup {"none"}]
    BY <1>1, AggregateRange DEF TypeOK, UpdateJob
  <2>3. QED
    BY <2>1, <2>2 DEF CancelJob, TypeOK
<1>3. UnbornHaveNoRows'
  BY <1>1 DEF UnbornHaveNoRows
<1>4. LockMeansUnsettled'
  BY <1>1 DEF LockMeansUnsettled, Held
<1>5. OpenWorkKeepsMachine'
  BY <1>1 DEF OpenWorkKeepsMachine, Open
<1>6. JobStatusIsAggregate'
  <2>1. ASSUME NEW i \in 1..njobs PROVE jobStatus'[i] = Aggregate(status', i)
    <3>1. i \in Jobs
      BY BoundsAssumption DEF TypeOK, Jobs
    <3>2. CASE i = j
      BY <1>1, <3>1, <3>2 DEF UpdateJob, TypeOK
    <3>3. CASE i # j
      <4>1. \A t \in Targets : JobOf(t) = i => status'[t] = status[t]
        BY <1>1, <3>3
      <4>2. Aggregate(status', i) = Aggregate(status, i)
        BY <3>1, <4>1, AggregateIsLocal
      <4>3. QED
        BY <1>1, <3>1, <3>3, <4>2 DEF UpdateJob, TypeOK, JobStatusIsAggregate
    <3>4. QED
      BY <3>2, <3>3
  <2>2. QED
    BY <1>1, <2>1 DEF JobStatusIsAggregate
<1>7. QED
  BY <1>2, <1>3, <1>4, <1>5, <1>6

LEMMA NextPreservesIInv == IInv /\ [Next]_vars => IInv'
<1> SUFFICES ASSUME IInv, [Next]_vars PROVE IInv'
  OBVIOUS
<1>1. CASE AdminStep
  BY <1>1, FleetSteps, SubmitStep, CancelStep, ResolveStep DEF AdminStep
<1>2. CASE SchedulerStep
  BY <1>2, ClaimStep, RetrySteps, ExpireStep DEF SchedulerStep
<1>3. CASE WorkerStep
  BY <1>3, FinishStep, RetrySteps DEF WorkerStep
<1>4. CASE UNCHANGED vars
  BY <1>4 DEF vars, IInv, TypeOK, UnbornHaveNoRows, LockMeansUnsettled,
              OpenWorkKeepsMachine, JobStatusIsAggregate
<1>5. QED
  BY <1>1, <1>2, <1>3, <1>4 DEF Next
-----------------------------------------------------------------------------
THEOREM InvariantHolds == Spec => []IInv
BY InitIInv, NextPreservesIInv, PTL DEF Spec

(***************************************************************************)
(* The tables keep their types, for any number of machines and any bound   *)
(* on jobs, leases and re-queries.                                         *)
(***************************************************************************)
THEOREM TypesHold == Spec => []TypeOK
BY InvariantHolds, PTL DEF IInv

(***************************************************************************)
(* A machine is locked by a target exactly while that target is running,   *)
(* being re-queried or unknown: claim, finish, defer_reconcile,            *)
(* expire_leases and resolve_target keep the two tables together.          *)
(***************************************************************************)
THEOREM LockTableIsExact == Spec => []LockMeansUnsettled
BY InvariantHolds, PTL DEF IInv

(***************************************************************************)
(* So two targets of one machine are never dispatched or unsettled         *)
(* together: management writes to one machine are serial.                  *)
(***************************************************************************)
OneUnsettledPerMachine ==
  \A t, u \in Targets :
    (MachineOf(t) = MachineOf(u) /\ status[t] \in Held /\ status[u] \in Held) => t = u

THEOREM MachineIsExclusive == Spec => []OneUnsettledPerMachine
<1>1. LockMeansUnsettled => OneUnsettledPerMachine
  BY DEF LockMeansUnsettled, OneUnsettledPerMachine
<1>2. QED
  BY <1>1, LockTableIsExact, PTL

(***************************************************************************)
(* The job list is never stale: jobs.status is the aggregate of the        *)
(* targets at all times, so the repair pass of expire_leases is a no-op.   *)
(***************************************************************************)
THEOREM JobListIsExact == Spec => []JobStatusIsAggregate
BY InvariantHolds, PTL DEF IInv

(***************************************************************************)
(* delete_machine never retires a machine that still has queued or         *)
(* unsettled work.                                                         *)
(***************************************************************************)
THEOREM WorkKeepsItsMachine == Spec => []OpenWorkKeepsMachine
BY InvariantHolds, PTL DEF IInv

(***************************************************************************)
(* How one step can move the status of a target.                           *)
(***************************************************************************)
LEMMA StatusMoves ==
  ASSUME IInv, [Next]_vars, NEW t \in Targets, status'[t] # status[t]
  PROVE  \/ status[t] = "none" /\ status'[t] = "queued"
         \/ status[t] = "queued" /\ status'[t] \in {"running", "cancelled"}
         \/ status[t] \in Held /\ status'[t] \in Held \cup Definite
<1> USE DEF IInv, Held, Definite
<1>0. status \in [Targets -> Statuses \cup {"none"}]
  BY DEF TypeOK
<1>1. ASSUME NEW key, NEW kind, NEW ms, NEW include, SubmitJob(key, kind, ms, include)
      PROVE  status[t] = "none" /\ status'[t] = "queued"
  <2>1. njobs \in Nat
    BY DEF TypeOK
  <2>2. njobs + 1 > njobs
    BY <2>1
  <2>3. status'[t] = "queued" /\ JobOf(t) = njobs + 1
    BY <1>0, <1>1 DEF SubmitJob
  <2>4. QED
    BY <2>2, <2>3 DEF UnbornHaveNoRows
<1>2. ASSUME NEW j \in Jobs, CancelJob(j)
      PROVE  status[t] = "queued" /\ status'[t] = "cancelled"
  BY <1>0, <1>2 DEF CancelJob
<1>3. ASSUME NEW u \in Targets, NEW d \in Definite \cup {"reconcile"}, ResolveTarget(u, d)
      PROVE  status[t] \in Held /\ status'[t] \in Held \cup Definite
  BY <1>0, <1>3 DEF ResolveTarget
<1>4. ASSUME NEW u \in Targets, Claim(u)
      PROVE  \/ status[t] = "queued" /\ status'[t] = "running"
             \/ status[t] = "reconciling" /\ status'[t] = "running"
  BY <1>0, <1>4 DEF Claim, Dispatchable
<1>5. ASSUME NEW lapsed \in SUBSET Targets, ExpireLeases(lapsed)
      PROVE  status[t] = "running" /\ status'[t] = "reconciling"
  BY <1>0, <1>5 DEF ExpireLeases
<1>6. ASSUME NEW u \in Targets, NEW l, NEW s \in Results, Finish(u, l, s)
      PROVE  status[t] \in Held /\ status'[t] \in Held \cup Definite
  BY <1>0, <1>6 DEF Finish, HoldsLease, Results
<1>7. ASSUME NEW u \in Targets, NEW l, DeferReconcile(u, l)
      PROVE  status[t] \in Held /\ status'[t] \in Held \cup Definite
  BY <1>0, <1>7 DEF DeferReconcile, HoldsLease
<1>8. ASSUME NEW m \in Machines, NEW c \in BOOLEAN, SaveMachine(m, c) PROVE FALSE
  BY <1>8 DEF SaveMachine, queueVars
<1>9. ASSUME NEW m \in Machines, DeleteMachine(m) PROVE FALSE
  BY <1>9 DEF DeleteMachine, queueVars
<1>10. ASSUME NEW u \in Targets, RetryTimeComes(u) PROVE FALSE
  BY <1>10 DEF RetryTimeComes
<1>11. CASE AdminStep
  BY <1>1, <1>2, <1>3, <1>8, <1>9, <1>11 DEF AdminStep
<1>12. CASE SchedulerStep
  BY <1>4, <1>5, <1>10, <1>12 DEF SchedulerStep
<1>13. CASE WorkerStep
  BY <1>6, <1>7, <1>13 DEF WorkerStep
<1>14. CASE UNCHANGED vars
  BY <1>14 DEF vars
<1>15. QED
  BY <1>11, <1>12, <1>13, <1>14 DEF Next

(***************************************************************************)
(* A recorded outcome is final: no late worker, sweep, cancellation or     *)
(* operator decision overwrites it.                                        *)
(***************************************************************************)
THEOREM OutcomesAreFinal == Spec => SettledStays
<1>1. ASSUME IInv, [Next]_vars
      PROVE  [\A t \in Targets : status[t] \in Definite => status'[t] = status[t]]_vars
  BY <1>1, StatusMoves DEF Definite, Held
<1>2. QED
  BY <1>1, InvariantHolds, PTL DEF Spec, SettledStays

(***************************************************************************)
(* What keeps the queue moving, beside IInv: a cancelled job has nothing   *)
(* queued, the controllers are bounded, and a lock is one of its machine.  *)
(***************************************************************************)
MovingInv ==
  /\ \A j \in Jobs : j > njobs => ~ cancelRequested[j]
  /\ \A t \in Targets : status[t] = "queued" => ~ cancelRequested[JobOf(t)]
  /\ Cardinality(controllers) <= MaxControllers
  /\ \A m \in Machines : locks[m] # NoTarget => MachineOf(locks[m]) = m

LEMMA MovingStep ==
  ASSUME IInv, MovingInv, [Next]_vars
  PROVE  MovingInv'
<1> USE DEF MovingInv
<1>0. /\ status \in [Targets -> Statuses \cup {"none"}] /\ njobs \in Nat
      /\ cancelRequested \in [Jobs -> BOOLEAN]
      /\ \A t \in Targets : JobOf(t) \in Jobs /\ JobOf(t) \in Nat /\ MachineOf(t) \in Machines
      /\ locks \in [Machines -> Targets \cup {NoTarget}]
  BY TargetParts, BoundsAssumption DEF IInv, TypeOK, Jobs
<1>1. ASSUME NEW key, NEW kind, NEW ms, NEW include, SubmitJob(key, kind, ms, include)
      PROVE  MovingInv'
  <2>1. /\ njobs' = njobs + 1 /\ njobs + 1 > njobs
        /\ UNCHANGED <<cancelRequested, controllers, locks>>
        /\ \A t \in Targets : status'[t] = status[t] \/ JobOf(t) = njobs + 1
    BY <1>0, <1>1 DEF SubmitJob
  <2>2. \A j \in Jobs : j \in Nat /\ (j > njobs' => j > njobs)
    BY <1>0, <2>1, BoundsAssumption DEF Jobs
  <2>3. QED
    BY <1>0, <2>1, <2>2
<1>2. ASSUME NEW j \in Jobs, CancelJob(j) PROVE MovingInv'
  <2>1. /\ j <= njobs /\ UNCHANGED <<njobs, controllers, locks>>
        /\ cancelRequested' = [cancelRequested EXCEPT ![j] = TRUE]
        /\ status' = [t \in Targets |->
             IF JobOf(t) = j /\ status[t] = "queued" THEN "cancelled" ELSE status[t]]
    BY <1>2 DEF CancelJob
  <2>2. \A k \in Jobs : k > njobs => k # j
    BY <1>0, <2>1, BoundsAssumption DEF Jobs
  <2>3. QED
    BY <1>0, <2>1, <2>2
<1>3. ASSUME NEW m \in Machines, NEW c \in BOOLEAN, SaveMachine(m, c)
      PROVE  MovingInv'
  BY <1>3 DEF SaveMachine, queueVars
<1>4. ASSUME UNCHANGED <<njobs, cancelRequested, controllers>>,
             \A t \in Targets : status'[t] = "queued" => status[t] = "queued",
             \A m \in Machines : \/ locks'[m] \in {locks[m], NoTarget}
                                 \/ locks'[m] # NoTarget /\ MachineOf(locks'[m]) = m
      PROVE  MovingInv'
  BY <1>0, <1>4
<1>5. ASSUME NEW t \in Targets,
             \/ \E d \in Definite \cup {"reconcile"} : ResolveTarget(t, d)
             \/ Claim(t) \/ RetryTimeComes(t)
             \/ \E l \in 1..claims[t] : DeferReconcile(t, l) \/ \E s \in Results : Finish(t, l, s)
      PROVE  MovingInv'
  <2>1. UNCHANGED <<njobs, cancelRequested, controllers>>
    BY <1>5 DEF ResolveTarget, Claim, RetryTimeComes, DeferReconcile, Finish
  <2>2. \A u \in Targets : status'[u] = "queued" => status[u] = "queued"
    BY <1>0, <1>5 DEF ResolveTarget, Claim, RetryTimeComes, DeferReconcile, Finish, Results, Definite
  <2>3. \A m \in Machines : \/ locks'[m] \in {locks[m], NoTarget}
                            \/ locks'[m] # NoTarget /\ MachineOf(locks'[m]) = m
    BY <1>0, <1>5, NoTargetAssumption
       DEF ResolveTarget, Claim, RetryTimeComes, DeferReconcile, Finish, Unlock
  <2>4. QED
    BY <1>4, <2>1, <2>2, <2>3
<1>6. ASSUME NEW lapsed, ExpireLeases(lapsed) PROVE MovingInv'
  BY <1>0, <1>4, <1>6 DEF ExpireLeases
<1>7. ASSUME NEW m \in Machines, DeleteMachine(m) PROVE MovingInv'
  BY <1>4, <1>7 DEF DeleteMachine, queueVars
<1>8. CASE UNCHANGED vars
  BY <1>4, <1>8 DEF vars
<1>9. QED
  BY <1>1, <1>2, <1>3, <1>5, <1>6, <1>7, <1>8 DEF Next, AdminStep, SchedulerStep, WorkerStep

\* With nothing held, a queued target can go unless its machine is a controller.
LEMMA QueuedCanGo ==
  ASSUME IInv, MovingInv, \A t \in Targets : status[t] \notin Held,
         NEW t \in Targets, status[t] = "queued", ControllerMayGo(t)
  PROVE  Dispatchable(t)
<1>1. fleet[MachineOf(t)] = "active"
  BY DEF IInv, OpenWorkKeepsMachine, Open
<1>2. ~ Locked(MachineOf(t))
  <2>1. MachineOf(t) \in Machines /\ locks[MachineOf(t)] \in Targets \cup {NoTarget}
    BY TargetParts DEF IInv, TypeOK
  <2>2. ASSUME NEW u \in Targets, locks[MachineOf(t)] = u PROVE FALSE
    <3>1. MachineOf(u) = MachineOf(t)
      BY <2>1, <2>2, NoTargetAssumption DEF MovingInv
    <3>2. QED
      BY <2>2, <3>1 DEF IInv, LockMeansUnsettled
  <2>3. QED
    BY <2>1, <2>2 DEF Locked
<1>3. QED
  BY <1>1, <1>2 DEF Dispatchable, MovingInv

(***************************************************************************)
(* With at most one controller among the machines the queue never wedges   *)
(* itself, whatever jobs are submitted, cancelled and settled.             *)
(***************************************************************************)
THEOREM QueueKeepsMoving == ASSUME MaxControllers <= 1 PROVE Spec => []QueueMoves
<1>1. Init => MovingInv
  BY FS_EmptySet, BoundsAssumption DEF Init, MovingInv, Targets, JobOf
<1>2. ASSUME IInv, MovingInv, \A t \in Targets : status[t] \notin Held,
             NEW t \in Targets, status[t] = "queued"
      PROVE  \E u \in Targets : Dispatchable(u)
  <2>1. CASE ControllerMayGo(t)
    BY <1>2, <2>1, QueuedCanGo
  <2>2. CASE ~ ControllerMayGo(t)
    <3>1. PICK c \in TargetsOf(JobOf(t)) \ {t} : status[c] \notin Definite \cup {"none"}
      BY <2>2 DEF ControllerMayGo
    <3>2. c \in Targets /\ JobOf(c) = JobOf(t) /\ c # t
      BY <3>1 DEF TargetsOf
    <3>3. status[c] = "queued"
      BY <1>2, <3>1, <3>2 DEF IInv, TypeOK, Statuses, Open, Held
    <3>4. MachineOf(c) # MachineOf(t)
      BY <3>2, TargetParts
    <3>5. MachineOf(t) \in controllers
      BY <2>2 DEF ControllerMayGo
    <3>6. MachineOf(c) \notin controllers
      <4>1. IsFiniteSet(controllers) /\ Cardinality(controllers) <= 1
        BY <1>2, MachinesAssumption, FS_Subset, FS_CardinalityType, BoundsAssumption
           DEF IInv, TypeOK, MovingInv
      <4>2. ASSUME MachineOf(c) \in controllers PROVE FALSE
        <5>1. {MachineOf(c), MachineOf(t)} \subseteq controllers
          BY <3>5, <4>2
        <5>2. Cardinality({MachineOf(c), MachineOf(t)}) <= Cardinality(controllers)
          BY <4>1, <5>1, FS_Subset
        <5>3. Cardinality({MachineOf(c), MachineOf(t)}) = 2
          <6>1. IsFiniteSet({MachineOf(t)}) /\ Cardinality({MachineOf(t)}) = 1
            BY FS_Singleton
          <6>2. {MachineOf(c), MachineOf(t)} = {MachineOf(t)} \cup {MachineOf(c)}
            OBVIOUS
          <6>3. QED
            BY <3>4, <6>1, <6>2, FS_AddElement
        <5>4. Cardinality(controllers) \in Nat
          BY <4>1, FS_CardinalityType
        <5>5. QED
          BY <4>1, <5>2, <5>3, <5>4
      <4>3. QED
        BY <4>2
    <3>7. ControllerMayGo(c)
      BY <3>6 DEF ControllerMayGo
    <3>8. QED
      BY <1>2, <3>2, <3>3, <3>7, QueuedCanGo
  <2>3. QED
    BY <2>1, <2>2
<1>3. IInv /\ MovingInv => QueueMoves
  BY <1>2 DEF QueueMoves
<1>4. IInv /\ MovingInv /\ [Next]_vars => MovingInv'
  BY MovingStep
<1>5. QED
  BY <1>1, <1>3, <1>4, InvariantHolds, PTL DEF Spec

(***************************************************************************)
(* The queue implements ExclusiveTasks.  Each step moves the phases as one *)
(* abstract action does, or not at all; that a fresh claim finds no active *)
(* task on its machine is where the invariant is needed.                   *)
(***************************************************************************)
LEMMA PhaseValues ==
  /\ Phase("none") = "none" /\ Phase("queued") = "waiting"
  /\ \A x \in Held : Phase(x) = "active"
  /\ \A x \in Definite : Phase(x) = "done"
BY DEF Phase, Held, Definite

LEMMA PhasesOfTargets == Abstract!Tasks = Targets
BY DEF Abstract!Tasks, Targets

LEMMA OneTargetMoves ==
  ASSUME IInv, NEW t \in Targets, NEW s \in Statuses,
         status' = [status EXCEPT ![t] = s]
  PROVE  Phases' = [Phases EXCEPT ![t] = Phase(s)]
BY DEF IInv, TypeOK, Phases

LEMMA SubmitRefines ==
  ASSUME IInv, NEW key, NEW kind, NEW ms, NEW include, SubmitJob(key, kind, ms, include)
  PROVE  Abstract!Next
<1> DEFINE j == njobs + 1
           added == {t \in Targets : JobOf(t) = j /\ MachineOf(t) \in Chosen(kind, ms, include)}
<1>1. status' = [t \in Targets |-> IF t \in added THEN "queued" ELSE status[t]]
  BY DEF SubmitJob
<1>2. \A t \in added : Phases[t] = "none"
  <2>1. j > njobs
    BY DEF IInv, TypeOK
  <2>2. QED
    BY <2>1, PhaseValues DEF IInv, UnbornHaveNoRows, Phases
<1>3. Phases' = [t \in Targets |-> IF t \in added THEN "waiting" ELSE Phases[t]]
  BY <1>1, PhaseValues DEF Phases
<1>4. Abstract!Submit(added)
  BY <1>2, <1>3, PhasesOfTargets DEF Abstract!Submit
<1>5. added \in SUBSET Abstract!Tasks
  BY PhasesOfTargets
<1>6. QED
  BY <1>4, <1>5 DEF Abstract!Next

LEMMA CancelRefines ==
  ASSUME IInv, NEW j \in Jobs, CancelJob(j)
  PROVE  Abstract!Next
<1> DEFINE withdrawn == {t \in Targets : JobOf(t) = j /\ status[t] = "queued"}
<1>1. \A t \in withdrawn : Phases[t] = "waiting"
  BY PhaseValues DEF Phases
<1>2. Phases' = [t \in Targets |-> IF t \in withdrawn THEN "done" ELSE Phases[t]]
  BY PhaseValues DEF CancelJob, Phases, Definite
<1>3. Abstract!Withdraw(withdrawn)
  BY <1>1, <1>2, PhasesOfTargets DEF Abstract!Withdraw
<1>4. withdrawn \in SUBSET Abstract!Tasks
  BY PhasesOfTargets
<1>5. QED
  BY <1>3, <1>4 DEF Abstract!Next

LEMMA ClaimRefines ==
  ASSUME IInv, NEW t \in Targets, Claim(t)
  PROVE  Abstract!Next \/ UNCHANGED Phases
<1>1. status' = [status EXCEPT ![t] = "running"] /\ status[t] \in {"queued", "reconciling"}
  BY DEF Claim, Dispatchable
<1>2. Phases' = [Phases EXCEPT ![t] = "active"]
  <2>1. "running" \in Statuses /\ Phase("running") = "active"
    BY PhaseValues DEF Statuses, Open, Held
  <2>2. QED
    BY <1>1, <2>1, OneTargetMoves
<1>3. CASE status[t] = "reconciling"
  <2>1. Phases[t] = "active"
    BY <1>3, PhaseValues DEF Phases, Held
  <2>2. QED
    BY <1>2, <2>1 DEF Phases
<1>4. CASE status[t] = "queued"
  <2>1. locks[MachineOf(t)] = NoTarget
    BY <1>4 DEF Claim, Dispatchable, Locked
  <2>2. ASSUME NEW u \in Targets, MachineOf(u) = MachineOf(t) PROVE Phases[u] # "active"
    <3>1. status[u] \notin Held
      BY <2>1, <2>2, NoTargetAssumption DEF IInv, LockMeansUnsettled
    <3>2. status[u] \in Statuses \cup {"none"}
      BY DEF IInv, TypeOK
    <3>3. QED
      BY <3>1, <3>2 DEF Phases, Phase, Statuses
  <2>3. Phases[t] = "waiting"
    BY <1>4, PhaseValues DEF Phases
  <2>4. Abstract!Begin(t)
    BY <1>2, <2>2, <2>3, PhasesOfTargets DEF Abstract!Begin, MachineOf
  <2>5. QED
    BY <2>4, PhasesOfTargets DEF Abstract!Next
<1>5. QED
  BY <1>1, <1>3, <1>4

LEMMA SettleRefines ==
  ASSUME IInv, NEW t \in Targets, NEW s \in Held \cup Definite,
         status[t] \in Held, status' = [status EXCEPT ![t] = s]
  PROVE  Abstract!Next \/ UNCHANGED Phases
<1>1. Phases' = [Phases EXCEPT ![t] = Phase(s)] /\ Phases[t] = "active"
  BY OneTargetMoves, PhaseValues DEF Phases, Statuses, Open, Held, Definite
<1>2. CASE s \in Held
  BY <1>1, <1>2, PhaseValues DEF Phases
<1>3. CASE s \in Definite
  <2>1. Abstract!Settle(t)
    BY <1>1, <1>3, PhaseValues DEF Abstract!Settle
  <2>2. QED
    BY <2>1, PhasesOfTargets DEF Abstract!Next
<1>4. QED
  BY <1>2, <1>3

LEMMA StepRefines ==
  ASSUME IInv, [Next]_vars
  PROVE  Abstract!Next \/ UNCHANGED Phases
<1>1. ASSUME UNCHANGED status PROVE UNCHANGED Phases
  BY <1>1 DEF Phases
<1>2. CASE AdminStep
  <2>1. ASSUME NEW t \in Targets, NEW d \in Definite \cup {"reconcile"}, ResolveTarget(t, d)
        PROVE  Abstract!Next \/ UNCHANGED Phases
    BY <2>1, SettleRefines DEF ResolveTarget, Held
  <2>2. ASSUME NEW m \in Machines, NEW c \in BOOLEAN, SaveMachine(m, c)
        PROVE  UNCHANGED status
    BY <2>2 DEF SaveMachine, queueVars
  <2>3. ASSUME NEW m \in Machines, DeleteMachine(m) PROVE UNCHANGED status
    BY <2>3 DEF DeleteMachine, queueVars
  <2>4. QED
    BY <1>1, <1>2, <2>1, <2>2, <2>3, SubmitRefines, CancelRefines DEF AdminStep
<1>3. CASE SchedulerStep
  <2>1. ASSUME NEW lapsed \in SUBSET Targets, ExpireLeases(lapsed) PROVE UNCHANGED Phases
    BY <2>1, PhaseValues DEF ExpireLeases, Phases, Held
  <2>2. ASSUME NEW t \in Targets, RetryTimeComes(t) PROVE UNCHANGED status
    BY <2>2 DEF RetryTimeComes
  <2>3. QED
    BY <1>1, <1>3, <2>1, <2>2, ClaimRefines DEF SchedulerStep
<1>4. CASE WorkerStep
  <2>1. ASSUME NEW t \in Targets, NEW l, NEW s \in Results, Finish(t, l, s)
        PROVE  Abstract!Next \/ UNCHANGED Phases
    BY <2>1, SettleRefines DEF Finish, HoldsLease, Results, Held
  <2>2. ASSUME NEW t \in Targets, NEW l, DeferReconcile(t, l)
        PROVE  Abstract!Next \/ UNCHANGED Phases
    BY <2>2, SettleRefines DEF DeferReconcile, HoldsLease, Held
  <2>3. QED
    BY <1>4, <2>1, <2>2 DEF WorkerStep
<1>5. CASE UNCHANGED vars
  BY <1>1, <1>5 DEF vars
<1>6. QED
  BY <1>2, <1>3, <1>4, <1>5 DEF Next

THEOREM QueueImplementsExclusiveTasks == Spec => ImplementsExclusiveTasks
<1>1. Init => Abstract!Init
  BY PhaseValues, PhasesOfTargets DEF Init, Abstract!Init, Phases
<1>2. IInv /\ [Next]_vars => [Abstract!Next]_Phases
  BY StepRefines
<1>3. QED
  BY <1>1, <1>2, InvariantHolds, PTL DEF Spec, ImplementsExclusiveTasks, Abstract!Spec
=============================================================================
