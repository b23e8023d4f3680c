--------------------------- MODULE DispatchProofs ---------------------------
(***************************************************************************)
(* Proofs about Dispatch, for every set of machines and every bound. Under *)
(* both timing assumptions: the workers use the queue only as JobQueue     *)
(* allows, so that all theorems about the queue hold of the whole          *)
(* controller; the action of a target is begun no more often than the      *)
(* target was claimed, and at most once unless it is an install; types.    *)
(* Where no worker outlives its lease: work under way is under its         *)
(* machine's lock, and recorded outcomes are what happened.                *)
(***************************************************************************)
EXTENDS Dispatch, JobQueueProofs

(***************************************************************************)
(* The inductive invariant, beside the queue's own.                        *)
(***************************************************************************)
RigTypes ==
  /\ starts \in SUBSET Targets
  /\ op \in [Targets -> OpStates]
  /\ ran \in [Targets -> Nat]

\* Nothing has happened for a target that was never claimed.
UnclaimedIsUntouched ==
  \A t \in Targets :
    /\ status[t] \in {"none", "queued"} => claims[t] = 0
    /\ claims[t] = 0 => op[t] = "missing" /\ ran[t] = 0 /\ t \notin starts

\* Every worker has its own lease, and only the first lease is not a re-query.
WorkersHaveLeases ==
  /\ workers \subseteq Worker
  /\ \A w \in workers : w.l <= claims[w.t] /\ (~ w.reconcile => w.l = 1)
  /\ \A w, x \in workers : w.t = x.t /\ w.l = x.l => w = x

\* The record on the rig deduplicates: a begun operation is never "queued" again.
RecordedOnce ==
  \A t \in Targets : Recorded(t) =>
    /\ ran[t] <= 1
    /\ op[t] \in {"missing", "queued"} => ran[t] = 0

\* Nothing deduplicates a power request: it is sent by one worker, once.
MaySend(w) == ~ w.reconcile /\ w.stage = "start"
PowerOnce ==
  \A t \in Targets : KindOf(t) = "power" =>
    /\ ran[t] <= 1
    /\ op[t] = "missing"
    /\ t \in starts => ran[t] = 0
    /\ \A w \in workers : w.t = t /\ MaySend(w) => ran[t] = 0 /\ t \notin starts

DInv ==
  /\ IInv
  /\ RigTypes
  /\ UnclaimedIsUntouched
  /\ WorkersHaveLeases
  /\ RecordedOnce
  /\ PowerOnce
-----------------------------------------------------------------------------
(***************************************************************************)
(* Every step of Dispatch is a step of JobQueue, or leaves its tables.     *)
(***************************************************************************)
LEMMA StageMoves ==
  ASSUME NEW w \in Worker, NEW s \in Stages, NEW r \in Results
  PROVE  /\ [w EXCEPT !.stage = s] \in Worker
         /\ [w EXCEPT !.stage = s, !.report = r] \in Worker
         /\ [w EXCEPT !.cancel = TRUE] \in Worker
BY DEF Worker

LEMMA WorkerCalls ==
  ASSUME IInv, WorkersHaveLeases, NEW w \in workers
  PROVE  /\ Finish(w.t, w.l, w.report) => Next
         /\ DeferReconcile(w.t, w.l) => Next
<1>1. w.t \in Targets /\ w.report \in Results /\ w.l \in Nat /\ w.l >= 1 /\ w.l <= claims[w.t]
  BY BoundsAssumption DEF WorkersHaveLeases, Worker
<1>2. claims[w.t] \in Nat
  BY <1>1, BoundsAssumption DEF IInv, TypeOK
<1>3. w.l \in 1..claims[w.t]
  BY <1>1, <1>2
<1>4. QED
  BY <1>1, <1>3 DEF Next, WorkerStep

LEMMA AdvanceStutters ==
  ASSUME IInv, WorkersHaveLeases, NEW w \in workers, Advance(w) \/ Beat(w)
  PROVE  [Next]_vars
<1>1. CASE StartAnswered(w) \/ StartUnanswered(w) \/ StartRefused(w) \/ PowerReread(w)
  BY <1>1 DEF StartAnswered, StartUnanswered, StartRefused, PowerReread
<1>2. CASE PollCancel(w) \/ PollStatus(w) \/ PollFails(w)
  BY <1>2 DEF PollCancel, PollStatus, PollFails
<1>3. CASE FinishSaved(w) \/ FinishUnanswered(w)
  BY <1>3, WorkerCalls DEF FinishSaved, FinishUnanswered
<1>4. CASE GiveUpDeferred(w) \/ GiveUpSaved(w) \/ GiveUpUnsaved(w)
  BY <1>4, WorkerCalls DEF GiveUpDeferred, GiveUpSaved, GiveUpUnsaved
<1>5. CASE Beat(w)
  BY <1>5 DEF Beat, HeartbeatHears, HeartbeatConflicts, HeartbeatFails
<1>6. QED
  BY <1>1, <1>2, <1>3, <1>4, <1>5 DEF Advance

LEMMA DispatchStepIsQueueStep ==
  ASSUME IInv, WorkersHaveLeases, [DispatchNext]_dispatchVars
  PROVE  [Next]_vars
<1>1. CASE QueueStep
  BY <1>1 DEF QueueStep, Next, AdminStep, SchedulerStep
<1>2. ASSUME NEW t \in Targets, ClaimAndSpawn(t) PROVE [Next]_vars
  BY <1>2 DEF ClaimAndSpawn, Next, SchedulerStep
<1>3. ASSUME NEW t \in Targets, RigStep(t) PROVE [Next]_vars
  BY <1>3 DEF RigStep, Arrive, Lose, RunnerBegins, RunnerEnds, RunnerDies, RecoverAtBoot
<1>4. ASSUME NEW t \in Targets, NEW d \in Definite \cup {"reconcile"}, OperatorSettles(t, d)
      PROVE  [Next]_vars
  BY <1>4 DEF OperatorSettles, Next, AdminStep
<1>5. CASE Restart
  BY <1>5 DEF Restart
<1>6. ASSUME NEW m \in Machines, RemoveBmc(m) PROVE [Next]_vars
  BY <1>6 DEF RemoveBmc
<1>7. CASE UNCHANGED dispatchVars
  BY <1>7 DEF dispatchVars, vars
<1>8. QED
  BY <1>1, <1>2, <1>3, <1>4, <1>5, <1>6, <1>7, AdvanceStutters DEF DispatchNext
-----------------------------------------------------------------------------
(***************************************************************************)
(* Steps that send nothing and run nothing.                                *)
(***************************************************************************)
LEMMA QueueFacts ==
  ASSUME IInv, UnclaimedIsUntouched, [Next]_vars, claims' = claims
  PROVE  \A t \in Targets :
           /\ KindOf(t)' = KindOf(t) \/ claims[t] = 0
           /\ status'[t] \in {"none", "queued"} => claims[t] = 0
<1> TAKE t \in Targets
<1>1. status'[t] \in {"none", "queued"} => claims[t] = 0
  BY StatusMoves DEF UnclaimedIsUntouched, Held, Definite
<1>2. ASSUME NEW key, NEW kind, NEW ms, NEW include, SubmitJob(key, kind, ms, include)
      PROVE  KindOf(t)' = KindOf(t) \/ claims[t] = 0
  <2>1. CASE JobOf(t) = njobs + 1
    <3>1. JobOf(t) > njobs
      BY <2>1 DEF IInv, TypeOK
    <3>2. QED
      BY <3>1 DEF IInv, UnbornHaveNoRows, UnclaimedIsUntouched
  <2>2. CASE JobOf(t) # njobs + 1
    BY <1>2, <2>2, TargetParts DEF SubmitJob, KindOf, IInv, TypeOK
  <2>3. QED
    BY <2>1, <2>2
<1>3. ASSUME \A key \in Keys, kind \in Kinds, ms \in MachineLists, include \in BOOLEAN :
               ~ SubmitJob(key, kind, ms, include)
      PROVE  request' = request
  BY <1>3 DEF Next, AdminStep, SchedulerStep, WorkerStep, SaveMachine, DeleteMachine, CancelJob,
       ResolveTarget, Claim, RetryTimeComes, ExpireLeases, Finish, DeferReconcile,
       queueVars, vars
<1>4. KindOf(t)' = KindOf(t) \/ claims[t] = 0
  BY <1>2, <1>3 DEF KindOf
<1>5. QED
  BY <1>1, <1>4

LEMMA UnsentStep ==
  ASSUME DInv, [DispatchNext]_dispatchVars, claims' = claims, UNCHANGED <<starts, op, ran>>,
         WorkersHaveLeases',
         \A x \in workers' : MaySend(x) => \E y \in workers : y.t = x.t /\ MaySend(y)
  PROVE  DInv'
<1>1. [Next]_vars
  BY DispatchStepIsQueueStep DEF DInv
<1>2. IInv'
  BY <1>1, NextPreservesIInv DEF DInv
<1>3. RigTypes'
  BY DEF DInv, RigTypes
<1>4. UnclaimedIsUntouched'
  BY <1>1, QueueFacts DEF DInv, UnclaimedIsUntouched
<1>5. \A t \in Targets : KindOf(t)' = KindOf(t) \/ (ran[t] = 0 /\ op[t] = "missing" /\ t \notin starts)
  BY <1>1, QueueFacts DEF DInv, UnclaimedIsUntouched
<1>6. RecordedOnce'
  BY <1>5 DEF DInv, RecordedOnce, Recorded
<1>7. PowerOnce'
  BY <1>5 DEF DInv, PowerOnce
<1>8. QED
  BY <1>2, <1>3, <1>4, <1>6, <1>7 DEF DInv

(***************************************************************************)
(* A worker that moves on keeps its target and lease, and may not go back  *)
(* to the start.                                                           *)
(***************************************************************************)
LEMMA WorkerMove ==
  ASSUME DInv, NEW w \in workers, NEW v \in Worker, Become(w, v), claims' = claims,
         v.t = w.t, v.l = w.l, v.reconcile = w.reconcile,
         v.stage = "start" => w.stage = "start"
  PROVE  /\ WorkersHaveLeases'
         /\ \A x \in workers' : MaySend(x) => \E y \in workers : y.t = x.t /\ MaySend(y)
<1>1. workers' = (workers \ {w}) \cup {v}
  BY DEF Become
<1>2. workers' \subseteq Worker
  BY <1>1 DEF DInv, WorkersHaveLeases
<1>3. \A x \in workers' : x.l <= claims'[x.t] /\ (~ x.reconcile => x.l = 1)
  BY <1>1 DEF DInv, WorkersHaveLeases
<1>4. \A x, y \in workers' : x.t = y.t /\ x.l = y.l => x = y
  BY <1>1 DEF DInv, WorkersHaveLeases
<1>5. QED
  BY <1>1, <1>2, <1>3, <1>4 DEF WorkersHaveLeases, MaySend

LEMMA WorkersLeave ==
  ASSUME DInv, workers' \subseteq workers, claims' = claims
  PROVE  /\ WorkersHaveLeases'
         /\ \A x \in workers' : MaySend(x) => \E y \in workers : y.t = x.t /\ MaySend(y)
BY DEF DInv, WorkersHaveLeases

\* What a worker may do without sending anything.
MovesOn(w) ==
  \/ workers' \subseteq workers
  \/ \E v \in Worker : /\ Become(w, v)
                       /\ v.t = w.t /\ v.l = w.l /\ v.reconcile = w.reconcile
                       /\ v.stage = "start" => w.stage = "start"

LEMMA StageChangeMovesOn ==
  ASSUME NEW w \in Worker, NEW s \in Stages \ {"start"}, NEW r \in Results
  PROVE  /\ Become(w, [w EXCEPT !.stage = s]) => MovesOn(w)
         /\ Become(w, [w EXCEPT !.stage = s, !.report = r]) => MovesOn(w)
         /\ Become(w, [w EXCEPT !.cancel = TRUE]) => MovesOn(w)
         /\ Gone(w) => MovesOn(w)
<1> DEFINE v == [w EXCEPT !.stage = s]
           u == [w EXCEPT !.stage = s, !.report = r]
           c == [w EXCEPT !.cancel = TRUE]
<1>1. v \in Worker /\ v.t = w.t /\ v.l = w.l /\ v.reconcile = w.reconcile /\ v.stage = s
  BY DEF Worker
<1>2. u \in Worker /\ u.t = w.t /\ u.l = w.l /\ u.reconcile = w.reconcile /\ u.stage = s
  BY DEF Worker
<1>3. c \in Worker /\ c.t = w.t /\ c.l = w.l /\ c.reconcile = w.reconcile /\ c.stage = w.stage
  BY DEF Worker
<1> HIDE DEF v, u, c
<1>4. Become(w, v) => MovesOn(w)
  BY <1>1 DEF MovesOn
<1>5. Become(w, u) => MovesOn(w)
  BY <1>2 DEF MovesOn
<1>6. Become(w, c) => MovesOn(w)
  BY <1>3 DEF MovesOn
<1>7. Gone(w) => MovesOn(w)
  BY DEF Gone, MovesOn
<1>8. QED
  BY <1>4, <1>5, <1>6, <1>7 DEF v, u, c

LEMMA AnswersMoveOn ==
  ASSUME NEW w \in Worker, NEW r \in Results
  PROVE  /\ Errs(w, r) => MovesOn(w)
         /\ Reports(w, r) => MovesOn(w)
<1>1. {"giveup", "finish"} \subseteq Stages \ {"start"}
  BY DEF Stages
<1>2. QED
  BY <1>1, StageChangeMovesOn DEF Errs, Reports

Quiet(w) ==
  \/ StartRefused(w) \/ PowerReread(w) \/ PollCancel(w) \/ PollStatus(w) \/ PollFails(w)
  \/ FinishSaved(w) \/ FinishUnanswered(w)
  \/ GiveUpDeferred(w) \/ GiveUpSaved(w) \/ GiveUpUnsaved(w) \/ Beat(w)

LEMMA QuietSendsNothing ==
  ASSUME NEW w, Quiet(w)
  PROVE  UNCHANGED <<claims, starts, op, ran>>
<1> USE DEF rigVars, vars
<1>1. CASE StartRefused(w) \/ PowerReread(w) \/ PollCancel(w)
  BY <1>1 DEF StartRefused, PowerReread, PollCancel
<1>2. CASE PollStatus(w) \/ PollFails(w)
  BY <1>2 DEF PollStatus, PollFails
<1>3. CASE FinishSaved(w) \/ FinishUnanswered(w)
  BY <1>3 DEF FinishSaved, FinishUnanswered, Finish
<1>4. CASE GiveUpDeferred(w) \/ GiveUpSaved(w) \/ GiveUpUnsaved(w)
  BY <1>4 DEF GiveUpDeferred, GiveUpSaved, GiveUpUnsaved, Finish, DeferReconcile
<1>5. CASE Beat(w)
  BY <1>5 DEF Beat, HeartbeatHears, HeartbeatConflicts, HeartbeatFails
<1>6. QED
  BY <1>1, <1>2, <1>3, <1>4, <1>5 DEF Quiet

LEMMA QuietMovesOn ==
  ASSUME DInv, NEW w \in workers, Quiet(w)
  PROVE  MovesOn(w)
<1>1. w \in Worker /\ w.t \in Targets
  BY DEF DInv, WorkersHaveLeases, Worker
<1>2. {"unknown", "failed", "succeeded", "cancelled"} = Results
  BY DEF Results, Definite
<1>3. "poll" \in Stages \ {"start"} /\ "query" \in Stages \ {"start"}
  BY DEF Stages
<1>4. CASE StartRefused(w) \/ PowerReread(w) \/ PollFails(w)
  BY <1>1, <1>2, <1>4, AnswersMoveOn DEF StartRefused, PowerReread, PollFails
<1>5. CASE PollCancel(w)
  BY <1>1, <1>2, <1>3, <1>5, StageChangeMovesOn DEF PollCancel
<1>6. CASE PollStatus(w)
  <2>1. op[w.t] \in OpStates
    BY <1>1 DEF DInv, RigTypes
  <2>2. CASE op[w.t] \in Live
    <3>1. Become(w, [w EXCEPT !.stage = "poll"])
      BY <1>6, <2>2 DEF PollStatus, Live
    <3>2. QED
      BY <1>1, <1>2, <1>3, <3>1, StageChangeMovesOn
  <2>3. CASE op[w.t] \notin Live
    <3>1. op[w.t] # "missing" => op[w.t] \in Results
      BY <1>2, <2>1, <2>3 DEF Live, OpStates, Definite
    <3>2. \/ Reports(w, "failed") \/ Reports(w, "unknown")
          \/ op[w.t] # "missing" /\ Reports(w, op[w.t])
      BY <1>6, <2>3 DEF PollStatus
    <3>3. QED
      BY <1>1, <1>2, <3>1, <3>2, AnswersMoveOn
  <2>4. QED
    BY <2>2, <2>3
<1>7. CASE FinishSaved(w) \/ FinishUnanswered(w)
  BY <1>1, <1>2, <1>3, <1>7, AnswersMoveOn, StageChangeMovesOn DEF FinishSaved, FinishUnanswered
<1>8. CASE GiveUpDeferred(w) \/ GiveUpSaved(w) \/ GiveUpUnsaved(w)
  BY <1>1, <1>2, <1>3, <1>8, StageChangeMovesOn DEF GiveUpDeferred, GiveUpSaved, GiveUpUnsaved
<1>9. CASE Beat(w)
  BY <1>1, <1>2, <1>3, <1>9, AnswersMoveOn, StageChangeMovesOn
     DEF Beat, HeartbeatHears, HeartbeatConflicts, HeartbeatFails
<1>10. QED
  BY <1>4, <1>5, <1>6, <1>7, <1>8, <1>9 DEF Quiet

LEMMA QuietPreserves ==
  ASSUME DInv, [DispatchNext]_dispatchVars, NEW w \in workers, Quiet(w)
  PROVE  DInv'
<1>1. claims' = claims /\ UNCHANGED <<starts, op, ran>>
  BY QuietSendsNothing
<1>2. CASE workers' \subseteq workers
  BY <1>1, <1>2, WorkersLeave, UnsentStep
<1>3. CASE ~ (workers' \subseteq workers)
  <2>1. PICK v \in Worker : /\ Become(w, v)
                            /\ v.t = w.t /\ v.l = w.l /\ v.reconcile = w.reconcile
                            /\ v.stage = "start" => w.stage = "start"
    BY <1>3, QuietMovesOn DEF MovesOn
  <2>2. QED
    BY <1>1, <2>1, WorkerMove, UnsentStep
<1>4. QED
  BY <1>2, <1>3
-----------------------------------------------------------------------------
(***************************************************************************)
(* Steps that send, deliver, lose or run something.                        *)
(***************************************************************************)
LEMMA ClaimPreserves ==
  ASSUME DInv, [DispatchNext]_dispatchVars, NEW t \in Targets, ClaimAndSpawn(t)
  PROVE  DInv'
<1> DEFINE new == [t |-> t, l |-> claims[t] + 1, reconcile |-> status[t] = "reconciling",
                   attempts |-> attempts[t], cancel |-> FALSE, report |-> "unknown",
                   stage |-> IF status[t] = "reconciling" /\ Recorded(t) THEN "poll" ELSE "start"]
<1>1. /\ Claim(t)
      /\ workers' = workers \cup {new}
      /\ UNCHANGED <<starts, op, ran, request>>
  BY DEF ClaimAndSpawn, Claim, rigVars
<1>2. /\ claims \in [Targets -> 0..MaxClaims] /\ claims[t] < MaxClaims
      /\ claims' = [claims EXCEPT ![t] = @ + 1]
      /\ status' = [status EXCEPT ![t] = "running"]
      /\ status \in [Targets -> Statuses \cup {"none"}]
      /\ attempts[t] \in 0..MaxAttempts
  BY <1>1 DEF Claim, DInv, IInv, TypeOK
<1>3. claims[t] \in Nat /\ claims[t] + 1 \in 1..MaxClaims
  BY <1>2, BoundsAssumption
<1>4. new \in Worker
  BY <1>2, <1>3 DEF Worker, Stages, Results
<1>5. new.t = t /\ new.l = claims[t] + 1 /\ new.reconcile = (status[t] = "reconciling")
  OBVIOUS
<1>6. status[t] # "reconciling" => claims[t] = 0
  <2>1. status[t] # "reconciling" => status[t] = "queued"
    BY <1>1 DEF Claim, Dispatchable
  <2>2. QED
    BY <2>1 DEF DInv, UnclaimedIsUntouched
<1> HIDE DEF new
<1>7. IInv'
  BY DispatchStepIsQueueStep, NextPreservesIInv DEF DInv
<1>8. RigTypes'
  BY <1>1 DEF DInv, RigTypes
<1>9. UnclaimedIsUntouched'
  <2>1. \A u \in Targets \ {t} : status'[u] = status[u] /\ claims'[u] = claims[u]
    BY <1>2
  <2>2. status'[t] = "running" /\ claims'[t] = claims[t] + 1 /\ claims'[t] # 0
    BY <1>2, <1>3
  <2>3. QED
    BY <1>1, <2>1, <2>2 DEF DInv, UnclaimedIsUntouched
<1>10. WorkersHaveLeases'
  <2>1. \A u \in Targets : claims[u] \in Nat /\ claims'[u] \in Nat /\ claims[u] <= claims'[u]
    BY <1>2, <1>3, BoundsAssumption
  <2>2. workers' \subseteq Worker
    BY <1>1, <1>4 DEF DInv, WorkersHaveLeases
  <2>3. \A x \in workers : x.t \in Targets /\ x.l \in Nat /\ x.l <= claims[x.t]
    BY BoundsAssumption DEF DInv, WorkersHaveLeases, Worker
  <2>4. \A x \in workers' : x.l <= claims'[x.t] /\ (~ x.reconcile => x.l = 1)
    <3>1. ASSUME NEW x \in workers PROVE x.l <= claims'[x.t] /\ (~ x.reconcile => x.l = 1)
      BY <2>1, <2>3 DEF DInv, WorkersHaveLeases
    <3>2. claims'[new.t] = claims[t] + 1
      BY <1>2, <1>5
    <3>3. new.l <= claims'[new.t]
      BY <1>3, <1>5, <3>2
    <3>4. ~ new.reconcile => claims[t] = 0
      BY <1>5, <1>6
    <3>5. ~ new.reconcile => new.l = 1
      BY <1>5, <3>4
    <3>6. QED
      BY <1>1, <3>1, <3>3, <3>5
  <2>5. \A x \in workers : x.t = new.t => x.l # new.l
    BY <1>3, <1>5, <2>3
  <2>6. \A x, y \in workers' : x.t = y.t /\ x.l = y.l => x = y
    BY <1>1, <2>5 DEF DInv, WorkersHaveLeases
  <2>7. QED
    BY <2>2, <2>4, <2>6 DEF WorkersHaveLeases
<1>11. RecordedOnce'
  BY <1>1 DEF DInv, RecordedOnce, Recorded, KindOf
<1>12. PowerOnce'
  <2>1. MaySend(new) => ran[t] = 0 /\ t \notin starts
    BY <1>5, <1>6 DEF MaySend, DInv, UnclaimedIsUntouched
  <2>2. QED
    BY <1>1, <1>5, <2>1 DEF DInv, PowerOnce, KindOf
<1>13. QED
  BY <1>7, <1>8, <1>9, <1>10, <1>11, <1>12 DEF DInv

\* A worker has a lease, so its target is not untouched.
LEMMA WorkerTarget ==
  ASSUME DInv, NEW w \in workers
  PROVE  /\ w \in Worker /\ w.t \in Targets /\ claims[w.t] # 0
         /\ ~ w.reconcile => w.l = 1
<1>1. w \in Worker /\ w.t \in Targets /\ w.l \in 1..MaxClaims
  BY DEF DInv, WorkersHaveLeases, Worker
<1>2. claims[w.t] \in 0..MaxClaims
  BY <1>1 DEF DInv, IInv, TypeOK
<1>3. w.l <= claims[w.t] /\ (~ w.reconcile => w.l = 1)
  BY DEF DInv, WorkersHaveLeases
<1>4. QED
  BY <1>1, <1>2, <1>3, BoundsAssumption

\* Only one worker may send the request of a target.
LEMMA OneSender ==
  ASSUME DInv, NEW w \in workers, NEW x \in workers, MaySend(w), MaySend(x), w.t = x.t
  PROVE  w = x
<1>1. w.l = 1 /\ x.l = 1
  BY DEF DInv, WorkersHaveLeases, MaySend
<1>2. QED
  BY <1>1 DEF DInv, WorkersHaveLeases

\* The invariant of the tables the requests do not touch.
LEMMA TablesKeep ==
  ASSUME DInv, [DispatchNext]_dispatchVars, UNCHANGED vars,
         op' \in [Targets -> OpStates], ran' \in [Targets -> Nat], starts' \subseteq Targets,
         \A u \in Targets : claims[u] = 0 => op'[u] = "missing" /\ ran'[u] = 0 /\ u \notin starts'
  PROVE  IInv' /\ RigTypes' /\ UnclaimedIsUntouched'
<1>1. IInv'
  BY DispatchStepIsQueueStep, NextPreservesIInv DEF DInv
<1>2. RigTypes'
  BY DEF RigTypes
<1>3. UnclaimedIsUntouched'
  BY DEF DInv, UnclaimedIsUntouched, vars
<1>4. QED
  BY <1>1, <1>2, <1>3

\* A send, answered or not: of all workers only w may send, and it has moved on.
LEMMA SenderLeavesStart ==
  ASSUME DInv, NEW w \in workers, StartAnswered(w) \/ StartUnanswered(w)
  PROVE  /\ WorkersHaveLeases'
         /\ KindOf(w.t) = "power" =>
              /\ ran[w.t] = 0 /\ op[w.t] = "missing" /\ w.t \notin starts
              /\ \A x \in workers' : x.t = w.t => ~ MaySend(x)
         /\ \A x \in workers' : MaySend(x) => \E y \in workers : y.t = x.t /\ MaySend(y)
<1>1. w \in Worker /\ w.t \in Targets /\ w.stage = "start" /\ UNCHANGED claims
  BY WorkerTarget DEF StartAnswered, StartUnanswered, vars
<1>2. KindOf(w.t) = "power" => MaySend(w)
  BY <1>1 DEF StartAnswered, StartUnanswered, NeedsBmc, MaySend
<1>3. \E v \in Worker : /\ Become(w, v)
                        /\ v.t = w.t /\ v.l = w.l /\ v.reconcile = w.reconcile
                        /\ v.stage # "start"
  <2>1. {"unknown", "succeeded"} \subseteq Results
        /\ {"poll", "giveup", "finish"} \subseteq Stages \ {"start"}
    BY DEF Results, Definite, Stages
  <2>2. \/ Become(w, [w EXCEPT !.stage = "poll"])
        \/ Become(w, [w EXCEPT !.stage = "finish", !.report = "succeeded"])
        \/ Become(w, [w EXCEPT !.stage = "giveup", !.report = "unknown"])
    BY DEF StartAnswered, StartUnanswered, Reports, Errs
  <2>3. ASSUME NEW s \in Stages \ {"start"}, NEW r \in Results
        PROVE  LET v == [w EXCEPT !.stage = s]
                   u == [w EXCEPT !.stage = s, !.report = r]
               IN /\ v \in Worker /\ v.t = w.t /\ v.l = w.l /\ v.reconcile = w.reconcile
                  /\ u \in Worker /\ u.t = w.t /\ u.l = w.l /\ u.reconcile = w.reconcile
                  /\ v.stage # "start" /\ u.stage # "start"
    BY <1>1 DEF Worker
  <2>4. QED
    BY <2>1, <2>2, <2>3
<1>4. PICK v \in Worker : /\ Become(w, v)
                          /\ v.t = w.t /\ v.l = w.l /\ v.reconcile = w.reconcile
                          /\ v.stage # "start"
  BY <1>3
<1>5. /\ WorkersHaveLeases'
      /\ \A x \in workers' : MaySend(x) => \E y \in workers : y.t = x.t /\ MaySend(y)
  BY <1>1, <1>4, WorkerMove
<1>6. MaySend(w) => \A x \in workers' : x.t = w.t => ~ MaySend(x)
  BY <1>4, OneSender DEF Become, MaySend
<1>7. KindOf(w.t) = "power" => ran[w.t] = 0 /\ op[w.t] = "missing" /\ w.t \notin starts
  BY <1>1, <1>2 DEF DInv, PowerOnce
<1>8. QED
  BY <1>2, <1>5, <1>6, <1>7

LEMMA SendPreserves ==
  ASSUME DInv, [DispatchNext]_dispatchVars, NEW w \in workers,
         StartAnswered(w) \/ StartUnanswered(w)
  PROVE  DInv'
<1> DEFINE t == w.t
<1>0. /\ t \in Targets /\ claims[t] # 0
      /\ starts \subseteq Targets /\ op \in [Targets -> OpStates] /\ ran \in [Targets -> Nat]
      /\ \A u \in Targets : claims[u] = 0 => op[u] = "missing" /\ ran[u] = 0 /\ u \notin starts
      /\ {"missing", "queued"} \subseteq OpStates
  BY WorkerTarget DEF DInv, RigTypes, UnclaimedIsUntouched, OpStates, Live
<1>1. UNCHANGED vars /\ \A u \in Targets : KindOf(u)' = KindOf(u)
  BY DEF StartAnswered, StartUnanswered, vars, KindOf
<1>2. /\ WorkersHaveLeases'
      /\ KindOf(t) = "power" =>
           /\ ran[t] = 0 /\ op[t] = "missing" /\ t \notin starts
           /\ \A x \in workers' : x.t = t => ~ MaySend(x)
      /\ \A x \in workers' : MaySend(x) => \E y \in workers : y.t = x.t /\ MaySend(y)
  BY SenderLeavesStart
<1>3. CASE StartUnanswered(w)
  <2>1. starts' = starts \cup {t} /\ UNCHANGED <<op, ran>>
    BY <1>3 DEF StartUnanswered
  <2>2. IInv' /\ RigTypes' /\ UnclaimedIsUntouched'
    BY <1>0, <1>1, <2>1, TablesKeep
  <2>3. RecordedOnce'
    BY <1>1, <2>1 DEF DInv, RecordedOnce, Recorded
  <2>4. PowerOnce'
    BY <1>1, <1>2, <2>1 DEF DInv, PowerOnce
  <2>5. QED
    BY <1>2, <2>2, <2>3, <2>4 DEF DInv
<1>4. CASE StartAnswered(w) /\ Recorded(t)
  <2>1. /\ op' = [op EXCEPT ![t] = IF @ = "missing" THEN "queued" ELSE @]
        /\ UNCHANGED <<ran, starts>>
    BY <1>4 DEF StartAnswered, Arrives
  <2>2. IInv' /\ RigTypes' /\ UnclaimedIsUntouched'
    BY <1>0, <1>1, <2>1, TablesKeep
  <2>3. \A u \in Targets : op'[u] = op[u] \/ (u = t /\ op[u] = "missing")
    BY <1>0, <2>1
  <2>4. RecordedOnce'
    BY <1>1, <2>1, <2>3 DEF DInv, RecordedOnce, Recorded
  <2>5. KindOf(t) # "power"
    BY <1>4 DEF Recorded
  <2>6. PowerOnce'
    BY <1>1, <1>2, <2>1, <2>3, <2>5 DEF DInv, PowerOnce
  <2>7. QED
    BY <1>2, <2>2, <2>4, <2>6 DEF DInv
<1>5. CASE StartAnswered(w) /\ ~ Recorded(t)
  <2>1. ran' = [ran EXCEPT ![t] = @ + 1] /\ UNCHANGED <<op, starts>>
    BY <1>5 DEF StartAnswered, Arrives
  <2>2. ran' \in [Targets -> Nat] /\ \A u \in Targets : claims[u] = 0 => ran'[u] = 0
    BY <1>0, <2>1
  <2>3. IInv' /\ RigTypes' /\ UnclaimedIsUntouched'
    BY <1>0, <1>1, <2>1, <2>2, TablesKeep
  <2>4. \A u \in Targets : IF u = t THEN ran'[u] = ran[u] + 1 ELSE ran'[u] = ran[u]
    BY <1>0, <2>1
  <2>5. RecordedOnce'
    BY <1>1, <1>5, <2>1, <2>4 DEF DInv, RecordedOnce, Recorded
  <2>6. PowerOnce'
    BY <1>1, <1>2, <2>1, <2>4 DEF DInv, PowerOnce
  <2>7. QED
    BY <1>2, <2>3, <2>5, <2>6 DEF DInv
<1>6. QED
  BY <1>3, <1>4, <1>5

LEMMA RigPreserves ==
  ASSUME DInv, [DispatchNext]_dispatchVars, NEW t \in Targets, RigStep(t)
  PROVE  DInv'
<1>0. /\ starts \subseteq Targets /\ op \in [Targets -> OpStates] /\ ran \in [Targets -> Nat]
      /\ \A u \in Targets : claims[u] = 0 => op[u] = "missing" /\ ran[u] = 0 /\ u \notin starts
      /\ OpStates = {"missing", "unknown", "queued", "running", "succeeded", "failed", "cancelled"}
  BY DEF DInv, RigTypes, UnclaimedIsUntouched, OpStates, Live, Definite
<1>1. /\ UNCHANGED vars /\ workers' = workers
      /\ \A u \in Targets : KindOf(u)' = KindOf(u)
  BY DEF RigStep, Arrive, Lose, RunnerBegins, RunnerEnds, RunnerDies, RecoverAtBoot, vars, KindOf
<1>2. WorkersHaveLeases'
  BY <1>1, WorkersLeave DEF vars
<1>3. /\ op' \in [Targets -> OpStates] /\ ran' \in [Targets -> Nat] /\ starts' \subseteq starts
      /\ \A u \in Targets \ {t} : op'[u] = op[u] /\ ran'[u] = ran[u]
  BY <1>0 DEF RigStep, Arrive, Arrives, Lose, RunnerBegins, RunnerEnds, RunnerDies, RecoverAtBoot, Definite
<1>4. claims[t] = 0 => op'[t] = "missing" /\ ran'[t] = 0
  BY <1>0 DEF RigStep, Arrive, Lose, RunnerBegins, RunnerEnds, RunnerDies, RecoverAtBoot, Live
<1>5. Recorded(t) =>
        \/ ran'[t] = ran[t] /\ (op'[t] = op[t] \/ op[t] = "missing" \/ op'[t] \notin {"missing", "queued"})
        \/ ran'[t] = ran[t] + 1 /\ op[t] = "queued" /\ op'[t] = "running"
  BY <1>0 DEF RigStep, Arrive, Arrives, Lose, RunnerBegins, RunnerEnds, RunnerDies, RecoverAtBoot, Definite
<1>6. KindOf(t) = "power" =>
        /\ op'[t] = "missing"
        /\ ran'[t] = ran[t] \/ (ran'[t] = ran[t] + 1 /\ t \in starts /\ t \notin starts')
  <2>1. ASSUME KindOf(t) = "power" PROVE op[t] = "missing" /\ ~ Recorded(t)
    BY <2>1 DEF DInv, PowerOnce, Recorded
  <2>2. QED
    BY <1>0, <2>1 DEF RigStep, Arrive, Arrives, Lose, RunnerBegins, RunnerEnds, RunnerDies, RecoverAtBoot, Live
<1>7. IInv' /\ RigTypes' /\ UnclaimedIsUntouched'
  BY <1>0, <1>1, <1>3, <1>4, TablesKeep
<1>8. RecordedOnce'
  BY <1>0, <1>1, <1>3, <1>5 DEF DInv, RecordedOnce, Recorded
<1>9. PowerOnce'
  <2>1. ASSUME NEW u \in Targets \ {t}, KindOf(u) = "power"
        PROVE  /\ ran'[u] <= 1 /\ op'[u] = "missing"
               /\ u \in starts' => ran'[u] = 0
               /\ \A w \in workers : w.t = u /\ MaySend(w) => ran'[u] = 0 /\ u \notin starts'
    BY <1>3, <2>1 DEF DInv, PowerOnce
  <2>2. ASSUME KindOf(t) = "power"
        PROVE  /\ ran'[t] <= 1 /\ op'[t] = "missing"
               /\ t \in starts' => ran'[t] = 0
               /\ \A w \in workers : w.t = t /\ MaySend(w) => ran'[t] = 0 /\ t \notin starts'
    BY <1>0, <1>3, <1>6, <2>2 DEF DInv, PowerOnce
  <2>3. QED
    BY <1>1, <2>1, <2>2 DEF PowerOnce
<1>10. QED
  BY <1>2, <1>7, <1>8, <1>9 DEF DInv
-----------------------------------------------------------------------------
LEMMA InitDInv == DispatchInit => DInv
<1> SUFFICES ASSUME DispatchInit PROVE DInv
  OBVIOUS
<1>1. IInv
  BY InitIInv DEF DispatchInit
<1>2. RigTypes
  BY DEF DispatchInit, RigTypes, OpStates
<1>3. UnclaimedIsUntouched
  BY DEF DispatchInit, Init, UnclaimedIsUntouched
<1>4. WorkersHaveLeases
  BY DEF DispatchInit, WorkersHaveLeases
<1>5. RecordedOnce /\ PowerOnce
  BY DEF DispatchInit, RecordedOnce, PowerOnce
<1>6. QED
  BY <1>1, <1>2, <1>3, <1>4, <1>5 DEF DInv

LEMMA NextPreservesDInv == DInv /\ [DispatchNext]_dispatchVars => DInv'
<1> SUFFICES ASSUME DInv, [DispatchNext]_dispatchVars PROVE DInv'
  OBVIOUS
<1> USE DEF rigVars
<1>1. CASE QueueStep
  <2>1. UNCHANGED <<claims, workers, starts, op, ran>>
    BY <1>1 DEF QueueStep, SaveMachine, DeleteMachine, SubmitJob, CancelJob, RetryTimeComes,
                ExpireLeases, queueVars
  <2>2. QED
    BY <2>1, WorkersLeave, UnsentStep
<1>2. ASSUME NEW t \in Targets, ClaimAndSpawn(t) PROVE DInv'
  BY <1>2, ClaimPreserves
<1>3. ASSUME NEW t \in Targets, RigStep(t) PROVE DInv'
  BY <1>3, RigPreserves
<1>4. ASSUME NEW w \in workers, Advance(w) \/ Beat(w) PROVE DInv'
  BY <1>4, QuietPreserves, SendPreserves DEF Advance, Quiet
<1>5. ASSUME NEW t \in Targets, NEW d, OperatorSettles(t, d) PROVE DInv'
  <2>1. UNCHANGED <<claims, workers, starts, op, ran>>
    BY <1>5 DEF OperatorSettles, ResolveTarget
  <2>2. QED
    BY <2>1, WorkersLeave, UnsentStep
<1>6. CASE Restart
  <2>1. UNCHANGED <<claims, starts, op, ran>> /\ workers' \subseteq workers
    BY <1>6 DEF Restart, vars
  <2>2. QED
    BY <2>1, WorkersLeave, UnsentStep
<1>7. ASSUME NEW m \in Machines, RemoveBmc(m) PROVE DInv'
  <2>1. UNCHANGED <<claims, workers, starts, op, ran>>
    BY <1>7 DEF RemoveBmc, vars
  <2>2. QED
    BY <2>1, WorkersLeave, UnsentStep
<1>8. CASE UNCHANGED dispatchVars
  <2>1. UNCHANGED <<claims, workers, starts, op, ran>>
    BY <1>8 DEF dispatchVars, vars
  <2>2. QED
    BY <2>1, WorkersLeave, UnsentStep
<1>9. QED
  BY <1>1, <1>2, <1>3, <1>4, <1>5, <1>6, <1>7, <1>8 DEF DispatchNext

LEMMA DispatchInvariantHolds == DispatchSpec => []DInv
BY InitDInv, NextPreservesDInv, PTL DEF DispatchSpec

(***************************************************************************)
(* The controller implements the queue's specification: late workers,      *)
(* restarts, lost calls and lost writes make no queue step that JobQueue   *)
(* does not have.  So every theorem about Spec holds of the controller.    *)
(***************************************************************************)
THEOREM DispatchImplementsQueue == DispatchSpec => Spec
<1>1. DispatchInit => Init
  BY DEF DispatchInit
<1>2. DInv /\ [DispatchNext]_dispatchVars => [Next]_vars
  BY DispatchStepIsQueueStep DEF DInv
<1>3. QED
  BY <1>1, <1>2, DispatchInvariantHolds, PTL DEF DispatchSpec, Spec

(***************************************************************************)
(* In particular a settled outcome is final, and the queue's exclusion per *)
(* machine holds, with the real workers and rigs.                          *)
(***************************************************************************)
THEOREM DispatchKeepsQueuePromises ==
  DispatchSpec => []LockMeansUnsettled /\ []OneUnsettledPerMachine /\ SettledStays
BY DispatchImplementsQueue, LockTableIsExact, MachineIsExclusive, OutcomesAreFinal, PTL

(***************************************************************************)
(* The action of a target is begun at most once, however many leases are   *)
(* handed out for it and whether or not stale workers are fenced off:      *)
(* recorded operations are deduplicated by the rig's record, and a power   *)
(* request is sent only under the first lease.                             *)
(***************************************************************************)
THEOREM BegunAtMostOnce == DispatchSpec => []AtMostOnce
<1>1. ASSUME DInv, NEW t \in Targets, KindOf(t) # "bootstrap" PROVE ran[t] <= 1
  BY <1>1 DEF DInv, RecordedOnce, PowerOnce, Recorded
<1>2. DInv => AtMostOnce
  BY <1>1 DEF AtMostOnce
<1>3. QED
  BY <1>2, DispatchInvariantHolds, PTL
-----------------------------------------------------------------------------
(***************************************************************************)
(* No request is sent without a lease of its own: what was begun, what is  *)
(* on the wire, what waits on the rig and what a worker is about to send   *)
(* never come to more than the leases handed out.  This holds of every     *)
(* kind of target, bootstrap included, which nothing deduplicates; it is   *)
(* also what the type of ran rests on.                                     *)
(***************************************************************************)
Unsent(t) == {l \in 1..MaxClaims : \E w \in workers : w.t = t /\ w.l = l /\ w.stage = "start"}
OnTheWire(t) == IF t \in starts THEN 1 ELSE 0
Queued(t) == IF op[t] = "queued" THEN 1 ELSE 0

OncePerLease ==
  \A t \in Targets : ran[t] + OnTheWire(t) + Queued(t) + Cardinality(Unsent(t)) <= claims[t]

LEMMA LeasesAreFinite ==
  ASSUME NEW S \in SUBSET (1..MaxClaims)
  PROVE  IsFiniteSet(S) /\ Cardinality(S) \in Nat
<1>1. IsFiniteSet(1..MaxClaims)
  BY BoundsAssumption, FS_Interval
<1>2. IsFiniteSet(S)
  BY <1>1, FS_Subset
<1>3. QED
  BY <1>2, FS_CardinalityType

LEMMA Counted ==
  ASSUME DInv
  PROVE  \A t \in Targets :
           /\ ran[t] \in Nat /\ claims[t] \in Nat /\ claims[t] <= MaxClaims
           /\ OnTheWire(t) \in {0, 1} /\ Queued(t) \in {0, 1}
           /\ Cardinality(Unsent(t)) \in Nat
<1> TAKE t \in Targets
<1>1. ran[t] \in Nat /\ claims[t] \in 0..MaxClaims /\ MaxClaims \in Nat
  BY BoundsAssumption DEF DInv, IInv, TypeOK, RigTypes
<1>2. Unsent(t) \in SUBSET (1..MaxClaims)
  BY DEF Unsent
<1>3. Cardinality(Unsent(t)) \in Nat
  BY <1>2, LeasesAreFinite
<1>4. QED
  BY <1>1, <1>3 DEF OnTheWire, Queued

\* No worker comes to the start, nothing to the wire or the queue of a rig.
LEMMA NothingMoreToSend ==
  ASSUME DInv, DInv', OncePerLease, UNCHANGED <<claims, ran>>, starts' \subseteq starts,
         \A t \in Targets : op'[t] = "queued" => op[t] = "queued",
         \A x \in workers' : x.stage = "start" =>
           \E y \in workers : y.t = x.t /\ y.l = x.l /\ y.stage = "start"
  PROVE  OncePerLease'
<1>. SUFFICES ASSUME NEW t \in Targets
              PROVE  ran'[t] + OnTheWire(t)' + Queued(t)' + Cardinality(Unsent(t)') <= claims'[t]
  BY DEF OncePerLease
<1>1. PICK S, T : S = Unsent(t) /\ T = Unsent(t)'
  OBVIOUS
<1>2. S \in SUBSET (1..MaxClaims) /\ T \subseteq S
  BY <1>1 DEF Unsent
<1>3. IsFiniteSet(S) /\ Cardinality(S) \in Nat /\ Cardinality(T) \in Nat
  BY <1>2, LeasesAreFinite
<1>4. Cardinality(T) <= Cardinality(S)
  BY <1>2, <1>3, FS_Subset
<1>5. PICK a, b, c, d : a = OnTheWire(t) /\ b = OnTheWire(t)' /\ c = Queued(t) /\ d = Queued(t)'
  OBVIOUS
<1>6. a \in {0, 1} /\ b \in {0, 1} /\ b <= a /\ c \in {0, 1} /\ d \in {0, 1} /\ d <= c
  BY <1>5 DEF OnTheWire, Queued
<1>7. ran[t] \in Nat /\ claims[t] \in Nat /\ ran'[t] = ran[t] /\ claims'[t] = claims[t]
  BY Counted
<1>8. ran[t] + a + c + Cardinality(S) <= claims[t]
  BY <1>1, <1>5 DEF OncePerLease
<1>9. ran'[t] + b + d + Cardinality(T) <= claims'[t]
  BY <1>3, <1>4, <1>6, <1>7, <1>8
<1>10. QED
  BY <1>1, <1>5, <1>9

LEMMA QuietSendsNoMore ==
  ASSUME DInv, DInv', OncePerLease, NEW w \in workers, Quiet(w)
  PROVE  OncePerLease'
<1>1. UNCHANGED <<claims, starts, op, ran>>
  BY QuietSendsNothing
<1>2. \A x \in workers' : x.stage = "start" =>
        \E y \in workers : y.t = x.t /\ y.l = x.l /\ y.stage = "start"
  BY QuietMovesOn DEF MovesOn, Become
<1>3. QED
  BY <1>1, <1>2, NothingMoreToSend

\* A lease more, and one request it may be for.
LEMMA ClaimSendsOne ==
  ASSUME DInv, DInv', OncePerLease, NEW u \in Targets, ClaimAndSpawn(u)
  PROVE  OncePerLease'
<1>. SUFFICES ASSUME NEW t \in Targets
              PROVE  ran'[t] + OnTheWire(t)' + Queued(t)' + Cardinality(Unsent(t)') <= claims'[t]
  BY DEF OncePerLease
<1>1. /\ UNCHANGED <<starts, op, ran>> /\ claims \in [Targets -> 0..MaxClaims]
      /\ claims' = [claims EXCEPT ![u] = claims[u] + 1]
  BY DEF ClaimAndSpawn, Claim, rigVars, DInv, IInv, TypeOK
<1>2. ran[t] + OnTheWire(t) + Queued(t) + Cardinality(Unsent(t)) <= claims[t]
  BY DEF OncePerLease
<1>3. OnTheWire(t)' = OnTheWire(t) /\ Queued(t)' = Queued(t) /\ ran'[t] = ran[t]
  BY <1>1 DEF OnTheWire, Queued
<1>4. /\ ran[t] \in Nat /\ claims[t] \in Nat /\ OnTheWire(t) \in {0, 1} /\ Queued(t) \in {0, 1}
  BY Counted
<1>5. PICK new : /\ workers' = workers \cup {new}
                 /\ new.t = u /\ new.l = claims[u] + 1
  <2> DEFINE r == [t |-> u, l |-> claims[u] + 1, reconcile |-> status[u] = "reconciling",
                   attempts |-> attempts[u], cancel |-> FALSE, report |-> "unknown",
                   stage |-> IF status[u] = "reconciling" /\ Recorded(u) THEN "poll" ELSE "start"]
  <2>1. workers' = workers \cup {r}
    BY DEF ClaimAndSpawn
  <2>2. r.t = u /\ r.l = claims[u] + 1
    OBVIOUS
  <2> HIDE DEF r
  <2>3. QED
    BY <2>1, <2>2
<1>6. PICK S, T : S = Unsent(t) /\ T = Unsent(t)'
  OBVIOUS
<1>7. S \in SUBSET (1..MaxClaims) /\ T \in SUBSET (1..MaxClaims)
  BY <1>6 DEF Unsent
<1>8. IsFiniteSet(S) /\ Cardinality(S) \in Nat /\ Cardinality(T) \in Nat
  BY <1>7, LeasesAreFinite
<1>9. CASE t = u
  <2>1. T \subseteq S \cup {claims[u] + 1}
    BY <1>5, <1>6 DEF Unsent
  <2>2. /\ IsFiniteSet(S \cup {claims[u] + 1})
        /\ Cardinality(S \cup {claims[u] + 1}) <= Cardinality(S) + 1
    BY <1>8, FS_AddElement
  <2>3. Cardinality(S \cup {claims[u] + 1}) \in Nat
    BY <2>2, FS_CardinalityType
  <2>4. Cardinality(T) <= Cardinality(S \cup {claims[u] + 1})
    BY <2>1, <2>2, FS_Subset
  <2>5. Cardinality(T) <= Cardinality(S) + 1
    BY <1>8, <2>2, <2>3, <2>4
  <2>6. claims'[t] = claims[t] + 1
    BY <1>1, <1>9
  <2>7. QED
    BY <1>2, <1>3, <1>4, <1>6, <1>8, <2>5, <2>6
<1>10. CASE t # u
  <2>1. T \subseteq S
    BY <1>5, <1>6, <1>10 DEF Unsent
  <2>2. Cardinality(T) <= Cardinality(S)
    BY <1>8, <2>1, FS_Subset
  <2>3. claims'[t] = claims[t]
    BY <1>1, <1>10
  <2>4. QED
    BY <1>2, <1>3, <1>4, <1>6, <1>8, <2>2, <2>3
<1>11. QED
  BY <1>9, <1>10

\* What a request does on arrival counts for one.
LEMMA ArrivalIsOne ==
  ASSUME DInv, NEW u \in Targets, Arrives(u), NEW t \in Targets
  PROVE  /\ ran'[t] \in Nat
         /\ ran'[t] + Queued(t)' <= ran[t] + Queued(t) + (IF t = u THEN 1 ELSE 0)
<1>1. ran \in [Targets -> Nat] /\ op \in [Targets -> OpStates]
  BY DEF DInv, RigTypes
<1>2. CASE Recorded(u)
  <2>1. op' = [op EXCEPT ![u] = IF @ = "missing" THEN "queued" ELSE @] /\ ran' = ran
    BY <1>2 DEF Arrives
  <2>2. Queued(t)' <= Queued(t) + (IF t = u THEN 1 ELSE 0) /\ Queued(t) \in {0, 1} /\ Queued(t)' \in {0, 1}
    BY <1>1, <2>1 DEF Queued
  <2>3. QED
    BY <1>1, <2>1, <2>2
<1>3. CASE ~Recorded(u)
  <2>1. ran' = [ran EXCEPT ![u] = @ + 1] /\ op' = op
    BY <1>3 DEF Arrives
  <2>2. ran'[t] = ran[t] + (IF t = u THEN 1 ELSE 0) /\ ran[t] \in Nat
    BY <1>1, <2>1
  <2>3. Queued(t)' = Queued(t) /\ Queued(t) \in {0, 1}
    BY <2>1 DEF Queued
  <2>4. QED
    BY <2>2, <2>3
<1>4. QED
  BY <1>2, <1>3

\* A worker that sends has left the start, and its lease is its own.
LEMMA SenderSpendsItsLease ==
  ASSUME DInv, NEW w \in workers, StartAnswered(w) \/ StartUnanswered(w), NEW t \in Targets
  PROVE  /\ Cardinality(Unsent(t)') \in Nat
         /\ Cardinality(Unsent(t)') + (IF t = w.t THEN 1 ELSE 0) <= Cardinality(Unsent(t))
<1>1. w \in Worker /\ w.t \in Targets /\ w.stage = "start"
  BY WorkerTarget DEF StartAnswered, StartUnanswered
<1>2. PICK v : workers' = (workers \ {w}) \cup {v} /\ v.t = w.t /\ v.stage # "start"
  <2>1. \/ Become(w, [w EXCEPT !.stage = "poll"])
        \/ Become(w, [w EXCEPT !.stage = "finish", !.report = "succeeded"])
        \/ Become(w, [w EXCEPT !.stage = "giveup", !.report = "unknown"])
    BY DEF StartAnswered, StartUnanswered, Reports, Errs
  <2>2. ASSUME NEW v, Become(w, v), v.t = w.t, v.stage # "start"
        PROVE  \E x : workers' = (workers \ {w}) \cup {x} /\ x.t = w.t /\ x.stage # "start"
    BY <2>2 DEF Become
  <2>3. /\ [w EXCEPT !.stage = "poll"].t = w.t
        /\ [w EXCEPT !.stage = "poll"].stage # "start"
    BY <1>1 DEF Worker
  <2>4. /\ [w EXCEPT !.stage = "finish", !.report = "succeeded"].t = w.t
        /\ [w EXCEPT !.stage = "finish", !.report = "succeeded"].stage # "start"
    BY <1>1 DEF Worker
  <2>5. /\ [w EXCEPT !.stage = "giveup", !.report = "unknown"].t = w.t
        /\ [w EXCEPT !.stage = "giveup", !.report = "unknown"].stage # "start"
    BY <1>1 DEF Worker
  <2>6. QED
    BY <2>1, <2>2, <2>3, <2>4, <2>5
<1>3. PICK S, T : S = Unsent(t) /\ T = Unsent(t)'
  OBVIOUS
<1>4. S \in SUBSET (1..MaxClaims) /\ T \in SUBSET (1..MaxClaims)
  BY <1>3 DEF Unsent
<1>5. IsFiniteSet(S) /\ Cardinality(S) \in Nat /\ Cardinality(T) \in Nat
  BY <1>4, LeasesAreFinite
<1>6. CASE t = w.t
  <2>1. w.l \in S
    BY <1>1, <1>3, <1>6 DEF Unsent, Worker
  <2>2. T \subseteq S \ {w.l}
    <3>1. \A x \in workers : x.t = w.t /\ x.l = w.l => x = w
      BY DEF DInv, WorkersHaveLeases
    <3>2. QED
      BY <1>2, <1>3, <1>6, <3>1 DEF Unsent
  <2>3. IsFiniteSet(S \ {w.l}) /\ Cardinality(S \ {w.l}) = Cardinality(S) - 1
    BY <1>5, <2>1, FS_RemoveElement
  <2>4. Cardinality(T) <= Cardinality(S \ {w.l})
    BY <2>2, <2>3, FS_Subset
  <2>5. QED
    BY <1>3, <1>5, <1>6, <2>3, <2>4
<1>7. CASE t # w.t
  <2>1. T \subseteq S
    BY <1>2, <1>3, <1>7 DEF Unsent
  <2>2. Cardinality(T) <= Cardinality(S)
    BY <1>5, <2>1, FS_Subset
  <2>3. QED
    BY <1>3, <1>5, <1>7, <2>2
<1>8. QED
  BY <1>6, <1>7

LEMMA SendSpendsOne ==
  ASSUME DInv, OncePerLease, NEW w \in workers, StartAnswered(w) \/ StartUnanswered(w)
  PROVE  OncePerLease'
<1>. SUFFICES ASSUME NEW t \in Targets
              PROVE  ran'[t] + OnTheWire(t)' + Queued(t)' + Cardinality(Unsent(t)') <= claims'[t]
  BY DEF OncePerLease
<1>. DEFINE one == IF t = w.t THEN 1 ELSE 0
<1>1. PICK n, m : n = Cardinality(Unsent(t)) /\ m = Cardinality(Unsent(t)')
  OBVIOUS
<1>2. n \in Nat /\ m \in Nat /\ m + one <= n
  BY <1>1, Counted, SenderSpendsItsLease
<1>3. /\ ran[t] + OnTheWire(t) + Queued(t) + n <= claims[t] /\ claims' = claims
      /\ ran[t] \in Nat /\ claims[t] \in Nat /\ OnTheWire(t) \in {0, 1} /\ Queued(t) \in {0, 1}
      /\ w.t \in Targets
  BY <1>1, Counted, WorkerTarget DEF OncePerLease, StartAnswered, StartUnanswered, vars
<1>4. CASE StartAnswered(w)
  <2>1. ran'[t] \in Nat /\ ran'[t] + Queued(t)' <= ran[t] + Queued(t) + one
    BY <1>3, <1>4, ArrivalIsOne DEF StartAnswered
  <2>2. OnTheWire(t)' = OnTheWire(t) /\ Queued(t)' \in {0, 1} /\ one \in {0, 1}
    BY <1>4 DEF StartAnswered, OnTheWire, Queued
  <2>. HIDE DEF one
  <2>3. QED
    BY <1>1, <1>2, <1>3, <2>1, <2>2
<1>5. CASE StartUnanswered(w)
  <2>1. ran' = ran /\ Queued(t)' = Queued(t)
    BY <1>5 DEF StartUnanswered, Queued
  <2>2. OnTheWire(t)' \in {0, 1} /\ OnTheWire(t)' <= OnTheWire(t) + one /\ one \in {0, 1}
    BY <1>5 DEF StartUnanswered, OnTheWire
  <2>. HIDE DEF one
  <2>3. QED
    BY <1>1, <1>2, <1>3, <2>1, <2>2
<1>6. QED
  BY <1>4, <1>5

LEMMA RigSpendsWhatIsSent ==
  ASSUME DInv, DInv', OncePerLease, NEW u \in Targets, RigStep(u)
  PROVE  OncePerLease'
<1>1. workers' = workers /\ claims' = claims
  BY DEF RigStep, Arrive, Lose, RunnerBegins, RunnerEnds, RunnerDies, RecoverAtBoot, vars
<1>2. \A t \in Targets : Unsent(t)' = Unsent(t)
  BY <1>1 DEF Unsent
<1>3. /\ ran \in [Targets -> Nat] /\ op \in [Targets -> OpStates]
      /\ \A t \in Targets : OnTheWire(t)' \in {0, 1} /\ Queued(t)' \in {0, 1}
  BY DEF DInv, RigTypes, OnTheWire, Queued
<1>4. CASE Arrive(u)
  <2>1. ASSUME NEW t \in Targets
        PROVE  ran'[t] + OnTheWire(t)' + Queued(t)' + Cardinality(Unsent(t)') <= claims'[t]
    <3>. DEFINE one == IF t = u THEN 1 ELSE 0
    <3>1. ran'[t] \in Nat /\ ran'[t] + Queued(t)' <= ran[t] + Queued(t) + one
      BY <1>4, ArrivalIsOne DEF Arrive
    <3>2. OnTheWire(t)' + one = OnTheWire(t) /\ one \in {0, 1}
      BY <1>4 DEF Arrive, OnTheWire
    <3>3. /\ ran[t] + OnTheWire(t) + Queued(t) + Cardinality(Unsent(t)) <= claims[t]
          /\ ran[t] \in Nat /\ claims[t] \in Nat /\ OnTheWire(t) \in {0, 1} /\ Queued(t) \in {0, 1}
          /\ Cardinality(Unsent(t)) \in Nat
      BY Counted DEF OncePerLease
    <3>. HIDE DEF one
    <3>4. PICK n : n = Cardinality(Unsent(t))
      OBVIOUS
    <3>5. QED
      BY <1>1, <1>2, <1>3, <3>1, <3>2, <3>3, <3>4
  <2>2. QED
    BY <2>1 DEF OncePerLease
<1>5. CASE RunnerBegins(u)
  <2>1. ASSUME NEW t \in Targets
        PROVE  ran'[t] + OnTheWire(t)' + Queued(t)' + Cardinality(Unsent(t)') <= claims'[t]
    <3>1. ran'[t] + Queued(t)' <= ran[t] + Queued(t) /\ ran'[t] \in Nat
      <4>1. CASE t = u
        <5>1. Queued(t) = 1 /\ Queued(t)' = 0
          BY <1>3, <1>5, <4>1 DEF RunnerBegins, Queued
        <5>2. ran[t] \in Nat /\ ran'[t] \in {ran[t], ran[t] + 1}
          BY <1>3, <1>5, <4>1 DEF RunnerBegins
        <5>3. QED
          BY <5>1, <5>2
      <4>2. CASE t # u
        <5>1. ran[t] \in Nat /\ ran'[t] = ran[t] /\ op'[t] = op[t]
          BY <1>3, <1>5, <4>2 DEF RunnerBegins
        <5>2. Queued(t)' = Queued(t) /\ Queued(t) \in {0, 1}
          BY <5>1 DEF Queued
        <5>3. QED
          BY <5>1, <5>2
      <4>3. QED
        BY <4>1, <4>2
    <3>2. OnTheWire(t)' = OnTheWire(t)
      BY <1>5 DEF RunnerBegins, OnTheWire
    <3>3. /\ ran[t] + OnTheWire(t) + Queued(t) + Cardinality(Unsent(t)) <= claims[t]
          /\ ran[t] \in Nat /\ claims[t] \in Nat /\ OnTheWire(t) \in {0, 1} /\ Queued(t) \in {0, 1}
          /\ Cardinality(Unsent(t)) \in Nat
      BY Counted DEF OncePerLease
    <3>4. QED
      BY <1>1, <1>2, <1>3, <3>1, <3>2, <3>3
  <2>2. QED
    BY <2>1 DEF OncePerLease
<1>6. CASE Lose(u) \/ RunnerEnds(u) \/ RunnerDies(u) \/ RecoverAtBoot(u)
  <2>1. ran' = ran /\ starts' \subseteq starts
    BY <1>6 DEF Lose, RunnerEnds, RunnerDies, RecoverAtBoot
  <2>2. \A t \in Targets : op'[t] = "queued" => op[t] = "queued"
    BY <1>3, <1>6 DEF Lose, RunnerEnds, RunnerDies, RecoverAtBoot, Definite
  <2>3. QED
    BY <1>1, <2>1, <2>2, NothingMoreToSend
<1>7. QED
  BY <1>4, <1>5, <1>6 DEF RigStep

LEMMA NextKeepsOncePerLease ==
  DInv /\ OncePerLease /\ [DispatchNext]_dispatchVars => OncePerLease'
<1>. SUFFICES ASSUME DInv, OncePerLease, [DispatchNext]_dispatchVars PROVE OncePerLease'
  OBVIOUS
<1>0. DInv'
  BY NextPreservesDInv
<1>. USE DEF rigVars
<1>1. CASE \/ QueueStep \/ UNCHANGED dispatchVars \/ \E m \in Machines : RemoveBmc(m)
           \/ \E t \in Targets, d \in Definite \cup {"reconcile"} : OperatorSettles(t, d)
  <2>1. UNCHANGED <<claims, workers, starts, op, ran>>
    BY <1>1 DEF QueueStep, SaveMachine, DeleteMachine, SubmitJob, CancelJob, RetryTimeComes,
                ExpireLeases, queueVars, dispatchVars, RemoveBmc, OperatorSettles, ResolveTarget, vars
  <2>2. QED
    BY <1>0, <2>1, NothingMoreToSend
<1>2. CASE Restart
  <2>1. UNCHANGED <<claims, starts, op, ran>> /\ workers' = {}
    BY <1>2 DEF Restart, vars
  <2>2. QED
    BY <1>0, <2>1, NothingMoreToSend
<1>3. ASSUME NEW t \in Targets, ClaimAndSpawn(t) PROVE OncePerLease'
  BY <1>0, <1>3, ClaimSendsOne
<1>4. ASSUME NEW t \in Targets, RigStep(t) PROVE OncePerLease'
  BY <1>0, <1>4, RigSpendsWhatIsSent
<1>5. ASSUME NEW w \in workers, Advance(w) \/ Beat(w) PROVE OncePerLease'
  BY <1>0, <1>5, QuietSendsNoMore, SendSpendsOne DEF Advance, Quiet
<1>6. QED
  BY <1>1, <1>2, <1>3, <1>4, <1>5 DEF DispatchNext

LEMMA InitOncePerLease == DispatchInit => OncePerLease
<1>. SUFFICES ASSUME DispatchInit, NEW t \in Targets
              PROVE  ran[t] + OnTheWire(t) + Queued(t) + Cardinality(Unsent(t)) <= claims[t]
  BY DEF OncePerLease
<1>1. Unsent(t) = {}
  BY DEF DispatchInit, Unsent
<1>2. ran[t] = 0 /\ OnTheWire(t) = 0 /\ Queued(t) = 0 /\ claims[t] = 0
  BY DEF DispatchInit, Init, OnTheWire, Queued
<1>3. QED
  BY <1>1, <1>2, FS_EmptySet

(***************************************************************************)
(* No action, of whatever kind, is begun more often than its target was    *)
(* claimed: stale workers and late requests add nothing to that.           *)
(***************************************************************************)
THEOREM BegunOncePerLease == DispatchSpec => [](\A t \in Targets : ran[t] <= claims[t])
<1>1. ASSUME DInv, OncePerLease, NEW t \in Targets PROVE ran[t] <= claims[t]
  <2>1. PICK a, c, n : a = OnTheWire(t) /\ c = Queued(t) /\ n = Cardinality(Unsent(t))
    OBVIOUS
  <2>2. a \in {0, 1} /\ c \in {0, 1} /\ n \in Nat /\ ran[t] \in Nat /\ claims[t] \in Nat
    BY <1>1, <2>1, Counted
  <2>3. ran[t] + a + c + n <= claims[t]
    BY <1>1, <2>1 DEF OncePerLease
  <2>4. QED
    BY <2>2, <2>3
<1>2. DInv /\ OncePerLease => \A t \in Targets : ran[t] <= claims[t]
  BY <1>1
<1>3. QED
  BY <1>2, InitDInv, NextPreservesDInv, InitOncePerLease, NextKeepsOncePerLease, PTL DEF DispatchSpec

\* The types of what only the rig, the settings and the operators change.
OtherTypes ==
  cancelFile \in [Targets -> BOOLEAN] /\ hasBmc \in [Machines -> BOOLEAN] /\ byHand \in SUBSET Targets

LEMMA NextKeepsOtherTypes == DInv /\ OtherTypes /\ [DispatchNext]_dispatchVars => OtherTypes'
<1>. SUFFICES ASSUME DInv, OtherTypes, [DispatchNext]_dispatchVars PROVE OtherTypes'
  OBVIOUS
<1>. USE DEF OtherTypes, rigVars
<1>1. CASE QueueStep \/ Restart \/ UNCHANGED dispatchVars
  BY <1>1 DEF QueueStep, Restart, dispatchVars
<1>2. ASSUME NEW m \in Machines, RemoveBmc(m) PROVE OtherTypes'
  BY <1>2 DEF RemoveBmc
<1>3. ASSUME NEW t \in Targets, NEW d, OperatorSettles(t, d) PROVE OtherTypes'
  BY <1>3 DEF OperatorSettles
<1>4. ASSUME NEW t \in Targets, ClaimAndSpawn(t) PROVE OtherTypes'
  BY <1>4 DEF ClaimAndSpawn
<1>5. ASSUME NEW t \in Targets, RigStep(t) PROVE OtherTypes'
  BY <1>5 DEF RigStep, Arrive, Lose, RunnerBegins, RunnerEnds, RunnerDies, RecoverAtBoot
<1>6. ASSUME NEW w \in workers, Advance(w) PROVE OtherTypes'
  BY <1>6 DEF Advance, StartAnswered, StartUnanswered, StartRefused, PowerReread, PollCancel,
       PollStatus, PollFails, FinishSaved, FinishUnanswered, GiveUpDeferred, GiveUpSaved, GiveUpUnsaved
<1>7. ASSUME NEW w \in workers, Beat(w) PROVE OtherTypes'
  BY <1>7 DEF Beat, HeartbeatHears, HeartbeatConflicts, HeartbeatFails
<1>8. QED
  BY <1>1, <1>2, <1>3, <1>4, <1>5, <1>6, <1>7 DEF DispatchNext

\* Type correctness, the number of leases as a bound of what is begun included.
THEOREM DispatchTypesHold == DispatchSpec => []DispatchTypeOK
<1>1. DispatchInit => OtherTypes
  BY DEF DispatchInit, OtherTypes
<1>2. ASSUME DInv, OtherTypes, \A t \in Targets : ran[t] <= claims[t]
      PROVE  DispatchTypeOK
  <2>1. \A t \in Targets : ran[t] \in Nat /\ claims[t] \in Nat /\ claims[t] <= MaxClaims
    BY <1>2, Counted
  <2>2. \A t \in Targets : ran[t] \in 0..MaxClaims
    BY <1>2, <2>1, BoundsAssumption
  <2>3. QED
    BY <1>2, <2>2 DEF DispatchTypeOK, DInv, RigTypes, WorkersHaveLeases, OtherTypes
<1>3. DispatchSpec => []OtherTypes
  BY <1>1, NextKeepsOtherTypes, InitDInv, NextPreservesDInv, PTL DEF DispatchSpec
<1>4. QED
  BY <1>2, <1>3, BegunOncePerLease, DispatchInvariantHolds, PTL
-----------------------------------------------------------------------------
(***************************************************************************)
(* Under the code's timing (Fenced) a target has one worker at a time, and *)
(* work under way keeps it unsettled.  The report of a worker, and the     *)
(* status made of it, is what happened, as long as the settings of a BMC   *)
(* do not change under a power target.                                     *)
(***************************************************************************)
UnderWay(t) == t \in starts \/ op[t] \in Live

IsTrue(t, r) ==
  /\ r = "succeeded" => IF Recorded(t) THEN op[t] = "succeeded" ELSE ran[t] > 0
  /\ r = "failed" => IF Recorded(t) THEN op[t] \in {"missing", "failed"} ELSE ran[t] = 0
  /\ r = "cancelled" => op[t] \in {"missing", "cancelled"} /\ t \notin starts

Reporting(w) == w.stage \in {"finish", "giveup"}

WorkerKnows(w) ==
  /\ w.t \in starts => w.stage = "giveup" /\ w.report = "unknown"
  /\ w.stage = "start" => status[w.t] \in Held /\ (Recorded(w.t) => op[w.t] = "missing")
  /\ w.stage \in {"poll", "query"} => Recorded(w.t)
  /\ Reporting(w) /\ w.report # "unknown" => op[w.t] \notin Live
  /\ ~ BmcEdits /\ Reporting(w) => IsTrue(w.t, w.report)

TargetIsHonest(t) ==
  /\ ~ Recorded(t) => op[t] = "missing"
  /\ UnderWay(t) => status[t] \in Held
  /\ ~ BmcEdits => hasBmc[MachineOf(t)] /\ (t \notin byHand => IsTrue(t, status[t]))

OneWorkerEach == \A w, x \in workers : w.t = x.t => w = x

FencedInv ==
  /\ DInv
  /\ OneWorkerEach
  /\ \A w \in workers : WorkerKnows(w)
  /\ \A t \in Targets : TargetIsHonest(t)

\* Nothing of t's work has changed.
SameWork(t) ==
  /\ op'[t] = op[t] /\ ran'[t] = ran[t]
  /\ t \in starts' <=> t \in starts
  /\ request'[JobOf(t)] = request[JobOf(t)]

LEMMA WorkerStillKnows ==
  ASSUME NEW w, WorkerKnows(w), SameWork(w.t),
         w.stage = "start" /\ status[w.t] \in Held => status'[w.t] \in Held
  PROVE  WorkerKnows(w)'
BY DEF WorkerKnows, SameWork, IsTrue, Reporting, Recorded, KindOf

LEMMA TargetStaysHonest ==
  ASSUME NEW t \in Targets, TargetIsHonest(t), SameWork(t),
         status[t] \in Held => status'[t] \in Held,
         status'[t] \in Definite => status'[t] = status[t],
         hasBmc' = hasBmc, t \in byHand' <=> t \in byHand
  PROVE  TargetIsHonest(t)'
BY DEF TargetIsHonest, SameWork, IsTrue, UnderWay, Recorded, KindOf, Definite

LEMMA FencedInitInv == DispatchInit => FencedInv
<1> SUFFICES ASSUME DispatchInit PROVE FencedInv
  OBVIOUS
<1>1. OneWorkerEach /\ \A w \in workers : WorkerKnows(w)
  BY DEF DispatchInit, OneWorkerEach
<1>2. ASSUME NEW t \in Targets PROVE TargetIsHonest(t)
  <2>1. MachineOf(t) \in Machines
    BY TargetParts
  <2>2. QED
    BY <2>1 DEF DispatchInit, Init, TargetIsHonest, UnderWay, IsTrue, Live
<1>3. QED
  BY <1>1, <1>2, InitDInv DEF FencedInv

\* A target nothing was ever done for, whatever job it belongs to.
LEMMA FreshIsHonest ==
  ASSUME NEW t \in Targets, TargetIsHonest(t), op[t] = "missing", t \notin starts,
         UNCHANGED <<op, starts, hasBmc, byHand>>, status'[t] \notin {"succeeded", "failed"}
  PROVE  TargetIsHonest(t)'
BY DEF TargetIsHonest, IsTrue, UnderWay, Live

\* What the administrator, the scheduler and the clock do to a status.
LEMMA QueueStepStatus ==
  ASSUME IInv, QueueStep, NEW t \in Targets
  PROVE  \/ status'[t] = status[t]
         \/ status[t] = "none" /\ status'[t] = "queued"
         \/ status[t] = "queued" /\ status'[t] = "cancelled"
         \/ status[t] = "running" /\ status'[t] = "reconciling"
<1>0. status \in [Targets -> Statuses \cup {"none"}]
  BY DEF IInv, TypeOK
<1>1. ASSUME NEW key, NEW kind, NEW ms, NEW include, SubmitJob(key, kind, ms, include)
      PROVE  status'[t] = status[t] \/ (status[t] = "none" /\ status'[t] = "queued")
  <2>1. njobs \in Nat /\ njobs + 1 > njobs
    BY DEF IInv, TypeOK
  <2>2. JobOf(t) = njobs + 1 => status[t] = "none"
    BY <2>1 DEF IInv, UnbornHaveNoRows
  <2>3. QED
    BY <1>0, <1>1, <2>2 DEF SubmitJob
<1>2. ASSUME NEW j, CancelJob(j)
      PROVE  status'[t] = status[t] \/ (status[t] = "queued" /\ status'[t] = "cancelled")
  BY <1>0, <1>2 DEF CancelJob
<1>3. ASSUME NEW lapsed, ExpireLeases(lapsed)
      PROVE  status'[t] = status[t] \/ (status[t] = "running" /\ status'[t] = "reconciling")
  BY <1>0, <1>3 DEF ExpireLeases
<1>4. ASSUME NEW m, \/ \E c \in BOOLEAN : SaveMachine(m, c)
                    \/ DeleteMachine(m) \/ RetryTimeComes(m)
      PROVE  status' = status
  BY <1>4 DEF SaveMachine, DeleteMachine, RetryTimeComes, queueVars
<1>5. QED
  BY <1>1, <1>2, <1>3, <1>4 DEF QueueStep

LEMMA QueueStepRequests ==
  ASSUME IInv, QueueStep, NEW t \in Targets
  PROVE  \/ request'[JobOf(t)] = request[JobOf(t)]
         \/ status[t] = "none" /\ status'[t] \in {"none", "queued"}
<1>1. ASSUME NEW key, NEW kind, NEW ms, NEW include, SubmitJob(key, kind, ms, include),
             JobOf(t) = njobs + 1
      PROVE  status[t] = "none" /\ status'[t] \in {"none", "queued"}
  <2>1. njobs \in Nat /\ njobs + 1 > njobs
    BY DEF IInv, TypeOK
  <2>2. status[t] = "none"
    BY <1>1, <2>1 DEF IInv, UnbornHaveNoRows
  <2>3. QED
    BY <2>2, QueueStepStatus
<1>2. ASSUME NEW key, NEW kind, NEW ms, NEW include, SubmitJob(key, kind, ms, include),
             JobOf(t) # njobs + 1
      PROVE  request'[JobOf(t)] = request[JobOf(t)]
  BY <1>2, TargetParts DEF SubmitJob, IInv, TypeOK
<1>3. ASSUME \A key \in Keys, kind \in Kinds, ms \in MachineLists, include \in BOOLEAN :
               ~ SubmitJob(key, kind, ms, include)
      PROVE  request' = request
  BY <1>3 DEF QueueStep, SaveMachine, DeleteMachine, CancelJob, RetryTimeComes, ExpireLeases, queueVars
<1>4. QED
  BY <1>1, <1>2, <1>3

LEMMA QueueStepKeepsFenced ==
  ASSUME FencedInv, QueueStep, DInv'
  PROVE  FencedInv'
<1>1. UNCHANGED <<workers, starts, op, ran, hasBmc, byHand>>
  BY DEF QueueStep, rigVars
<1>2. DInv /\ IInv
  BY DEF FencedInv, DInv
<1>3. ASSUME NEW t \in Targets PROVE TargetIsHonest(t)'
  <2>1. TargetIsHonest(t)
    BY DEF FencedInv
  <2>2. status[t] \in {"none", "queued"} => op[t] = "missing" /\ t \notin starts
    BY <1>2 DEF DInv, UnclaimedIsUntouched
  <2>3. CASE status[t] \in {"none", "queued"}
    <3>1. status'[t] \notin {"succeeded", "failed"}
      BY <1>2, <2>3, QueueStepStatus
    <3>2. QED
      BY <1>1, <2>1, <2>2, <2>3, <3>1, FreshIsHonest
  <2>4. CASE status[t] \notin {"none", "queued"}
    <3>1. request'[JobOf(t)] = request[JobOf(t)]
      BY <1>2, <2>4, QueueStepRequests
    <3>2. SameWork(t)
      BY <1>1, <3>1 DEF SameWork
    <3>3. /\ status[t] \in Held => status'[t] \in Held
          /\ status'[t] \in Definite => status'[t] = status[t]
      BY <1>2, <2>4, QueueStepStatus DEF Held, Definite
    <3>4. QED
      BY <1>1, <2>1, <3>2, <3>3, TargetStaysHonest
  <2>5. QED
    BY <2>3, <2>4
<1>4. ASSUME NEW w \in workers PROVE WorkerKnows(w)'
  <2>1. w.t \in Targets /\ claims[w.t] # 0 /\ WorkerKnows(w)
    BY <1>2, WorkerTarget DEF FencedInv
  <2>2. status[w.t] \notin {"none", "queued"}
    BY <1>2, <2>1 DEF DInv, UnclaimedIsUntouched
  <2>3. SameWork(w.t)
    BY <1>1, <1>2, <2>1, <2>2, QueueStepRequests DEF SameWork
  <2>4. status[w.t] \in Held => status'[w.t] \in Held
    BY <1>2, <2>1, QueueStepStatus DEF Held
  <2>5. QED
    BY <2>1, <2>3, <2>4, WorkerStillKnows
<1>5. QED
  BY <1>1, <1>3, <1>4 DEF FencedInv, OneWorkerEach

\* A step about one target leaves what is known of the others.
LEMMA LocalStep ==
  ASSUME FencedInv, DInv', NEW t \in Targets, hasBmc' = hasBmc,
         \A u \in Targets \ {t} : /\ SameWork(u) /\ status'[u] = status[u]
                                  /\ u \in byHand' <=> u \in byHand,
         \A x \in workers' : x.t # t => x \in workers,
         \A x, y \in workers' : x.t = t /\ y.t = t => x = y,
         \A x \in workers' : x.t = t => WorkerKnows(x)',
         TargetIsHonest(t)'
  PROVE  FencedInv'
<1>1. ASSUME NEW u \in Targets \ {t} PROVE TargetIsHonest(u)'
  BY <1>1, TargetStaysHonest DEF FencedInv
<1>2. ASSUME NEW x \in workers', x.t # t PROVE WorkerKnows(x)'
  <2>1. x \in workers /\ x.t \in Targets /\ WorkerKnows(x)
    BY <1>2, WorkerTarget DEF FencedInv
  <2>2. SameWork(x.t) /\ status'[x.t] = status[x.t]
    BY <1>2, <2>1
  <2>3. QED
    BY <2>1, <2>2, WorkerStillKnows
<1>3. OneWorkerEach'
  BY DEF FencedInv, OneWorkerEach
<1>4. QED
  BY <1>1, <1>2, <1>3 DEF FencedInv

LEMMA ClaimKeepsFenced ==
  ASSUME Fenced, FencedInv, NEW t \in Targets, ClaimAndSpawn(t), DInv'
  PROVE  FencedInv'
<1>0. PICK new :
        /\ workers' = workers \cup {new}
        /\ new.t = t
        /\ new.stage = IF status[t] = "reconciling" /\ Recorded(t) THEN "poll" ELSE "start"
  <2> DEFINE r == [t |-> t, l |-> claims[t] + 1, reconcile |-> status[t] = "reconciling",
                   attempts |-> attempts[t], cancel |-> FALSE, report |-> "unknown",
                   stage |-> IF status[t] = "reconciling" /\ Recorded(t) THEN "poll" ELSE "start"]
  <2>1. workers' = workers \cup {r}
    BY DEF ClaimAndSpawn
  <2>2. /\ r.t = t
        /\ r.stage = IF status[t] = "reconciling" /\ Recorded(t) THEN "poll" ELSE "start"
    OBVIOUS
  <2> HIDE DEF r
  <2>3. QED
    BY <2>1, <2>2
<1>1. Claim(t) /\ UNCHANGED <<starts, op, ran, request, hasBmc, byHand>>
  BY DEF ClaimAndSpawn, Claim, rigVars
<1>2. t \notin starts /\ \A w \in workers : w.t # t
  BY DEF ClaimAndSpawn, Settled
<1>3. /\ status \in [Targets -> Statuses \cup {"none"}]
      /\ status' = [status EXCEPT ![t] = "running"]
      /\ status[t] \in {"queued", "reconciling"}
  BY <1>1 DEF Claim, Dispatchable, FencedInv, DInv, IInv, TypeOK
<1>4. status[t] = "queued" => op[t] = "missing"
  BY DEF FencedInv, DInv, UnclaimedIsUntouched
<1>5. WorkerKnows(new)'
  <2>1. status'[t] \in Held /\ Recorded(t)' = Recorded(t) /\ op' = op /\ starts' = starts
    BY <1>1, <1>3 DEF Recorded, KindOf, Held
  <2>2. new.stage \in {"start", "poll"}
    BY <1>0
  <2>3. new.stage = "start" => (Recorded(t) => op[t] = "missing")
    BY <1>0, <1>3, <1>4
  <2>4. new.stage = "poll" => Recorded(t)
    BY <1>0
  <2>5. QED
    BY <1>0, <1>2, <2>1, <2>2, <2>3, <2>4 DEF WorkerKnows, Reporting
<1>6. TargetIsHonest(t)'
  BY <1>1, <1>3 DEF FencedInv, TargetIsHonest, IsTrue, Recorded, KindOf, Held
<1>7. \A u \in Targets \ {t} : /\ SameWork(u) /\ status'[u] = status[u]
                               /\ u \in byHand' <=> u \in byHand
  BY <1>1, <1>3 DEF SameWork
<1>8. /\ \A x \in workers' : x.t # t => x \in workers
      /\ \A x, y \in workers' : x.t = t /\ y.t = t => x = y
      /\ \A x \in workers' : x.t = t => WorkerKnows(x)'
  BY <1>0, <1>2, <1>5
<1>9. QED
  BY <1>1, <1>6, <1>7, <1>8, LocalStep

\* A worker gives way to another one of its target, or to none.
LEMMA WorkerChanges ==
  ASSUME FencedInv, DInv', NEW w \in workers, hasBmc' = hasBmc, byHand' = byHand,
         \A u \in Targets \ {w.t} : SameWork(u) /\ status'[u] = status[u],
         TargetIsHonest(w.t)',
         \/ Gone(w)
         \/ \E v : Become(w, v) /\ v.t = w.t /\ WorkerKnows(v)'
  PROVE  FencedInv'
<1>1. w.t \in Targets
  BY WorkerTarget DEF FencedInv
<1>2. \A x \in workers : x.t = w.t => x = w
  BY DEF FencedInv, OneWorkerEach
<1>3. CASE Gone(w)
  <2>1. workers' = workers \ {w}
    BY <1>3 DEF Gone
  <2>2. QED
    BY <1>1, <1>2, <2>1, LocalStep
<1>4. ASSUME NEW v, Become(w, v), v.t = w.t, WorkerKnows(v)'
      PROVE  FencedInv'
  <2>1. workers' = (workers \ {w}) \cup {v}
    BY <1>4 DEF Become
  <2>2. QED
    BY <1>1, <1>2, <1>4, <2>1, LocalStep
<1>5. QED
  BY <1>3, <1>4

\* The worker a report or an error makes of w.
LEMMA ReportOf ==
  ASSUME NEW w \in Worker, NEW r
  PROVE  /\ Reports(w, r) => \E v : Become(w, v) /\ v.t = w.t /\ v.stage = "finish" /\ v.report = r
         /\ Errs(w, r) => \E v : Become(w, v) /\ v.t = w.t /\ v.stage = "giveup" /\ v.report = r
<1> DEFINE f == [w EXCEPT !.stage = "finish", !.report = r]
           g == [w EXCEPT !.stage = "giveup", !.report = r]
<1>1. f.t = w.t /\ f.stage = "finish" /\ f.report = r
  BY DEF Worker
<1>2. g.t = w.t /\ g.stage = "giveup" /\ g.report = r
  BY DEF Worker
<1>3. (Reports(w, r) => Become(w, f)) /\ (Errs(w, r) => Become(w, g))
  BY DEF Reports, Errs
<1> HIDE DEF f, g
<1>4. QED
  BY <1>1, <1>2, <1>3

LEMMA SendKeepsFenced ==
  ASSUME FencedInv, NEW w \in workers, StartAnswered(w) \/ StartUnanswered(w), DInv'
  PROVE  FencedInv'
<1> DEFINE t == w.t
<1>1. /\ w \in Worker /\ t \in Targets /\ w.stage = "start"
      /\ UNCHANGED <<vars, hasBmc, byHand>>
  BY WorkerTarget DEF FencedInv, StartAnswered, StartUnanswered
<1>2. /\ WorkerKnows(w) /\ TargetIsHonest(t)
      /\ starts \subseteq Targets /\ op \in [Targets -> OpStates] /\ ran \in [Targets -> Nat]
  BY <1>1 DEF FencedInv, DInv, RigTypes
<1>3. t \notin starts /\ status'[t] \in Held /\ status' = status /\ request' = request
  BY <1>1, <1>2 DEF WorkerKnows, vars
<1>4. \A u \in Targets \ {t} : SameWork(u) /\ status'[u] = status[u]
  BY <1>1, <1>2, <1>3 DEF StartAnswered, StartUnanswered, Arrives, SameWork
<1>5. TargetIsHonest(t)'
  <2>1. ~ Recorded(t) => op'[t] = "missing"
    BY <1>1, <1>2 DEF StartAnswered, StartUnanswered, Arrives, TargetIsHonest
  <2>2. QED
    BY <1>1, <1>2, <1>3, <2>1 DEF TargetIsHonest, IsTrue, Recorded, KindOf, Held
<1>6. \E v : Become(w, v) /\ v.t = w.t /\ WorkerKnows(v)'
  <2>1. CASE StartUnanswered(w)
    <3>1. PICK v : Become(w, v) /\ v.t = t /\ v.stage = "giveup" /\ v.report = "unknown"
      BY <1>1, <2>1, ReportOf DEF StartUnanswered
    <3>2. WorkerKnows(v)'
      BY <3>1 DEF WorkerKnows, Reporting, IsTrue
    <3>3. QED
      BY <3>1, <3>2
  <2>2. CASE StartAnswered(w) /\ Recorded(t)
    <3>1. PICK v : Become(w, v) /\ v.t = t /\ v.stage = "poll"
      BY <1>1, <2>2 DEF StartAnswered, Worker
    <3>2. t \notin starts' /\ Recorded(t)'
      BY <1>3, <2>2 DEF StartAnswered, Recorded, KindOf
    <3>3. WorkerKnows(v)'
      BY <3>1, <3>2 DEF WorkerKnows, Reporting
    <3>4. QED
      BY <3>1, <3>3
  <2>3. CASE StartAnswered(w) /\ ~ Recorded(t)
    <3>1. PICK v : Become(w, v) /\ v.t = t /\ v.stage = "finish" /\ v.report = "succeeded"
      BY <1>1, <2>3, ReportOf DEF StartAnswered
    <3>2. t \notin starts' /\ ~ Recorded(t)' /\ op'[t] = "missing" /\ ran'[t] > 0
      BY <1>1, <1>2, <1>3, <2>3 DEF StartAnswered, Arrives, TargetIsHonest, Recorded, KindOf
    <3>3. WorkerKnows(v)'
      BY <3>1, <3>2 DEF WorkerKnows, Reporting, IsTrue, Live
    <3>4. QED
      BY <3>1, <3>3
  <2>4. QED
    BY <2>1, <2>2, <2>3
<1>7. QED
  BY <1>1, <1>4, <1>5, <1>6, WorkerChanges

\* A worker that only knows that it does not know.
LEMMA UnknownKnows ==
  ASSUME NEW v, v.stage = "giveup" \/ (v.stage = "finish" /\ v.t \notin starts'),
         v.report = "unknown"
  PROVE  WorkerKnows(v)'
BY DEF WorkerKnows, Reporting, IsTrue

\* A target keeps its status or gets the report of its worker.
LEMMA ReportIsHonest ==
  ASSUME FencedInv, NEW w \in workers, UNCHANGED <<starts, op, ran, hasBmc, byHand, request>>,
         \/ status' = status
         \/ Reporting(w) /\ Finish(w.t, w.l, w.report)
         \/ DeferReconcile(w.t, w.l)
  PROVE  /\ \A u \in Targets \ {w.t} : SameWork(u) /\ status'[u] = status[u]
         /\ TargetIsHonest(w.t)'
<1> DEFINE t == w.t
<1>1. /\ w \in Worker /\ t \in Targets /\ w.report \in Results
      /\ WorkerKnows(w) /\ TargetIsHonest(t)
      /\ status \in [Targets -> Statuses \cup {"none"}]
  BY WorkerTarget DEF FencedInv, DInv, IInv, TypeOK, Worker
<1>2. CASE status' = status
  BY <1>1, <1>2, TargetStaysHonest DEF SameWork
<1>3. CASE Reporting(w) /\ Finish(t, w.l, w.report)
  <2>1. status' = [status EXCEPT ![t] = w.report]
    BY <1>3 DEF Finish
  <2>2. w.report # "unknown" => ~ UnderWay(t) /\ (~ BmcEdits => IsTrue(t, w.report))
    BY <1>1, <1>3 DEF WorkerKnows, UnderWay
  <2>3. w.report = "unknown" => w.report \in Held /\ IsTrue(t, w.report)
    BY DEF Held, IsTrue
  <2>4. IsTrue(t, w.report)' = IsTrue(t, w.report) /\ UnderWay(t)' = UnderWay(t)
        /\ Recorded(t)' = Recorded(t)
    BY DEF IsTrue, UnderWay, Recorded, KindOf
  <2>5. TargetIsHonest(t)'
    BY <1>1, <2>1, <2>2, <2>3, <2>4 DEF TargetIsHonest, IsTrue
  <2>6. QED
    BY <1>1, <2>1, <2>5 DEF SameWork
<1>4. CASE DeferReconcile(t, w.l)
  <2>1. status' = [status EXCEPT ![t] = "reconciling"] /\ "reconciling" \in Held
    BY <1>4 DEF DeferReconcile, Held
  <2>2. status'[t] \in Held /\ status'[t] \notin Definite
    BY <1>1, <2>1 DEF Definite
  <2>3. SameWork(t)
    BY DEF SameWork
  <2>4. QED
    BY <1>1, <2>1, <2>2, <2>3, TargetStaysHonest DEF SameWork
<1>5. QED
  BY <1>2, <1>3, <1>4

LEMMA QuietFrame ==
  ASSUME NEW w, Quiet(w)
  PROVE  /\ UNCHANGED <<starts, op, ran, hasBmc, byHand, request>>
         /\ \/ status' = status
            \/ Reporting(w) /\ Finish(w.t, w.l, w.report)
            \/ DeferReconcile(w.t, w.l)
<1> USE DEF rigVars, vars, Reporting
<1>1. CASE StartRefused(w) \/ PowerReread(w) \/ PollCancel(w)
  BY <1>1 DEF StartRefused, PowerReread, PollCancel
<1>2. CASE PollStatus(w) \/ PollFails(w)
  BY <1>2 DEF PollStatus, PollFails
<1>3. CASE FinishSaved(w) \/ FinishUnanswered(w)
  BY <1>3 DEF FinishSaved, FinishUnanswered, Finish
<1>4. CASE GiveUpDeferred(w) \/ GiveUpSaved(w) \/ GiveUpUnsaved(w)
  BY <1>4 DEF GiveUpDeferred, GiveUpSaved, GiveUpUnsaved, Finish, DeferReconcile
<1>5. CASE Beat(w)
  BY <1>5 DEF Beat, HeartbeatHears, HeartbeatConflicts, HeartbeatFails
<1>6. QED
  BY <1>1, <1>2, <1>3, <1>4, <1>5 DEF Quiet

LEMMA QuietKnows ==
  ASSUME FencedInv, NEW w \in workers, Quiet(w)
  PROVE  \/ Gone(w)
         \/ \E v : Become(w, v) /\ v.t = w.t /\ WorkerKnows(v)'
<1> DEFINE t == w.t
<1>1. /\ w \in Worker /\ t \in Targets /\ WorkerKnows(w) /\ TargetIsHonest(t)
      /\ op[t] \in OpStates
  BY WorkerTarget DEF FencedInv, DInv, RigTypes
<1>2. UNCHANGED <<starts, op, ran, hasBmc, byHand, request>>
  BY QuietFrame
<1>3. CASE StartRefused(w)
  <2>1. PICK v : Become(w, v) /\ v.t = t /\ v.stage = "giveup" /\ v.report = "failed"
    BY <1>1, <1>3, ReportOf DEF StartRefused
  <2>2. w.stage = "start" /\ t \notin starts /\ op[t] = "missing"
    BY <1>1, <1>3 DEF StartRefused, WorkerKnows, TargetIsHonest
  <2>3. ~ BmcEdits /\ ~ Recorded(t) => ran[t] = 0
    <3>1. ASSUME ~ BmcEdits, ~ Recorded(t)
          PROVE  KindOf(t) = "power" /\ MaySend(w)
      BY <1>1, <1>3, <3>1 DEF StartRefused, TargetIsHonest, Recorded, MaySend
    <3>2. QED
      BY <1>1, <3>1 DEF FencedInv, DInv, PowerOnce
  <2>4. WorkerKnows(v)'
    BY <1>2, <2>1, <2>2, <2>3 DEF WorkerKnows, Reporting, IsTrue, Live, Recorded, KindOf
  <2>5. QED
    BY <2>1, <2>4
<1>4. CASE PowerReread(w)
  <2>1. PICK v : Become(w, v) /\ v.t = t /\ v.stage \in {"finish", "giveup"} /\ v.report = "unknown"
    BY <1>1, <1>4, ReportOf DEF PowerReread
  <2>2. t \notin starts'
    BY <1>1, <1>2, <1>4 DEF PowerReread, WorkerKnows
  <2>3. QED
    BY <2>1, <2>2, UnknownKnows
<1>5. CASE PollCancel(w)
  <2>1. PICK v : Become(w, v) /\ v.t = t /\ v.stage = "query"
    BY <1>1, <1>5 DEF PollCancel, Worker
  <2>2. WorkerKnows(v)'
    BY <1>1, <1>2, <1>5, <2>1 DEF PollCancel, WorkerKnows, Reporting, Recorded, KindOf
  <2>3. QED
    BY <2>1, <2>2
<1>6. CASE PollStatus(w)
  <2>1. t \notin starts' /\ Recorded(t)' /\ op'[t] = op[t]
    BY <1>1, <1>2, <1>6 DEF PollStatus, WorkerKnows, Recorded, KindOf
  <2>2. CASE op[t] \in Live
    <3>1. PICK v : Become(w, v) /\ v.t = t /\ v.stage = "poll"
      BY <1>1, <1>6, <2>2 DEF PollStatus, Worker, Live
    <3>2. WorkerKnows(v)'
      BY <2>1, <3>1 DEF WorkerKnows, Reporting
    <3>3. QED
      BY <3>1, <3>2
  <2>3. CASE op[t] \notin Live
    <3>1. PICK r : /\ Reports(w, r)
                   /\ \/ r \in {"failed", "unknown"} /\ op[t] = "missing"
                      \/ r = op[t] /\ r # "missing"
      BY <1>1, <1>6, <2>3 DEF PollStatus, OpStates, Live, Definite
    <3>2. PICK v : Become(w, v) /\ v.t = t /\ v.stage = "finish" /\ v.report = r
      BY <1>1, <3>1, ReportOf
    <3>3. WorkerKnows(v)'
      BY <2>1, <2>3, <3>1, <3>2 DEF WorkerKnows, Reporting, IsTrue
    <3>4. QED
      BY <3>2, <3>3
  <2>4. QED
    BY <2>2, <2>3
<1>7. CASE PollFails(w) \/ FinishUnanswered(w) \/ HeartbeatFails(w)
  <2>1. PICK v : Become(w, v) /\ v.t = t /\ v.stage = "giveup" /\ v.report = "unknown"
    BY <1>1, <1>7, ReportOf DEF PollFails, FinishUnanswered, HeartbeatFails
  <2>2. QED
    BY <2>1, UnknownKnows
<1>8. CASE HeartbeatHears(w)
  <2>1. PICK v : Become(w, v) /\ v.t = t /\ v.stage = w.stage /\ v.report = w.report
    BY <1>1, <1>8 DEF HeartbeatHears, Worker
  <2>2. status' = status
    BY <1>8 DEF HeartbeatHears, vars
  <2>3. WorkerKnows(v)'
    BY <1>1, <1>2, <2>1, <2>2 DEF WorkerKnows, Reporting, IsTrue, Recorded, KindOf
  <2>4. QED
    BY <2>1, <2>3
<1>9. CASE \/ FinishSaved(w) \/ GiveUpDeferred(w) \/ GiveUpSaved(w) \/ GiveUpUnsaved(w)
           \/ HeartbeatConflicts(w)
  BY <1>9 DEF FinishSaved, GiveUpDeferred, GiveUpSaved, GiveUpUnsaved, HeartbeatConflicts
<1>10. QED
  BY <1>3, <1>4, <1>5, <1>6, <1>7, <1>8, <1>9 DEF Quiet, Beat

LEMMA QuietKeepsFenced ==
  ASSUME FencedInv, NEW w \in workers, Quiet(w), DInv'
  PROVE  FencedInv'
BY QuietFrame, ReportIsHonest, QuietKnows, WorkerChanges

LEMMA RigKeepsFenced ==
  ASSUME FencedInv, NEW t \in Targets, RigStep(t), DInv'
  PROVE  FencedInv'
<1>0. /\ starts \subseteq Targets /\ op \in [Targets -> OpStates] /\ ran \in [Targets -> Nat]
      /\ OpStates = {"missing", "unknown", "queued", "running", "succeeded", "failed", "cancelled"}
  BY DEF FencedInv, DInv, RigTypes, OpStates, Live, Definite
<1>1. UNCHANGED <<workers, status, request, hasBmc, byHand>>
  BY DEF RigStep, Arrive, Lose, RunnerBegins, RunnerEnds, RunnerDies, RecoverAtBoot, vars
<1>2. \A u \in Targets \ {t} : /\ SameWork(u) /\ status'[u] = status[u]
                               /\ u \in byHand' <=> u \in byHand
  BY <1>0, <1>1 DEF RigStep, Arrive, Arrives, Lose, RunnerBegins, RunnerEnds, RunnerDies,
                    RecoverAtBoot, SameWork
<1>3. TargetIsHonest(t) /\ \A x \in workers : x.t = t => WorkerKnows(x)
  BY DEF FencedInv
<1>4. CASE UnderWay(t)
  <2>1. starts' \subseteq starts /\ (t \notin starts => UNCHANGED starts /\ op[t] \in Live)
    BY <1>4 DEF RigStep, Arrive, Lose, RunnerBegins, RunnerEnds, RunnerDies, RecoverAtBoot,
                UnderWay, Live
  <2>2. status'[t] \in Held
    BY <1>1, <1>3, <1>4 DEF TargetIsHonest
  <2>3. ~ Recorded(t) => op'[t] = "missing"
    BY <1>0, <1>3 DEF TargetIsHonest, RigStep, Arrive, Arrives, Lose, RunnerBegins, RunnerEnds,
                      RunnerDies, RecoverAtBoot, Live
  <2>4. TargetIsHonest(t)'
    BY <1>1, <1>3, <2>2, <2>3 DEF TargetIsHonest, IsTrue, Recorded, KindOf, Held
  <2>5. ASSUME NEW x \in workers, x.t = t PROVE WorkerKnows(x)'
    <3>1. WorkerKnows(x)
      BY <1>3, <2>5
    <3>2. CASE t \in starts
      <4>1. x.stage = "giveup" /\ x.report = "unknown"
        BY <2>5, <3>1, <3>2 DEF WorkerKnows
      <4>2. QED
        BY <4>1, UnknownKnows
    <3>3. CASE t \notin starts
      <4>1. t \notin starts' /\ op[t] \in Live /\ Recorded(t)
        BY <1>3, <2>1, <3>3 DEF TargetIsHonest, Live
      <4>2. Reporting(x) => x.report = "unknown"
        BY <2>5, <3>1, <4>1 DEF WorkerKnows
      <4>3. x.stage # "start"
        BY <2>5, <3>1, <4>1 DEF WorkerKnows, Live
      <4>4. Recorded(t)'
        BY <1>1, <4>1 DEF Recorded, KindOf
      <4>5. QED
        BY <2>5, <4>1, <4>2, <4>3, <4>4 DEF WorkerKnows, IsTrue
    <3>4. QED
      BY <3>2, <3>3
  <2>6. QED
    BY <1>1, <1>2, <2>4, <2>5, LocalStep DEF FencedInv, OneWorkerEach
<1>5. CASE ~ UnderWay(t)
  <2>1. /\ Recorded(t) /\ op[t] = "unknown" /\ op'[t] \in {"succeeded", "failed"}
        /\ UNCHANGED <<starts, ran>>
    BY <1>0, <1>5 DEF RigStep, Arrive, Lose, RunnerBegins, RunnerEnds, RunnerDies, RecoverAtBoot,
                      UnderWay, Live, Recorded
  <2>2. Recorded(t)' = Recorded(t)
    BY <1>1 DEF Recorded, KindOf
  <2>3. TargetIsHonest(t)'
    BY <1>1, <1>3, <2>1, <2>2 DEF TargetIsHonest, IsTrue, UnderWay, Live
  <2>4. ASSUME NEW x \in workers, x.t = t PROVE WorkerKnows(x)'
    BY <1>1, <1>3, <2>1, <2>2, <2>4 DEF WorkerKnows, IsTrue, Reporting, Live
  <2>5. QED
    BY <1>1, <1>2, <2>3, <2>4, LocalStep DEF FencedInv, OneWorkerEach
<1>6. QED
  BY <1>4, <1>5

LEMMA OperatorKeepsFenced ==
  ASSUME FencedInv, NEW t \in Targets, NEW d \in Definite \cup {"reconcile"},
         OperatorSettles(t, d), DInv'
  PROVE  FencedInv'
<1>1. /\ status \in [Targets -> Statuses \cup {"none"}] /\ TargetIsHonest(t)
      /\ UNCHANGED <<workers, starts, op, ran, request, hasBmc>>
  BY DEF FencedInv, DInv, IInv, TypeOK, OperatorSettles, ResolveTarget, rigVars
<1>2. /\ status[t] = "unknown"
      /\ status' = [status EXCEPT ![t] = IF d = "reconcile" THEN "reconciling" ELSE d]
      /\ byHand' = IF d = "reconcile" THEN byHand ELSE byHand \cup {t}
      /\ d # "reconcile" => Settled(t) /\ ~ UnderWay(t)
  BY DEF OperatorSettles, ResolveTarget, Settled, UnderWay
<1>3. \A u \in Targets \ {t} : /\ SameWork(u) /\ status'[u] = status[u]
                               /\ u \in byHand' <=> u \in byHand
  BY <1>1, <1>2 DEF SameWork
<1>4. SameWork(t)
  BY <1>1 DEF SameWork
<1>5. CASE d = "reconcile"
  <2>1. status'[t] \in Held /\ status'[t] \notin Definite /\ byHand' = byHand
    BY <1>1, <1>2, <1>5 DEF Held, Definite
  <2>2. TargetIsHonest(t)'
    BY <1>1, <1>4, <2>1, TargetStaysHonest
  <2>3. \A x \in workers : x.t = t => WorkerKnows(x)'
    BY <1>4, <2>1, WorkerStillKnows DEF FencedInv
  <2>4. QED
    BY <1>1, <1>3, <2>2, <2>3, LocalStep DEF FencedInv, OneWorkerEach
<1>6. CASE d # "reconcile"
  <2>1. TargetIsHonest(t)'
    BY <1>1, <1>2, <1>6 DEF TargetIsHonest, UnderWay, Recorded, KindOf
  <2>2. \A x \in workers : x.t # t
    BY <1>2, <1>6 DEF Settled
  <2>3. QED
    BY <1>1, <1>3, <2>1, <2>2, LocalStep
<1>7. QED
  BY <1>5, <1>6

\* A restart, an edit of the BMC settings, or nothing.
LEMMA OtherStepsKeepFenced ==
  ASSUME FencedInv, DInv',
         UNCHANGED <<starts, op, ran, request, status, byHand>>, workers' \subseteq workers,
         hasBmc' = hasBmc \/ BmcEdits
  PROVE  FencedInv'
<1>1. \A t \in Targets : SameWork(t)
  BY DEF SameWork
<1>2. ASSUME NEW t \in Targets PROVE TargetIsHonest(t)'
  BY DEF FencedInv, TargetIsHonest, IsTrue, UnderWay, Recorded, KindOf
<1>3. ASSUME NEW w \in workers' PROVE WorkerKnows(w)'
  BY <1>1, WorkerTarget, WorkerStillKnows DEF FencedInv
<1>4. QED
  BY <1>2, <1>3 DEF FencedInv, OneWorkerEach

LEMMA NextKeepsFenced ==
  ASSUME Fenced, FencedInv, [DispatchNext]_dispatchVars
  PROVE  FencedInv'
<1>1. DInv'
  BY NextPreservesDInv DEF FencedInv
<1>2. CASE QueueStep
  BY <1>1, <1>2, QueueStepKeepsFenced
<1>3. ASSUME NEW t \in Targets, ClaimAndSpawn(t) \/ RigStep(t) PROVE FencedInv'
  BY <1>1, <1>3, ClaimKeepsFenced, RigKeepsFenced
<1>4. ASSUME NEW w \in workers, Advance(w) \/ Beat(w) PROVE FencedInv'
  BY <1>1, <1>4, SendKeepsFenced, QuietKeepsFenced DEF Advance, Quiet
<1>5. ASSUME NEW t \in Targets, NEW d \in Definite \cup {"reconcile"}, OperatorSettles(t, d)
      PROVE  FencedInv'
  BY <1>1, <1>5, OperatorKeepsFenced
<1>6. CASE Restart
  BY <1>1, <1>6, OtherStepsKeepFenced DEF Restart, rigVars, vars
<1>7. ASSUME NEW m \in Machines, RemoveBmc(m) PROVE FencedInv'
  BY <1>1, <1>7, OtherStepsKeepFenced DEF RemoveBmc, rigVars, vars
<1>8. CASE UNCHANGED dispatchVars
  BY <1>1, <1>8, OtherStepsKeepFenced DEF dispatchVars, vars
<1>9. QED
  BY <1>2, <1>3, <1>4, <1>5, <1>6, <1>7, <1>8 DEF DispatchNext

(***************************************************************************)
(* Work under way is under its machine's lock, so that nothing else is     *)
(* dispatched to the machine and it is not retired: under the timing the   *)
(* code arranges, whatever calls are lost or late, and whoever restarts.   *)
(***************************************************************************)
THEOREM WorkStaysLocked == ASSUME Fenced PROVE DispatchSpec => []WorkIsLocked
<1>1. FencedInv => WorkIsLocked
  BY DEF FencedInv, TargetIsHonest, UnderWay, WorkIsLocked, DInv, IInv, LockMeansUnsettled
<1>2. FencedInv /\ [DispatchNext]_dispatchVars => FencedInv'
  BY NextKeepsFenced
<1>3. QED
  BY <1>1, <1>2, FencedInitInv, PTL DEF DispatchSpec

(***************************************************************************)
(* And what is recorded without an operator is what happened, as long as   *)
(* no BMC loses its settings under a power target.                         *)
(***************************************************************************)
THEOREM OutcomesAreTrue == ASSUME Fenced, ~ BmcEdits PROVE DispatchSpec => []ReportsAreTrue
<1>1. FencedInv => ReportsAreTrue
  BY DEF FencedInv, TargetIsHonest, IsTrue, ReportsAreTrue
<1>2. FencedInv /\ [DispatchNext]_dispatchVars => FencedInv'
  BY NextKeepsFenced
<1>3. QED
  BY <1>1, <1>2, FencedInitInv, PTL DEF DispatchSpec
=============================================================================
