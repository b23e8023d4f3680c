------------------------------ MODULE Dispatch ------------------------------
(***************************************************************************)
(* The controller's workers between the job queue (JobQueue) and the       *)
(* machines: execute_task drives one claimed target over calls that time   *)
(* out, get lost or arrive late, while the rig runtime executes operations *)
(* under their id and a BMC executes power requests it keeps no record of. *)
(* The controller may restart at any moment, the database may refuse a     *)
(* write, and a lease may lapse under a worker that still runs.            *)
(***************************************************************************)
EXTENDS JobQueue

CONSTANTS
  Fenced,     \* timing: a target is re-claimed only after its old worker stopped
              \* and a start request on the wire arrived or died
  BmcEdits    \* an operator may make a machine's BMC settings unusable at any moment

ASSUME SwitchAssumption == Fenced \in BOOLEAN /\ BmcEdits \in BOOLEAN

VARIABLES
  workers,     \* execute_task futures of the running controller
  starts,      \* start or power requests still on the wire
  op,          \* the rig's operation record, as operation-status would report it
  cancelFile,  \* operations whose CANCEL file exists
  ran,         \* how often the action of a target was begun
  hasBmc,      \* machines whose BMC settings are present and accepted by the provider
  byHand       \* targets an operator settled

rigVars == <<starts, op, cancelFile, ran>>
dispatchVars == <<vars, workers, starts, op, cancelFile, ran, hasBmc, byHand>>

Live == {"queued", "running"}
OpStates == {"missing", "unknown"} \cup Live \cup Definite
Stages == {"start", "poll", "query", "finish", "giveup"}
Worker == [t : Targets, l : 1..MaxClaims, reconcile : BOOLEAN, attempts : 0..MaxAttempts,
           cancel : BOOLEAN, stage : Stages, report : Results]

KindOf(t) == request[JobOf(t)].kind
\* Actions the runtime records under the operation id; power and bootstrap are not.
Recorded(t) == KindOf(t) \notin {"power", "bootstrap"}
AutoReconcile(t) == KindOf(t) # "power"

Become(w, v) == workers' = (workers \ {w}) \cup {v}
Gone(w) == workers' = workers \ {w}
\* The future returns an error: Validation reports "failed", anything else "unknown".
Errs(w, report) == Become(w, [w EXCEPT !.stage = "giveup", !.report = report])
Reports(w, report) == Become(w, [w EXCEPT !.stage = "finish", !.report = report])
-----------------------------------------------------------------------------
DispatchInit ==
  /\ Init
  /\ workers = {}
  /\ starts = {}
  /\ op = [t \in Targets |-> "missing"]
  /\ cancelFile = [t \in Targets |-> FALSE]
  /\ ran = [t \in Targets |-> 0]
  /\ hasBmc = [m \in Machines |-> TRUE]
  /\ byHand = {}

(***************************************************************************)
(* run_worker: claim and spawn execute_task.                               *)
(***************************************************************************)
Settled(t) == t \notin starts /\ \A w \in workers : w.t # t

ClaimAndSpawn(t) ==
  /\ Claim(t)
  /\ Fenced => Settled(t)
  /\ LET reconcile == status[t] = "reconciling" IN
     workers' = workers \cup
       {[t |-> t, l |-> claims[t] + 1, reconcile |-> reconcile, attempts |-> attempts[t],
         cancel |-> FALSE, report |-> "unknown",
         stage |-> IF reconcile /\ Recorded(t) THEN "poll" ELSE "start"]}
  /\ UNCHANGED <<rigVars, hasBmc, byHand>>

(***************************************************************************)
(* What a request does on arrival.  operation_start keeps an existing      *)
(* record and starts nothing; a BMC and the installer just act.            *)
(***************************************************************************)
Arrives(t) ==
  IF Recorded(t)
  THEN /\ op' = [op EXCEPT ![t] = IF @ = "missing" THEN "queued" ELSE @]
       /\ UNCHANGED ran
  ELSE /\ ran' = [ran EXCEPT ![t] = @ + 1]
       /\ UNCHANGED op

NeedsBmc(w) == KindOf(w.t) = "power"

\* Faulty: a re-claimed power target sends its request again.
StartAnsweredAgain(w) ==
  /\ w.stage = "start"
  /\ ~ (NeedsBmc(w) /\ ~ hasBmc[MachineOf(w.t)])
  /\ Arrives(w.t)
  /\ IF Recorded(w.t) THEN Become(w, [w EXCEPT !.stage = "poll"]) ELSE Reports(w, "succeeded")
  /\ UNCHANGED <<vars, starts, cancelFile, hasBmc, byHand>>

\* start_operation, power or bootstrap, sent and answered.
StartAnswered(w) ==
  /\ w.stage = "start"
  /\ ~ (NeedsBmc(w) /\ (w.reconcile \/ ~ hasBmc[MachineOf(w.t)]))
  /\ Arrives(w.t)
  /\ IF Recorded(w.t) THEN Become(w, [w EXCEPT !.stage = "poll"]) ELSE Reports(w, "succeeded")
  /\ UNCHANGED <<vars, starts, cancelFile, hasBmc, byHand>>

\* Faulty: a request without an answer is taken for a refused one.
StartUnansweredIsFailure(w) ==
  /\ w.stage = "start"
  /\ ~ (NeedsBmc(w) /\ (w.reconcile \/ ~ hasBmc[MachineOf(w.t)]))
  /\ starts' = starts \cup {w.t}
  /\ Errs(w, "failed")
  /\ UNCHANGED <<vars, op, cancelFile, ran, hasBmc, byHand>>

\* ... or the answer never came: the request arrived, died, or is still on the wire.
StartUnanswered(w) ==
  /\ w.stage = "start"
  /\ ~ (NeedsBmc(w) /\ (w.reconcile \/ ~ hasBmc[MachineOf(w.t)]))
  /\ starts' = starts \cup {w.t}
  /\ Errs(w, "unknown")
  /\ UNCHANGED <<vars, op, cancelFile, ran, hasBmc, byHand>>

\* Refused before anything was sent: no BMC configured, download or dependencies failed.
StartRefused(w) ==
  /\ w.stage = "start"
  /\ \/ NeedsBmc(w) /\ ~ hasBmc[MachineOf(w.t)]
     \/ ~ w.reconcile /\ KindOf(w.t) # "bootstrap"
  /\ Errs(w, "failed")
  /\ UNCHANGED <<vars, rigVars, hasBmc, byHand>>

\* A re-claimed power target only reads the power state and stays unknown.
PowerReread(w) ==
  /\ w.stage = "start"
  /\ NeedsBmc(w) /\ w.reconcile /\ hasBmc[MachineOf(w.t)]
  /\ Reports(w, "unknown") \/ Errs(w, "unknown")
  /\ UNCHANGED <<vars, rigVars, hasBmc, byHand>>

Arrive(t) ==
  /\ t \in starts
  /\ starts' = starts \ {t}
  /\ Arrives(t)
  /\ UNCHANGED <<vars, workers, cancelFile, hasBmc, byHand>>

Lose(t) ==
  /\ t \in starts
  /\ starts' = starts \ {t}
  /\ UNCHANGED <<vars, workers, op, cancelFile, ran, hasBmc, byHand>>

(***************************************************************************)
(* The poll loop: ask for cancellation if a heartbeat said so, then read   *)
(* the operation's record.                                                 *)
(***************************************************************************)
PollCancel(w) ==
  /\ w.stage = "poll" /\ w.cancel
  /\ op[w.t] # "missing"          \* the file goes into the operation's directory
  /\ cancelFile' = [cancelFile EXCEPT ![w.t] = TRUE]
  /\ Become(w, [w EXCEPT !.stage = "query"])
  /\ UNCHANGED <<vars, starts, op, ran, hasBmc, byHand>>

\* Faulty: a record without a living runner is waited for.
PollStatusWaitsForUnknown(w) ==
  /\ w.stage = "query" \/ (w.stage = "poll" /\ ~ w.cancel)
  /\ CASE op[w.t] \in Live \cup {"unknown"} -> Become(w, [w EXCEPT !.stage = "poll"])
       [] op[w.t] = "missing" -> Reports(w, IF w.reconcile THEN "failed" ELSE "unknown")
       [] OTHER -> Reports(w, op[w.t])
  /\ UNCHANGED <<vars, rigVars, hasBmc, byHand>>

\* Faulty: a record without a living runner is taken for a failure.
PollStatusFailsUnknown(w) ==
  /\ w.stage = "query" \/ (w.stage = "poll" /\ ~ w.cancel)
  /\ CASE op[w.t] \in Live -> Become(w, [w EXCEPT !.stage = "poll"])
       [] op[w.t] = "missing" -> Reports(w, IF w.reconcile THEN "failed" ELSE "unknown")
       [] op[w.t] = "unknown" -> Reports(w, "failed")
       [] OTHER -> Reports(w, op[w.t])
  /\ UNCHANGED <<vars, rigVars, hasBmc, byHand>>

\* Faulty: "queued" is not among the states that are waited for.
PollStatusTakesQueued(w) ==
  /\ w.stage = "query" \/ (w.stage = "poll" /\ ~ w.cancel)
  /\ CASE op[w.t] = "running" -> Become(w, [w EXCEPT !.stage = "poll"])
       [] op[w.t] = "missing" -> Reports(w, IF w.reconcile THEN "failed" ELSE "unknown")
       [] OTHER -> Reports(w, op[w.t])
  /\ UNCHANGED <<vars, rigVars, hasBmc, byHand>>

PollStatus(w) ==
  /\ w.stage = "query" \/ (w.stage = "poll" /\ ~ w.cancel)
  /\ CASE op[w.t] \in Live -> Become(w, [w EXCEPT !.stage = "poll"])
       [] op[w.t] = "missing" -> Reports(w, IF w.reconcile THEN "failed" ELSE "unknown")
       [] OTHER -> Reports(w, op[w.t])
  /\ UNCHANGED <<vars, rigVars, hasBmc, byHand>>

\* A call of the loop fails; cancelling an operation without a record always does.
PollFails(w) ==
  /\ w.stage \in {"poll", "query"}
  /\ Errs(w, "unknown")
  /\ UNCHANGED <<vars, rigVars, hasBmc, byHand>>

(***************************************************************************)
(* The heartbeat beside the loop: it carries the cancel flag, and ends a   *)
(* worker whose lease is gone (its last finish then changes nothing).      *)
(***************************************************************************)
HeartbeatHears(w) ==
  /\ HoldsLease(w.t, w.l)
  /\ cancelRequested[JobOf(w.t)] /\ ~ w.cancel
  /\ Become(w, [w EXCEPT !.cancel = TRUE])
  /\ UNCHANGED <<vars, rigVars, hasBmc, byHand>>

HeartbeatConflicts(w) ==
  /\ ~ HoldsLease(w.t, w.l)
  /\ Gone(w)
  /\ UNCHANGED <<vars, rigVars, hasBmc, byHand>>

\* No heartbeat got through for 50 s: the future is dropped where it stands.
HeartbeatFails(w) ==
  /\ w.stage # "giveup"
  /\ Errs(w, "unknown")
  /\ UNCHANGED <<vars, rigVars, hasBmc, byHand>>

(***************************************************************************)
(* finish_with_retry, then the error path of execute_task: defer a         *)
(* recorded action, else record the report; a write may not get through.   *)
(***************************************************************************)
FinishSaved(w) ==
  /\ w.stage = "finish"
  /\ Finish(w.t, w.l, w.report) \/ (~ HoldsLease(w.t, w.l) /\ UNCHANGED vars)
  /\ Gone(w)
  /\ UNCHANGED <<rigVars, hasBmc, byHand>>

\* Every try went unanswered, whether or not one was committed.
FinishUnanswered(w) ==
  /\ w.stage = "finish"
  /\ Finish(w.t, w.l, w.report) \/ UNCHANGED vars
  /\ Errs(w, "unknown")
  /\ UNCHANGED <<rigVars, hasBmc, byHand>>

GiveUpDeferred(w) ==
  /\ w.stage = "giveup" /\ w.report = "unknown"
  /\ AutoReconcile(w.t) /\ w.attempts < MaxAttempts
  /\ DeferReconcile(w.t, w.l)
  /\ Gone(w)
  /\ UNCHANGED <<rigVars, hasBmc, byHand>>

GiveUpSaved(w) ==
  /\ w.stage = "giveup"
  /\ Finish(w.t, w.l, w.report)
  /\ Gone(w)
  /\ UNCHANGED <<rigVars, hasBmc, byHand>>

GiveUpUnsaved(w) ==
  /\ w.stage = "giveup"
  /\ Gone(w)
  /\ UNCHANGED <<vars, rigVars, hasBmc, byHand>>

(***************************************************************************)
(* The rig: one runner at a time holds operation.lock; a cancelled         *)
(* operation ends before it begins.  A runner can die at any time, and     *)
(* operation-status then reports "unknown".                                *)
(***************************************************************************)
RunnerBegins(t) ==
  /\ op[t] = "queued"
  /\ \A u \in Targets : MachineOf(u) = MachineOf(t) => op[u] # "running"
  /\ IF cancelFile[t]
     THEN op' = [op EXCEPT ![t] = "cancelled"] /\ UNCHANGED ran
     ELSE op' = [op EXCEPT ![t] = "running"] /\ ran' = [ran EXCEPT ![t] = @ + 1]
  /\ UNCHANGED <<vars, workers, starts, cancelFile, hasBmc, byHand>>

RunnerEnds(t) ==
  /\ op[t] = "running"
  /\ \E s \in Definite :
       /\ s = "cancelled" => cancelFile[t]
       /\ op' = [op EXCEPT ![t] = s]
  /\ UNCHANGED <<vars, workers, starts, cancelFile, ran, hasBmc, byHand>>

RunnerDies(t) ==
  /\ op[t] \in Live
  /\ op' = [op EXCEPT ![t] = "unknown"]
  /\ UNCHANGED <<vars, workers, starts, cancelFile, ran, hasBmc, byHand>>

\* At its next boot a rig settles the record of an apply whose runner died: committed
\* or rolled back (a rollback that fails leaves it "unknown").
RecoverAtBoot(t) ==
  /\ KindOf(t) = "apply" /\ op[t] = "unknown"
  /\ \E s \in {"succeeded", "failed"} : op' = [op EXCEPT ![t] = s]
  /\ UNCHANGED <<vars, workers, starts, cancelFile, ran, hasBmc, byHand>>

\* Faulty: a starting controller puts interrupted targets back into the queue.
RestartRequeues ==
  /\ workers # {}
  /\ workers' = {}
  /\ status' = [t \in Targets |-> IF status[t] = "running" THEN "queued" ELSE status[t]]
  /\ UNCHANGED <<fleet, controllers, njobs, request, cancelRequested, jobStatus, ordinal,
                 lease, claims, due, attempts, locks, rigVars, hasBmc, byHand>>

(***************************************************************************)
(* The controller process restarts: every worker is gone, the queue stays. *)
(***************************************************************************)
Restart ==
  /\ workers # {}
  /\ workers' = {}
  /\ UNCHANGED <<vars, rigVars, hasBmc, byHand>>

RemoveBmc(m) ==
  /\ BmcEdits
  /\ hasBmc[m]
  /\ hasBmc' = [hasBmc EXCEPT ![m] = FALSE]
  /\ UNCHANGED <<vars, workers, rigVars, byHand>>

\* An operator settles an unknown target after checking that nothing of it is under way.
OperatorSettles(t, decision) ==
  /\ decision # "reconcile" => Settled(t) /\ op[t] \notin Live
  /\ ResolveTarget(t, decision)
  /\ byHand' = IF decision = "reconcile" THEN byHand ELSE byHand \cup {t}
  /\ UNCHANGED <<workers, rigVars, hasBmc>>

QueueStep ==
  /\ \/ \E m \in Machines, isController \in BOOLEAN : SaveMachine(m, isController)
     \/ \E m \in Machines : DeleteMachine(m)
     \/ \E key \in Keys, kind \in Kinds, ms \in MachineLists, include \in BOOLEAN :
          SubmitJob(key, kind, ms, include)
     \/ \E j \in Jobs : CancelJob(j)
     \/ \E t \in Targets : RetryTimeComes(t)
     \/ \E lapsed \in SUBSET Targets : ExpireLeases(lapsed)
  /\ UNCHANGED <<workers, rigVars, hasBmc, byHand>>

Advance(w) ==
  \/ StartAnswered(w) \/ StartUnanswered(w) \/ StartRefused(w) \/ PowerReread(w)
  \/ PollCancel(w) \/ PollStatus(w) \/ PollFails(w)
  \/ FinishSaved(w) \/ FinishUnanswered(w)
  \/ GiveUpDeferred(w) \/ GiveUpSaved(w) \/ GiveUpUnsaved(w)

Beat(w) == HeartbeatHears(w) \/ HeartbeatConflicts(w) \/ HeartbeatFails(w)

RigStep(t) ==
  \/ Arrive(t) \/ Lose(t)
  \/ RunnerBegins(t) \/ RunnerEnds(t) \/ RunnerDies(t) \/ RecoverAtBoot(t)

DispatchNext ==
  \/ QueueStep
  \/ \E t \in Targets : ClaimAndSpawn(t) \/ RigStep(t)
  \/ \E w \in workers : Advance(w) \/ Beat(w)
  \/ \E t \in Targets, decision \in Definite \cup {"reconcile"} : OperatorSettles(t, decision)
  \/ Restart
  \/ \E m \in Machines : RemoveBmc(m)

DispatchSpec == DispatchInit /\ [][DispatchNext]_dispatchVars

\* The code's own progress: the scheduler, the spawned futures, and the rig.
Fairness ==
  /\ \A t \in Targets :
       /\ WF_dispatchVars(ClaimAndSpawn(t))
       /\ WF_dispatchVars(RetryTimeComes(t) /\ UNCHANGED <<workers, rigVars, hasBmc, byHand>>)
       /\ WF_dispatchVars(/\ \A w \in workers : w.t # t
                          /\ status[t] = "running"
                          /\ ExpireLeases({t})
                          /\ UNCHANGED <<workers, rigVars, hasBmc, byHand>>)
       /\ WF_dispatchVars(RunnerBegins(t))
       /\ WF_dispatchVars(RunnerEnds(t))
       /\ WF_dispatchVars(Arrive(t) \/ Lose(t))
       /\ WF_dispatchVars(\E w \in workers : w.t = t /\ (Advance(w) \/ HeartbeatConflicts(w)))

FairDispatch == DispatchSpec /\ Fairness
-----------------------------------------------------------------------------
DispatchTypeOK ==
  /\ workers \in SUBSET Worker
  /\ starts \in SUBSET Targets
  /\ op \in [Targets -> OpStates]
  /\ cancelFile \in [Targets -> BOOLEAN]
  /\ ran \in [Targets -> 0..MaxClaims]
  /\ hasBmc \in [Machines -> BOOLEAN]
  /\ byHand \in SUBSET Targets

(***************************************************************************)
(* At most once: whatever is lost, late, repeated or restarted, and even   *)
(* when a stale worker runs on beside its successor, the action of a       *)
(* target is begun at most once (bootstrap, an idempotent install, is      *)
(* exempt).  This is what allows the re-query of an operation.             *)
(***************************************************************************)
AtMostOnce ==
  \A t \in Targets : KindOf(t) # "bootstrap" => ran[t] <= 1

(***************************************************************************)
(* Work under way is always under its machine's lock: as long as a request *)
(* is on the wire or a runner is alive, no other target can be dispatched  *)
(* to that machine, and the machine cannot be retired.                     *)
(***************************************************************************)
WorkIsLocked ==
  \A t \in Targets : t \in starts \/ op[t] \in Live => locks[MachineOf(t)] = t

(***************************************************************************)
(* A recorded outcome is what happened: "succeeded" was done, "failed" was *)
(* not done or failed on the rig, "cancelled" never ran to its end - and   *)
(* stays so, whatever arrives afterwards.  Outcomes an operator recorded   *)
(* are the operator's word.                                                *)
(***************************************************************************)
ReportsAreTrue ==
  \A t \in Targets \ byHand :
    /\ status[t] = "succeeded" =>
         IF Recorded(t) THEN op[t] = "succeeded" ELSE ran[t] > 0
    /\ status[t] = "failed" =>
         IF Recorded(t) THEN op[t] \in {"missing", "failed"} ELSE ran[t] = 0
    /\ status[t] = "cancelled" => op[t] \in {"missing", "cancelled"} /\ t \notin starts

(***************************************************************************)
(* A power request that may have reached the BMC is not recorded as        *)
(* failed: its outcome is unknown and the machine stays locked until an    *)
(* operator settles it (architecture.md: an unknown result keeps the       *)
(* machine lock; bios-management.md says the same of SUM).                 *)
(***************************************************************************)
PowerSentIsNotFailed ==
  \A t \in Targets \ byHand :
    KindOf(t) = "power" /\ status[t] = "failed" => ran[t] = 0

(***************************************************************************)
(* Nothing hangs on a lost rig: a target handed to a worker is eventually  *)
(* settled or put before an operator, though calls may fail every time and *)
(* the controller may restart (unless the bound on leases is reached).     *)
(***************************************************************************)
EventuallySettledOrAsked ==
  \A t \in Targets :
    status[t] \in {"running", "reconciling"}
      ~> (status[t] \in Definite \cup {"unknown"} \/ claims[t] = MaxClaims)
=============================================================================
