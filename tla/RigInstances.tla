---------------------------- MODULE RigInstances ----------------------------
(***************************************************************************)
(* The mining instances of one rig, as the runtime script keeps them: a    *)
(* record per instance on disk, a supervisor process in a screen session,  *)
(* and three programs that start and stop it: the runner of the            *)
(* controller's operations, the watchdog with its thermal guard, and the   *)
(* recovery at boot.  start and stop of one instance exclude each other by *)
(* control.lock, but a restart, a thermal pause or a decision made from    *)
(* the record is several such calls, and others may come in between.       *)
(* What a program still has to do is its plan, a sequence of calls.        *)
(* Versions, switching by a deployment and the miner's child process are   *)
(* left out (a supervisor that mines has one); so are the timings: warm-up,*)
(* cooldown and the recovery window end at some time.                      *)
(***************************************************************************)
EXTENDS Naturals, Sequences, FiniteSets, SequencesExt

CONSTANTS
  Instances,        \* instance names
  Operations,       \* operations the controller sends: "start", "stop", "restart"
  MaintenanceMode,  \* policy maintenance_mode
  MaxRestarts,      \* policy max_restarts, the recovery budget
  MaxFaults         \* bound: reboots, killed programs and failing screen commands

ASSUME RigAssumption ==
  /\ IsFiniteSet(Instances)
  /\ Operations \subseteq {"start", "stop", "restart"}
  /\ MaintenanceMode \in BOOLEAN
  /\ MaxRestarts \in Nat
  /\ MaxFaults \in Nat

VARIABLES
  rec,          \* state.json: desired, maintenance, phase
  stopFile,     \* instances with a STOP file
  restarts,     \* recoveries within the window
  warm,         \* instances with warm_until in the future
  sup,          \* what the supervisor does, "none" without one (and without its screen)
  registered,   \* instances whose record names the living supervisor
  control,      \* holder of control.lock
  plan,         \* calls a program still has to make
  stage,        \* where a program is within its current call
  paused,       \* thermal.json: instances to resume when it is cool
  picked,       \* instances stopped by the thermal pass under way
  faults,       \* faults so far
  byHand,       \* history: how a stop by hand not yet revoked by hand came about
  hotStopped,   \* history: stopped by the thermal guard, and not started since
  heldAtBoot    \* history: booted in maintenance mode, and not started by hand since

records == <<rec, stopFile, restarts, warm>>
programs == <<control, plan, stage>>
history == <<byHand, hotStopped, heldAtBoot>>
rigVars == <<records, sup, registered, programs, paused, picked, faults, history>>

Programs == {"runner", "watchdog", "boot"}
Phases == {"starting", "running", "cooldown", "faulted", "stopping", "stopped"}
SupStages == {"none", "launched", "loop", "mining", "exited", "cooldown"}
Calls ==
  [do : {"stop", "hold", "start", "revive", "check", "look", "missing", "bad", "hotCheck",
         "coolCheck", "bootCheck"}, i : Instances]
  \cup [do : {"guard", "save", "clear", "scan"}]

On(do, i) == [do |-> do, i |-> i]
Just(do) == [do |-> do]
ForEach(do, is) == LET s == SetToSeq(is) IN [n \in 1..Len(s) |-> On(do, s[n])]

\* The call c is at, and whether it is one of the names, on i, with i's lock to be had.
At(c, dos) == plan[c] # <<>> /\ stage[c] = "ready" /\ Head(plan[c]).do \in dos
AtOn(c, dos, i) == At(c, dos) /\ Head(plan[c]).i = i
Takes(c, dos, i) == AtOn(c, dos, i) /\ control[i] = "free"
Holds(c, at, i) == stage[c] = at /\ control[i] = c

Done(c) == plan' = [plan EXCEPT ![c] = Tail(@)]
DoFirst(c, calls) == plan' = [plan EXCEPT ![c] = calls \o Tail(@)]
\* An exception: watchdog_once and thermal_guard go on with the next instance, the
\* loop of boot_start and the operation end.
Raises(c) == plan' = [plan EXCEPT ![c] = IF c = "watchdog" THEN Tail(@) ELSE <<>>]

Owned(i) == i \in registered /\ sup[i] # "none"
Lost(is) ==
  /\ sup' = [i \in Instances |-> IF i \in is THEN "none" ELSE sup[i]]
  /\ registered' = registered \ is
Fault == faults < MaxFaults /\ faults' = faults + 1

\* Program c is going to start or pause i, whatever it finds in the record by then.
Acts(c, i) ==
  /\ On("check", i) \notin Range(plan[c])
  /\ {On("hold", i), On("start", i), On("revive", i), On("missing", i)}
       \cap Range(plan[c]) # {}
-----------------------------------------------------------------------------
RigInit ==
  /\ rec = [i \in Instances |-> [desired |-> "stopped", maint |-> FALSE, phase |-> "stopped"]]
  /\ stopFile = Instances
  /\ restarts = [i \in Instances |-> 0]
  /\ warm = {}
  /\ sup = [i \in Instances |-> "none"]
  /\ registered = {}
  /\ control = [i \in Instances |-> "free"]
  /\ plan = [c \in Programs |-> <<>>]
  /\ stage = [c \in Programs |-> "ready"]
  /\ paused = {}
  /\ picked = {}
  /\ faults = 0
  /\ byHand = [i \in Instances |-> "none"]
  /\ hotStopped = {}
  /\ heldAtBoot = {}

(***************************************************************************)
(* stop(name) and stop(name, "running", maintenance=True): take the lock,  *)
(* write the intent and the STOP file ...                                  *)
(***************************************************************************)
StopBegins(c, i) ==
  /\ Takes(c, {"stop", "hold"}, i)
  /\ LET manual == Head(plan[c]).do = "stop" IN
     /\ rec' = [rec EXCEPT ![i] = [desired |-> IF manual THEN "stopped" ELSE "running",
                                   maint |-> ~ manual, phase |-> "stopping"]]
     /\ byHand' = IF ~ manual THEN byHand
                  ELSE [byHand EXCEPT ![i] =
                    IF \E d \in Programs \ {c} : Acts(d, i) THEN "overlapped" ELSE "quiet"]
  /\ stopFile' = stopFile \cup {i}
  /\ control' = [control EXCEPT ![i] = c]
  /\ stage' = [stage EXCEPT ![c] = "killing"]
  /\ UNCHANGED <<restarts, warm, sup, registered, plan, paused, picked, faults, hotStopped,
                 heldAtBoot>>

\* Faulty: a supervisor is only asked to end through its screen.
StopKillsByScreenOnly(c, i) ==
  /\ Holds(c, "killing", i)
  /\ stage' = [stage EXCEPT ![c] = "ending"]
  /\ \/ Lost({i}) /\ UNCHANGED faults
     \/ sup[i] # "none" /\ Fault /\ UNCHANGED <<sup, registered>>
  /\ UNCHANGED <<records, control, plan, paused, picked, history>>

\* ... end the supervisor: by signal when the record names it, else by closing its screen ...
StopKills(c, i) ==
  /\ Holds(c, "killing", i)
  /\ stage' = [stage EXCEPT ![c] = "ending"]
  /\ \/ Lost({i}) /\ UNCHANGED faults
     \/ sup[i] # "none" /\ ~ Owned(i) /\ Fault /\ UNCHANGED <<sup, registered>>  \* screen hangs
  /\ UNCHANGED <<records, control, plan, paused, picked, history>>

\* ... and record the end.
StopEnds(c, i) ==
  /\ Holds(c, "ending", i)
  /\ rec' = [rec EXCEPT ![i].phase = "stopped"]
  /\ registered' = registered \ {i}
  /\ control' = [control EXCEPT ![i] = "free"]
  /\ stage' = [stage EXCEPT ![c] = "ready"]
  /\ Done(c)
  /\ hotStopped' = IF c = "watchdog" /\ i \in picked THEN hotStopped \cup {i} ELSE hotStopped
  /\ UNCHANGED <<stopFile, restarts, warm, sup, paused, picked, faults, byHand, heldAtBoot>>

(***************************************************************************)
(* start(name, preserve): nothing to launch when the supervisor is alive   *)
(* and known; refused when the screen is alive but not known.              *)
(***************************************************************************)
StartFinds(c, i) ==
  /\ Takes(c, {"start", "revive"}, i)
  /\ Owned(i)
  /\ rec' = [rec EXCEPT ![i].desired = "running", ![i].maint = FALSE]
  /\ Done(c)
  /\ hotStopped' = hotStopped \ {i}
  /\ UNCHANGED <<stopFile, restarts, warm, sup, registered, control, stage, paused, picked,
                 faults, byHand, heldAtBoot>>

StartRefuses(c, i) ==
  /\ Takes(c, {"start", "revive"}, i)
  /\ sup[i] # "none" /\ ~ Owned(i)
  /\ Raises(c)
  /\ UNCHANGED <<records, sup, registered, control, stage, paused, picked, faults, history>>

\* Faulty: the screen session is not looked for.
StartPreparesUnseen(c, i) ==
  /\ Takes(c, {"start", "revive"}, i)
  /\ ~ Owned(i)
  /\ rec' = [rec EXCEPT ![i] = [desired |-> "running", maint |-> FALSE, phase |-> "starting"]]
  /\ stopFile' = stopFile \ {i}
  /\ restarts' = IF Head(plan[c]).do = "start" THEN [restarts EXCEPT ![i] = 0] ELSE restarts
  /\ warm' = warm \cup {i}
  /\ control' = [control EXCEPT ![i] = c]
  /\ stage' = [stage EXCEPT ![c] = "spawning"]
  /\ hotStopped' = hotStopped \ {i}
  /\ UNCHANGED <<sup, registered, plan, paused, picked, faults, byHand, heldAtBoot>>

StartPrepares(c, i) ==
  /\ Takes(c, {"start", "revive"}, i)
  /\ sup[i] = "none"
  /\ rec' = [rec EXCEPT ![i] = [desired |-> "running", maint |-> FALSE, phase |-> "starting"]]
  /\ stopFile' = stopFile \ {i}
  /\ restarts' = IF Head(plan[c]).do = "start" THEN [restarts EXCEPT ![i] = 0] ELSE restarts
  /\ warm' = warm \cup {i}
  /\ control' = [control EXCEPT ![i] = c]
  /\ stage' = [stage EXCEPT ![c] = "spawning"]
  /\ hotStopped' = hotStopped \ {i}
  /\ UNCHANGED <<sup, registered, plan, paused, picked, faults, byHand, heldAtBoot>>

StartLaunches(c, i) ==
  /\ Holds(c, "spawning", i)
  /\ \/ sup' = [sup EXCEPT ![i] = "launched"] /\ Done(c) /\ UNCHANGED faults
     \/ Fault /\ Raises(c) /\ UNCHANGED sup          \* screen -dmS fails or times out
  /\ control' = [control EXCEPT ![i] = "free"]
  /\ stage' = [stage EXCEPT ![c] = "ready"]
  /\ UNCHANGED <<records, registered, paused, picked, history>>

\* Faulty: a restart by the watchdog goes through in any case.
RestartUnchecked(c, i) ==
  /\ AtOn(c, {"check"}, i)
  /\ Done(c)
  /\ UNCHANGED <<records, sup, registered, control, stage, paused, picked, faults, history>>

(***************************************************************************)
(* restart(name, reason), its head: a restart by the watchdog is dropped   *)
(* when the instance is no longer to run.                                  *)
(***************************************************************************)
RestartChecks(c, i) ==
  /\ AtOn(c, {"check"}, i)
  /\ plan' = [plan EXCEPT ![c] =
       IF rec[i].desired = "running" THEN Tail(@) ELSE SubSeq(@, 4, Len(@))]
  /\ UNCHANGED <<records, sup, registered, control, stage, paused, picked, faults, history>>
-----------------------------------------------------------------------------
(***************************************************************************)
(* supervise: a supervisor enters itself in the record, then runs the      *)
(* miner as long as the record and the STOP file allow.                    *)
(***************************************************************************)
Registers(i) ==
  /\ sup[i] = "launched"
  /\ sup' = [sup EXCEPT ![i] = "loop"]
  /\ registered' = registered \cup {i}
  /\ UNCHANGED <<records, programs, paused, picked, faults, history>>

StopWanted(i) == rec[i].desired # "running" \/ i \in stopFile

LoopChecks(i) ==
  /\ sup[i] = "loop"
  /\ IF StopWanted(i) \/ rec[i].maint
     THEN Lost({i}) /\ UNCHANGED rec
     ELSE /\ sup' = [sup EXCEPT ![i] = "mining"]
          /\ rec' = [rec EXCEPT ![i].phase = "running"]
          /\ UNCHANGED registered
  /\ UNCHANGED <<stopFile, restarts, warm, programs, paused, picked, faults, history>>

MinerExits(i) ==
  /\ sup[i] = "mining"
  /\ sup' = [sup EXCEPT ![i] = "exited"]
  /\ UNCHANGED <<records, registered, programs, paused, picked, faults, history>>

\* Faulty: the limit is compared with <=.
BudgetPastLimit(i) == restarts[i] <= MaxRestarts /\ restarts' = [restarts EXCEPT ![i] = @ + 1]

\* budget: one more recovery, or none left.
Budget(i) == restarts[i] < MaxRestarts /\ restarts' = [restarts EXCEPT ![i] = @ + 1]
NoBudget(i) == restarts[i] >= MaxRestarts /\ UNCHANGED restarts
SetPhase(i, phase) == rec' = [rec EXCEPT ![i].phase = phase]

\* The miner exited by itself: cool down and run it again, within the budget.
AfterExit(i) ==
  /\ sup[i] = "exited"
  /\ \/ StopWanted(i) /\ Lost({i}) /\ UNCHANGED <<rec, restarts>>
     \/ /\ ~ StopWanted(i) /\ Budget(i) /\ SetPhase(i, "cooldown")
        /\ sup' = [sup EXCEPT ![i] = "cooldown"]
        /\ UNCHANGED registered
     \/ ~ StopWanted(i) /\ NoBudget(i) /\ SetPhase(i, "faulted") /\ Lost({i})
  /\ UNCHANGED <<stopFile, warm, programs, paused, picked, faults, history>>

CooldownEnds(i) ==
  /\ sup[i] = "cooldown"
  /\ IF StopWanted(i)
     THEN Lost({i})
     ELSE sup' = [sup EXCEPT ![i] = "loop"] /\ UNCHANGED registered
  /\ UNCHANGED <<records, programs, paused, picked, faults, history>>
-----------------------------------------------------------------------------
\* operation_run, kind "miner": the controller's operations, one at a time.
RunnerBegins(op, i) ==
  /\ plan["runner"] = <<>>
  /\ plan' = [plan EXCEPT !["runner"] =
       CASE op = "start" -> <<On("start", i)>>
         [] op = "stop" -> <<On("stop", i)>>
         [] op = "restart" -> <<On("hold", i), On("start", i)>>]
  /\ byHand' = IF op = "stop" THEN byHand ELSE [byHand EXCEPT ![i] = "none"]
  /\ heldAtBoot' = IF op = "stop" THEN heldAtBoot ELSE heldAtBoot \ {i}
  /\ UNCHANGED <<records, sup, registered, control, stage, paused, picked, faults, hotStopped>>

(***************************************************************************)
(* watchdog: look at every instance, then at the temperature, forever.     *)
(***************************************************************************)
WatchdogTicks ==
  /\ plan["watchdog"] = <<>>
  /\ plan' = [plan EXCEPT !["watchdog"] = ForEach("look", Instances) \o <<Just("guard")>>]
  /\ UNCHANGED <<records, sup, registered, control, stage, paused, picked, faults, history>>

\* Faulty: only an instance that got to run is watched.
WatchedOnceRunning(i) ==
  /\ rec[i].desired = "running" /\ ~ rec[i].maint /\ rec[i].phase = "running"
  /\ i \notin warm

Watched(i) ==
  /\ rec[i].desired = "running" /\ ~ rec[i].maint /\ rec[i].phase # "faulted"
  /\ i \notin warm

\* watchdog_once: a supervisor is missing ...
WatchdogMisses(i) ==
  /\ AtOn("watchdog", {"look"}, i)
  /\ Watched(i) /\ ~ Owned(i)
  /\ DoFirst("watchdog", <<On("missing", i)>>)
  /\ UNCHANGED <<records, sup, registered, control, stage, paused, picked, faults, history>>

\* ... and is replaced within the budget, unless its screen is alive.
WatchdogRevives(i) ==
  /\ AtOn("watchdog", {"missing"}, i)
  /\ \/ NoBudget(i) /\ SetPhase(i, "faulted") /\ Done("watchdog")
     \/ Budget(i) /\ sup[i] # "none" /\ SetPhase(i, "faulted") /\ Done("watchdog")
     \/ /\ Budget(i) /\ sup[i] = "none" /\ UNCHANGED rec
        /\ DoFirst("watchdog", <<On("revive", i)>>)
  /\ UNCHANGED <<stopFile, warm, sup, registered, control, stage, paused, picked, faults,
                 history>>

WatchdogRestart(i) == <<On("check", i), On("hold", i), On("revive", i)>>

\* watchdog_once: the main pool answers again, or the statistics are bad ...
WatchdogDisapproves(i) ==
  /\ AtOn("watchdog", {"look"}, i)
  /\ Watched(i) /\ Owned(i)
  /\ \/ DoFirst("watchdog", WatchdogRestart(i))
     \/ ~ MaintenanceMode /\ DoFirst("watchdog", <<On("bad", i)>>)
  /\ UNCHANGED <<records, sup, registered, control, stage, paused, picked, faults, history>>

\* ... and the miner is restarted within the budget.
WatchdogRestarts(i) ==
  /\ AtOn("watchdog", {"bad"}, i)
  /\ \/ Budget(i) /\ DoFirst("watchdog", WatchdogRestart(i)) /\ UNCHANGED rec
     \/ NoBudget(i) /\ SetPhase(i, "faulted") /\ Done("watchdog")
  /\ UNCHANGED <<stopFile, warm, sup, registered, control, stage, paused, picked, faults,
                 history>>

WatchdogIsContent(i) ==
  /\ AtOn("watchdog", {"look"}, i)
  /\ Watched(i) => Owned(i)
  /\ Done("watchdog")
  /\ UNCHANGED <<records, sup, registered, control, stage, paused, picked, faults, history>>

(***************************************************************************)
(* thermal_guard with action stop_miner: at the critical temperature pause *)
(* what runs and then note it in thermal.json; resume when it is cool.     *)
(***************************************************************************)
GuardFindsHot ==
  /\ At("watchdog", {"guard"})
  /\ picked' = {}
  /\ DoFirst("watchdog", ForEach("hotCheck", Instances) \o <<Just("save")>>)
  /\ UNCHANGED <<records, sup, registered, control, stage, paused, faults, history>>

GuardFindsCool ==
  /\ At("watchdog", {"guard"})
  /\ IF paused # {}
     THEN DoFirst("watchdog", ForEach("coolCheck", paused) \o <<Just("clear")>>)
     ELSE Done("watchdog")
  /\ UNCHANGED <<records, sup, registered, control, stage, paused, picked, faults, history>>

\* Between the two temperatures, or no reading.
GuardWaits ==
  /\ At("watchdog", {"guard"})
  /\ Done("watchdog")
  /\ UNCHANGED <<records, sup, registered, control, stage, paused, picked, faults, history>>

HotChecks(i) ==
  /\ AtOn("watchdog", {"hotCheck"}, i)
  /\ IF rec[i].desired = "running" /\ ~ rec[i].maint /\ i \notin paused
     THEN DoFirst("watchdog", <<On("hold", i)>>) /\ picked' = picked \cup {i}
     ELSE Done("watchdog") /\ UNCHANGED picked
  /\ UNCHANGED <<records, sup, registered, control, stage, paused, faults, history>>

\* Faulty: the list is replaced, not extended.
SavesPausedAnew ==
  /\ At("watchdog", {"save"})
  /\ paused' = IF picked = {} THEN paused ELSE picked
  /\ picked' = {}
  /\ Done("watchdog")
  /\ UNCHANGED <<records, sup, registered, control, stage, faults, history>>

SavesPaused ==
  /\ At("watchdog", {"save"})
  /\ paused' = paused \cup picked
  /\ picked' = {}
  /\ Done("watchdog")
  /\ UNCHANGED <<records, sup, registered, control, stage, faults, history>>

CoolChecks(i) ==
  /\ AtOn("watchdog", {"coolCheck"}, i)
  /\ IF rec[i].desired = "running" /\ rec[i].maint /\ rec[i].phase = "stopped"
     THEN DoFirst("watchdog", <<On("revive", i)>>)
     ELSE Done("watchdog")
  /\ UNCHANGED <<records, sup, registered, control, stage, paused, picked, faults, history>>

ClearsPaused ==
  /\ At("watchdog", {"clear"})
  /\ paused' = {}
  /\ Done("watchdog")
  /\ UNCHANGED <<records, sup, registered, control, stage, picked, faults, history>>
-----------------------------------------------------------------------------
(***************************************************************************)
(* boot_start: start what is to run, unless the rig is in maintenance mode *)
(* or the thermal guard paused it.  With a miner delay it runs beside the  *)
(* watchdog, without one before it.                                        *)
(***************************************************************************)
BootScans ==
  /\ At("boot", {"scan"})
  /\ IF MaintenanceMode
     THEN Done("boot")
     ELSE DoFirst("boot", ForEach("bootCheck", Instances \ paused))
  /\ UNCHANGED <<records, sup, registered, control, stage, paused, picked, faults, history>>

BootChecks(i) ==
  /\ AtOn("boot", {"bootCheck"}, i)
  /\ IF rec[i].desired = "running" /\ ~ rec[i].maint /\ rec[i].phase # "faulted"
     THEN DoFirst("boot", <<On("revive", i)>>)
     ELSE Done("boot")
  /\ UNCHANGED <<records, sup, registered, control, stage, paused, picked, faults, history>>

(***************************************************************************)
(* The surroundings: time, a supervisor killed from outside (its screen    *)
(* closed, out of memory), a program killed (systemctl restarts the        *)
(* watchdog at every installation of the runtime), a reboot.               *)
(***************************************************************************)
WarmUpEnds(i) ==
  /\ i \in warm
  /\ warm' = warm \ {i}
  /\ UNCHANGED <<rec, stopFile, restarts, sup, registered, programs, paused, picked, faults,
                 history>>

RecoveryAges(i) ==
  /\ restarts[i] > 0
  /\ restarts' = [restarts EXCEPT ![i] = @ - 1]
  /\ UNCHANGED <<rec, stopFile, warm, sup, registered, programs, paused, picked, faults,
                 history>>

SupervisorDies(i) ==
  /\ sup[i] # "none"
  /\ Fault
  /\ Lost({i})
  /\ UNCHANGED <<records, programs, paused, picked, history>>

ProgramDies(c) ==
  /\ plan[c] # <<>>
  /\ Fault
  /\ plan' = [plan EXCEPT ![c] = <<>>]
  /\ stage' = [stage EXCEPT ![c] = "ready"]
  /\ control' = [i \in Instances |-> IF control[i] = c THEN "free" ELSE control[i]]
  /\ picked' = IF c = "watchdog" THEN {} ELSE picked
  /\ UNCHANGED <<records, sup, registered, paused, history>>

Reboots ==
  /\ Fault
  /\ Lost(Instances)
  /\ plan' = [c \in Programs |-> IF c = "boot" THEN <<Just("scan")>> ELSE <<>>]
  /\ stage' = [c \in Programs |-> "ready"]
  /\ control' = [i \in Instances |-> "free"]
  /\ picked' = {}
  /\ heldAtBoot' = IF MaintenanceMode THEN Instances ELSE {}
  /\ UNCHANGED <<records, paused, byHand, hotStopped>>
-----------------------------------------------------------------------------
Calling(c) ==
  \E i \in Instances :
    \/ StopBegins(c, i) \/ StopKills(c, i) \/ StopEnds(c, i)
    \/ StartFinds(c, i) \/ StartRefuses(c, i) \/ StartPrepares(c, i) \/ StartLaunches(c, i)
    \/ RestartChecks(c, i)

Watchdog ==
  \/ Calling("watchdog")
  \/ WatchdogTicks
  \/ \E i \in Instances :
       \/ WatchdogMisses(i) \/ WatchdogRevives(i)
       \/ WatchdogDisapproves(i) \/ WatchdogRestarts(i) \/ WatchdogIsContent(i)
       \/ HotChecks(i) \/ CoolChecks(i)
  \/ GuardFindsHot \/ GuardFindsCool \/ GuardWaits \/ SavesPaused \/ ClearsPaused

Boot == Calling("boot") \/ BootScans \/ \E i \in Instances : BootChecks(i)

Supervisor(i) ==
  Registers(i) \/ LoopChecks(i) \/ AfterExit(i) \/ CooldownEnds(i)

RigNext ==
  \/ Calling("runner") \/ Watchdog \/ Boot
  \/ \E op \in Operations, i \in Instances : RunnerBegins(op, i)
  \/ \E i \in Instances :
       \/ Supervisor(i) \/ MinerExits(i)
       \/ WarmUpEnds(i) \/ RecoveryAges(i) \/ SupervisorDies(i)
  \/ \E c \in Programs : ProgramDies(c)
  \/ Reboots

RigSpec == RigInit /\ [][RigNext]_rigVars

\* The programs and the supervisors run, systemd restarts the watchdog, time passes.
RigFairness ==
  /\ WF_rigVars(Calling("runner"))
  /\ WF_rigVars(Watchdog)
  /\ WF_rigVars(Boot)
  /\ \A i \in Instances : WF_rigVars(Supervisor(i)) /\ WF_rigVars(WarmUpEnds(i))

FairRig == RigSpec /\ RigFairness
-----------------------------------------------------------------------------
RigTypeOK ==
  /\ rec \in [Instances -> [desired : {"running", "stopped"}, maint : BOOLEAN, phase : Phases]]
  /\ stopFile \in SUBSET Instances
  /\ restarts \in [Instances -> 0..MaxRestarts]
  /\ warm \in SUBSET Instances
  /\ sup \in [Instances -> SupStages]
  /\ registered \in SUBSET Instances
  /\ control \in [Instances -> Programs \cup {"free"}]
  /\ \A c \in Programs : plan[c] \in Seq(Calls)
  /\ stage \in [Programs -> {"ready", "killing", "ending", "spawning"}]
  /\ paused \in SUBSET Instances
  /\ picked \in SUBSET Instances
  /\ faults \in 0..MaxFaults
  /\ byHand \in [Instances -> {"none", "overlapped", "quiet"}]
  /\ hotStopped \in SUBSET Instances
  /\ heldAtBoot \in SUBSET Instances

(***************************************************************************)
(* No instance ever gets a second supervisor (and so no second miner on    *)
(* the same devices): when a program is about to launch one, none is       *)
(* alive, known to the record or not.                                      *)
(***************************************************************************)
NeverTwoSupervisors ==
  \A c \in Programs, i \in Instances : Holds(c, "spawning", i) => sup[i] = "none"

(***************************************************************************)
(* What the record calls stopped is stopped: its supervisor is gone, or is *)
(* one that has just been launched and will find the STOP file before it   *)
(* runs a miner - even when screen hangs while it is to be closed.         *)
(***************************************************************************)
StoppedIsDead ==
  \A i \in Instances :
    rec[i].phase = "stopped" => i \in stopFile /\ sup[i] \in {"none", "launched", "loop"}

\* Paused by the runtime, and neither listed for resuming nor in the hands of a program.
Abandoned(i) ==
  /\ rec[i].desired = "running" /\ rec[i].maint
  /\ i \notin paused \cup picked
  /\ \A c \in Programs : ~ Acts(c, i)

(***************************************************************************)
(* Whatever operations, restarts, thermal pauses and resumptions come      *)
(* between each other, no instance that should run is left in maintenance  *)
(* with nobody to start it again - as long as nothing is killed and screen *)
(* does as told.                                                           *)
(***************************************************************************)
OnlyFaultsAbandon == faults = 0 => \A i \in Instances : ~ Abandoned(i)

(***************************************************************************)
(* A stop by hand that found no restart, resumption or start of the same   *)
(* instance already decided on is final: neither the watchdog nor a boot   *)
(* nor a cooled rig makes the instance run again.                          *)
(***************************************************************************)
QuietStopStands ==
  \A i \in Instances : byHand[i] = "quiet" => rec[i].desired = "stopped"

(***************************************************************************)
(* extensions.md: a stop by hand persists the intent, and neither the      *)
(* watchdog nor the recovery at boot starts the instance again.            *)
(***************************************************************************)
ManualStopStands ==
  \A i \in Instances : byHand[i] # "none" => rec[i].desired = "stopped"

(***************************************************************************)
(* ui-hiveos.md: a miner paused at the critical temperature is resumed     *)
(* when it is cool, after a reboot too; so it is never forgotten.          *)
(***************************************************************************)
ThermalPauseRemembered == \A i \in hotStopped : ~ Abandoned(i)

(***************************************************************************)
(* ui-hiveos.md: in maintenance mode the miners are not started at boot,   *)
(* only by hand.                                                           *)
(***************************************************************************)
MaintenanceModeHolds == \A i \in heldAtBoot : sup[i] = "none"

(***************************************************************************)
(* An instance that should run and lost its supervisor gets another one,   *)
(* unless it is stopped or paused, or the recovery budget is used up.      *)
(***************************************************************************)
Recovers ==
  \A i \in Instances :
    rec[i].desired = "running" /\ sup[i] = "none"
      ~> \/ sup[i] # "none"
         \/ rec[i].desired = "stopped" \/ rec[i].maint \/ rec[i].phase = "faulted"
=============================================================================
