----------------------------- MODULE Supervisor ------------------------------
(***************************************************************************)
(* The supervisor: which mode the vehicle is in, the transaction that      *)
(* replaces the one swappable layer, the survey follow-ups, faults and     *)
(* shutdown (amr_bringup/supervisor_node.py, mode_fsm.py).                 *)
(*                                                                         *)
(* One action per service handler and per branch of _tick; both hold the   *)
(* state lock throughout.  Process groups, the mux, the survey coordinator *)
(* and the lifecycle managers are external: a group may lose its leader or *)
(* members at any time, an answer may never come.  Every waiting step has  *)
(* a deadline, so its timeout is always possible and a tick that goes on   *)
(* waiting is a stutter.  What admission reads of the wheels, the drives   *)
(* and the layer's own state is any value.                                 *)
(***************************************************************************)
EXTENDS Integers, FiniteSets

CONSTANTS
    None,
    MaxGen,     \* bound on the generations of one supervisor
    MaxOps      \* bound on the operations that requests create

ASSUME SupervisorAssumption == MaxGen \in Nat \ {0} /\ MaxOps \in Nat

VARIABLES
    mode, faultCode, generation, emergency, inhibitManual,
    txn,        \* the transaction in flight: [op, target, step, fromFault, asked]
    surveyOp,   \* the survey follow-up in flight: [op, kind]
    future,     \* _pending_future: None, or how far its answer is
    status,     \* OperationBook: the status of every operation
    muxGen,     \* Snapshots.mux_gen
    layer,      \* groups["layer"]: [gen, target, leader, requested]
    procs,      \* the generations of which layer processes are alive
    worker,     \* _worker: the generation whose group it stops, and whether done
    baseAlive, baseReaped,
    over        \* shutdown() took the state lock

modeVars == <<mode, faultCode, generation, inhibitManual>>
flightVars == <<txn, surveyOp, future, status>>
groupVars == <<layer, procs, worker, baseAlive, baseReaped>>
vars == <<modeVars, flightVars, groupVars, emergency, muxGen, over>>

Generations == 1..MaxGen
Ops == 1..MaxOps
LayerModes == {"MAPPING", "NAVIGATION"}
Stable == LayerModes \cup {"IDLE"}
Modes == Stable \cup {"STARTING", "TRANSITIONING", "FAULT", "STOPPING"}
FaultCodes == {"", "BOOT_ERROR", "BASE_NOT_READY", "BASE_EXITED", "OTHER"}
Targets == Stable
Steps == {"inhibit", "wait_mux_ack", "wait_still", "stop_old", "clear_caches",
          "start_new", "wait_ready", "commit"}
FollowUps == {"returned", "save", "abort"}
Statuses == {"unused", "pending", "succeeded", "failed", "interrupted"}

\* asked: the calls the layer has answered (the "lm:" notes, the survey start).
Transaction == [op : Ops, target : Targets, step : Steps, fromFault : BOOLEAN, asked : 0..3]
Group == [gen : Generations, target : LayerModes, leader : BOOLEAN, requested : BOOLEAN]
SurveyOp == [op : Ops, kind : FollowUps]
Answers == {"waiting", "yes", "no"}

ASSUME NoneAssumption ==
    None \notin Transaction /\ None \notin Group /\ None \notin SurveyOp /\ None \notin Answers

Pending == {op \in Ops : status[op] = "pending"}

Init ==
    /\ mode = "STARTING" /\ faultCode = "" /\ generation = 1
    /\ inhibitManual = FALSE /\ emergency = FALSE
    /\ txn = None /\ surveyOp = None /\ future = None
    /\ status = [op \in Ops |-> "unused"]
    /\ muxGen = 0
    /\ layer = None /\ procs = {} /\ worker = None
    /\ baseAlive = TRUE /\ baseReaped = FALSE
    /\ over = FALSE

\* _allowed: the class of motion the next lease grants.
AllowedClass ==
    IF \/ txn # None \/ mode \notin Stable
       \/ inhibitManual \/ emergency
    THEN "none"
    ELSE IF mode = "NAVIGATION" THEN "autonomous" ELSE "manual"

-----------------------------------------------------------------------------
(* Faults.                                                                 *)

LayerEmpty == layer # None => layer.gen \notin procs

Finish(finished, result) ==
    status' = [op \in Ops |-> IF op \in finished THEN result ELSE status[op]]

\* Faulty variant: a fresh operation carries the fault, the one in flight is
\* forgotten.
InFlightNothing == {}

\* The operations of the transaction and of the survey follow-up.
InFlight ==
    {op \in Ops : \/ txn # None /\ txn.op = op
                  \/ surveyOp # None /\ surveyOp.op = op}

\* _start_worker: the thread that stops the layer.
StartWorker == [gen |-> layer.gen, done |-> FALSE]

\* _fail_active, _fail: what is in flight ends, the layer is stopped.  With
\* nothing in flight a record of its own is written, finished at once.
Fail(code) ==
    /\ Finish(InFlight \cap Pending, "failed")
    /\ txn' = None /\ surveyOp' = None /\ future' = None
    /\ inhibitManual' = FALSE
    /\ mode' = "FAULT" /\ faultCode' = code
    /\ worker' = IF LayerEmpty THEN worker ELSE StartWorker
    /\ UNCHANGED generation

-----------------------------------------------------------------------------
(* Requests.                                                               *)

NewOp(op) == status[op] = "unused" /\ \A o \in Ops : o < op => status[o] # "unused"

\* admit(): nothing pending and a mode that has settled.
Admissible == Pending = {} /\ mode \in Stable \cup {"FAULT"} /\ ~over

\* _begin_transaction; the generation rotates on the next tick.
Begin(op, target, fromFault) ==
    /\ generation < MaxGen
    /\ txn' = [op |-> op, target |-> target, step |-> "inhibit",
               fromFault |-> fromFault, asked |-> 0]
    /\ mode' = "TRANSITIONING" /\ faultCode' = ""

\* _srv_mode, _srv_survey START: a request to replace the layer.
RequestMode ==
    /\ Admissible /\ mode # "FAULT"
    /\ \E op \in Ops, target \in Targets :
          /\ NewOp(op)
          /\ (emergency => mode = "IDLE" /\ target = "IDLE")
          /\ Begin(op, target, FALSE)
          /\ status' = [status EXCEPT ![op] = "pending"]
    /\ UNCHANGED <<generation, inhibitManual, surveyOp, future, groupVars, emergency, muxGen, over>>

\* _srv_survey RETURNED, SAVE, ABORT.
RequestSurvey ==
    /\ Admissible /\ mode = "MAPPING"
    /\ \E op \in Ops, kind \in FollowUps :
          /\ NewOp(op)
          /\ surveyOp' = [op |-> op, kind |-> kind]
          /\ inhibitManual' = (inhibitManual \/ kind = "save")
          /\ status' = [status EXCEPT ![op] = "pending"]
    /\ UNCHANGED <<mode, faultCode, generation, txn, future, groupVars, emergency, muxGen, over>>

\* _base_failure: recovery replaces the layer and cannot rebuild the base.
BaseFailure == ~baseAlive \/ faultCode \in {"BASE_EXITED", "BOOT_ERROR"}

\* _srv_recover.
Recover ==
    /\ Admissible /\ mode = "FAULT" /\ ~BaseFailure
    /\ \E op \in Ops :
          /\ NewOp(op)
          /\ Begin(op, "IDLE", TRUE)
          /\ status' = [status EXCEPT ![op] = "pending"]
    /\ UNCHANGED <<generation, inhibitManual, surveyOp, future, groupVars, emergency, muxGen, over>>

-----------------------------------------------------------------------------
(* The transaction: _step_transaction, one step a tick.                    *)

Advance(step) == txn' = [txn EXCEPT !.step = step]

Rotate ==
    /\ txn.step = "inhibit"
    /\ generation' = generation + 1
    /\ Advance("wait_mux_ack")
    /\ UNCHANGED <<mode, faultCode, inhibitManual, surveyOp, future, status, groupVars>>

\* Faulty variant: any report of the mux will do.
WaitMuxAckAny ==
    /\ txn.step = "wait_mux_ack" /\ muxGen # 0
    /\ Advance("wait_still")
    /\ UNCHANGED <<modeVars, surveyOp, future, status, groupVars>>

WaitMuxAck ==
    /\ txn.step = "wait_mux_ack" /\ muxGen = generation
    /\ Advance("wait_still")
    /\ UNCHANGED <<modeVars, surveyOp, future, status, groupVars>>

\* Still wheels, or none asked for after a fault: the old layer is stopped.
WaitStill ==
    /\ txn.step = "wait_still"
    /\ Advance("stop_old")
    /\ worker' = IF layer = None THEN None ELSE StartWorker
    /\ UNCHANGED <<modeVars, surveyOp, future, status, layer, procs, baseAlive, baseReaped>>

WorkerIdle == worker # None => worker.done

\* Faulty variant: the stopped leader is taken for the stopped group.
StopOldLeader ==
    /\ txn.step = "stop_old" /\ WorkerIdle
    /\ layer' = None /\ worker' = None
    /\ Advance("clear_caches")
    /\ UNCHANGED <<modeVars, surveyOp, future, status, procs, baseAlive, baseReaped>>

StopOld ==
    /\ txn.step = "stop_old" /\ WorkerIdle /\ LayerEmpty
    /\ layer' = None /\ worker' = None
    /\ Advance("clear_caches")
    /\ UNCHANGED <<modeVars, surveyOp, future, status, procs, baseAlive, baseReaped>>

ClearCaches ==
    /\ txn.step = "clear_caches"
    /\ Advance("start_new")
    /\ UNCHANGED <<modeVars, surveyOp, future, status, groupVars>>

\* Group.spawn: a process group of its own, alive from here on.
Spawn(target) ==
    /\ layer' = [gen |-> generation, target |-> target, leader |-> TRUE, requested |-> FALSE]
    /\ procs' = procs \cup {generation}

StartNew ==
    /\ txn.step = "start_new"
    /\ IF txn.target = "IDLE"
       THEN Advance("commit") /\ UNCHANGED <<layer, procs>>
       ELSE Advance("wait_ready") /\ Spawn(txn.target)
    /\ UNCHANGED <<modeVars, surveyOp, future, status, worker, baseAlive, baseReaped>>

\* Localization, navigation, navigation active; or the survey start.
Calls == IF txn.target = "NAVIGATION" THEN 3 ELSE 1

\* _ready_mapping, _ready_navigation: one call at a time.
AskLayer ==
    /\ txn.step = "wait_ready" /\ layer.leader /\ future = None /\ txn.asked < Calls
    /\ future' = "waiting"
    /\ UNCHANGED <<modeVars, txn, surveyOp, status, groupVars>>

LayerAnswered ==
    /\ txn.step = "wait_ready" /\ layer.leader /\ future = "yes"
    /\ future' = None
    /\ txn' = [txn EXCEPT !.asked = @ + 1]
    /\ UNCHANGED <<modeVars, surveyOp, status, groupVars>>

\* "not ready": the survey start is asked again.
SurveyNotReady ==
    /\ txn.step = "wait_ready" /\ layer.leader /\ future = "no" /\ txn.target = "MAPPING"
    /\ future' = None
    /\ UNCHANGED <<modeVars, txn, surveyOp, status, groupVars>>

\* The layer's own state is heard under this generation.
LayerReady ==
    /\ txn.step = "wait_ready" /\ layer.leader /\ txn.asked = Calls
    /\ Advance("commit")
    /\ UNCHANGED <<modeVars, surveyOp, future, status, groupVars>>

Commit ==
    /\ txn.step = "commit"
    /\ Finish({txn.op}, "succeeded")
    /\ txn' = None /\ future' = None
    /\ inhibitManual' = FALSE
    /\ mode' = txn.target /\ faultCode' = ""
    /\ UNCHANGED <<generation, surveyOp, groupVars>>

\* A deadline, a group that is not empty, a refused spawn or call, an exit
\* seen while waiting for readiness, or an exception in the tick.
TransactionFails ==
    /\ Fail("OTHER")
    /\ UNCHANGED <<layer, procs, baseAlive, baseReaped>>

StepTransaction ==
    /\ txn # None /\ mode = "TRANSITIONING"
    /\ \/ Rotate \/ WaitMuxAck \/ WaitStill \/ StopOld \/ ClearCaches \/ StartNew
       \/ AskLayer \/ LayerAnswered \/ SurveyNotReady \/ LayerReady \/ Commit
       \/ TransactionFails

-----------------------------------------------------------------------------
(* Survey follow-ups: _step_survey.                                        *)

AskCoordinator ==
    /\ future = None /\ future' = "waiting"
    /\ UNCHANGED <<modeVars, txn, surveyOp, status, groupVars>>

\* "returned", and a save that was refused, end the operation either way.
FollowUpEnds ==
    /\ \/ surveyOp.kind = "returned" /\ future \in {"yes", "no"}
       \/ surveyOp.kind = "save" /\ future = "no"
    /\ Finish({surveyOp.op}, IF future = "yes" THEN "succeeded" ELSE "failed")
    /\ surveyOp' = None /\ future' = None
    /\ inhibitManual' = (inhibitManual /\ surveyOp.kind # "save")
    /\ UNCHANGED <<mode, faultCode, generation, txn, groupVars>>

\* After a save or an abort the same operation carries the return to IDLE.
ReturnToIdle ==
    /\ \/ surveyOp.kind = "abort" /\ future \in {"yes", "no"}
       \/ surveyOp.kind = "save" /\ future = "yes"
    /\ Begin(surveyOp.op, "IDLE", FALSE)
    /\ surveyOp' = None /\ future' = None
    /\ inhibitManual' = (inhibitManual /\ surveyOp.kind # "save")
    /\ UNCHANGED <<generation, status, groupVars>>

\* No service, no answer within the budget, or an exception in the tick.
FollowUpFails ==
    /\ Fail("OTHER")
    /\ UNCHANGED <<layer, procs, baseAlive, baseReaped>>

StepSurvey ==
    /\ txn = None /\ surveyOp # None /\ mode = "MAPPING"
    /\ AskCoordinator \/ FollowUpEnds \/ ReturnToIdle \/ FollowUpFails

-----------------------------------------------------------------------------
(* The rest of the loop.                                                   *)

\* _boot raised: the fault of a supervisor that has no base.
BootFails ==
    /\ mode = "STARTING"
    /\ baseAlive' = FALSE /\ baseReaped' = TRUE
    /\ Fail("BOOT_ERROR")
    /\ UNCHANGED <<layer, procs>>

\* STARTING, or a base that was late, ends when the base is ready.
BaseReady ==
    /\ mode = "STARTING" \/ (mode = "FAULT" /\ faultCode = "BASE_NOT_READY" /\ txn = None)
    /\ muxGen = generation
    /\ mode' = "IDLE" /\ faultCode' = ""
    /\ UNCHANGED <<generation, inhibitManual, flightVars, groupVars>>

BaseLate ==
    /\ mode = "STARTING"
    /\ mode' = "FAULT" /\ faultCode' = "BASE_NOT_READY"
    /\ UNCHANGED <<generation, inhibitManual, flightVars, groupVars>>

\* _worker_done in FAULT.
Idle ==
    /\ mode = "FAULT" /\ worker # None /\ worker.done
    /\ worker' = None
    /\ UNCHANGED <<modeVars, flightVars, layer, procs, baseAlive, baseReaped>>

\* _reap: an exit nobody asked for is a fault, once.
ReapBase ==
    /\ ~baseAlive /\ ~baseReaped
    /\ baseReaped' = TRUE
    /\ Fail("BASE_EXITED")
    /\ UNCHANGED <<layer, procs, baseAlive>>

ReapLayer ==
    /\ layer # None /\ ~layer.leader /\ ~layer.requested
    /\ layer' = [layer EXCEPT !.requested = TRUE]
    /\ Fail("OTHER")
    /\ UNCHANGED <<procs, baseAlive, baseReaped>>

Tick ==
    /\ \/ ReapBase \/ ReapLayer
       \/ ~over /\ (BootFails \/ StepTransaction \/ StepSurvey \/ BaseReady \/ BaseLate \/ Idle)
    /\ UNCHANGED <<emergency, muxGen, over>>

\* shutdown() takes the lock (one that does not get it within 2 s is a
\* supervisor that stops at this point and publishes no more), then stops the groups and ends what is pending.
Shutdown ==
    /\ ~over /\ over' = TRUE
    /\ mode' = "STOPPING" /\ faultCode' = ""
    /\ UNCHANGED <<generation, inhibitManual, flightVars, groupVars, emergency, muxGen>>

ShutdownEnds ==
    /\ over
    /\ Finish(Pending, "interrupted")
    /\ baseAlive' = FALSE /\ baseReaped' = TRUE
    /\ IF layer = None
       THEN UNCHANGED <<layer, procs>>
       ELSE /\ layer' = [layer EXCEPT !.leader = FALSE, !.requested = TRUE]
            /\ procs' \in SUBSET procs
    /\ UNCHANGED <<modeVars, txn, surveyOp, future, worker, emergency, muxGen, over>>

-----------------------------------------------------------------------------
(* The surroundings.                                                       *)

\* The worker thread: requested_stop, signals with escalation, then done; a
\* member that survives SIGKILL's wait leaves the group not empty.
WorkerStops ==
    /\ worker # None /\ ~worker.done
    /\ worker' = [worker EXCEPT !.done = TRUE]
    /\ procs' \in {procs, procs \ {worker.gen}}
    /\ layer' = IF layer # None /\ layer.gen = worker.gen
                THEN [layer EXCEPT !.requested = TRUE, !.leader = FALSE] ELSE layer
    /\ UNCHANGED <<modeVars, flightVars, baseAlive, baseReaped, emergency, muxGen, over>>

LayerLeaderExits ==
    /\ layer # None /\ layer.leader
    /\ layer' = [layer EXCEPT !.leader = FALSE]
    /\ procs' \in {procs, procs \ {layer.gen}}
    /\ UNCHANGED <<modeVars, flightVars, worker, baseAlive, baseReaped, emergency, muxGen, over>>

BaseExits ==
    /\ baseAlive /\ baseAlive' = FALSE
    /\ UNCHANGED <<modeVars, flightVars, layer, procs, worker, baseReaped, emergency, muxGen, over>>

\* The mux reports a generation it has applied, perhaps late.
MuxReports ==
    /\ \E gen \in muxGen..generation : gen # muxGen /\ muxGen' = gen
    /\ UNCHANGED <<modeVars, flightVars, groupVars, emergency, over>>

PanelReports ==
    /\ emergency' = ~emergency
    /\ UNCHANGED <<modeVars, flightVars, groupVars, muxGen, over>>

Answer ==
    /\ future = "waiting" /\ future' \in {"yes", "no"}
    /\ UNCHANGED <<modeVars, txn, surveyOp, status, groupVars, emergency, muxGen, over>>

Next ==
    \/ RequestMode
    \/ RequestSurvey
    \/ Recover
    \/ Tick
    \/ Shutdown
    \/ ShutdownEnds
    \/ WorkerStops
    \/ LayerLeaderExits
    \/ BaseExits
    \/ MuxReports
    \/ PanelReports
    \/ Answer

\* The deadline of the step the transaction is in (mux_ack_s, still_wait_s,
\* layer_stop_s, layer_start_s), which asking again does not move.
DeadlinePasses == Tick /\ StepTransaction /\ TransactionFails

\* The loop thread ticks at 10 Hz whatever happens, its clock runs, and
\* shutdown() runs to its end; nothing is promised of the operator, the mux,
\* the layer, the coordinator or the worker.
Spec ==
    /\ Init /\ [][Next]_vars
    /\ WF_vars(Tick) /\ WF_vars(DeadlinePasses) /\ WF_vars(ShutdownEnds)

-----------------------------------------------------------------------------
MaybeOf(type) == type \cup {None}

SupervisorTypeOK ==
    /\ mode \in Modes /\ faultCode \in FaultCodes
    /\ generation \in Generations /\ muxGen \in 0..generation
    /\ {emergency, inhibitManual, baseAlive, baseReaped, over} \subseteq BOOLEAN
    /\ txn \in MaybeOf(Transaction)
    /\ txn # None => mode \in {"TRANSITIONING", "STOPPING"}
    /\ surveyOp \in MaybeOf(SurveyOp)
    /\ future \in MaybeOf(Answers)
    /\ status \in [Ops -> Statuses]
    /\ layer \in MaybeOf(Group) /\ procs \subseteq Generations
    /\ worker \in MaybeOf([gen : Generations, done : BOOLEAN])

\* "A fresh one is never left beside a pending original" (_fail_active): an
\* operation is pending exactly while something in flight will finish it, so
\* the BUSY of admit() always ends.
PendingIsOwned ==
    \/ Pending = InFlight /\ Cardinality(Pending) <= 1
    \/ over /\ Pending = {}

\* The one layer slot: no process of an older layer is alive beside the newest
\* layer, whatever survived a stop (Group.empty, STOP_OLD).
OneLayerRuns == procs \subseteq (IF layer = None THEN {} ELSE {layer.gen})

\* A settled mode owns exactly the layer it was committed with, of the current
\* generation, so snapshots and leases of this generation are that layer's.
LayerOfMode ==
    /\ mode \in LayerModes =>
          layer # None /\ layer.target = mode /\ layer.gen = generation
    /\ mode = "IDLE" => layer = None

\* "Recovery cannot rebuild the base": once the exit of the base was seen, no
\* sequence of later faults and requests leaves FAULT, whatever fault code
\* they leave behind (_base_failure).
BaseDeadIsFinal == baseReaped => mode \in {"FAULT", "STOPPING"}

Grants == INSTANCE ControlGrant WITH allowed <- AllowedClass, acked <- muxGen

\* The leases this supervisor publishes keep the promise MotionAuthority
\* rests on.
GrantSpec == Grants!GrantSpec

\* Every accepted operation ends: no answer, no exit and no fault leaves one
\* pending, while the loop ticks.
OperationsEnd == \A op \in Ops : status[op] = "pending" ~> status[op] # "pending"
=============================================================================
