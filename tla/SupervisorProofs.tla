-------------------------- MODULE SupervisorProofs --------------------------
(***************************************************************************)
(* The supervisor, proved for every number of generations and operations.  *)
(* Most of the invariant says what each step of the transaction may rely   *)
(* on: the old layer is gone once STOP_OLD is passed, the new one is the   *)
(* target's once it was started, and the mux was heard to apply the        *)
(* generation once WAIT_MUX_ACK is passed.                                 *)
(***************************************************************************)
EXTENDS Supervisor, FiniteSetTheorems, TLAPS

\* What may be in flight in which mode, and what shutdown() leaves.
InFlightModes ==
    /\ mode = "TRANSITIONING" => txn # None
    /\ surveyOp # None => txn = None /\ mode \in {"MAPPING", "STOPPING"}
    /\ over => mode \in {"STOPPING", "FAULT"}
    /\ mode = "STOPPING" => over

\* A rotation that is due has a generation to go to.
RotationBounded == txn # None /\ txn.step = "inhibit" => generation < MaxGen

\* The mux was heard to apply the generation.
Acked ==
    /\ mode \in Stable => muxGen = generation
    /\ txn # None /\ txn.step \notin {"inhibit", "wait_mux_ack"} => muxGen = generation

\* An answer is owed to the survey follow-up or to a call of the layer.
AnswerOwed ==
    future # None =>
        \/ surveyOp # None
        \/ txn # None /\ txn.step = "wait_ready" /\ txn.asked < Calls

\* The layer in the slot is the one this generation started for the target.
LayerIs(target) == layer # None /\ layer.target = target /\ layer.gen = generation

LayerOfStep ==
    txn # None =>
        /\ txn.step \in {"clear_caches", "start_new"} => layer = None
        /\ txn.step = "wait_ready" => LayerIs(txn.target)
        /\ txn.step = "commit" => IF txn.target = "IDLE" THEN layer = None ELSE LayerIs(txn.target)

\* A base whose exit was seen is dead, and no fault says it may still come.
BaseGone ==
    baseReaped =>
        /\ ~baseAlive /\ mode \in {"FAULT", "STOPPING"}
        /\ over \/ faultCode # "BASE_NOT_READY"

\* While the base is awaited nothing is started on it.
BaseAwaited ==
    mode = "STARTING" \/ faultCode = "BASE_NOT_READY" => layer = None /\ txn = None

SupervisorIInv ==
    /\ SupervisorTypeOK
    /\ InFlightModes
    /\ RotationBounded
    /\ Acked
    /\ AnswerOwed
    /\ LayerOfStep
    /\ LayerOfMode
    /\ OneLayerRuns
    /\ BaseGone
    /\ BaseAwaited
    /\ PendingIsOwned

-----------------------------------------------------------------------------
\* Every way the loop or a request ends what it does in a fault leaves the
\* same state behind.
LEMMA FailTypes ==
    ASSUME SupervisorTypeOK, NEW code \in FaultCodes, Fail(code)
    PROVE  /\ mode' = "FAULT" /\ faultCode' \in FaultCodes /\ generation' = generation
           /\ txn' = None /\ surveyOp' = None /\ future' = None
           /\ inhibitManual' = FALSE
           /\ status' \in [Ops -> Statuses]
           /\ worker' \in MaybeOf([gen : Generations, done : BOOLEAN])
<1>1. status' \in [Ops -> Statuses]
  BY DEF Fail, Finish, SupervisorTypeOK, Statuses
<1>2. worker' \in MaybeOf([gen : Generations, done : BOOLEAN])
  BY DEF Fail, SupervisorTypeOK, MaybeOf, Group, LayerEmpty, StartWorker
<1> QED
  BY <1>1, <1>2 DEF Fail

\* The transaction keeps its shape, whatever step it goes to.
LEMMA AdvanceTypes ==
    ASSUME SupervisorTypeOK, txn # None, NEW step \in Steps, Advance(step)
    PROVE  /\ txn' \in Transaction /\ txn' # None
           /\ txn'.step = step /\ txn'.op = txn.op /\ txn'.target = txn.target
<1>1. txn \in Transaction
  BY DEF SupervisorTypeOK, MaybeOf
<1>2. txn' \in Transaction /\ txn'.step = step /\ txn'.op = txn.op /\ txn'.target = txn.target
  BY <1>1 DEF Advance, Transaction
<1> QED
  BY <1>2, NoneAssumption

\* A new transaction is one.
LEMMA BeginTypes ==
    ASSUME NEW op \in Ops, NEW target \in Targets, NEW fault \in BOOLEAN,
           Begin(op, target, fault)
    PROVE  /\ txn' \in Transaction /\ txn' # None
           /\ txn'.op = op /\ txn'.target = target /\ txn'.step = "inhibit"
           /\ mode' = "TRANSITIONING" /\ faultCode' = ""
           /\ generation < MaxGen
<1>1. [op |-> op, target |-> target, step |-> "inhibit", fromFault |-> fault, asked |-> 0]
          \in Transaction
  BY DEF Transaction, Steps
<1> QED
  BY <1>1, NoneAssumption DEF Begin

\* An answer of the layer counts towards the calls it owes.
LEMMA AnswerTypes ==
    ASSUME SupervisorTypeOK, InFlightModes, AnswerOwed, txn # None, LayerAnswered
    PROVE  /\ txn' \in Transaction /\ txn' # None
           /\ txn'.step = txn.step /\ txn'.op = txn.op /\ txn'.target = txn.target
<1>1. txn \in Transaction
  BY DEF SupervisorTypeOK, MaybeOf
<1>2. txn.asked < Calls
  BY <1>1, NoneAssumption DEF LayerAnswered, AnswerOwed, InFlightModes, Answers
<1>3. txn.asked \in 0..3 /\ Calls <= 3 /\ Calls \in Int
  BY <1>1 DEF Transaction, Calls
<1>4. /\ txn' \in Transaction
      /\ txn'.step = txn.step /\ txn'.op = txn.op /\ txn'.target = txn.target
  BY <1>1, <1>2, <1>3 DEF LayerAnswered, Transaction
<1> QED
  BY <1>4, NoneAssumption

-----------------------------------------------------------------------------
(* Types.                                                                  *)

LEMMA RequestTypes ==
    ASSUME SupervisorTypeOK, InFlightModes, RequestMode \/ RequestSurvey \/ Recover
    PROVE  SupervisorTypeOK'
<1> USE DEF SupervisorTypeOK, MaybeOf, groupVars
<1>1. CASE RequestMode
  BY <1>1, BeginTypes DEF RequestMode, Modes, FaultCodes, Statuses
<1>2. CASE RequestSurvey
  <2>1. surveyOp' \in SurveyOp /\ inhibitManual' \in BOOLEAN /\ status' \in [Ops -> Statuses]
    BY <1>2 DEF RequestSurvey, SurveyOp, Statuses
  <2> QED
    BY <1>2, <2>1 DEF RequestSurvey
<1>3. CASE Recover
  BY <1>3, BeginTypes DEF Recover, Targets, Stable, Modes, FaultCodes, Statuses
<1> QED
  BY <1>1, <1>2, <1>3

LEMMA TransactionTypes ==
    ASSUME SupervisorTypeOK, InFlightModes, RotationBounded, AnswerOwed, LayerOfStep,
           StepTransaction, UNCHANGED <<emergency, muxGen, over>>
    PROVE  SupervisorTypeOK'
<1> USE DEF SupervisorTypeOK, groupVars, modeVars
<1>1. txn # None /\ txn \in Transaction /\ txn.op \in Ops /\ txn.target \in Targets /\ mode = "TRANSITIONING"
  BY DEF StepTransaction, MaybeOf, Transaction
<1>2. CASE Rotate
  <2>1. generation + 1 \in Generations /\ muxGen \in 0..(generation + 1)
    BY <1>1, <1>2, SupervisorAssumption DEF Rotate, RotationBounded, Generations
  <2>2. txn' \in Transaction
    BY <1>1, <1>2, AdvanceTypes DEF Rotate, Steps
  <2> QED
    BY <1>1, <1>2, <2>1, <2>2 DEF Rotate, MaybeOf
<1>3. CASE WaitMuxAck \/ StopOld \/ ClearCaches \/ LayerReady
  <2>1. txn' \in Transaction
    BY <1>1, <1>3, AdvanceTypes DEF WaitMuxAck, StopOld, ClearCaches, LayerReady, Steps
  <2> QED
    BY <1>1, <1>3, <2>1 DEF WaitMuxAck, StopOld, ClearCaches, LayerReady, MaybeOf
<1>4. CASE WaitStill
  <2>1. txn' \in Transaction
    BY <1>1, <1>4, AdvanceTypes DEF WaitStill, Steps
  <2>2. worker' \in MaybeOf([gen : Generations, done : BOOLEAN])
    BY <1>4 DEF WaitStill, StartWorker, MaybeOf, Group
  <2> QED
    BY <1>1, <1>4, <2>1, <2>2 DEF WaitStill, MaybeOf
<1>5. CASE StartNew
  <2>1. txn' \in Transaction
    BY <1>1, <1>5, AdvanceTypes DEF StartNew, Steps
  <2>2. CASE txn.target = "IDLE"
    BY <1>1, <1>5, <2>1, <2>2 DEF StartNew, MaybeOf
  <2>3. CASE txn.target # "IDLE"
    <3>1. txn.target \in LayerModes
      BY <1>1, <2>3 DEF Targets, Stable
    <3>2. [gen |-> generation, target |-> txn.target, leader |-> TRUE, requested |-> FALSE] \in Group
      BY <3>1 DEF Group
    <3>3. layer' \in Group /\ procs' \subseteq Generations
      BY <1>5, <2>3, <3>2 DEF StartNew, Spawn
    <3> QED
      BY <1>1, <1>5, <2>1, <2>3, <3>3 DEF StartNew, MaybeOf
  <2> QED
    BY <2>2, <2>3
<1>6. CASE AskLayer \/ SurveyNotReady
  BY <1>1, <1>6 DEF AskLayer, SurveyNotReady, MaybeOf, Answers
<1>7. CASE LayerAnswered
  BY <1>1, <1>7, AnswerTypes DEF LayerAnswered, MaybeOf
<1>8. CASE Commit
  <2>1. status' \in [Ops -> Statuses]
    BY <1>8 DEF Commit, Finish, Statuses
  <2> QED
    BY <1>1, <1>8, <2>1 DEF Commit, MaybeOf, Targets, Modes, FaultCodes
<1>9. CASE TransactionFails
  BY <1>9, FailTypes DEF TransactionFails, FaultCodes, Modes, MaybeOf
<1> QED
  BY <1>2, <1>3, <1>4, <1>5, <1>6, <1>7, <1>8, <1>9 DEF StepTransaction

LEMMA SurveyTypes ==
    ASSUME SupervisorTypeOK, StepSurvey, UNCHANGED <<emergency, muxGen, over>>
    PROVE  SupervisorTypeOK'
<1> USE DEF SupervisorTypeOK, groupVars, modeVars
<1>1. txn = None /\ surveyOp \in SurveyOp /\ surveyOp.op \in Ops /\ mode = "MAPPING"
  BY DEF StepSurvey, MaybeOf, SurveyOp
<1>2. CASE AskCoordinator
  BY <1>1, <1>2 DEF AskCoordinator, MaybeOf, Answers
<1>3. CASE FollowUpEnds
  <2>1. status' \in [Ops -> Statuses]
    BY <1>3 DEF FollowUpEnds, Finish, Statuses
  <2> QED
    BY <1>1, <1>3, <2>1 DEF FollowUpEnds, MaybeOf
<1>4. CASE ReturnToIdle
  <2>1. txn' \in Transaction /\ mode' = "TRANSITIONING" /\ faultCode' = ""
    BY <1>1, <1>4, BeginTypes DEF ReturnToIdle, Targets, Stable
  <2> QED
    BY <1>1, <1>4, <2>1 DEF ReturnToIdle, MaybeOf, Modes, FaultCodes
<1>5. CASE FollowUpFails
  BY <1>5, FailTypes DEF FollowUpFails, FaultCodes, Modes, MaybeOf
<1> QED
  BY <1>2, <1>3, <1>4, <1>5 DEF StepSurvey

LEMMA LoopTypes ==
    ASSUME SupervisorTypeOK, UNCHANGED <<emergency, muxGen, over>>,
           BaseReady \/ BaseLate \/ Idle \/ BootFails \/ ReapBase \/ ReapLayer
    PROVE  SupervisorTypeOK'
<1> USE DEF SupervisorTypeOK, groupVars, flightVars, modeVars
<1>1. CASE BaseReady \/ BaseLate
  <2>1. txn = None
    BY <1>1 DEF BaseReady, BaseLate
  <2> QED
    BY <1>1, <2>1 DEF BaseReady, BaseLate, Modes, Stable, FaultCodes
<1>2. CASE Idle
  BY <1>2 DEF Idle, MaybeOf
<1>3. CASE BootFails \/ ReapBase
  BY <1>3, FailTypes DEF BootFails, ReapBase, FaultCodes, Modes, MaybeOf
<1>4. CASE ReapLayer
  <2>1. layer' \in Group
    BY <1>4 DEF ReapLayer, Group, MaybeOf
  <2> QED
    BY <1>4, <2>1, FailTypes DEF ReapLayer, FaultCodes, Modes, MaybeOf
<1> QED
  BY <1>1, <1>2, <1>3, <1>4

LEMMA SurroundingsTypes ==
    ASSUME SupervisorTypeOK,
           \/ Shutdown \/ ShutdownEnds \/ WorkerStops \/ LayerLeaderExits \/ BaseExits
           \/ MuxReports \/ PanelReports \/ Answer \/ UNCHANGED vars
    PROVE  SupervisorTypeOK'
<1> USE DEF SupervisorTypeOK, groupVars, flightVars, modeVars
<1>1. CASE Shutdown
  BY <1>1 DEF Shutdown, Modes, FaultCodes
<1>2. CASE ShutdownEnds
  <2>1. status' \in [Ops -> Statuses]
    BY <1>2 DEF ShutdownEnds, Finish, Statuses
  <2>2. layer' \in MaybeOf(Group)
    BY <1>2 DEF ShutdownEnds, Group, MaybeOf
  <2>3. procs' \subseteq Generations
    BY <1>2 DEF ShutdownEnds
  <2> QED
    BY <1>2, <2>1, <2>2, <2>3 DEF ShutdownEnds
<1>3. CASE WorkerStops
  <2>1. worker' \in MaybeOf([gen : Generations, done : BOOLEAN])
    BY <1>3 DEF WorkerStops, MaybeOf
  <2>2. layer' \in MaybeOf(Group)
    BY <1>3 DEF WorkerStops, Group, MaybeOf
  <2> QED
    BY <1>3, <2>1, <2>2 DEF WorkerStops
<1>4. CASE LayerLeaderExits
  <2>1. layer' \in MaybeOf(Group)
    BY <1>4 DEF LayerLeaderExits, Group, MaybeOf
  <2> QED
    BY <1>4, <2>1 DEF LayerLeaderExits
<1>5. CASE BaseExits \/ PanelReports \/ UNCHANGED vars
  BY <1>5 DEF BaseExits, PanelReports, vars
<1>6. CASE MuxReports
  <2>1. muxGen' \in 0..generation
    BY <1>6 DEF MuxReports, Generations
  <2> QED
    BY <1>6, <2>1 DEF MuxReports
<1>7. CASE Answer
  BY <1>7 DEF Answer, MaybeOf, Answers
<1> QED
  BY <1>1, <1>2, <1>3, <1>4, <1>5, <1>6, <1>7

LEMMA TypePreserved ==
    ASSUME SupervisorIInv, [Next]_vars
    PROVE  SupervisorTypeOK'
<1>1. CASE RequestMode \/ RequestSurvey \/ Recover
  BY <1>1, RequestTypes DEF SupervisorIInv
<1>2. CASE Tick
  BY <1>2, TransactionTypes, SurveyTypes, LoopTypes DEF Tick, SupervisorIInv
<1> QED
  BY <1>1, <1>2, SurroundingsTypes DEF Next, SupervisorIInv

-----------------------------------------------------------------------------
(* What may be in flight.                                                  *)

\* A request that is admitted finds nothing in flight.
LEMMA AdmissibleIsQuiet ==
    ASSUME SupervisorIInv, Admissible
    PROVE  txn = None /\ surveyOp = None /\ future = None
<1>1. InFlight = {}
  BY DEF Admissible, SupervisorIInv, PendingIsOwned
<1>2. txn = None
  BY DEF Admissible, SupervisorIInv, SupervisorTypeOK, Stable, LayerModes
<1>3. surveyOp = None
  <2>1. SUFFICES ASSUME surveyOp # None PROVE FALSE
    OBVIOUS
  <2>2. surveyOp.op \in Ops
    BY <2>1 DEF SupervisorIInv, SupervisorTypeOK, MaybeOf, SurveyOp
  <2> QED
    BY <1>1, <2>1, <2>2 DEF InFlight
<1> QED
  BY <1>2, <1>3 DEF SupervisorIInv, AnswerOwed

\* A fault leaves nothing in flight.
LEMMA FaultControls ==
    ASSUME SupervisorIInv, NEW code \in FaultCodes, Fail(code), UNCHANGED over
    PROVE  InFlightModes' /\ RotationBounded' /\ Acked' /\ AnswerOwed'
<1>1. mode' = "FAULT" /\ txn' = None /\ surveyOp' = None /\ future' = None
  BY FailTypes DEF SupervisorIInv
<1> QED
  BY <1>1 DEF InFlightModes, RotationBounded, Acked, AnswerOwed, Stable, LayerModes

LEMMA RequestControls ==
    ASSUME SupervisorIInv, RequestMode \/ RequestSurvey \/ Recover
    PROVE  InFlightModes' /\ RotationBounded' /\ Acked' /\ AnswerOwed'
<1> USE DEF InFlightModes, RotationBounded, Acked, AnswerOwed
<1>1. txn = None /\ surveyOp = None /\ future = None /\ ~over
  BY AdmissibleIsQuiet DEF RequestMode, RequestSurvey, Recover, Admissible
<1>2. CASE RequestMode \/ Recover
  <2>1. /\ txn' \in Transaction /\ txn' # None /\ txn'.step = "inhibit"
        /\ mode' = "TRANSITIONING" /\ generation < MaxGen
        /\ generation' = generation /\ UNCHANGED <<surveyOp, future, over>>
    BY <1>2, BeginTypes DEF RequestMode, Recover, Targets, Stable
  <2> QED
    BY <1>1, <2>1 DEF Stable, LayerModes
<1>3. CASE RequestSurvey
  BY <1>1, <1>3 DEF RequestSurvey, SupervisorIInv
<1> QED
  BY <1>2, <1>3

LEMMA TransactionControls ==
    ASSUME SupervisorIInv, StepTransaction, UNCHANGED <<emergency, muxGen, over>>
    PROVE  InFlightModes' /\ RotationBounded' /\ Acked' /\ AnswerOwed'
<1>1. /\ SupervisorTypeOK /\ InFlightModes /\ RotationBounded /\ Acked /\ AnswerOwed
      /\ txn # None /\ txn \in Transaction /\ mode = "TRANSITIONING" /\ surveyOp = None /\ ~over
  BY DEF SupervisorIInv, StepTransaction, SupervisorTypeOK, MaybeOf, InFlightModes
<1> USE DEF InFlightModes, RotationBounded, Acked, AnswerOwed, modeVars, Stable, LayerModes
<1>2. CASE Rotate
  BY <1>1, <1>2, AdvanceTypes DEF Rotate, Steps
<1>3. CASE WaitMuxAck
  BY <1>1, <1>3, AdvanceTypes DEF WaitMuxAck, Steps
<1>4. CASE WaitStill \/ StopOld \/ ClearCaches
  BY <1>1, <1>4, AdvanceTypes DEF WaitStill, StopOld, ClearCaches, Steps
<1>5. CASE StartNew
  BY <1>1, <1>5, AdvanceTypes DEF StartNew, Steps
<1>6. CASE AskLayer \/ SurveyNotReady
  BY <1>1, <1>6 DEF AskLayer, SurveyNotReady, Calls
<1>7. CASE LayerAnswered
  BY <1>1, <1>7, AnswerTypes DEF LayerAnswered
<1>8. CASE LayerReady
  <2>1. future = None
    BY <1>1, <1>8 DEF LayerReady, Transaction, Calls
  <2> QED
    BY <1>1, <1>8, <2>1, AdvanceTypes DEF LayerReady, Steps
<1>9. CASE Commit
  <2>1. muxGen = generation /\ txn.target \in Stable
    BY <1>1, <1>9 DEF Commit, Transaction, Targets
  <2> QED
    BY <1>1, <1>9, <2>1 DEF Commit
<1>10. CASE TransactionFails
  BY <1>10, FaultControls DEF TransactionFails, FaultCodes
<1> QED
  BY <1>2, <1>3, <1>4, <1>5, <1>6, <1>7, <1>8, <1>9, <1>10 DEF StepTransaction

LEMMA SurveyControls ==
    ASSUME SupervisorIInv, StepSurvey, UNCHANGED <<emergency, muxGen, over>>
    PROVE  InFlightModes' /\ RotationBounded' /\ Acked' /\ AnswerOwed'
<1>1. /\ InFlightModes /\ Acked /\ txn = None /\ mode = "MAPPING" /\ ~over
      /\ surveyOp # None /\ surveyOp.op \in Ops
  BY DEF SupervisorIInv, StepSurvey, InFlightModes, SupervisorTypeOK, MaybeOf, SurveyOp
<1> USE DEF InFlightModes, RotationBounded, Acked, AnswerOwed, modeVars, Stable, LayerModes
<1>2. CASE AskCoordinator
  BY <1>1, <1>2 DEF AskCoordinator
<1>3. CASE FollowUpEnds
  BY <1>1, <1>3 DEF FollowUpEnds
<1>4. CASE ReturnToIdle
  <2>1. /\ txn' # None /\ txn'.step = "inhibit"
        /\ mode' = "TRANSITIONING" /\ generation < MaxGen
    BY <1>1, <1>4, BeginTypes DEF ReturnToIdle, Targets
  <2> QED
    BY <1>1, <1>4, <2>1 DEF ReturnToIdle
<1>5. CASE FollowUpFails
  BY <1>5, FaultControls DEF FollowUpFails, FaultCodes
<1> QED
  BY <1>2, <1>3, <1>4, <1>5 DEF StepSurvey

LEMMA ControlsPreserved ==
    ASSUME SupervisorIInv, [Next]_vars
    PROVE  InFlightModes' /\ RotationBounded' /\ Acked' /\ AnswerOwed'
<1>1. /\ SupervisorTypeOK /\ InFlightModes /\ RotationBounded /\ Acked /\ AnswerOwed
  BY DEF SupervisorIInv
<1>2. CASE RequestMode \/ RequestSurvey \/ Recover
  BY <1>2, RequestControls
<1>3. CASE Tick
  <2>1. UNCHANGED <<emergency, muxGen, over>>
    BY <1>3 DEF Tick
  <2>2. CASE BootFails \/ ReapBase \/ ReapLayer
    BY <2>1, <2>2, FaultControls DEF BootFails, ReapBase, ReapLayer, FaultCodes
  <2>3. CASE ~over /\ (BaseReady \/ BaseLate)
    <3>1. txn = None /\ surveyOp = None /\ future = None
      BY <1>1, <2>3 DEF BaseReady, BaseLate, SupervisorTypeOK, InFlightModes, AnswerOwed
    <3> QED
      BY <1>1, <2>1, <2>3, <3>1 DEF BaseReady, BaseLate, InFlightModes, RotationBounded, Acked,
         AnswerOwed, flightVars, Stable, LayerModes
  <2>4. CASE Idle
    BY <1>1, <2>1, <2>4 DEF Idle, InFlightModes, RotationBounded, Acked, AnswerOwed, modeVars,
       flightVars, Calls
  <2> QED
    BY <1>3, <2>1, <2>2, <2>3, <2>4, TransactionControls, SurveyControls DEF Tick
<1>4. CASE Shutdown
  BY <1>1, <1>4 DEF Shutdown, InFlightModes, RotationBounded, Acked, AnswerOwed, flightVars,
     Stable, LayerModes, SupervisorTypeOK, Calls
<1>5. CASE \/ ShutdownEnds \/ WorkerStops \/ LayerLeaderExits \/ BaseExits \/ PanelReports
           \/ UNCHANGED vars
  <2>1. UNCHANGED <<modeVars, txn, surveyOp, future, muxGen, over>>
    BY <1>5 DEF ShutdownEnds, WorkerStops, LayerLeaderExits, BaseExits, PanelReports, vars, flightVars
  <2> QED
    BY <1>1, <2>1 DEF InFlightModes, RotationBounded, Acked, AnswerOwed, modeVars, Calls
<1>6. CASE MuxReports
  <2>1. muxGen # generation
    BY <1>1, <1>6 DEF MuxReports, SupervisorTypeOK, Generations
  <2> QED
    BY <1>1, <1>6, <2>1 DEF MuxReports, InFlightModes, RotationBounded, Acked, AnswerOwed, modeVars,
       flightVars, Calls
<1>7. CASE Answer
  <2>1. future # None
    BY <1>7, NoneAssumption DEF Answer, Answers
  <2> QED
    BY <1>1, <1>7, <2>1 DEF Answer, InFlightModes, RotationBounded, Acked, AnswerOwed, modeVars, Calls
<1> QED
  BY <1>2, <1>3, <1>4, <1>5, <1>6, <1>7 DEF Next

-----------------------------------------------------------------------------
(* The layer slot.                                                         *)

\* Nothing of the layer but its leader and its flag changes.
LayerKept ==
    /\ layer = None <=> layer' = None
    /\ layer # None => layer'.gen = layer.gen /\ layer'.target = layer.target
    /\ procs' \subseteq procs

LEMMA KeptLayer ==
    ASSUME SupervisorIInv, LayerKept, generation' = generation,
           txn' # None => txn # None /\ txn'.step = txn.step /\ txn'.target = txn.target,
           mode' \in Stable => mode' = mode,
           mode' = "STARTING" \/ faultCode' = "BASE_NOT_READY" =>
               mode = "STARTING" \/ faultCode = "BASE_NOT_READY"
    PROVE  LayerOfStep' /\ LayerOfMode' /\ OneLayerRuns' /\ BaseAwaited'
<1>1. LayerOfStep /\ LayerOfMode /\ OneLayerRuns /\ BaseAwaited
  BY DEF SupervisorIInv
<1>2. LayerOfStep'
  BY <1>1 DEF LayerOfStep, LayerIs, LayerKept
<1>3. LayerOfMode'
  BY <1>1 DEF LayerOfMode, LayerKept, Stable, LayerModes
<1>4. OneLayerRuns'
  BY <1>1 DEF OneLayerRuns, LayerKept
<1>5. BaseAwaited'
  BY <1>1 DEF BaseAwaited, LayerKept
<1> QED
  BY <1>2, <1>3, <1>4, <1>5

LEMMA FaultLayers ==
    ASSUME SupervisorIInv, NEW code \in FaultCodes, code # "BASE_NOT_READY", Fail(code), LayerKept
    PROVE  LayerOfStep' /\ LayerOfMode' /\ OneLayerRuns' /\ BaseAwaited'
<1>1. mode' = "FAULT" /\ faultCode' = code /\ txn' = None /\ generation' = generation
  BY DEF Fail
<1> QED
  BY <1>1, KeptLayer DEF Stable, LayerModes

LEMMA TransactionLayers ==
    ASSUME SupervisorIInv, StepTransaction
    PROVE  LayerOfStep' /\ LayerOfMode' /\ OneLayerRuns' /\ BaseAwaited'
<1>1. /\ SupervisorTypeOK /\ InFlightModes /\ AnswerOwed /\ LayerOfStep /\ LayerOfMode
      /\ OneLayerRuns /\ BaseAwaited
      /\ txn # None /\ txn \in Transaction /\ mode = "TRANSITIONING"
  BY DEF SupervisorIInv, StepTransaction, SupervisorTypeOK, MaybeOf
<1>2. CASE Rotate \/ WaitMuxAck \/ WaitStill \/ LayerReady
  <2>1. UNCHANGED <<mode, faultCode, layer, procs>>
    BY <1>2 DEF Rotate, WaitMuxAck, WaitStill, LayerReady, modeVars, groupVars
  <2>2. /\ txn' # None /\ txn'.target = txn.target
        /\ \/ txn'.step \in {"wait_mux_ack", "wait_still", "stop_old"}
           \/ /\ txn.step = "wait_ready" /\ txn'.step = "commit"
              /\ generation' = generation
    <3>1. CASE Rotate
      <4>1. txn' # None /\ txn'.target = txn.target /\ txn'.step = "wait_mux_ack"
        BY <1>1, <3>1, AdvanceTypes DEF Rotate, Steps
      <4> QED
        BY <4>1
    <3>2. CASE WaitMuxAck
      <4>1. txn' # None /\ txn'.target = txn.target /\ txn'.step = "wait_still"
        BY <1>1, <3>2, AdvanceTypes DEF WaitMuxAck, Steps
      <4> QED
        BY <4>1
    <3>3. CASE WaitStill
      <4>1. txn' # None /\ txn'.target = txn.target /\ txn'.step = "stop_old"
        BY <1>1, <3>3, AdvanceTypes DEF WaitStill, Steps
      <4> QED
        BY <4>1
    <3>4. CASE LayerReady
      BY <1>1, <3>4, AdvanceTypes DEF LayerReady, Steps, modeVars
    <3> QED
      BY <1>2, <3>1, <3>2, <3>3, <3>4
  <2>3. LayerOfStep'
    <3>1. txn.step = "wait_ready" => layer # None /\ layer.target = txn.target /\ layer.target # "IDLE"
      BY <1>1 DEF LayerOfStep, LayerIs, SupervisorTypeOK, MaybeOf, Group, LayerModes
    <3> QED
      BY <1>1, <2>1, <2>2, <3>1 DEF LayerOfStep, LayerIs
  <2> QED
    BY <1>1, <2>1, <2>3 DEF LayerOfMode, OneLayerRuns, BaseAwaited, LayerModes
<1>3. CASE StopOld
  <2>1. procs = {}
    BY <1>1, <1>3 DEF StopOld, LayerEmpty, OneLayerRuns
  <2>2. txn' # None /\ txn'.step = "clear_caches"
    BY <1>1, <1>3, AdvanceTypes DEF StopOld, Steps
  <2> QED
    BY <1>1, <1>3, <2>1, <2>2 DEF StopOld, LayerOfStep, LayerOfMode, OneLayerRuns, BaseAwaited,
       LayerModes, modeVars
<1>4. CASE ClearCaches
  BY <1>1, <1>4, AdvanceTypes DEF ClearCaches, Steps, LayerOfStep, LayerOfMode, OneLayerRuns,
     BaseAwaited, LayerModes, modeVars, groupVars
<1>5. CASE StartNew
  <2>1. layer = None /\ procs = {}
    BY <1>1, <1>5 DEF StartNew, Spawn, LayerOfStep, OneLayerRuns
  <2>2. faultCode # "BASE_NOT_READY" /\ UNCHANGED modeVars
    BY <1>1, <1>5 DEF StartNew, BaseAwaited
  <2>3. CASE txn.target = "IDLE"
    BY <1>1, <1>5, <2>1, <2>2, <2>3, AdvanceTypes DEF StartNew, Steps, LayerOfStep, LayerOfMode,
       OneLayerRuns, BaseAwaited, LayerModes, modeVars
  <2>4. CASE txn.target # "IDLE"
    <3>1. txn.target \in LayerModes
      BY <1>1, <2>4 DEF Transaction, Targets, Stable
    <3>2. /\ layer' = [gen |-> generation, target |-> txn.target, leader |-> TRUE, requested |-> FALSE]
          /\ generation \in Generations
      BY <1>1, <1>5, <2>4 DEF StartNew, Spawn, SupervisorTypeOK
    <3>2a. layer' \in Group /\ layer'.gen = generation /\ layer'.target = txn.target
      BY <3>1, <3>2 DEF Group
    <3>3. procs' = {generation} /\ txn' # None /\ txn'.step = "wait_ready" /\ txn'.target = txn.target
      BY <1>1, <1>5, <2>1, <2>4, AdvanceTypes DEF StartNew, Spawn, Steps
    <3> QED
      BY <1>1, <2>2, <3>2a, <3>3, NoneAssumption DEF LayerOfStep, LayerIs, LayerOfMode,
         OneLayerRuns, BaseAwaited, LayerModes, modeVars
  <2> QED
    BY <2>3, <2>4
<1>5a. ASSUME UNCHANGED <<layer, procs>> PROVE LayerKept
  BY <1>5a DEF LayerKept
<1>6. CASE AskLayer \/ SurveyNotReady
  BY <1>1, <1>6, <1>5a, KeptLayer DEF AskLayer, SurveyNotReady, modeVars, groupVars
<1>7. CASE LayerAnswered
  BY <1>1, <1>7, <1>5a, AnswerTypes, KeptLayer DEF LayerAnswered, modeVars, groupVars
<1>8. CASE Commit
  <2>1. txn' = None /\ mode' = txn.target /\ faultCode' = "" /\ UNCHANGED <<generation, layer, procs>>
    BY <1>8 DEF Commit, groupVars
  <2>2. LayerOfMode'
    BY <1>1, <1>8, <2>1 DEF Commit, LayerOfStep, LayerIs, LayerOfMode, LayerModes
  <2> QED
    BY <1>1, <2>1, <2>2 DEF LayerOfStep, OneLayerRuns, BaseAwaited, Transaction, Targets, Stable,
       LayerModes
<1>9. CASE TransactionFails
  BY <1>9, <1>5a, FaultLayers DEF TransactionFails, FaultCodes
<1> QED
  BY <1>2, <1>3, <1>4, <1>5, <1>6, <1>7, <1>8, <1>9 DEF StepTransaction

LEMMA LayersPreserved ==
    ASSUME SupervisorIInv, [Next]_vars
    PROVE  LayerOfStep' /\ LayerOfMode' /\ OneLayerRuns' /\ BaseAwaited'
<1>1. ASSUME UNCHANGED <<layer, procs>> PROVE LayerKept
  BY <1>1 DEF LayerKept
<1>2. CASE RequestMode \/ Recover
  <2>1. /\ txn' # None /\ txn'.step = "inhibit" /\ mode' = "TRANSITIONING" /\ faultCode' = ""
        /\ UNCHANGED <<generation, layer, procs>>
    BY <1>2, BeginTypes DEF RequestMode, Recover, Targets, Stable, groupVars
  <2> QED
    BY <2>1 DEF SupervisorIInv, LayerOfStep, LayerOfMode, OneLayerRuns, BaseAwaited, LayerModes
<1>3. CASE RequestSurvey
  BY <1>1, <1>3, KeptLayer DEF RequestSurvey, groupVars
<1>4. CASE Tick
  <2>1. CASE BootFails \/ ReapBase
    BY <1>1, <2>1, FaultLayers DEF BootFails, ReapBase, FaultCodes
  <2>2. CASE ReapLayer
    <3>1. LayerKept
      BY <2>2, NoneAssumption DEF ReapLayer, LayerKept, SupervisorIInv, SupervisorTypeOK, MaybeOf, Group
    <3> QED
      BY <2>2, <3>1, FaultLayers DEF ReapLayer, FaultCodes
  <2>3. CASE StepSurvey
    <3>1. txn = None /\ surveyOp \in SurveyOp /\ surveyOp.op \in Ops
      BY <2>3 DEF StepSurvey, SupervisorIInv, SupervisorTypeOK, MaybeOf, SurveyOp
    <3>2. CASE AskCoordinator \/ FollowUpEnds
      BY <1>1, <3>2, KeptLayer DEF AskCoordinator, FollowUpEnds, modeVars, groupVars
    <3>3. CASE ReturnToIdle
      <4>1. /\ txn' # None /\ txn'.step = "inhibit" /\ mode' = "TRANSITIONING" /\ faultCode' = ""
            /\ UNCHANGED <<generation, layer, procs>>
        BY <3>1, <3>3, BeginTypes DEF ReturnToIdle, Targets, Stable, groupVars
      <4> QED
        BY <4>1 DEF SupervisorIInv, LayerOfStep, LayerOfMode, OneLayerRuns, BaseAwaited, LayerModes
    <3>4. CASE FollowUpFails
      BY <1>1, <3>4, FaultLayers DEF FollowUpFails, FaultCodes
    <3> QED
      BY <2>3, <3>2, <3>3, <3>4 DEF StepSurvey
  <2>4. CASE BaseReady
    <3>1. layer = None /\ txn = None /\ mode' = "IDLE" /\ faultCode' = "" /\ UNCHANGED <<txn, layer, procs>>
      BY <2>4 DEF BaseReady, SupervisorIInv, SupervisorTypeOK, BaseAwaited, flightVars, groupVars
    <3> QED
      BY <3>1 DEF SupervisorIInv, LayerOfStep, LayerOfMode, OneLayerRuns, BaseAwaited, LayerModes
  <2>5. CASE BaseLate
    BY <1>1, <2>5, KeptLayer DEF BaseLate, flightVars, groupVars, Stable, LayerModes
  <2>6. CASE Idle
    BY <1>1, <2>6, KeptLayer DEF Idle, modeVars, flightVars
  <2> QED
    BY <1>4, <2>1, <2>2, <2>3, <2>4, <2>5, <2>6, TransactionLayers DEF Tick
<1>5. CASE Shutdown
  BY <1>1, <1>5, KeptLayer DEF Shutdown, flightVars, groupVars, Stable, LayerModes
<1>6. CASE ShutdownEnds \/ WorkerStops \/ LayerLeaderExits
  <2>1. UNCHANGED <<modeVars, txn>>
    BY <1>6 DEF ShutdownEnds, WorkerStops, LayerLeaderExits, flightVars
  <2>2. layer \in MaybeOf(Group)
    BY DEF SupervisorIInv, SupervisorTypeOK
  <2>3. LayerKept
    <3>1. CASE ShutdownEnds
      BY <2>2, <3>1, NoneAssumption DEF ShutdownEnds, LayerKept, MaybeOf, Group
    <3>2. CASE WorkerStops
      BY <2>2, <3>2, NoneAssumption DEF WorkerStops, LayerKept, MaybeOf, Group
    <3>3. CASE LayerLeaderExits
      BY <2>2, <3>3, NoneAssumption DEF LayerLeaderExits, LayerKept, MaybeOf, Group
    <3> QED
      BY <1>6, <3>1, <3>2, <3>3
  <2> QED
    BY <2>1, <2>3, KeptLayer DEF modeVars
<1>7. CASE BaseExits \/ MuxReports \/ PanelReports \/ Answer \/ UNCHANGED vars
  <2>1. UNCHANGED <<modeVars, txn, layer, procs>>
    BY <1>7 DEF BaseExits, MuxReports, PanelReports, Answer, vars, flightVars, groupVars
  <2> QED
    BY <1>1, <2>1, KeptLayer DEF modeVars
<1> QED
  BY <1>2, <1>3, <1>4, <1>5, <1>6, <1>7 DEF Next

-----------------------------------------------------------------------------
(* The base and the operations.                                            *)

LEMMA BasePreserved ==
    ASSUME SupervisorIInv, [Next]_vars
    PROVE  BaseGone'
<1>1. BaseGone /\ InFlightModes
  BY DEF SupervisorIInv
<1> USE DEF BaseGone, Stable, LayerModes
<1>2. CASE RequestMode \/ RequestSurvey \/ Recover
  <2>1. ~baseReaped /\ baseReaped' = baseReaped
    BY <1>1, <1>2 DEF RequestMode, RequestSurvey, Recover, Admissible, BaseFailure, groupVars
  <2> QED
    BY <2>1
<1>3. CASE Tick
  <2>1. CASE BootFails \/ ReapBase \/ ReapLayer
    BY <1>1, <1>3, <2>1 DEF Tick, BootFails, ReapBase, ReapLayer, Fail
  <2>2. CASE ~over /\ (StepTransaction \/ StepSurvey \/ BaseReady \/ BaseLate)
    <3>1. ~baseReaped
      BY <1>1, <2>2 DEF StepTransaction, StepSurvey, BaseReady, BaseLate
    <3>2. baseReaped' = baseReaped
      BY <2>2 DEF StepTransaction, StepSurvey, BaseReady, BaseLate, Rotate, WaitMuxAck, WaitStill,
         StopOld, ClearCaches, StartNew, AskLayer, LayerAnswered, SurveyNotReady, LayerReady, Commit,
         TransactionFails, AskCoordinator, FollowUpEnds, ReturnToIdle, FollowUpFails, groupVars
    <3> QED
      BY <3>1, <3>2
  <2>3. CASE Idle
    BY <1>1, <1>3, <2>3 DEF Tick, Idle, modeVars
  <2> QED
    BY <1>3, <2>1, <2>2, <2>3 DEF Tick
<1>4. CASE Shutdown \/ ShutdownEnds
  <2>1. mode' \in {"STOPPING", "FAULT"} /\ over'
    BY <1>1, <1>4, Zenon DEF Shutdown, ShutdownEnds, modeVars, InFlightModes
  <2>2. baseReaped' => ~baseAlive'
    BY <1>1, <1>4, Zenon DEF Shutdown, ShutdownEnds, groupVars
  <2> QED
    BY <2>1, <2>2, Zenon
<1>5. CASE \/ WorkerStops \/ LayerLeaderExits \/ BaseExits \/ MuxReports \/ PanelReports
           \/ Answer \/ UNCHANGED vars
  BY <1>1, <1>5 DEF WorkerStops, LayerLeaderExits, BaseExits, MuxReports, PanelReports, Answer,
     vars, groupVars, modeVars
<1> QED
  BY <1>2, <1>3, <1>4, <1>5 DEF Next

\* What is finished is no longer pending.
LEMMA FinishEnds ==
    ASSUME NEW finished \in SUBSET Ops, NEW result \in Statuses \ {"pending"},
           Finish(finished, result)
    PROVE  Pending' = Pending \ finished
BY DEF Finish, Pending

LEMMA NothingPending ==
    ASSUME txn' = None, surveyOp' = None, Pending' = {}
    PROVE  PendingIsOwned'
<1>1. InFlight' = {}
  BY DEF InFlight
<1>2. Cardinality(Pending') <= 1
  BY FS_EmptySet
<1> QED
  BY <1>1, <1>2 DEF PendingIsOwned

LEMMA FaultOperations ==
    ASSUME SupervisorIInv, NEW code \in FaultCodes, Fail(code)
    PROVE  PendingIsOwned'
<1>1. Pending' = Pending \ (InFlight \cap Pending)
  BY FinishEnds DEF Fail, InFlight, Statuses
<1>2. Pending' = {}
  BY <1>1 DEF SupervisorIInv, PendingIsOwned
<1> QED
  BY <1>2, NothingPending DEF Fail

\* An accepted request is pending and in flight.
LEMMA RequestOperations ==
    ASSUME SupervisorIInv, RequestMode \/ RequestSurvey \/ Recover
    PROVE  PendingIsOwned'
<1>1. txn = None /\ surveyOp = None /\ Pending = {}
  BY AdmissibleIsQuiet DEF RequestMode, RequestSurvey, Recover, Admissible
<1>2. PICK op \in Ops :
          /\ status' = [status EXCEPT ![op] = "pending"]
          /\ \/ surveyOp' = None /\ txn' # None /\ txn'.op = op
             \/ txn' = None /\ surveyOp' # None /\ surveyOp'.op = op
  <2>1. CASE RequestMode \/ Recover
    BY <1>1, <2>1, BeginTypes DEF RequestMode, Recover, Targets, Stable
  <2>2. CASE RequestSurvey
    <3>1. PICK op \in Ops, kind \in FollowUps :
              /\ surveyOp' = [op |-> op, kind |-> kind]
              /\ status' = [status EXCEPT ![op] = "pending"]
      BY <2>2 DEF RequestSurvey
    <3>2. surveyOp' \in SurveyOp /\ surveyOp'.op = op
      BY <3>1 DEF SurveyOp
    <3>3. txn' = None
      BY <1>1, <2>2 DEF RequestSurvey
    <3> QED
      BY <3>1, <3>2, <3>3, NoneAssumption
  <2> QED
    BY <2>1, <2>2
<1>3. status \in [Ops -> Statuses]
  BY DEF SupervisorIInv, SupervisorTypeOK
<1>4. Pending' = {op}
  BY <1>1, <1>2, <1>3 DEF Pending
<1>5. InFlight' = {op}
  BY <1>2 DEF InFlight
<1>6. Cardinality(Pending') <= 1
  BY <1>4, FS_Singleton
<1> QED
  BY <1>4, <1>5, <1>6 DEF PendingIsOwned

LEMMA OperationsPreserved ==
    ASSUME SupervisorIInv, [Next]_vars
    PROVE  PendingIsOwned'
<1>1. SupervisorTypeOK /\ InFlightModes /\ AnswerOwed /\ PendingIsOwned
  BY DEF SupervisorIInv
<1>2. ASSUME status' = status, InFlight' = InFlight, over => over' PROVE PendingIsOwned'
  BY <1>1, <1>2 DEF PendingIsOwned, Pending
<1>3. CASE RequestMode \/ RequestSurvey \/ Recover
  BY <1>3, RequestOperations
<1>4. CASE Tick
  <2>1. CASE BootFails \/ ReapBase \/ ReapLayer
    BY <2>1, FaultOperations DEF BootFails, ReapBase, ReapLayer, FaultCodes
  <2>2. CASE ~over /\ StepTransaction
    <3>1. txn # None /\ txn \in Transaction /\ txn.op \in Ops /\ surveyOp = None
      BY <1>1, <2>2 DEF StepTransaction, SupervisorTypeOK, MaybeOf, InFlightModes, Transaction
    <3>2. ASSUME txn' # None, txn'.op = txn.op, surveyOp' = surveyOp, status' = status
          PROVE  PendingIsOwned'
      BY <1>2, <1>4, <3>1, <3>2 DEF Tick, InFlight
    <3>3. CASE Rotate \/ WaitMuxAck \/ WaitStill \/ StopOld \/ ClearCaches \/ StartNew \/ LayerReady
      <4>1. UNCHANGED <<surveyOp, status>>
        BY <3>3 DEF Rotate, WaitMuxAck, WaitStill, StopOld, ClearCaches, StartNew, LayerReady
      <4>2. txn' # None /\ txn'.op = txn.op
        BY <1>1, <3>1, <3>3, AdvanceTypes DEF Rotate, WaitMuxAck, WaitStill, StopOld, ClearCaches,
           StartNew, LayerReady, Steps
      <4> QED
        BY <3>2, <4>1, <4>2
    <3>4. CASE AskLayer \/ SurveyNotReady
      BY <3>1, <3>2, <3>4 DEF AskLayer, SurveyNotReady
    <3>5. CASE LayerAnswered
      BY <1>1, <3>1, <3>2, <3>5, AnswerTypes DEF LayerAnswered
    <3>6. CASE Commit
      <4>1. Pending' = Pending \ {txn.op}
        BY <3>1, <3>6, FinishEnds DEF Commit, Statuses
      <4>2. Pending' = {}
        BY <1>1, <2>2, <3>1, <4>1 DEF PendingIsOwned, InFlight
      <4> QED
        BY <3>1, <3>6, <4>2, NothingPending DEF Commit
    <3>7. CASE TransactionFails
      BY <3>7, FaultOperations DEF TransactionFails, FaultCodes
    <3> QED
      BY <2>2, <3>3, <3>4, <3>5, <3>6, <3>7 DEF StepTransaction
  <2>3. CASE ~over /\ StepSurvey
    <3>1. txn = None /\ surveyOp # None /\ surveyOp \in SurveyOp /\ surveyOp.op \in Ops
      BY <1>1, <2>3 DEF StepSurvey, SupervisorTypeOK, MaybeOf, SurveyOp
    <3>2. CASE AskCoordinator
      BY <1>2, <1>4, <3>2 DEF AskCoordinator, InFlight, Tick
    <3>3. CASE FollowUpEnds
      <4>1. Pending' = Pending \ {surveyOp.op}
        BY <3>1, <3>3, FinishEnds DEF FollowUpEnds, Statuses
      <4>2. Pending' = {}
        BY <1>1, <2>3, <3>1, <4>1 DEF PendingIsOwned, InFlight
      <4> QED
        BY <3>1, <3>3, <4>2, NothingPending DEF FollowUpEnds
    <3>4. CASE ReturnToIdle
      <4>1. txn' # None /\ txn'.op = surveyOp.op /\ surveyOp' = None /\ status' = status
        BY <3>1, <3>4, BeginTypes DEF ReturnToIdle, Targets, Stable
      <4>2. InFlight' = InFlight
        BY <3>1, <4>1 DEF InFlight
      <4> QED
        BY <1>2, <1>4, <4>1, <4>2 DEF Tick
    <3>5. CASE FollowUpFails
      BY <3>5, FaultOperations DEF FollowUpFails, FaultCodes
    <3> QED
      BY <2>3, <3>2, <3>3, <3>4, <3>5 DEF StepSurvey
  <2>4. CASE BaseReady \/ BaseLate \/ Idle
    BY <1>2, <1>4, <2>4 DEF BaseReady, BaseLate, Idle, flightVars, InFlight, Tick
  <2> QED
    BY <1>4, <2>1, <2>2, <2>3, <2>4 DEF Tick
<1>5. CASE ShutdownEnds
  <2>1. Pending' = {} /\ over'
    BY <1>5, FinishEnds DEF ShutdownEnds, Pending, Statuses
  <2> QED
    BY <2>1 DEF PendingIsOwned
<1>6. CASE \/ Shutdown \/ WorkerStops \/ LayerLeaderExits \/ BaseExits \/ MuxReports \/ PanelReports
           \/ Answer \/ UNCHANGED vars
  <2>1. UNCHANGED <<txn, surveyOp, status>>
    BY <1>6, Zenon DEF Shutdown, WorkerStops, LayerLeaderExits, BaseExits, MuxReports, PanelReports,
       Answer, vars, flightVars
  <2>2. over => over'
    BY <1>6, Zenon DEF Shutdown, WorkerStops, LayerLeaderExits, BaseExits, MuxReports, PanelReports,
       Answer, vars
  <2>3. InFlight' = InFlight
    BY <2>1 DEF InFlight
  <2> QED
    BY <1>2, <2>1, <2>2, <2>3
<1> QED
  BY <1>3, <1>4, <1>5, <1>6 DEF Next

-----------------------------------------------------------------------------
(* The theorems.                                                           *)

LEMMA InitSupervisorIInv == Init => SupervisorIInv
<1> SUFFICES ASSUME Init PROVE SupervisorIInv
  OBVIOUS
<1>1. SupervisorTypeOK
  <2>1. generation \in Generations /\ muxGen \in 0..generation
    <3>1. 1 \in 1..MaxGen /\ 0 \in 0..1
      BY SupervisorAssumption
    <3> QED
      BY <3>1 DEF Init, Generations
  <2>2. status \in [Ops -> Statuses]
    BY DEF Init, Statuses
  <2>3. {emergency, inhibitManual, baseAlive, baseReaped, over} \subseteq BOOLEAN
    BY DEF Init
  <2> QED
    BY <2>1, <2>2, <2>3, Zenon DEF Init, SupervisorTypeOK, Modes, FaultCodes, MaybeOf
<1>2. InFlightModes /\ RotationBounded /\ Acked /\ AnswerOwed
  BY DEF Init, InFlightModes, RotationBounded, Acked, AnswerOwed, Stable, LayerModes
<1>3. LayerOfStep /\ LayerOfMode /\ OneLayerRuns /\ BaseAwaited /\ BaseGone
  BY DEF Init, LayerOfStep, LayerOfMode, OneLayerRuns, BaseAwaited, BaseGone, LayerModes
<1>4. PendingIsOwned
  <2>1. Pending = {} /\ InFlight = {}
    BY DEF Init, Pending, InFlight
  <2>2. Cardinality(Pending) <= 1
    BY <2>1, FS_EmptySet
  <2> QED
    BY <2>1, <2>2 DEF PendingIsOwned
<1> QED
  BY <1>1, <1>2, <1>3, <1>4 DEF SupervisorIInv

LEMMA NextSupervisorIInv == SupervisorIInv /\ [Next]_vars => SupervisorIInv'
<1> SUFFICES ASSUME SupervisorIInv, [Next]_vars PROVE SupervisorIInv'
  OBVIOUS
<1> QED
  BY TypePreserved, ControlsPreserved, LayersPreserved, BasePreserved, OperationsPreserved
     DEF SupervisorIInv

\* The inductive invariant: every step of the transaction finds what the
\* earlier ones left (_step_transaction, _step_survey, _reap, shutdown).
THEOREM SupervisorInvariance == Spec => []SupervisorIInv
<1>1. Init => SupervisorIInv
  BY InitSupervisorIInv
<1>2. SupervisorIInv /\ [Next]_vars => SupervisorIInv'
  BY NextSupervisorIInv
<1> QED
  BY <1>1, <1>2, PTL DEF Spec

\* The types: a rotation never leaves the generations there are (INHIBIT), and
\* an answer of the layer is only counted while one is owed (_ready_navigation).
THEOREM SupervisorTypes == Spec => []SupervisorTypeOK
<1>1. SupervisorIInv => SupervisorTypeOK
  BY DEF SupervisorIInv
<1> QED
  BY <1>1, SupervisorInvariance, PTL

\* An operation is pending exactly while the transaction or the follow-up in
\* flight will finish it (OperationBook, _fail_active), however many were asked.
THEOREM PendingOperationsAreOwned == Spec => []PendingIsOwned
<1>1. SupervisorIInv => PendingIsOwned
  BY DEF SupervisorIInv
<1> QED
  BY <1>1, SupervisorInvariance, PTL

\* At most one layer has processes, whatever survived a stop (STOP_OLD verifies
\* Group.empty before START_NEW).
THEOREM AtMostOneLayer == Spec => []OneLayerRuns
<1>1. SupervisorIInv => OneLayerRuns
  BY DEF SupervisorIInv
<1> QED
  BY <1>1, SupervisorInvariance, PTL

\* A settled mode has its own layer of the current generation in the slot
\* (START_NEW, COMMIT).
THEOREM TheLayerIsTheMode == Spec => []LayerOfMode
<1>1. SupervisorIInv => LayerOfMode
  BY DEF SupervisorIInv
<1> QED
  BY <1>1, SupervisorInvariance, PTL

\* No sequence of faults and requests leaves FAULT once the exit of the base
\* was seen (_base_failure, _srv_recover).
THEOREM ADeadBaseIsFinal == Spec => []BaseDeadIsFinal
<1>1. SupervisorIInv => BaseDeadIsFinal
  BY DEF SupervisorIInv, BaseGone, BaseDeadIsFinal
<1> QED
  BY <1>1, SupervisorInvariance, PTL

\* Every step of the supervisor is a step of the promise or changes nothing
\* of it.
LEMMA StepKeepsPromise ==
    ASSUME SupervisorIInv, SupervisorIInv', [Next]_vars
    PROVE  [Grants!GrantNext]_(Grants!grantVars)
<1> USE DEF Grants!GrantNext, Grants!grantVars
<1>1. CASE UNCHANGED <<generation, muxGen, over>>
  <2>1. CASE AllowedClass' = AllowedClass
    BY <1>1, <2>1
  <2>2. CASE AllowedClass' = "none"
    BY <1>1, <2>2 DEF Grants!Inhibit
  <2>3. CASE AllowedClass' # "none"
    <3>1. muxGen' = generation' /\ ~over' /\ AllowedClass' \in {"manual", "autonomous"}
      <4>1. mode' \in Stable
        BY <2>3 DEF AllowedClass
      <4> QED
        BY <2>3, <4>1 DEF AllowedClass, SupervisorIInv, Acked, InFlightModes, Stable, LayerModes
    <3>2. Grants!Grant(AllowedClass')
      BY <1>1, <3>1 DEF Grants!Grant
    <3> QED
      BY <3>1, <3>2 DEF Grants!Classes
  <2> QED
    BY <2>2, <2>3
<1>2. CASE Tick /\ ~over /\ StepTransaction /\ Rotate
  <2>1. txn # None /\ ~over /\ generation < MaxGen /\ UNCHANGED <<muxGen, over>>
    BY <1>2 DEF Tick, StepTransaction, Rotate, SupervisorIInv, RotationBounded, InFlightModes
  <2>2. txn' # None
    BY <1>2, <2>1, AdvanceTypes DEF Rotate, Steps, SupervisorIInv
  <2>3. AllowedClass = "none" /\ AllowedClass' = "none"
    BY <2>1, <2>2 DEF AllowedClass
  <2>4. Grants!Rotate
    BY <1>2, <2>1, <2>3 DEF Rotate, Grants!Rotate
  <2> QED
    BY <2>4
<1>3. CASE MuxReports
  <2>1. UNCHANGED <<generation, over, AllowedClass>>
    BY <1>3 DEF MuxReports, AllowedClass, modeVars, flightVars
  <2>2. PICK gen \in muxGen..generation : muxGen' = gen
    BY <1>3 DEF MuxReports
  <2>3. gen \in 0..MaxGen
    <3>1. generation \in 1..MaxGen /\ muxGen \in 0..generation
      BY DEF SupervisorIInv, SupervisorTypeOK, Generations
    <3> QED
      BY <2>2, <3>1, SupervisorAssumption
  <2>4. Grants!Ack(gen)
    BY <2>1, <2>2 DEF Grants!Ack
  <2> QED
    BY <2>3, <2>4
<1>4. CASE Shutdown
  <2>1. AllowedClass' = "none"
    BY <1>4 DEF Shutdown, AllowedClass, Stable, LayerModes
  <2>2. Grants!Close
    BY <1>4, <2>1 DEF Shutdown, Grants!Close
  <2> QED
    BY <2>2
<1>5. CASE Tick /\ ~(~over /\ StepTransaction /\ Rotate)
  <2>1. UNCHANGED <<muxGen, over>>
    BY <1>5 DEF Tick
  <2>2. generation' = generation
    BY <1>5 DEF Tick, BootFails, ReapBase, ReapLayer, Fail, StepTransaction, WaitMuxAck, WaitStill, StopOld,
       ClearCaches, StartNew, AskLayer, LayerAnswered, SurveyNotReady, LayerReady, Commit,
       TransactionFails, StepSurvey, AskCoordinator, FollowUpEnds, ReturnToIdle, FollowUpFails,
       BaseReady, BaseLate, Idle, modeVars
  <2> QED
    BY <1>1, <2>1, <2>2
<1>6. CASE \/ RequestMode \/ RequestSurvey \/ Recover \/ ShutdownEnds \/ WorkerStops
           \/ LayerLeaderExits \/ BaseExits \/ PanelReports \/ Answer \/ UNCHANGED vars
  <2>1. UNCHANGED <<generation, muxGen, over>>
    BY <1>6, Zenon DEF RequestMode, RequestSurvey, Recover, ShutdownEnds, WorkerStops,
       LayerLeaderExits, BaseExits, PanelReports, Answer, vars, modeVars
  <2> QED
    BY <1>1, <2>1
<1> QED
  BY <1>2, <1>3, <1>4, <1>5, <1>6 DEF Next

\* The promise MotionAuthority rests on: the generation only rotates while
\* nothing is allowed, and nothing is allowed before the mux has acked it or
\* after shutdown (_allowed, WAIT_MUX_ACK, shutdown).
THEOREM SupervisorKeepsPromise == Spec => GrantSpec
<1>1. Init => Grants!GrantInit
  BY DEF Init, Grants!GrantInit, AllowedClass, Stable, LayerModes
<1>2. SupervisorIInv /\ SupervisorIInv' /\ [Next]_vars => [Grants!GrantNext]_(Grants!grantVars)
  BY StepKeepsPromise
<1> QED
  BY <1>1, <1>2, SupervisorInvariance, PTL DEF Spec, GrantSpec, Grants!GrantSpec
=============================================================================
