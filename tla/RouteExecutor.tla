---------------------------- MODULE RouteExecutor ---------------------------
(***************************************************************************)
(* The run of one loaded route (amr_mission/run_fsm.py inside              *)
(* amr_mission/route_executor_node.py): loading, the start and resume      *)
(* edges, the pre-move warning, the steps of the route as action goals,    *)
(* the holds and their automatic resume, faults and takeovers.             *)
(*                                                                         *)
(* Every handler runs under the executor's lock, so each is one action; a  *)
(* tick is the disjunction of the paths through _tick.  Inputs (panel,     *)
(* wheels, drives, localisation, scanner, pose) are stored by callbacks    *)
(* that take no lock and may change between any two handlers, so an action *)
(* takes them as parameters chosen afresh; time bounds are choices too.    *)
(* hold_cause is "" as soon as the run leaves BLOCKED: the code clears it  *)
(* at the next tick and reads it only while BLOCKED.                       *)
(***************************************************************************)
EXTENDS GoalAttempts, Sequences

CONSTANTS
    Route,              \* the compiled step types, in order
    Chained,            \* indices whose step runs on into the next one
    NPasses,            \* repeat_count
    AutoResume,         \* auto_resume_enabled
    AutoResumeEstop,    \* auto_resume_estop
    WarningTicks,       \* premove_s, in ticks
    SafetyTicks         \* safety_window_s, in ticks

ASSUME RouteAssumption ==
    /\ Route \in Seq({"follow", "rotate", "wait"}) /\ Len(Route) >= 1
    /\ Route[Len(Route)] # "wait"                  \* compiler rule
    /\ Chained \subseteq {k \in 1..(Len(Route) - 1) :
                             Route[k] = "follow" /\ Route[k + 1] = "follow"}
    /\ NPasses \in Nat \ {0}
    /\ AutoResume \in BOOLEAN /\ AutoResumeEstop \in BOOLEAN
    /\ WarningTicks \in Nat \ {0} /\ SafetyTicks \in Nat

VARIABLES
    state,      \* RunFsm.state
    phase,      \* what EXECUTING is doing
    hold,       \* hold_cause
    pass, step, \* position in the run; step 0 stands for -1
    prepared,   \* RunFsm.resume_prepared
    startAt,    \* RunFsm.start_at, NoPlace when there is none
    odomGap,    \* progress of a turn can no longer be trusted
    warned,     \* ticks of the pre-move warning since the run last stopped, or Exempt
    pendingFor, \* ticks since the stop whose cause is unknown (_pending_since)
    injected    \* history: /initialpose came since the run stopped moving

fsmVars == <<state, pass, step, prepared, startAt>>
execVars == <<state, phase, hold, pass, step, prepared, startAt, odomGap, warned, pendingFor, injected>>
vars == <<goalVars, execVars>>

States == {"IDLE", "READY", "EXECUTING", "PAUSED", "BLOCKED", "FAULT", "DONE", "WAITING"}
Active == {"EXECUTING", "PAUSED", "BLOCKED"}
Phases == {"premove", "init", "goal", "settle"}
SafetyCauses == {"field", "estop"}
Causes == SafetyCauses \cup {"controller", "pending"}
AutoCauses == {"field", "controller"} \cup (IF AutoResumeEstop THEN {"estop"} ELSE {})
NSteps == Len(Route)
Places == (0..(NPasses - 1)) \X (1..NSteps)
NoPlace == <<0, 0>>
StepType == Route[step]

\* The run went on by itself: nobody pressed, nobody is warned.
Exempt == WarningTicks + 1

Init ==
    /\ GoalInit
    /\ state = "IDLE" /\ phase = "init" /\ hold = ""
    /\ pass = 0 /\ step = 0 /\ prepared = FALSE /\ startAt = NoPlace
    /\ odomGap = FALSE /\ warned = 0 /\ pendingFor = 0 /\ injected = FALSE

-----------------------------------------------------------------------------
(* Building blocks: what the handlers do once they have decided.           *)

\* Inhibit at once, then revoke the goal; turn progress counts on from here.
Interrupt ==
    /\ Revoke
    /\ phase' = "init" /\ odomGap' = FALSE /\ warned' = 0 /\ pendingFor' = 0

\* RunFsm.fault keeps the position for the operator; the executor interrupts.
EnterFault ==
    /\ state' = "FAULT" /\ prepared' = FALSE /\ startAt' = NoPlace /\ hold' = ""
    /\ phase' = "init" /\ odomGap' = FALSE /\ warned' = 0 /\ pendingFor' = 0
    /\ UNCHANGED <<pass, step, injected>>

Fault == EnterFault /\ Revoke

Discard ==
    /\ state' = "IDLE" /\ pass' = 0 /\ step' = 0
    /\ prepared' = FALSE /\ startAt' = NoPlace /\ hold' = ""

Hold(cause) ==
    /\ state' = "BLOCKED" /\ hold' = cause
    /\ prepared' = IF state = "EXECUTING" THEN FALSE ELSE prepared
    /\ Interrupt
    /\ injected' = IF state = "EXECUTING" THEN FALSE ELSE injected
    /\ UNCHANGED <<pass, step, startAt>>

\* step_done: the next step, the next pass, or DONE.
StepDone ==
    IF step < NSteps
    THEN step' = step + 1 /\ UNCHANGED <<pass, state>>
    ELSE IF pass + 1 < NPasses
    THEN step' = 1 /\ pass' = pass + 1 /\ UNCHANGED state
    ELSE step' = step + 1 /\ state' = "DONE" /\ UNCHANGED pass

\* EXECUTING with the alarm horn on: no goal and no permit yet.
BeginPremove == phase' = "premove" /\ warned' = 0

\* What every start and resume asks of the inputs, plus the unresolved-goal
\* barrier; a held turn also needs unbroken odometry.
Prereqs(inputsOk) == inputsOk /\ ~Barrier
ResumeChecks(inputsOk) ==
    Prereqs(inputsOk) /\ (StepType = "rotate" => ~odomGap)

-----------------------------------------------------------------------------
(* Services and panel edges.                                               *)

\* /amr/run_mission, or /amr/rejoin with the place of the checkpoint.
Load ==
    /\ state \in {"IDLE", "READY", "DONE"}
    /\ startAt' \in Places \cup {NoPlace}
    /\ state' = "READY" /\ pass' = 0 /\ step' = 0 /\ prepared' = FALSE
    /\ phase' = "init" /\ hold' = ""
    /\ UNCHANGED <<goalVars, odomGap, warned, pendingFor, injected>>

\* _start_ready: the start gate, or the step the mission was loaded to
\* continue at, or the next one; a refusal keeps the place the gate chose.
Following(place) ==
    IF place[2] < NSteps THEN {<<place[1], place[2] + 1>>}
    ELSE IF place[1] + 1 < NPasses THEN {<<place[1] + 1, 1>>} ELSE {}

StartReady(inputsOk) ==
    /\ state = "READY"
    /\ \E place \in IF startAt = NoPlace THEN {<<0, 1>>}
                    ELSE {startAt} \cup Following(startAt) :
          IF Prereqs(inputsOk)
          THEN /\ state' = "EXECUTING" /\ BeginPremove
               /\ pass' = place[1] /\ step' = place[2] /\ startAt' = NoPlace
          ELSE /\ startAt' = IF startAt = NoPlace THEN NoPlace ELSE place
               /\ UNCHANGED <<state, phase, pass, step, warned>>
    /\ UNCHANGED <<goalVars, hold, prepared, odomGap, pendingFor, injected>>

\* A destination button: loads the newest mission of its route and starts it.
\* When it is refused after the load it is Load; pressed again on the READY
\* mission it is StartReady.
DestEdge ==
    /\ state \in {"IDLE", "READY", "DONE"} /\ ~Barrier
    /\ state' = "EXECUTING" /\ BeginPremove
    /\ pass' = 0 /\ step' = 1 /\ startAt' = NoPlace /\ prepared' = FALSE /\ hold' = ""
    /\ UNCHANGED <<goalVars, odomGap, pendingFor, injected>>

\* Start or Continue on a held run: a BLOCKED one prepares itself, and every
\* resume check is made again at the edge.
ResumeEdge(inputsOk) ==
    /\ state \in {"PAUSED", "BLOCKED"}
    /\ IF ResumeChecks(inputsOk) /\ (state = "BLOCKED" \/ prepared)
       THEN /\ state' = "EXECUTING" /\ prepared' = FALSE /\ hold' = ""
            /\ BeginPremove /\ pendingFor' = 0
       ELSE /\ prepared' = FALSE
            /\ UNCHANGED <<state, hold, phase, warned, pendingFor>>
    /\ UNCHANGED <<goalVars, pass, step, startAt, odomGap, injected>>

\* Faulty variant: the step state is reset after the warning began.
ContinueWaitUnwarned ==
    /\ state = "WAITING" /\ Prereqs(TRUE)
    /\ step' = step + 1 /\ state' = "EXECUTING"
    /\ phase' = "init"
    /\ UNCHANGED <<goalVars, hold, pass, prepared, startAt, odomGap, warned, pendingFor, injected>>

\* Start or Continue at a wait: past it, with the warning of any start.
ContinueWait ==
    /\ state = "WAITING" /\ Prereqs(TRUE)
    /\ step' = step + 1 /\ state' = "EXECUTING"
    /\ BeginPremove
    /\ UNCHANGED <<goalVars, hold, pass, prepared, startAt, odomGap, pendingFor, injected>>

Pause ==
    /\ state = "EXECUTING"
    /\ state' = "PAUSED" /\ prepared' = FALSE /\ injected' = FALSE
    /\ Interrupt
    /\ UNCHANGED <<hold, pass, step, startAt>>

Abort ==
    /\ state \in Active \cup {"READY", "WAITING"}
    /\ Discard /\ Interrupt
    /\ UNCHANGED injected

\* /amr/resume: prepares the resume, or withdraws it when a check fails.
PrepareResume(inputsOk) ==
    /\ state \in {"PAUSED", "BLOCKED"}
    /\ prepared' = ResumeChecks(inputsOk)
    /\ UNCHANGED <<goalVars, state, phase, hold, pass, step, startAt, odomGap, warned, pendingFor, injected>>

\* /amr/ack_fault, or the physical Reset with the wheels at rest.
Ack ==
    /\ state = "FAULT"
    /\ state' = "IDLE" /\ pass' = 0 /\ step' = 0
    /\ UNCHANGED <<goalVars, phase, hold, prepared, startAt, odomGap, warned, pendingFor, injected>>

-----------------------------------------------------------------------------
(* Inputs that act when they arrive.                                       *)

InitialPose ==
    /\ injected' = TRUE
    /\ \/ /\ state = "EXECUTING"
          /\ state' = "FAULT" /\ prepared' = FALSE /\ startAt' = NoPlace
          /\ hold' = "" /\ Interrupt
          /\ UNCHANGED <<pass, step>>
       \/ /\ state \in {"PAUSED", "BLOCKED"}
          /\ prepared' = FALSE /\ odomGap' = TRUE
          /\ UNCHANGED <<goalVars, state, phase, hold, pass, step, startAt, warned, pendingFor>>
       \/ /\ state \notin Active
          /\ UNCHANGED <<goalVars, fsmVars, phase, hold, odomGap, warned, pendingFor>>

OdometryGap ==
    /\ odomGap' = TRUE
    /\ UNCHANGED <<goalVars, fsmVars, phase, hold, warned, pendingFor, injected>>

\* A fresh panel image with the emergency on, seen by its callback or a tick.
EmergencyHold ==
    /\ state = "EXECUTING" \/ (state = "BLOCKED" /\ hold # "estop")
    /\ Hold("estop")

\* Callbacks of the action client; a failure of the current goal is a fault
\* of the run it belongs to.
GoalCallback(a) ==
    \/ (ResponseAccepted(a) \/ ResultArrives(a)) /\ UNCHANGED execVars
    \/ CurrentFails(a) /\ a # current /\ UNCHANGED execVars
    \/ CurrentFails(a) /\ a = current
         /\ IF state \in Active THEN EnterFault ELSE UNCHANGED execVars

-----------------------------------------------------------------------------
(* The paths of _tick that end or hold a run.                              *)

\* The selector explicitly left AUTO; an active hold of a safety kind aborts
\* whatever else is wrong, any other state only with the prerequisites good.
TickManual ==
    /\ state \in Active
    /\ hold \in SafetyCauses \cup {"pending"} \/ ~Barrier
    /\ Discard /\ Interrupt
    /\ UNCHANGED injected

\* The drives report no torque: the safety chain stopped the vehicle.
TickTorqueOff ==
    /\ \/ state = "EXECUTING" /\ phase # "premove"
       \/ state = "BLOCKED" /\ hold \notin SafetyCauses
    /\ \E cause \in SafetyCauses : Hold(cause)

\* Faulty variant: a stop that is pending already is made again while the feedback is away.
TickWheelsStillLost ==
    /\ (state = "EXECUTING" /\ phase # "premove") \/ hold = "pending"
    /\ AutoResume /\ ~Barrier
    /\ Hold("pending")

\* Wheel feedback vanished while moving: stop at once, classify afterwards.
TickWheelsLost ==
    /\ state = "EXECUTING" /\ phase # "premove"
    /\ AutoResume /\ ~Barrier
    /\ Hold("pending")

\* A pending stop becomes a safety hold if the drives lost torque meanwhile.
TickClassify ==
    /\ state = "BLOCKED" /\ hold = "pending"
    /\ \E cause \in SafetyCauses : Hold(cause)

\* Nothing has come yet, and the safety window is not over.
TickPending ==
    /\ state = "BLOCKED" /\ hold = "pending"
    /\ pendingFor < SafetyTicks /\ pendingFor' = pendingFor + 1
    /\ UNCHANGED <<goalVars, fsmVars, phase, hold, odomGap, warned, injected>>

\* The safety window passed without it: a real feedback loss.
TickWindowOver ==
    /\ state = "BLOCKED" /\ hold = "pending"
    /\ pendingFor = SafetyTicks
    /\ Fault

\* A prerequisite failed for the whole grace period.
TickPrereqLost ==
    \/ /\ state \in Active /\ ~(state = "BLOCKED" /\ hold = "pending")
       /\ Fault
    \/ /\ state = "READY"
       /\ state' = "IDLE" /\ startAt' = NoPlace
       /\ UNCHANGED <<goalVars, phase, hold, pass, step, prepared, odomGap, warned, pendingFor, injected>>

\* The cause of a hold cleared and stayed clear: on again, without a warning.
TickAutoResume ==
    /\ state = "BLOCKED" /\ AutoResume /\ hold \in AutoCauses
    /\ ResumeChecks(TRUE)
    /\ state' = "EXECUTING" /\ prepared' = FALSE /\ hold' = "" /\ phase' = "init"
    /\ warned' = Exempt
    /\ UNCHANGED <<goalVars, pass, step, startAt, odomGap, pendingFor, injected>>

-----------------------------------------------------------------------------
(* The paths of _execute, reached by a tick that leaves the run EXECUTING. *)

\* Faulty variant: on as soon as the drives have torque, the warning not yet over.
PremoveTickEarly ==
    /\ state = "EXECUTING" /\ phase = "premove"
    /\ \/ /\ phase' = "init"
          /\ UNCHANGED <<goalVars, fsmVars, hold, odomGap, warned, pendingFor, injected>>
       \/ Hold("estop")

PremoveTick ==
    /\ state = "EXECUTING" /\ phase = "premove"
    /\ \/ /\ warned < WarningTicks /\ warned' = warned + 1
          /\ UNCHANGED <<goalVars, fsmVars, phase, hold, odomGap, pendingFor, injected>>
       \/ /\ warned = WarningTicks         \* warned, and the drives have torque
          /\ phase' = "init"
          /\ UNCHANGED <<goalVars, fsmVars, hold, odomGap, warned, pendingFor, injected>>
       \/ Hold("estop")                     \* no torque within the timeout

\* An obsolete goal did not report within goal_cancel_timeout.
GiveUpObsolete ==
    /\ state = "EXECUTING" /\ phase = "init"
    /\ ForgetObsolete /\ EnterFault

EnterWait ==
    /\ state = "EXECUTING" /\ phase = "init" /\ Obsolete = {}
    /\ StepType = "wait"
    /\ state' = "WAITING" /\ prepared' = FALSE /\ warned' = 0
    /\ UNCHANGED <<goalVars, phase, hold, pass, step, startAt, odomGap, pendingFor, injected>>

\* Faulty variant: the next goal goes out without waiting for the old one.
SendStepAtOnce ==
    /\ state = "EXECUTING" /\ phase = "init" /\ StepType # "wait"
    /\ Send /\ phase' = "goal" /\ UNCHANGED <<fsmVars, hold, odomGap, warned, pendingFor, injected>>

SendStep ==
    /\ state = "EXECUTING" /\ phase = "init" /\ Obsolete = {}
    /\ StepType # "wait"
    /\ \/ Send /\ phase' = "goal" /\ UNCHANGED <<fsmVars, hold, odomGap, warned, pendingFor, injected>>
       \/ SendRaises /\ EnterFault
       \/ Fault                             \* the action server is unavailable

\* Nothing is left of the step: verify it as any other arrival.
NothingLeft ==
    /\ state = "EXECUTING" /\ phase = "init" /\ Obsolete = {}
    /\ StepType # "wait"
    /\ phase' = "settle"
    /\ UNCHANGED <<goalVars, fsmVars, hold, odomGap, warned, pendingFor, injected>>

\* Faulty variant: any boundary passed under a goal moves the run on.
AnyBoundary ==
    /\ state = "EXECUTING" /\ phase = "goal"
    /\ StepDone
    /\ UNCHANGED <<goalVars, phase, hold, prepared, startAt, odomGap, warned, pendingFor, injected>>

\* A chained boundary: the same goal carries on into the next step.
ChainBoundary ==
    /\ state = "EXECUTING" /\ phase = "goal" /\ step \in Chained
    /\ StepDone
    /\ UNCHANGED <<goalVars, phase, hold, prepared, startAt, odomGap, warned, pendingFor, injected>>

\* Faulty variant: arriving leaves the goal to finish by itself.
ArriveUnrevoked ==
    /\ state = "EXECUTING" /\ phase = "goal"
    /\ StepType = "follow" /\ step \notin Chained
    /\ phase' = "settle"
    /\ UNCHANGED <<goalVars, fsmVars, hold, odomGap, warned, pendingFor, injected>>

\* At the endpoint before Nav2's own goal checker: stop here.
Arrive ==
    /\ state = "EXECUTING" /\ phase = "goal"
    /\ StepType = "follow" /\ step \notin Chained
    /\ Revoke /\ phase' = "settle"
    /\ UNCHANGED <<fsmVars, hold, odomGap, warned, pendingFor, injected>>

\* The goal ended well: its verified endpoint is that of the chain's last step.
GoalSucceeded ==
    /\ state = "EXECUTING" /\ phase = "goal" /\ result = "succeeded"
    /\ step' = CHOOSE k \in step..NSteps :
                  k \notin Chained /\ \A j \in step..(k - 1) : j \in Chained
    /\ phase' = "settle"
    /\ UNCHANGED <<goalVars, state, pass, hold, prepared, startAt, odomGap, warned, pendingFor, injected>>

\* ABORTED is a path blocked ahead or a safety stop, anything else a fault.
GoalFailed ==
    /\ state = "EXECUTING" /\ phase = "goal"
    /\ result \in {"aborted", "canceled"}
    /\ IF result = "aborted" /\ AutoResume
       THEN \E cause \in SafetyCauses \cup {"controller"} : Hold(cause)
       ELSE Fault

\* Off the line, overshot, wrong turn, no pose, acceptance overdue, endpoint missed.
StepFault ==
    /\ state = "EXECUTING"
    /\ Fault

Settled ==
    /\ state = "EXECUTING" /\ phase = "settle"
    /\ StepDone /\ phase' = "init"
    /\ UNCHANGED <<goalVars, hold, prepared, startAt, odomGap, warned, pendingFor, injected>>

-----------------------------------------------------------------------------
Operator ==
    \/ Load
    \/ \E ok \in BOOLEAN : StartReady(ok)
    \/ DestEdge
    \/ \E ok \in BOOLEAN : ResumeEdge(ok)
    \/ ContinueWait
    \/ Pause
    \/ Abort
    \/ \E ok \in BOOLEAN : PrepareResume(ok)
    \/ Ack

Tick ==
    \/ TickManual
    \/ TickTorqueOff
    \/ TickWheelsLost
    \/ TickClassify
    \/ TickPending
    \/ TickWindowOver
    \/ TickPrereqLost
    \/ TickAutoResume
    \/ PremoveTick
    \/ GiveUpObsolete
    \/ EnterWait
    \/ SendStep
    \/ NothingLeft
    \/ ChainBoundary
    \/ Arrive
    \/ GoalSucceeded
    \/ GoalFailed
    \/ StepFault
    \/ Settled

Next ==
    \/ Operator
    \/ Tick
    \/ EmergencyHold
    \/ InitialPose
    \/ OdometryGap
    \/ \E a \in Attempt : GoalCallback(a)
    \/ \E a \in Attempt : ServerStep(a) /\ UNCHANGED execVars

\* The 0.1 s timer keeps ticking, so what a tick does once a bound has passed
\* is done: the safety window, the cancel timeout, the pre-move timeout.  How often
\* a tick begins the window or the warning again is not assumed.
Fairness ==
    /\ WF_vars(TickPending \/ TickWindowOver)
    /\ WF_vars(GiveUpObsolete)
    /\ WF_vars(PremoveTick)

Spec == Init /\ [][Next]_vars /\ Fairness

-----------------------------------------------------------------------------
TypeOK ==
    /\ GoalTypeOK
    /\ state \in States /\ phase \in Phases /\ hold \in Causes \cup {""}
    /\ pass \in 0..(NPasses - 1) /\ step \in 0..(NSteps + 1)
    /\ prepared \in BOOLEAN /\ startAt \in Places \cup {NoPlace}
    /\ odomGap \in BOOLEAN /\ warned \in 0..Exempt /\ pendingFor \in 0..SafetyTicks
    /\ injected \in BOOLEAN
    /\ hold # "" <=> state = "BLOCKED"
    /\ prepared => state \in {"PAUSED", "BLOCKED"}

\* _publish_permit
PermitEnabled == state = "EXECUTING" /\ phase = "goal"

\* The permit and the goals agree: motion is permitted only with a current
\* goal, and the current goal may only be running while motion is permitted;
\* every other goal that is still outstanding has been revoked.
PermitCoversGoal ==
    /\ PermitEnabled => current # NoGoal
    /\ current \in outstanding => PermitEnabled

\* At a wait (the drives are disarmed, people are at the trolley) no goal is
\* outstanding at all: not even one that was revoked and has not reported.
WaitIsQuiet == state = "WAITING" => outstanding = {}

\* Nothing drives behind the executor's back: while it permits motion there is one goal it
\* answers for, while it does not there is none, and at a wait not even a revoked one.
MotionIsPermitted == PermitCoversGoal /\ WaitIsQuiet

\* The vehicle never starts without the warning: a run begins or goes on in the pre-move phase,
\* unless its hold is one that resumes by itself; and no goal is sent before the whole of the
\* warning has run since the run last stopped (by a hold, a pause, a fault, an abort or a wait),
\* unless it went on by itself: the warning is not cut short by what comes while it runs, nor is
\* that of an earlier start taken for this one.  (_begin_premove, _premove_tick)
NoSilentRestart ==
    [][/\ state # "EXECUTING" /\ state' = "EXECUTING" =>
             phase' = "premove" \/ (state = "BLOCKED" /\ hold \in AutoCauses)
       /\ seq' # seq => warned \in {WarningTicks, Exempt}]_vars

\* The run only advances over a boundary that was verified: a step that is not
\* chained is left from the settle phase or a wait, one step at a time, and an
\* active run never goes back.
ProgressIsVerified ==
    [][step' # step /\ state \in {"EXECUTING", "WAITING"} /\ state' \notin {"IDLE", "FAULT"} =>
          /\ step \in Chained \/ phase = "settle" \/ state = "WAITING"
          /\ <<pass', step'>> \in {<<pass, k>> : k \in (step + 1)..(NSteps + 1)}
                                  \cup {<<pass + 1, 1>>}
          /\ \A k \in (step + 1)..(step' - 1) : k \in Chained]_vars

\* No wait is for ever: a pending stop is classified, a run does not keep
\* waiting for a revoked goal to report, and the warning comes to an end.
AwaitingObsolete == state = "EXECUTING" /\ phase = "init" /\ Obsolete # {}
WaitsEnd ==
    /\ hold = "pending" ~> hold # "pending"
    /\ AwaitingObsolete ~> ~AwaitingObsolete
    /\ phase = "premove" ~> phase # "premove"

\* goal_attempts.py: unresolved attempts "stay a barrier against new motion
\* until a late terminal callback resolves them or the layer is replaced".
BarrierBlocksGoals == [][Barrier => seq' = seq]_vars

\* route_executor_node.py: "initial pose changed; progress-based resume is
\* invalid, abort the run" - a turn never goes on after an injected pose.
InjectedPoseEndsTurn ==
    [][(state = "PAUSED" \/ state = "BLOCKED") /\ state' = "EXECUTING"
          /\ StepType = "rotate" => ~injected]_vars
=============================================================================
