------------------------ MODULE RouteExecutorProofs ------------------------
(***************************************************************************)
(* RouteExecutor, proved for every route, set of chained steps, number of  *)
(* passes and of goals, and both auto-resume settings.                     *)
(*                                                                         *)
(* First the bookkeeping of GoalAttempts by itself.  Three facts           *)
(* strengthen the checked invariants into one that every step preserves:   *)
(* what holding a handle means, that an attempt still awaited and current  *)
(* is outstanding, and that only an accepted goal has its result awaited.  *)
(*                                                                         *)
(* Then the executor, whose heart is one mutual dependency: a step of it   *)
(* is a step of GoalAttempts only because the permit covers the goal (in   *)
(* phase "init" the current goal is over, so MaySend holds), and the       *)
(* permit covers the goal only because the bookkeeping says what a result  *)
(* means.  ExecIInv carries both through every step together.              *)
(***************************************************************************)
EXTENDS RouteExecutor, WellFoundedInduction, TLAPS

-----------------------------------------------------------------------------
(* The bookkeeping of GoalAttempts.                                        *)

\* The handle held belongs to the current attempt, from acceptance to result.
HandleHeld ==
    /\ handle => current \in Attempt
    /\ current \in Attempt /\ awaiting[current] = "result" => handle

\* The current attempt is outstanding as long as a callback may still come.
CurrentTracked ==
    current \in Attempt /\ awaiting[current] # "none" => current \in outstanding

\* A result is only awaited from a server that accepted the goal.
AwaitedIsAccepted ==
    \A a \in Attempt :
        awaiting[a] = "result" => server[a] \in Results \cup {"executing"}

GoalIInv ==
    /\ GoalTypeOK
    /\ LiveGoalsTracked
    /\ OneOutstanding
    /\ ResultIsCurrent
    /\ ObsoleteIsCancelled
    /\ HandleHeld
    /\ CurrentTracked
    /\ AwaitedIsAccepted

NamesDiffer ==
    /\ NoGoal \notin Attempt
    /\ \A a \in Attempt : a \in Nat

\* The number that stands for "no attempt" is not the number of one.
LEMMA NoneIsNoAttempt == NamesDiffer
BY MaxAttemptsAssumption, SMT DEF NamesDiffer, NoGoal, Attempt

USE DEF Results, Final, ServerStates, MayMove

\* The initial state satisfies the inductive invariant.
LEMMA InitGoalIInv == GoalInit => GoalIInv
<1> SUFFICES ASSUME GoalInit PROVE GoalIInv
  OBVIOUS
<1>1. GoalTypeOK
  <2>1. seq \in 0..MaxAttempts
    BY MaxAttemptsAssumption DEF GoalInit
  <2> QED
    BY <2>1, Zenon DEF GoalInit, GoalTypeOK
<1>2. LiveGoalsTracked /\ OneOutstanding /\ ResultIsCurrent /\ ObsoleteIsCancelled
  BY DEF GoalInit, LiveGoalsTracked, OneOutstanding, ResultIsCurrent, ObsoleteIsCancelled
<1>3. HandleHeld /\ CurrentTracked /\ AwaitedIsAccepted
  BY NoneIsNoAttempt DEF NamesDiffer, GoalInit, HandleHeld, CurrentTracked, AwaitedIsAccepted
<1> QED
  BY <1>1, <1>2, <1>3 DEF GoalIInv

\* Sending (or failing to send) preserves it, given that MaySend leaves
\* nothing outstanding.
LEMMA SendPreserves ==
    ASSUME GoalIInv, SendGoal \/ SendGoalRaises
    PROVE  GoalIInv'
<1>1. outstanding = {}
  BY DEF SendGoal, SendGoalRaises, MaySend, Obsolete
<1>2. CASE SendGoal
  <2>1. GoalTypeOK'
    <3>1. seq + 1 \in Attempt /\ seq' \in 0..MaxAttempts
      BY <1>2, MaxAttemptsAssumption DEF GoalIInv, GoalTypeOK, SendGoal, Send, Attempt
    <3>2. /\ outstanding' \subseteq Attempt
          /\ awaiting' \in [Attempt -> {"none", "response", "result"}]
          /\ server' \in [Attempt -> ServerStates]
      BY <1>2, <3>1 DEF GoalIInv, GoalTypeOK, SendGoal, Send
    <3> QED
      BY <1>2, <3>1, <3>2, Zenon DEF GoalIInv, GoalTypeOK, SendGoal, Send
  <2>2. LiveGoalsTracked'
    BY <1>2 DEF GoalIInv, GoalTypeOK, LiveGoalsTracked, SendGoal, Send
  <2>3. OneOutstanding'
    BY <1>1, <1>2 DEF OneOutstanding, SendGoal, Send
  <2>4. ObsoleteIsCancelled'
    BY <1>1, <1>2 DEF GoalIInv, GoalTypeOK, ObsoleteIsCancelled, CurrentTracked, SendGoal, Send
  <2>5. ResultIsCurrent' /\ HandleHeld' /\ CurrentTracked' /\ AwaitedIsAccepted'
    BY <1>2 DEF GoalIInv, GoalTypeOK, ResultIsCurrent, HandleHeld, CurrentTracked, AwaitedIsAccepted, SendGoal, Send
  <2> QED
    BY <2>1, <2>2, <2>3, <2>4, <2>5 DEF GoalIInv
<1>3. CASE SendGoalRaises
  <2>1. GoalTypeOK'
    <3>1. seq' \in 0..MaxAttempts
      BY <1>3, MaxAttemptsAssumption DEF GoalIInv, GoalTypeOK, SendGoalRaises, SendRaises, Attempt
    <3> QED
      BY <1>3, <3>1, Zenon DEF GoalIInv, GoalTypeOK, SendGoalRaises, SendRaises
  <2>2. LiveGoalsTracked' /\ OneOutstanding'
    BY <1>1, <1>3 DEF GoalIInv, LiveGoalsTracked, OneOutstanding, SendGoalRaises, SendRaises
  <2>3. ObsoleteIsCancelled'
    BY <1>1, <1>3 DEF GoalIInv, GoalTypeOK, ObsoleteIsCancelled, CurrentTracked,
                      SendGoalRaises, SendRaises
  <2>4. ResultIsCurrent' /\ HandleHeld' /\ CurrentTracked' /\ AwaitedIsAccepted'
    BY <1>3, NoneIsNoAttempt
       DEF NamesDiffer, GoalIInv, ResultIsCurrent, HandleHeld, CurrentTracked,
           AwaitedIsAccepted, SendGoalRaises, SendRaises
  <2> QED
    BY <2>1, <2>2, <2>3, <2>4 DEF GoalIInv
<1> QED
  BY <1>2, <1>3

\* Revoking, and giving up on what was revoked, preserve it: a held handle is
\* asked to cancel as the attempt becomes obsolete.
LEMMA RevokePreserves ==
    ASSUME GoalIInv, Revoke \/ ForgetObsolete
    PROVE  GoalIInv'
<1>1. CASE Revoke
  BY <1>1, NoneIsNoAttempt
     DEF NamesDiffer, GoalIInv, GoalTypeOK, LiveGoalsTracked, OneOutstanding, ResultIsCurrent,
         ObsoleteIsCancelled, HandleHeld, CurrentTracked, AwaitedIsAccepted, Revoke
<1>2. CASE ForgetObsolete
  BY <1>2, NoneIsNoAttempt
     DEF NamesDiffer, GoalIInv, GoalTypeOK, LiveGoalsTracked, OneOutstanding, ResultIsCurrent,
         ObsoleteIsCancelled, HandleHeld, CurrentTracked, AwaitedIsAccepted, ForgetObsolete, Obsolete
<1> QED
  BY <1>1, <1>2

\* Every callback of the action client preserves it.
LEMMA CallbackPreserves ==
    ASSUME GoalIInv, NEW a \in Attempt, Callback(a)
    PROVE  GoalIInv'
<1> USE NoneIsNoAttempt
        DEF NamesDiffer, GoalIInv, GoalTypeOK, LiveGoalsTracked, OneOutstanding,
            ResultIsCurrent, ObsoleteIsCancelled, HandleHeld, CurrentTracked, AwaitedIsAccepted
<1>1. CASE ResponseAccepted(a)
  BY <1>1 DEF ResponseAccepted
<1>2. CASE ResultArrives(a)
  BY <1>2 DEF ResultArrives, Terminal
<1>3. CASE ResponseRejected(a)
  <2>1. GoalTypeOK' /\ AwaitedIsAccepted'
    BY <1>3 DEF ResponseRejected, Terminal, DropIfCurrent
  <2>2. LiveGoalsTracked' /\ OneOutstanding'
    BY <1>3 DEF ResponseRejected, Terminal
  <2>3. ResultIsCurrent' /\ ObsoleteIsCancelled'
    BY <1>3 DEF ResponseRejected, Terminal, DropIfCurrent
  <2>4. HandleHeld' /\ CurrentTracked'
    BY <1>3 DEF ResponseRejected, Terminal, DropIfCurrent
  <2> QED
    BY <2>1, <2>2, <2>3, <2>4
<1>4. CASE TransportFails(a)
  BY <1>4 DEF TransportFails, Unknown, DropIfCurrent
<1>5. CASE ResultSubscriptionFails(a)
  <2>1. GoalTypeOK' /\ AwaitedIsAccepted'
    BY <1>5 DEF ResultSubscriptionFails, Unknown, DropIfCurrent
  <2>2. LiveGoalsTracked' /\ OneOutstanding'
    BY <1>5 DEF ResultSubscriptionFails, Unknown
  <2>3. ResultIsCurrent' /\ ObsoleteIsCancelled'
    BY <1>5 DEF ResultSubscriptionFails, Unknown, DropIfCurrent
  <2>4. HandleHeld' /\ CurrentTracked'
    BY <1>5 DEF ResultSubscriptionFails, Unknown, DropIfCurrent
  <2> QED
    BY <2>1, <2>2, <2>3, <2>4
<1> QED
  BY <1>1, <1>2, <1>3, <1>4, <1>5 DEF Callback, CurrentFails

\* The server's own steps preserve it: a finished goal stays finished.
LEMMA ServerPreserves ==
    ASSUME GoalIInv, NEW a \in Attempt, ServerStep(a)
    PROVE  GoalIInv'
<1> USE DEF ServerStep, ServerAnswers, ServerRejects, ServerFinishes, clientVars
<1>1. /\ UNCHANGED clientVars
      /\ MayMove(a)
      /\ \E s \in ServerStates : server' = [server EXCEPT ![a] = s]
  BY DEF GoalIInv, GoalTypeOK
<1>2. server[a] = "requested" => server'[a] \in {"executing", "rejected"}
  BY <1>1 DEF GoalIInv, GoalTypeOK
<1>3. GoalTypeOK'
  BY <1>1 DEF GoalIInv, GoalTypeOK
<1>4. LiveGoalsTracked' /\ OneOutstanding' /\ HandleHeld' /\ CurrentTracked'
  BY <1>1 DEF GoalIInv, GoalTypeOK, LiveGoalsTracked, OneOutstanding, HandleHeld, CurrentTracked
<1>5. ResultIsCurrent'
  BY <1>1 DEF GoalIInv, GoalTypeOK, ResultIsCurrent
<1>6. ObsoleteIsCancelled'
  BY <1>1, <1>2 DEF GoalIInv, GoalTypeOK, ObsoleteIsCancelled, AwaitedIsAccepted
<1>7. AwaitedIsAccepted'
  BY DEF GoalIInv, GoalTypeOK, AwaitedIsAccepted
<1> QED
  BY <1>3, <1>4, <1>5, <1>6, <1>7 DEF GoalIInv

\* Every step of the bookkeeping preserves the invariant; RouteExecutorProofs
\* uses this for the steps of the executor.
LEMMA GoalStepPreserves == GoalIInv /\ [GoalNext]_goalVars => GoalIInv'
<1> SUFFICES ASSUME GoalIInv, [GoalNext]_goalVars PROVE GoalIInv'
  OBVIOUS
<1>1. CASE SendGoal \/ SendGoalRaises
  BY <1>1, SendPreserves
<1>2. CASE Revoke \/ ForgetObsolete
  BY <1>2, RevokePreserves
<1>3. CASE \E a \in Attempt : Callback(a)
  BY <1>3, CallbackPreserves
<1>4. CASE \E a \in Attempt : ServerStep(a)
  BY <1>4, ServerPreserves
<1>5. CASE UNCHANGED goalVars
  BY <1>5 DEF goalVars, GoalIInv, GoalTypeOK, LiveGoalsTracked, OneOutstanding,
              ResultIsCurrent, ObsoleteIsCancelled, HandleHeld, CurrentTracked, AwaitedIsAccepted
<1> QED
  BY <1>1, <1>2, <1>3, <1>4, <1>5 DEF GoalNext

\* The bookkeeping invariant holds in every reachable state, for any number
\* of attempts and any order of callbacks (goal_attempts.py, reviews R08, Q06).
THEOREM GoalInvariance == GoalSpec => []GoalIInv
BY InitGoalIInv, GoalStepPreserves, PTL DEF GoalSpec

\* No goal the server may still execute is lost from the bookkeeping, at most
\* one attempt is outstanding, a goal revoked before or after its acceptance has
\* been asked to cancel, and the result acted on is the server's own verdict.
THEOREM GoalsAreAccountedFor == GoalSpec => []GoalsAreAccounted
<1>1. GoalIInv => GoalsAreAccounted
  BY DEF GoalIInv, GoalsAreAccounted
<1> QED
  BY GoalInvariance, <1>1, PTL

\* An attempt leaves the bookkeeping only once its goal can no longer move the
\* vehicle: neither a timeout nor a lost transport lifts the barrier.
THEOREM ReleaseNeedsEvidence == GoalSpec => ReleasedOnlyWhenOver
<1> DEFINE Keep == \A a \in outstanding \cup unresolved :
                      a \notin outstanding' \cup unresolved' => ~MayMove(a)
<1>1. GoalIInv /\ [GoalNext]_goalVars => [Keep]_goalVars
  <2> SUFFICES ASSUME GoalIInv, GoalNext,
                      NEW a \in outstanding \cup unresolved,
                      a \notin outstanding' \cup unresolved'
               PROVE  ~MayMove(a)
    OBVIOUS
  <2>1. PICK b \in Attempt : Callback(b)
    BY DEF GoalNext, SendGoal, SendGoalRaises, Send, SendRaises, Revoke, ForgetObsolete,
           Obsolete, ServerStep, ServerAnswers, ServerRejects, ServerFinishes, clientVars
  <2>2. a = b /\ (ResponseRejected(b) \/ ResultArrives(b))
    BY <2>1 DEF Callback, CurrentFails, ResponseAccepted, ResultArrives, ResponseRejected,
                TransportFails, ResultSubscriptionFails, Terminal, Unknown
  <2> QED
    BY <2>2 DEF ResponseRejected, ResultArrives
<1> QED
  BY GoalInvariance, <1>1, PTL DEF GoalSpec, ReleasedOnlyWhenOver

HIDE DEF Results, Final, ServerStates, MayMove

-----------------------------------------------------------------------------
(* The executor.                                                           *)

\* A run under way stands on a step of the route, and waits only at a wait.
OnRoute ==
    /\ state \in Active \cup {"WAITING"} => step \in 1..NSteps
    /\ state = "WAITING" => Route[step] = "wait"

\* Where the run is: numbers only.
Placed ==
    /\ pass \in 0..(NPasses - 1) /\ step \in 0..(NSteps + 1)
    /\ startAt \in Places \cup {NoPlace}
    /\ OnRoute

\* What the run is doing: no numbers.
Controlled ==
    /\ state \in States /\ phase \in Phases /\ hold \in Causes \cup {""}
    /\ prepared \in BOOLEAN /\ odomGap \in BOOLEAN /\ injected \in BOOLEAN
    /\ hold # "" <=> state = "BLOCKED"
    /\ prepared => state \in {"PAUSED", "BLOCKED"}

\* The counts stay within their bounds, and past the pre-move phase a run has had
\* the whole warning or needs none.
IsWarned ==
    /\ warned \in 0..Exempt /\ pendingFor \in 0..SafetyTicks
    /\ state = "EXECUTING" /\ phase # "premove" => warned \in {WarningTicks, Exempt}

ExecIInv ==
    /\ GoalIInv
    /\ Placed
    /\ Controlled
    /\ IsWarned
    /\ PermitCoversGoal
    /\ WaitIsQuiet

-----------------------------------------------------------------------------
(* What the executor's steps are to the goal bookkeeping.                  *)

\* Every step of the executor is a step of GoalAttempts or leaves it alone:
\* it sends only when nothing else is outstanding.
LEMMA StepSimulates ==
    ASSUME PermitCoversGoal, [Next]_vars
    PROVE  [GoalNext]_goalVars
<1>1. CASE Operator
  BY <1>1 DEF Operator, Load, StartReady, DestEdge, ResumeEdge, ContinueWait, Pause, Abort,
              PrepareResume, Ack, Interrupt, GoalNext
<1>2. CASE SendStep
  <2>1. MaySend
    BY <1>2 DEF SendStep, MaySend, PermitCoversGoal, PermitEnabled
  <2> QED
    BY <1>2, <2>1 DEF SendStep, Fault, GoalNext, SendGoal, SendGoalRaises
<1>3. CASE Tick /\ ~SendStep
  BY <1>3 DEF Tick, TickManual, TickTorqueOff, TickWheelsLost, TickClassify, TickPending, TickWindowOver,
              TickPrereqLost, TickAutoResume, PremoveTick, GiveUpObsolete, EnterWait, NothingLeft,
              ChainBoundary, Arrive, GoalSucceeded, GoalFailed, StepFault, Settled,
              Hold, Fault, Interrupt, GoalNext
<1>4. CASE EmergencyHold \/ InitialPose \/ OdometryGap
  BY <1>4 DEF EmergencyHold, InitialPose, OdometryGap, Hold, Interrupt, GoalNext
<1>5. CASE \E a \in Attempt : GoalCallback(a)
  BY <1>5 DEF GoalCallback, GoalNext, Callback
<1>6. CASE \E a \in Attempt : ServerStep(a) /\ UNCHANGED execVars
  BY <1>6 DEF GoalNext
<1>7. CASE UNCHANGED vars
  BY <1>7 DEF vars
<1> QED
  BY <1>1, <1>2, <1>3, <1>4, <1>5, <1>6, <1>7 DEF Next
-----------------------------------------------------------------------------
(* The permit and the goals.                                               *)

\* Revoking leaves no current goal and no permission to move.
LEMMA RevokedIsSafe ==
    ASSUME GoalTypeOK', current' = NoGoal, ~PermitEnabled'
    PROVE  PermitCoversGoal'
BY NoneIsNoAttempt DEF NamesDiffer, GoalTypeOK, PermitCoversGoal

\* Interrupting a run, and faulting it, revoke.
LEMMA InterruptRevokes ==
    ASSUME Interrupt \/ Fault
    PROVE  current' = NoGoal /\ ~PermitEnabled'
BY DEF Interrupt, Fault, EnterFault, Revoke, PermitEnabled

\* What an operator does keeps the permit and the goals in agreement: a start
\* or a resume begins without a goal, everything else revokes.
LEMMA OperatorKeepsPermit ==
    ASSUME ExecIInv, GoalIInv', Operator
    PROVE  PermitCoversGoal'
<1> USE DEF ExecIInv, PermitCoversGoal, PermitEnabled, goalVars
<1>1. CASE Load \/ DestEdge \/ ContinueWait \/ Ack
  BY <1>1 DEF Load, DestEdge, BeginPremove, ContinueWait, Ack
<1>2. CASE \E ok \in BOOLEAN : StartReady(ok) \/ ResumeEdge(ok) \/ PrepareResume(ok)
  BY <1>2 DEF StartReady, ResumeEdge, PrepareResume, BeginPremove
<1>3. CASE Pause \/ Abort
  BY <1>3, InterruptRevokes, RevokedIsSafe DEF Pause, Abort, GoalIInv
<1> QED
  BY <1>1, <1>2, <1>3 DEF Operator

\* So does every path of a tick: a goal is only sent as the permit is given,
\* and the permit is only withdrawn as the goal is revoked or over.
LEMMA TickKeepsPermit ==
    ASSUME ExecIInv, GoalIInv', Tick
    PROVE  PermitCoversGoal'
<1>1. ASSUME NEW c, Hold(c) PROVE PermitCoversGoal'
  BY <1>1, InterruptRevokes, RevokedIsSafe DEF Hold, GoalIInv
<1>2. ASSUME Fault PROVE PermitCoversGoal'
  BY <1>2, InterruptRevokes, RevokedIsSafe DEF GoalIInv
<1>3. CASE TickManual \/ TickTorqueOff \/ TickWheelsLost \/ TickClassify \/ TickWindowOver
           \/ StepFault \/ GoalFailed
  BY <1>1, <1>2, <1>3, InterruptRevokes, RevokedIsSafe
     DEF TickManual, TickTorqueOff, TickWheelsLost, TickClassify, TickWindowOver, StepFault,
         GoalFailed, GoalIInv
<1>4. CASE TickPrereqLost \/ TickAutoResume \/ PremoveTick \/ TickPending
  BY <1>1, <1>2, <1>4
     DEF TickPending, TickPrereqLost, TickAutoResume, PremoveTick, ExecIInv, PermitCoversGoal,
         PermitEnabled, goalVars, fsmVars
<1>5. CASE GiveUpObsolete
  BY <1>5, RevokedIsSafe DEF GiveUpObsolete, ForgetObsolete, EnterFault, PermitEnabled, GoalIInv
<1>6. CASE SendStep
  <2>1. CASE Send /\ phase' = "goal" /\ UNCHANGED fsmVars
    <3>1. current' # NoGoal /\ PermitEnabled'
      BY <1>6, <2>1, NoneIsNoAttempt DEF SendStep, Send, PermitEnabled, fsmVars, NamesDiffer
    <3> QED
      BY <3>1 DEF PermitCoversGoal
  <2>2. CASE SendRaises /\ EnterFault
    BY <2>2, RevokedIsSafe DEF SendRaises, EnterFault, PermitEnabled, GoalIInv
  <2> QED
    BY <1>2, <1>6, <2>1, <2>2 DEF SendStep
<1>7. CASE EnterWait \/ NothingLeft
  BY <1>7 DEF EnterWait, NothingLeft, ExecIInv, PermitCoversGoal, PermitEnabled, goalVars, fsmVars
<1>8. CASE ChainBoundary
  <2>1. step < NSteps
    BY <1>8, RouteAssumption DEF ChainBoundary, NSteps
  <2> QED
    BY <1>8, <2>1 DEF ChainBoundary, StepDone, ExecIInv, PermitCoversGoal, PermitEnabled, goalVars
<1>9. CASE Arrive
  BY <1>9, RevokedIsSafe DEF Arrive, Revoke, PermitEnabled, GoalIInv
<1>10. CASE GoalSucceeded
  <2>1. current \notin outstanding
    BY <1>10 DEF GoalSucceeded, ExecIInv, GoalIInv, ResultIsCurrent
  <2> QED
    BY <1>10, <2>1 DEF GoalSucceeded, PermitCoversGoal, PermitEnabled, goalVars
<1>11. CASE Settled
  BY <1>11 DEF Settled, ExecIInv, PermitCoversGoal, PermitEnabled, goalVars
<1> QED
  BY <1>3, <1>4, <1>5, <1>6, <1>7, <1>8, <1>9, <1>10, <1>11 DEF Tick

\* Events keep it: a lost current goal faults the run that it belongs to.
LEMMA EventKeepsPermit ==
    ASSUME ExecIInv, GoalIInv',
           \/ EmergencyHold \/ InitialPose \/ OdometryGap
           \/ \E a \in Attempt : GoalCallback(a)
           \/ \E a \in Attempt : ServerStep(a) /\ UNCHANGED execVars
    PROVE  PermitCoversGoal'
<1>1. CASE EmergencyHold
  BY <1>1, InterruptRevokes, RevokedIsSafe DEF EmergencyHold, Hold, GoalIInv
<1>2. CASE InitialPose
  <2>1. CASE Interrupt
    BY <2>1, InterruptRevokes, RevokedIsSafe DEF GoalIInv
  <2>2. CASE state # "EXECUTING"
    BY <1>2, <2>2 DEF InitialPose, ExecIInv, PermitCoversGoal, PermitEnabled, goalVars, fsmVars, Active
  <2> QED
    BY <1>2, <2>1, <2>2 DEF InitialPose, Active
<1>3. CASE OdometryGap
  BY <1>3 DEF OdometryGap, ExecIInv, PermitCoversGoal, PermitEnabled, goalVars, fsmVars
<1>4. ASSUME NEW a \in Attempt, GoalCallback(a) PROVE PermitCoversGoal'
  <2>1. CASE (ResponseAccepted(a) \/ ResultArrives(a)) /\ UNCHANGED execVars
    BY <2>1 DEF ResponseAccepted, ResultArrives, Terminal, ExecIInv, PermitCoversGoal, PermitEnabled, execVars
  <2>2. CASE CurrentFails(a) /\ a # current /\ UNCHANGED execVars
    BY <2>2 DEF CurrentFails, ResponseRejected, TransportFails, ResultSubscriptionFails, Terminal,
                Unknown, DropIfCurrent, ExecIInv, PermitCoversGoal, PermitEnabled, execVars
  <2>3. CASE /\ CurrentFails(a) /\ a = current
             /\ IF state \in Active THEN EnterFault ELSE UNCHANGED execVars
    <3>1. current' = NoGoal
      BY <2>3 DEF CurrentFails, ResponseRejected, TransportFails, ResultSubscriptionFails, DropIfCurrent
    <3>2. ~PermitEnabled'
      BY <2>3 DEF EnterFault, PermitEnabled, Active, execVars
    <3> QED
      BY <3>1, <3>2, RevokedIsSafe DEF GoalIInv
  <2> QED
    BY <1>4, <2>1, <2>2, <2>3 DEF GoalCallback
<1>5. ASSUME NEW a \in Attempt, ServerStep(a), UNCHANGED execVars PROVE PermitCoversGoal'
  BY <1>5 DEF ServerStep, ServerAnswers, ServerRejects, ServerFinishes, clientVars, ExecIInv,
              PermitCoversGoal, PermitEnabled, execVars
<1> QED
  BY <1>1, <1>2, <1>3, <1>4, <1>5

-----------------------------------------------------------------------------
(* Types, and the place of the run on its route.                           *)

\* Every set of naturals that is not empty has a least element.
LEMMA LeastElement ==
    ASSUME NEW S \in SUBSET Nat, S # {}
    PROVE  \E m \in S : \A k \in S : m <= k
<1>1. PICK m \in S : \A k \in S : ~ (<<k, m>> \in OpToRel(<, Nat))
  BY WFMin, NatLessThanWellFounded, Zenon
<1>2. ASSUME NEW k \in S PROVE m <= k
  <2>1. \A i, j \in Nat : i < j => <<i, j>> \in OpToRel(<, Nat)
    BY DEF OpToRel
  <2>2. m \in Nat /\ k \in Nat
    OBVIOUS
  <2>3. ~(k < m)
    BY <1>1, <2>1, <2>2, Zenon
  <2> QED
    BY <2>2, <2>3
<1> QED
  BY <1>2

\* The chain that a step is part of has an end on the route.
ChainEnd(first, last) ==
    last \in first..NSteps /\ last \notin Chained /\ \A j \in first..(last - 1) : j \in Chained

LEMMA ChainEnds ==
    ASSUME NEW first \in 1..NSteps
    PROVE  \E last \in first..NSteps : ChainEnd(first, last)
<1> DEFINE Ends == {k \in first..NSteps : k \notin Chained}
<1>1. NSteps \in Nat /\ NSteps \notin Chained
  BY RouteAssumption DEF NSteps
<1>2. NSteps \in Ends /\ Ends \in SUBSET Nat
  BY <1>1
<1>3. PICK m \in Ends : \A k \in Ends : m <= k
  BY <1>2, LeastElement
<1>4. m \in first..NSteps /\ m \notin Chained
  BY <1>3
<1>5. ASSUME NEW j \in first..(m - 1) PROVE j \in Chained
  BY <1>1, <1>3, <1>4
<1> QED
  BY <1>4, <1>5 DEF ChainEnd

\* The numbers the types are built from.
LEMMA Sizes ==
    /\ NSteps \in Nat \ {0} /\ NPasses \in Nat \ {0}
    /\ Chained \subseteq 1..(NSteps - 1)
    /\ Route[NSteps] # "wait"
BY RouteAssumption DEF NSteps

LEMMA OperatorPlaced ==
    ASSUME Placed, Operator
    PROVE  Placed'
<1> USE DEF Placed, OnRoute, Active
<1>1. CASE Load
  <2>1. state' = "READY" /\ pass' = 0 /\ step' = 0 /\ startAt' \in Places \cup {NoPlace}
    BY <1>1, Zenon DEF Load
  <2> QED
    BY <2>1, Sizes
<1>2. ASSUME NEW ok \in BOOLEAN, StartReady(ok) PROVE Placed'
  <2>1. PICK place \in Places :
             IF Prereqs(ok)
             THEN state' = "EXECUTING" /\ pass' = place[1] /\ step' = place[2] /\ startAt' = NoPlace
             ELSE startAt' \in {NoPlace, place} /\ UNCHANGED <<state, pass, step>>
    BY <1>2, Sizes DEF StartReady, Following, Places, NoPlace
  <2> QED
    BY <1>2, <2>1, Sizes DEF Places, StartReady
<1>3. CASE DestEdge
  <2>1. state' = "EXECUTING" /\ pass' = 0 /\ step' = 1 /\ startAt' = NoPlace
    BY <1>3, Zenon DEF DestEdge
  <2> QED
    BY <2>1, Sizes
<1>4. ASSUME NEW ok \in BOOLEAN, ResumeEdge(ok) \/ PrepareResume(ok) PROVE Placed'
  BY <1>4 DEF ResumeEdge, PrepareResume
<1>5. CASE ContinueWait
  <2>1. step' \in 1..NSteps
    BY <1>5, Sizes DEF ContinueWait
  <2> QED
    BY <1>5, <2>1, Sizes DEF ContinueWait
<1>6. CASE Pause
  BY <1>6 DEF Pause
<1>7. CASE Abort \/ Ack
  <2>1. state' = "IDLE" /\ pass' = 0 /\ step' = 0 /\ startAt' \in {NoPlace, startAt}
    BY <1>7, Zenon DEF Abort, Ack, Discard
  <2> QED
    BY <2>1, Sizes
<1> QED
  BY <1>1, <1>2, <1>3, <1>4, <1>5, <1>6, <1>7 DEF Operator

LEMMA OperatorControlled ==
    ASSUME Controlled, Operator
    PROVE  Controlled'
<1> USE DEF Controlled, States, Phases, Active
<1>1. CASE Load
  BY <1>1, Zenon DEF Load
<1>2. CASE DestEdge
  BY <1>2, Zenon DEF DestEdge, BeginPremove
<1>3. CASE ContinueWait
  BY <1>3, Zenon DEF ContinueWait, BeginPremove
<1>4. ASSUME NEW ok \in BOOLEAN, StartReady(ok) PROVE Controlled'
  BY <1>4, Zenon DEF StartReady, BeginPremove
<1>5. ASSUME NEW ok \in BOOLEAN, ResumeEdge(ok) PROVE Controlled'
  BY <1>5, Zenon DEF ResumeEdge, BeginPremove
<1>6. ASSUME NEW ok \in BOOLEAN, PrepareResume(ok) PROVE Controlled'
  BY <1>6, Zenon DEF PrepareResume, ResumeChecks, Prereqs
<1>7. CASE Pause
  BY <1>7, Zenon DEF Pause, Interrupt
<1>8. CASE Abort
  BY <1>8, Zenon DEF Abort, Discard, Interrupt
<1>9. CASE Ack
  BY <1>9, Zenon DEF Ack
<1> QED
  BY <1>1, <1>2, <1>3, <1>4, <1>5, <1>6, <1>7, <1>8, <1>9 DEF Operator

\* A hold and a fault keep the place of the run; finishing a step goes to the
\* next one, to the next pass, or ends the run.
LEMMA HoldPlaced ==
    ASSUME Placed, NEW c, Hold(c), state \in {"EXECUTING", "BLOCKED"}
    PROVE  Placed'
BY DEF Placed, OnRoute, Active, Hold

LEMMA FaultPlaced ==
    ASSUME Placed, EnterFault
    PROVE  Placed'
<1>1. state' = "FAULT" /\ startAt' = NoPlace /\ UNCHANGED <<pass, step>>
  BY Zenon DEF EnterFault
<1> QED
  BY <1>1 DEF Placed, OnRoute, Active

LEMMA StepDonePlaced ==
    ASSUME Placed, state = "EXECUTING", StepDone, startAt' = startAt
    PROVE  Placed' /\ state' \in {"EXECUTING", "DONE"}
BY Sizes DEF Placed, OnRoute, Active, StepDone

LEMMA TickPlaced ==
    ASSUME Placed, Tick
    PROVE  Placed'
<1> USE DEF Placed, OnRoute, Active
<1>1. CASE TickManual
  <2>1. state' = "IDLE" /\ pass' = 0 /\ step' = 0 /\ startAt' = NoPlace
    BY <1>1, Zenon DEF TickManual, Discard
  <2> QED
    BY <2>1, Sizes
<1>2. CASE TickTorqueOff \/ TickWheelsLost \/ TickClassify
  BY <1>2, HoldPlaced DEF TickTorqueOff, TickWheelsLost, TickClassify
<1>3. CASE TickWindowOver \/ GiveUpObsolete \/ StepFault
  BY <1>3, FaultPlaced DEF TickWindowOver, GiveUpObsolete, StepFault, Fault
<1>4. CASE TickPrereqLost
  BY <1>4, FaultPlaced DEF TickPrereqLost, Fault
<1>5. CASE TickAutoResume \/ TickPending
  BY <1>5 DEF TickAutoResume, TickPending, fsmVars
<1>6. CASE PremoveTick
  BY <1>6, HoldPlaced DEF PremoveTick, fsmVars
<1>7. CASE EnterWait \/ NothingLeft \/ Arrive
  BY <1>7 DEF EnterWait, NothingLeft, Arrive, StepType, fsmVars
<1>8. CASE SendStep
  BY <1>8, FaultPlaced DEF SendStep, Fault, fsmVars
<1>9. CASE ChainBoundary \/ Settled
  BY <1>9, StepDonePlaced DEF ChainBoundary, Settled
<1>10. CASE GoalSucceeded
  <2>1. step \in 1..NSteps
    BY <1>10 DEF GoalSucceeded
  <2>2. PICK last \in step..NSteps : last \notin Chained /\ \A j \in step..(last - 1) : j \in Chained
    BY <2>1, ChainEnds DEF ChainEnd
  <2>3. step' \in step..NSteps /\ UNCHANGED <<state, pass, startAt>>
    BY <1>10, <2>2, Zenon DEF GoalSucceeded
  <2> QED
    BY <1>10, <2>1, <2>3, Sizes DEF GoalSucceeded
<1>11. CASE GoalFailed
  BY <1>11, HoldPlaced, FaultPlaced DEF GoalFailed, Fault
<1> QED
  BY <1>1, <1>2, <1>3, <1>4, <1>5, <1>6, <1>7, <1>8, <1>9, <1>10, <1>11 DEF Tick

LEMMA EventPlaced ==
    ASSUME Placed,
           \/ EmergencyHold \/ InitialPose \/ OdometryGap
           \/ \E a \in Attempt : GoalCallback(a)
           \/ UNCHANGED execVars
    PROVE  Placed'
<1>1. CASE EmergencyHold
  BY <1>1, HoldPlaced DEF EmergencyHold
<1>2. CASE InitialPose
  <2>1. /\ UNCHANGED <<pass, step>>
        /\ \/ state' = "FAULT" /\ startAt' = NoPlace
           \/ UNCHANGED <<state, startAt>>
    BY <1>2, Zenon DEF InitialPose, fsmVars
  <2> QED
    BY <2>1 DEF Placed, OnRoute, Active
<1>3. CASE OdometryGap \/ UNCHANGED execVars
  BY <1>3 DEF OdometryGap, Placed, OnRoute, Active, fsmVars, execVars
<1>4. ASSUME NEW a \in Attempt, GoalCallback(a) PROVE Placed'
  BY <1>3, <1>4, FaultPlaced DEF GoalCallback
<1> QED
  BY <1>1, <1>2, <1>3, <1>4

LEMMA HoldControlled ==
    ASSUME Controlled, NEW c \in Causes, Hold(c), state \in {"EXECUTING", "BLOCKED"}
    PROVE  Controlled'
<1>1. c # ""
  BY DEF Causes, SafetyCauses
<1> QED
  BY <1>1, Zenon DEF Controlled, Hold, Interrupt, States, Phases

LEMMA FaultControlled ==
    ASSUME Controlled, EnterFault
    PROVE  Controlled'
BY Zenon DEF Controlled, EnterFault, States, Phases

LEMMA TickControlled ==
    ASSUME Controlled, Placed, Tick
    PROVE  Controlled'
<1> USE DEF Controlled, States, Phases
<1>1. CASE TickManual
  BY <1>1, Zenon DEF TickManual, Discard, Interrupt
<1>2. CASE TickTorqueOff \/ TickWheelsLost \/ TickClassify
  BY <1>2, HoldControlled DEF TickTorqueOff, TickWheelsLost, TickClassify, Causes
<1>3. CASE TickWindowOver \/ GiveUpObsolete \/ StepFault
  BY <1>3, FaultControlled DEF TickWindowOver, GiveUpObsolete, StepFault, Fault
<1>4. CASE TickPrereqLost
  <2>1. CASE state' = "IDLE" /\ state = "READY" /\ UNCHANGED <<phase, hold, prepared, odomGap, injected>>
    BY <2>1, Zenon
  <2> QED
    BY <1>4, <2>1, FaultControlled DEF TickPrereqLost, Fault
<1>5. CASE TickAutoResume
  BY <1>5, Zenon DEF TickAutoResume
<1>6. CASE PremoveTick
  <2>1. "estop" \in Causes
    BY DEF Causes, SafetyCauses
  <2> QED
    <3>1. CASE phase' \in {phase, "init"} /\ UNCHANGED <<state, hold, prepared, odomGap, injected>>
      BY <3>1, Zenon
    <3>2. CASE Hold("estop")
      BY <1>6, <2>1, <3>2, HoldControlled DEF PremoveTick
    <3> QED
      BY <1>6, <3>1, <3>2, Zenon DEF PremoveTick, fsmVars
<1>7. CASE EnterWait
  BY <1>7, Zenon DEF EnterWait
<1>8. CASE phase' \in Phases /\ UNCHANGED <<state, hold, prepared, odomGap, injected>>
  BY <1>8, Zenon
<1>9. CASE NothingLeft \/ Arrive \/ SendStep \/ TickPending
  <2>1. CASE TickPending
    BY <2>1, Zenon DEF TickPending, fsmVars
  <2> QED
    BY <1>8, <1>9, <2>1, FaultControlled DEF NothingLeft, Arrive, SendStep, Fault, fsmVars
<1>10. CASE ChainBoundary \/ Settled
  <2>1. state' \in {"EXECUTING", "DONE"} /\ state = "EXECUTING"
    BY <1>10, StepDonePlaced DEF ChainBoundary, Settled
  <2> QED
    <3>1. phase' \in Phases /\ UNCHANGED <<hold, prepared, odomGap, injected>>
      BY <1>10 DEF ChainBoundary, Settled
    <3>2. state' \in States /\ state' \notin {"BLOCKED", "PAUSED"}
      BY <2>1
    <3>3. hold = "" /\ ~prepared
      BY <2>1, Zenon
    <3> QED
      BY <3>1, <3>2, <3>3, Zenon
<1>11. CASE GoalSucceeded
  BY <1>11, Zenon DEF GoalSucceeded
<1>12. CASE GoalFailed
  BY <1>12, HoldControlled, FaultControlled DEF GoalFailed, Fault, Causes
<1> QED
  BY <1>1, <1>2, <1>3, <1>4, <1>5, <1>6, <1>7, <1>8, <1>9, <1>10, <1>11, <1>12 DEF Tick

LEMMA EventControlled ==
    ASSUME Controlled,
           \/ EmergencyHold \/ InitialPose \/ OdometryGap
           \/ \E a \in Attempt : GoalCallback(a)
           \/ UNCHANGED execVars
    PROVE  Controlled'
<1> USE DEF Controlled, States, Phases
<1>1. CASE EmergencyHold
  <2>1. "estop" \in Causes
    BY DEF Causes, SafetyCauses
  <2> QED
    BY <1>1, <2>1, HoldControlled DEF EmergencyHold
<1>2. CASE InitialPose
  <2>1. CASE state = "EXECUTING" /\ state' = "FAULT" /\ prepared' = FALSE /\ hold' = "" /\ Interrupt
             /\ injected' = TRUE
    BY <2>1, Zenon DEF Interrupt
  <2>2. CASE prepared' = FALSE /\ odomGap' = TRUE /\ injected' = TRUE /\ UNCHANGED <<state, phase, hold>>
    BY <2>2, Zenon
  <2>3. CASE injected' = TRUE /\ UNCHANGED <<state, prepared, phase, hold, odomGap>>
    BY <2>3, Zenon
  <2> QED
    BY <1>2, <2>1, <2>2, <2>3, Zenon DEF InitialPose, fsmVars
<1>3. CASE OdometryGap
  BY <1>3, Zenon DEF OdometryGap, fsmVars
<1>4. CASE UNCHANGED execVars
  BY <1>4, Zenon DEF execVars
<1>5. ASSUME NEW a \in Attempt, GoalCallback(a) PROVE Controlled'
  BY <1>4, <1>5, FaultControlled DEF GoalCallback
<1> QED
  BY <1>1, <1>2, <1>3, <1>4, <1>5

-----------------------------------------------------------------------------
(* The warning.                                                            *)

\* What a step may do to the count of the warning: begin it again where nothing
\* drives, leave it to a run that was past it already, count, or end it.
WarningCounts ==
    \/ warned' = 0 /\ (state' # "EXECUTING" \/ phase' = "premove")
    \/ warned' = warned /\ (state' # "EXECUTING" \/ phase' = "premove"
                               \/ (state = "EXECUTING" /\ phase # "premove"))
    \/ warned' = warned + 1 /\ warned < WarningTicks /\ phase' = "premove"
    \/ warned' = warned /\ warned = WarningTicks
    \/ warned' = Exempt

\* What it may do to the count of a pending stop.
PendingCounts ==
    \/ pendingFor' \in {0, pendingFor}
    \/ pendingFor < SafetyTicks /\ pendingFor' = pendingFor + 1

WarningStep == WarningCounts /\ PendingCounts

\* Such a step keeps the count: nothing but its end leads past the warning.
LEMMA WarningStepKeeps ==
    ASSUME IsWarned, WarningStep
    PROVE  IsWarned'
<1>1. WarningTicks \in Nat \ {0} /\ SafetyTicks \in Nat
  BY RouteAssumption
<1> QED
  BY <1>1 DEF IsWarned, WarningStep, WarningCounts, PendingCounts, Exempt

\* What an operator does begins the warning, or leaves the run where it was.
LEMMA OperatorWarns == Operator => WarningStep
<1> USE DEF WarningStep, WarningCounts, PendingCounts
<1>1. CASE Load \/ DestEdge \/ ContinueWait \/ Pause \/ Abort \/ Ack
  BY <1>1, Zenon DEF Load, DestEdge, ContinueWait, BeginPremove, Pause, Abort, Ack, Discard, Interrupt
<1>2. ASSUME NEW ok \in BOOLEAN, StartReady(ok) \/ ResumeEdge(ok) \/ PrepareResume(ok)
      PROVE WarningStep
  BY <1>2, Zenon DEF StartReady, ResumeEdge, PrepareResume, BeginPremove
<1> QED
  BY <1>1, <1>2, Zenon DEF Operator

\* A tick counts the warning, ends it when it is whole, or exempts the run.
LEMMA TickWarns == Tick => WarningStep
<1> USE DEF WarningStep, WarningCounts, PendingCounts
<1>1. ASSUME NEW c, Hold(c) PROVE WarningStep
  BY <1>1, Zenon DEF Hold, Interrupt
<1>2. ASSUME EnterFault PROVE WarningStep
  BY <1>2, Zenon DEF EnterFault
<1> HIDE DEF WarningStep, WarningCounts, PendingCounts
<1>3. CASE TickTorqueOff \/ TickWheelsLost \/ TickClassify \/ TickWindowOver \/ GiveUpObsolete
           \/ GoalFailed \/ StepFault
  BY <1>1, <1>2, <1>3, Zenon
     DEF TickTorqueOff, TickWheelsLost, TickClassify, TickWindowOver, GiveUpObsolete, GoalFailed,
         StepFault, Fault
<1>4. CASE TickManual \/ TickPrereqLost \/ TickAutoResume \/ EnterWait
  BY <1>2, <1>4, Zenon DEF TickManual, TickPrereqLost, TickAutoResume, EnterWait, Discard, Interrupt,
                           Fault, WarningStep, WarningCounts, PendingCounts
<1>5. CASE PremoveTick \/ TickPending
  <2>1. WarningStep \/ Hold("estop")
    BY <1>5, Zenon DEF PremoveTick, TickPending, fsmVars, WarningStep, WarningCounts, PendingCounts
  <2> QED
    BY <1>1, <2>1
<1>6. CASE SendStep \/ NothingLeft \/ ChainBoundary \/ Arrive \/ GoalSucceeded \/ Settled
  BY <1>2, <1>6, Zenon DEF SendStep, NothingLeft, ChainBoundary, Arrive, GoalSucceeded, Settled, Fault,
                           WarningStep, WarningCounts, PendingCounts
<1> QED
  BY <1>3, <1>4, <1>5, <1>6, Zenon DEF Tick

\* An event stops the run, or leaves the warning and the run as they are.
LEMMA EventWarns ==
    ASSUME \/ EmergencyHold \/ InitialPose \/ OdometryGap
           \/ \E a \in Attempt : GoalCallback(a)
           \/ UNCHANGED execVars
    PROVE  WarningStep
<1>1. CASE UNCHANGED <<state, phase, warned, pendingFor>>
  BY <1>1, Zenon DEF WarningStep, WarningCounts, PendingCounts
<1>2. CASE state' # "EXECUTING" /\ warned' = 0 /\ pendingFor' = 0
  BY <1>2, Zenon DEF WarningStep, WarningCounts, PendingCounts
<1>3. CASE EmergencyHold \/ InitialPose \/ OdometryGap
  BY <1>1, <1>2, <1>3, Zenon DEF EmergencyHold, InitialPose, OdometryGap, Hold, Interrupt, fsmVars
<1>4. CASE UNCHANGED execVars
  BY <1>1, <1>4, Zenon DEF execVars
<1>5. ASSUME NEW a \in Attempt, GoalCallback(a) PROVE WarningStep
  BY <1>2, <1>4, <1>5, Zenon DEF GoalCallback, EnterFault
<1> QED
  BY <1>3, <1>4, <1>5, Zenon

-----------------------------------------------------------------------------
(* The wait, and the theorems.                                             *)

\* A run comes to wait only when nothing is outstanding, and while it waits no
\* goal is sent.
LEMMA WaitKept ==
    ASSUME ExecIInv, [Next]_vars
    PROVE  WaitIsQuiet'
<1> USE DEF WaitIsQuiet
<1>1. CASE EnterWait
  BY <1>1 DEF EnterWait, Obsolete, ExecIInv, PermitCoversGoal, PermitEnabled, goalVars
<1>2. CASE Operator
  <2>1. state' # "WAITING" \/ (state' = state /\ UNCHANGED goalVars)
    BY <1>2 DEF Operator, Load, StartReady, DestEdge, ResumeEdge, ContinueWait, Pause, Abort,
                PrepareResume, Ack, Discard
  <2> QED
    BY <2>1 DEF ExecIInv, goalVars
<1>3. CASE Tick /\ ~EnterWait
  <2>1. state' # "WAITING"
    BY <1>3 DEF Tick, TickManual, TickTorqueOff, TickWheelsLost, TickClassify, TickPending, TickWindowOver,
                TickPrereqLost, TickAutoResume, PremoveTick, GiveUpObsolete, SendStep, NothingLeft,
                ChainBoundary, Arrive, GoalSucceeded, GoalFailed, StepFault, Settled, StepDone,
                Hold, Fault, EnterFault, Discard, fsmVars
  <2> QED
    BY <2>1
<1>4. CASE EmergencyHold \/ InitialPose \/ OdometryGap
  <2>1. state' # "WAITING" \/ (state' = state /\ UNCHANGED goalVars)
    BY <1>4 DEF EmergencyHold, InitialPose, OdometryGap, Hold, fsmVars
  <2> QED
    BY <2>1 DEF ExecIInv, goalVars
<1>5. ASSUME NEW a \in Attempt, GoalCallback(a) PROVE WaitIsQuiet'
  <2>1. state' = "WAITING" => state = "WAITING"
    BY <1>5 DEF GoalCallback, EnterFault, execVars
  <2>2. outstanding' \subseteq outstanding
    BY <1>5 DEF GoalCallback, CurrentFails, ResponseAccepted, ResultArrives, ResponseRejected,
                TransportFails, ResultSubscriptionFails, Terminal, Unknown
  <2> QED
    BY <2>1, <2>2 DEF ExecIInv
<1>6. ASSUME NEW a \in Attempt, ServerStep(a), UNCHANGED execVars PROVE WaitIsQuiet'
  BY <1>6 DEF ServerStep, ServerAnswers, ServerRejects, ServerFinishes, clientVars, execVars, ExecIInv
<1>7. CASE UNCHANGED vars
  BY <1>7 DEF vars, goalVars, execVars, ExecIInv
<1> QED
  BY <1>1, <1>2, <1>3, <1>4, <1>5, <1>6, <1>7 DEF Next

\* The initial state satisfies the inductive invariant.
LEMMA InitExecIInv == Init => ExecIInv
<1> SUFFICES ASSUME Init PROVE ExecIInv
  OBVIOUS
<1>1. GoalIInv
  BY InitGoalIInv DEF Init
<1>2. Placed
  <2>1. state = "IDLE" /\ pass = 0 /\ step = 0 /\ startAt = NoPlace
    BY Zenon DEF Init
  <2> QED
    BY <2>1, Sizes DEF Placed, OnRoute, Active
<1>3. Controlled
  BY Zenon DEF Init, Controlled, States, Phases
<1>4. PermitCoversGoal /\ WaitIsQuiet
  BY DEF Init, GoalInit, PermitCoversGoal, PermitEnabled, WaitIsQuiet
<1>5. IsWarned
  <2>1. warned = 0 /\ pendingFor = 0 /\ state = "IDLE"
    BY Zenon DEF Init
  <2>2. WarningTicks \in Nat /\ SafetyTicks \in Nat
    BY RouteAssumption
  <2> QED
    BY <2>1, <2>2 DEF IsWarned, Exempt
<1> QED
  BY <1>1, <1>2, <1>3, <1>4, <1>5 DEF ExecIInv

\* Every step of the executor preserves it.
LEMMA NextExecIInv == ExecIInv /\ [Next]_vars => ExecIInv'
<1> SUFFICES ASSUME ExecIInv, [Next]_vars PROVE ExecIInv'
  OBVIOUS
<1>1. GoalIInv'
  BY StepSimulates, GoalStepPreserves DEF ExecIInv
<1>2. Placed' /\ Controlled'
  BY OperatorPlaced, TickPlaced, EventPlaced, OperatorControlled, TickControlled, EventControlled
     DEF Next, vars, ExecIInv
<1>3. PermitCoversGoal'
  <2>1. CASE UNCHANGED vars
    BY <2>1 DEF vars, goalVars, execVars, PermitCoversGoal, PermitEnabled, ExecIInv
  <2> QED
    BY <1>1, <2>1, OperatorKeepsPermit, TickKeepsPermit, EventKeepsPermit DEF Next
<1>4. WaitIsQuiet'
  BY WaitKept
<1>5. IsWarned'
  <2>1. WarningStep
    BY OperatorWarns, TickWarns, EventWarns DEF Next, vars
  <2> QED
    BY <2>1, WarningStepKeeps DEF ExecIInv
<1> QED
  BY <1>1, <1>2, <1>3, <1>4, <1>5 DEF ExecIInv

\* The inductive invariant of the executor and its goals.
THEOREM ExecInvariance == Spec => []ExecIInv
BY InitExecIInv, NextExecIInv, PTL DEF Spec

\* The executor keeps the discipline that GoalAttempts asks of its caller: it
\* never sends a goal while another one is outstanding.
THEOREM ExecutorRefinesGoals == Spec => GoalSpec
<1>1. Init => GoalInit
  BY DEF Init
<1>2. ExecIInv /\ [Next]_vars => [GoalNext]_goalVars
  BY StepSimulates DEF ExecIInv
<1> QED
  BY <1>1, <1>2, ExecInvariance, PTL DEF Spec, GoalSpec

\* The variables keep their types; a hold has a cause exactly while BLOCKED.
THEOREM TypeCorrect == Spec => []TypeOK
<1>1. ExecIInv => TypeOK
  BY DEF ExecIInv, GoalIInv, Placed, Controlled, IsWarned, TypeOK
<1> QED
  BY <1>1, ExecInvariance, PTL

\* Motion is permitted only with a current goal, and a current goal runs only
\* while motion is permitted (_publish_permit against GoalAttempts).
THEOREM PermitAgreesWithGoals == Spec => []PermitCoversGoal
<1>1. ExecIInv => PermitCoversGoal
  BY DEF ExecIInv
<1> QED
  BY <1>1, ExecInvariance, PTL

\* At a wait no goal is outstanding, revoked ones included (_enter_wait).
THEOREM WaitsAreQuiet == Spec => []WaitIsQuiet
<1>1. ExecIInv => WaitIsQuiet
  BY DEF ExecIInv
<1> QED
  BY <1>1, ExecInvariance, PTL

\* Whatever drives is permitted, and at a wait nothing does (_publish_permit, _enter_wait).
THEOREM MotionNeedsPermit == Spec => []MotionIsPermitted
BY PermitAgreesWithGoals, WaitsAreQuiet, PTL DEF MotionIsPermitted

\* A run begins or goes on with the warning, except where a hold of a kind
\* that resumes by itself has cleared; and no goal is sent before the whole of
\* the warning has run since the run last stopped, with the same exception.
THEOREM StartsAreWarned == Spec => NoSilentRestart
<1> DEFINE Begins == state # "EXECUTING" /\ state' = "EXECUTING" =>
                        phase' = "premove" \/ (state = "BLOCKED" /\ hold \in AutoCauses)
           Sends == seq' # seq => warned \in {WarningTicks, Exempt}
<1>1. [Next]_vars => [Begins]_vars
  <2> SUFFICES ASSUME Next PROVE Begins
    OBVIOUS
  <2>1. CASE Operator
    BY <2>1 DEF Operator, Load, StartReady, DestEdge, ResumeEdge, ContinueWait, Pause, Abort,
                PrepareResume, Ack, Discard, BeginPremove
  <2>2. CASE Tick
    BY <2>2 DEF Tick, TickManual, TickTorqueOff, TickWheelsLost, TickClassify, TickPending, TickWindowOver,
                TickPrereqLost, TickAutoResume, PremoveTick, GiveUpObsolete, EnterWait, SendStep,
                NothingLeft, ChainBoundary, Arrive, GoalSucceeded, GoalFailed, StepFault, Settled,
                Hold, Fault, EnterFault, Discard, fsmVars
  <2>3. CASE ~Operator /\ ~Tick
    BY <2>3 DEF Next, EmergencyHold, InitialPose, OdometryGap, GoalCallback, Hold, EnterFault,
                fsmVars, execVars
  <2> QED
    BY <2>1, <2>2, <2>3
<1>2. ExecIInv /\ [Next]_vars => [Sends]_vars
  <2> SUFFICES ASSUME ExecIInv, Next, seq' # seq PROVE warned \in {WarningTicks, Exempt}
    OBVIOUS
  <2>1. SendStep
    <3>1. ~Operator
      BY DEF Operator, Load, StartReady, DestEdge, ResumeEdge, ContinueWait, Pause, Abort,
             PrepareResume, Ack, Interrupt, Revoke, goalVars
    <3>2. CASE Tick
      BY <3>2 DEF Tick, TickManual, TickTorqueOff, TickWheelsLost, TickClassify, TickPending, TickWindowOver,
                  TickPrereqLost, TickAutoResume, PremoveTick, GiveUpObsolete, EnterWait,
                  NothingLeft, ChainBoundary, Arrive, GoalSucceeded, GoalFailed, StepFault, Settled,
                  Hold, Fault, Interrupt, Revoke, ForgetObsolete, goalVars
    <3>3. CASE ~Operator /\ ~Tick
      BY <3>3 DEF Next, EmergencyHold, InitialPose, OdometryGap, GoalCallback, Hold, Interrupt, Revoke,
                  CurrentFails, ResponseAccepted, ResultArrives, ResponseRejected, TransportFails,
                  ResultSubscriptionFails, Terminal, Unknown, ServerStep, ServerAnswers,
                  ServerRejects, ServerFinishes, clientVars, goalVars
    <3> QED
      BY <3>1, <3>2, <3>3
  <2>2. state = "EXECUTING" /\ phase # "premove"
    BY <2>1 DEF SendStep
  <2> QED
    BY <2>2 DEF ExecIInv, IsWarned
<1> QED
  BY <1>1, <1>2, ExecInvariance, PTL DEF Spec, NoSilentRestart

\* What lies strictly between two numbers lies from the first to the second.
LEMMA Between ==
    ASSUME NEW i \in Nat, NEW j \in Nat, i < j
    PROVE  i \in i..(j - 1) /\ (i + 1)..(j - 1) \subseteq i..(j - 1)
OBVIOUS

\* The run only advances over verified boundaries, one step at a time but for
\* the steps of a chain its goal already drove, and never back.
THEOREM ProgressNeedsVerification == Spec => ProgressIsVerified
<1> DEFINE Moves == step' # step /\ state \in {"EXECUTING", "WAITING"} /\ state' \notin {"IDLE", "FAULT"}
           From == step \in Chained \/ phase = "settle" \/ state = "WAITING"
           To == <<pass', step'>> \in {<<pass, k>> : k \in (step + 1)..(NSteps + 1)}
                                     \cup {<<pass + 1, 1>>}
           Over == \A k \in (step + 1)..(step' - 1) : k \in Chained
<1>1. ExecIInv /\ [Next]_vars => [Moves => From /\ To /\ Over]_vars
  <2> SUFFICES ASSUME ExecIInv, Next, Moves PROVE From /\ To /\ Over
    OBVIOUS
  <2>1. ContinueWait \/ ChainBoundary \/ Settled \/ GoalSucceeded
    <3>1. CASE Operator
      BY <3>1 DEF Operator, Load, StartReady, DestEdge, ResumeEdge, Pause, Abort,
                  PrepareResume, Ack, Discard
    <3>2. CASE Tick
      BY <3>2 DEF Tick, TickManual, TickTorqueOff, TickWheelsLost, TickClassify, TickPending, TickWindowOver,
                  TickPrereqLost, TickAutoResume, PremoveTick, GiveUpObsolete, EnterWait, SendStep,
                  NothingLeft, Arrive, GoalFailed, StepFault, Hold, Fault, EnterFault, Discard, fsmVars
    <3>3. CASE ~Operator /\ ~Tick
      BY <3>3 DEF Next, EmergencyHold, InitialPose, OdometryGap, GoalCallback, Hold, EnterFault,
                  fsmVars, execVars
    <3> QED
      BY <3>1, <3>2, <3>3
  <2>2. step \in 1..NSteps
    BY <2>1 DEF ExecIInv, Placed, OnRoute, Active, ContinueWait, ChainBoundary, Settled, GoalSucceeded
  <2>3. CASE ContinueWait
    BY <2>2, <2>3, Sizes DEF ContinueWait
  <2>4. CASE ChainBoundary \/ Settled
    <3>1. From /\ StepDone
      BY <2>4 DEF ChainBoundary, Settled
    <3>2. \/ step' = step + 1 /\ pass' = pass
          \/ step' = 1 /\ pass' = pass + 1
      BY <3>1 DEF StepDone
    <3> QED
      BY <2>2, <3>1, <3>2, Sizes
  <2>5. CASE GoalSucceeded
    <3>1. step' \in step..NSteps /\ pass' = pass /\ \A j \in step..(step' - 1) : j \in Chained
      BY <2>2, <2>5, ChainEnds DEF GoalSucceeded, ChainEnd
    <3>2. step' \in (step + 1)..(NSteps + 1)
      BY <2>2, <3>1, Sizes
    <3>3. step \in Nat /\ step' \in Nat /\ step < step'
      BY <2>2, <3>2, Sizes
    <3> QED
      BY <3>1, <3>2, <3>3, Between
  <2> QED
    BY <2>1, <2>3, <2>4, <2>5
<1> QED
  BY <1>1, ExecInvariance, PTL DEF Spec, ProgressIsVerified
=============================================================================
