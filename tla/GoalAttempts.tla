---------------------------- MODULE GoalAttempts ----------------------------
(***************************************************************************)
(* The bookkeeping of action goals (amr_mission/goal_attempts.py) against  *)
(* the Nav2 action server it talks to.  Every goal the route executor      *)
(* sends is one attempt with a number of its own; at most one attempt is   *)
(* CURRENT.  The callbacks of the rclpy action client (response, result)   *)
(* arrive in any order, late, or as exceptions, and each runs whole under  *)
(* the executor's lock, so each is one action here.                        *)
(*                                                                         *)
(* The callers' discipline (route_executor_node._execute) is the guard of  *)
(* Send: a goal goes out only when no obsolete attempt is outstanding and  *)
(* the current one is over.  RouteExecutor shows that the executor keeps   *)
(* that discipline.                                                        *)
(***************************************************************************)
EXTENDS Integers, FiniteSets

CONSTANT MaxAttempts        \* bound on the goals sent in one life of the node

ASSUME MaxAttemptsAssumption == MaxAttempts \in Nat

VARIABLES
    seq,            \* last attempt number drawn from the counter
    current,        \* the current attempt, None when there is none
    handle,         \* TRUE iff the goal handle of the current attempt is held
    result,         \* result of the current attempt, "none" until it arrives
    outstanding,    \* sent, not yet known terminal
    unresolved,     \* given up on or lost by the transport: a barrier
    awaiting,       \* the callback the client still has registered, per attempt
    cancelTried,    \* attempts whose handle was asked to cancel
    server          \* the action server's view of each attempt

goalVars == <<seq, current, handle, result, outstanding, unresolved,
              awaiting, cancelTried, server>>
clientVars == <<seq, current, handle, result, outstanding, unresolved,
                awaiting, cancelTried>>

NoGoal == 0
Attempt == 1..MaxAttempts
Results == {"succeeded", "canceled", "aborted"}
Final == Results \cup {"rejected"}
ServerStates == {"absent", "requested", "executing"} \cup Final

GoalInit ==
    /\ seq = 0 /\ current = NoGoal /\ handle = FALSE /\ result = "none"
    /\ outstanding = {} /\ unresolved = {} /\ cancelTried = {}
    /\ awaiting = [a \in Attempt |-> "none"]
    /\ server = [a \in Attempt |-> "absent"]

-----------------------------------------------------------------------------
(* What the executor calls, with the lock held.                            *)

Obsolete == outstanding \ {current}

Barrier == unresolved # {}

\* send_goal_async accepted the request: the new attempt is current at once.
Send ==
    /\ seq + 1 \in Attempt
    /\ seq' = seq + 1 /\ current' = seq + 1
    /\ handle' = FALSE /\ result' = "none"
    /\ outstanding' = outstanding \cup {seq + 1}
    /\ awaiting' = [awaiting EXCEPT ![seq + 1] = "response"]
    /\ server' = [server EXCEPT ![seq + 1] = "requested"]
    /\ UNCHANGED <<unresolved, cancelTried>>

\* send_goal_async raised: the number is used up, nothing was sent.
SendRaises ==
    /\ seq + 1 \in Attempt
    /\ seq' = seq + 1 /\ current' = NoGoal
    /\ handle' = FALSE /\ result' = "none"
    /\ UNCHANGED <<outstanding, unresolved, awaiting, cancelTried, server>>

\* The current attempt becomes obsolete; an accepted one is asked to cancel.
Revoke ==
    /\ cancelTried' = IF handle THEN cancelTried \cup {current} ELSE cancelTried
    /\ current' = NoGoal /\ handle' = FALSE /\ result' = "none"
    /\ UNCHANGED <<seq, outstanding, unresolved, awaiting, server>>

\* The executor stops waiting for obsolete attempts and faults, which revokes.
ForgetObsolete ==
    /\ Obsolete # {}
    /\ outstanding' = outstanding \ Obsolete
    /\ unresolved' = unresolved \cup Obsolete
    /\ cancelTried' = IF handle THEN cancelTried \cup {current} ELSE cancelTried
    /\ current' = NoGoal /\ handle' = FALSE /\ result' = "none"
    /\ UNCHANGED <<seq, awaiting, server>>

-----------------------------------------------------------------------------
(* Callbacks of the action client's futures.                               *)

Terminal(a) ==
    /\ outstanding' = outstanding \ {a}
    /\ unresolved' = unresolved \ {a}

Unknown(a) ==
    /\ outstanding' = outstanding \ {a}
    /\ unresolved' = unresolved \cup {a}

\* The current attempt failed: dropped, and reported through on_error.
DropIfCurrent(a) ==
    IF a = current
    THEN current' = NoGoal /\ handle' = FALSE /\ result' = "none"
    ELSE UNCHANGED <<current, handle, result>>

ResponseAccepted(a) ==
    /\ awaiting[a] = "response" /\ server[a] \in Results \cup {"executing"}
    /\ awaiting' = [awaiting EXCEPT ![a] = "result"]
    /\ handle' = IF a = current THEN TRUE ELSE handle
    /\ cancelTried' = IF a = current THEN cancelTried ELSE cancelTried \cup {a}
    /\ UNCHANGED <<seq, current, result, outstanding, unresolved, server>>

\* Accepted, but get_result_async raised: running and no longer watched.
ResultSubscriptionFails(a) ==
    /\ awaiting[a] = "response" /\ server[a] \in Results \cup {"executing"}
    /\ awaiting' = [awaiting EXCEPT ![a] = "none"]
    /\ cancelTried' = IF a = current THEN cancelTried ELSE cancelTried \cup {a}
    /\ Unknown(a) /\ DropIfCurrent(a)
    /\ UNCHANGED <<seq, server>>

ResponseRejected(a) ==
    /\ awaiting[a] = "response" /\ server[a] = "rejected"
    /\ awaiting' = [awaiting EXCEPT ![a] = "none"]
    /\ Terminal(a) /\ DropIfCurrent(a)
    /\ UNCHANGED <<seq, cancelTried, server>>

\* Faulty variant: a transport failure counts as the end of the goal.
TransportFailureEnds(a) ==
    /\ awaiting[a] # "none"
    /\ awaiting' = [awaiting EXCEPT ![a] = "none"]
    /\ Terminal(a) /\ DropIfCurrent(a)
    /\ UNCHANGED <<seq, cancelTried, server>>

\* The response or the result future raised: the server may still hold the goal.
TransportFails(a) ==
    /\ awaiting[a] # "none"
    /\ awaiting' = [awaiting EXCEPT ![a] = "none"]
    /\ Unknown(a) /\ DropIfCurrent(a)
    /\ UNCHANGED <<seq, cancelTried, server>>

\* Faulty variant: a result is taken whatever attempt it belongs to.
ResultOfAnyAttempt(a) ==
    /\ awaiting[a] = "result" /\ server[a] \in Results
    /\ awaiting' = [awaiting EXCEPT ![a] = "none"]
    /\ Terminal(a)
    /\ result' = server[a] /\ handle' = FALSE
    /\ UNCHANGED <<seq, current, cancelTried, server>>

ResultArrives(a) ==
    /\ awaiting[a] = "result" /\ server[a] \in Results
    /\ awaiting' = [awaiting EXCEPT ![a] = "none"]
    /\ Terminal(a)
    /\ IF a = current
       THEN result' = server[a] /\ handle' = FALSE
       ELSE UNCHANGED <<result, handle>>
    /\ UNCHANGED <<seq, current, cancelTried, server>>

\* A failure of the current attempt that on_error passes to the executor.
CurrentFails(a) ==
    ResponseRejected(a) \/ TransportFails(a) \/ ResultSubscriptionFails(a)

Callback(a) == ResponseAccepted(a) \/ ResultArrives(a) \/ CurrentFails(a)

-----------------------------------------------------------------------------
(* The action server (external): answers in its own time, finishes a goal  *)
(* with any result, and as canceled only when a cancel was asked for.      *)

ServerAnswers(a) ==
    /\ server[a] = "requested"
    /\ server' = [server EXCEPT ![a] = "executing"]
    /\ UNCHANGED clientVars

ServerRejects(a) ==
    /\ server[a] = "requested"
    /\ server' = [server EXCEPT ![a] = "rejected"]
    /\ UNCHANGED clientVars

ServerFinishes(a) ==
    /\ server[a] = "executing"
    /\ \E r \in Results :
          /\ r = "canceled" => a \in cancelTried
          /\ server' = [server EXCEPT ![a] = r]
    /\ UNCHANGED clientVars

ServerStep(a) == ServerAnswers(a) \/ ServerRejects(a) \/ ServerFinishes(a)

-----------------------------------------------------------------------------
\* _execute in PHASE_INIT: nothing obsolete outstanding, the last goal over.
MaySend == Obsolete = {} /\ current \notin outstanding

SendGoal == MaySend /\ Send
SendGoalRaises == MaySend /\ SendRaises

GoalNext ==
    \/ SendGoal
    \/ SendGoalRaises
    \/ Revoke
    \/ ForgetObsolete
    \/ \E a \in Attempt : Callback(a)
    \/ \E a \in Attempt : ServerStep(a)

GoalSpec == GoalInit /\ [][GoalNext]_goalVars

-----------------------------------------------------------------------------
GoalTypeOK ==
    /\ seq \in 0..MaxAttempts
    /\ current \in Attempt \cup {NoGoal}
    /\ handle \in BOOLEAN
    /\ result \in Results \cup {"none"}
    /\ outstanding \subseteq Attempt
    /\ unresolved \subseteq Attempt
    /\ awaiting \in [Attempt -> {"none", "response", "result"}]
    /\ cancelTried \subseteq Attempt
    /\ server \in [Attempt -> ServerStates]

\* The server may move the vehicle on attempt a, now or once it accepts it.
MayMove(a) == server[a] \in {"requested", "executing"}

\* No goal the server may still execute is ever forgotten: it is outstanding
\* or part of the barrier, whatever callbacks were lost, late or raised.
LiveGoalsTracked ==
    \A a \in Attempt : MayMove(a) => a \in outstanding \cup unresolved

\* One action at a time: an attempt is only added while no other is awaited,
\* so a replacement never overlaps a goal that was revoked.
OneOutstanding == \A a, b \in outstanding : a = b

\* The result the executor acts on is the server's own verdict on the current
\* attempt, and that attempt is no longer counted as able to move.
ResultIsCurrent ==
    result # "none" =>
        /\ current \in Attempt
        /\ server[current] = result
        /\ current \notin outstanding \cup unresolved

\* A goal the client knows to be running after it was revoked has been asked
\* to cancel: revoking before the acceptance arrives does not leave it running.
ObsoleteIsCancelled ==
    \A a \in Attempt :
        awaiting[a] = "result" /\ a # current /\ server[a] = "executing"
            => a \in cancelTried

\* Whatever order the callbacks come in, the bookkeeping tells the goals that
\* may still move the vehicle, and the verdict that is acted on, as they are.
GoalsAreAccounted ==
    LiveGoalsTracked /\ OneOutstanding /\ ResultIsCurrent /\ ObsoleteIsCancelled

\* An attempt leaves the bookkeeping altogether only when the server has
\* finished with it: the barrier is never lifted by a timeout or a callback
\* of another attempt.
ReleasedOnlyWhenOver ==
    [][\A a \in outstanding \cup unresolved :
          a \notin outstanding' \cup unresolved' => ~MayMove(a)]_goalVars
=============================================================================
