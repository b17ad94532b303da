------------------------------ MODULE SurveyMove ------------------------------
(***************************************************************************)
(* The preset moves of a survey: survey_move_node.py and the controller it    *)
(* steps (survey_move.py), with the topic they share with the browser jog     *)
(* and the mux's intake (ManualIntake in gating.py).                          *)
(*                                                                           *)
(* The topic's reader keeps one sample, whoever published it, so a sample is  *)
(* lost when another one comes before the mux has taken it.  The node's       *)
(* callbacks run one at a time.                                               *)
(*                                                                           *)
(* Not modelled: speeds, the heading held on a straight, the sequence numbers *)
(* (one publisher's samples arrive in order) and the lease's generation.      *)
(***************************************************************************)
EXTENDS Integers, FiniteSets

CONSTANTS
  MaxMoves,   \* bound: moves accepted
  MaxJogs,    \* bound: jog sessions of the browser
  Target,     \* of a move, less the tolerance
  Stall,      \* stall_s, in ticks
  TimeLimit,  \* time_factor x nominal_s + time_margin_s, in ticks
  Settle      \* settle_s, in ticks

ASSUME SurveyMoveAssumption ==
  /\ {MaxMoves, MaxJogs, Target, Stall, TimeLimit, Settle} \subseteq Nat \ {0}

VARIABLES
  alive,      \* the node runs
  moveState,  \* SurveyMoveState
  move,       \* sessions issued; the last one is the running move's
  progress, best, stalled, spent,   \* MoveController
  settling,   \* ticks left
  charted,    \* map->odom was known when the move began
  check,      \* of the last move
  inputs,     \* the inputs that are fresh and allow motion
  jogs,       \* jog sessions issued; the last is held unless let go
  jogHeld,
  unheard,    \* a sample of the browser waits at the node
  queue,      \* the sample waiting at the mux
  held,       \* ManualIntake.current
  tombed      \* ManualIntake._revoked

controlVars == <<progress, best, stalled, spent>>
nodeVars == <<alive, moveState, move, controlVars, settling, charted, check>>
browserVars == <<jogs, jogHeld, unheard>>
intake == <<held, tombed>>
surveyMoveVars == <<nodeVars, inputs, browserVars, queue, intake>>

\* The panel, and the rest of them together: the survey, the lease, the drives, the odometry.
Inputs == {"panel", "rest"}
Session(who, n) == [who |-> who, n |-> n]
NoSession == Session("none", 0)
Nothing == [session |-> NoSession, kind |-> "none"]
Sample(s, kind) == [session |-> s, kind |-> kind]
Mine == Session("survey", move)
Jog == Session("jog", jogs)
Empty == [session |-> NoSession, fresh |-> FALSE]

SurveyMoveInit ==
  /\ alive = TRUE /\ moveState = "IDLE" /\ move = 0
  /\ progress = 0 /\ best = 0 /\ stalled = 0 /\ spent = 0
  /\ settling = 0 /\ charted = FALSE /\ check = "none"
  /\ inputs = {} /\ jogs = 0 /\ jogHeld = FALSE /\ unheard = FALSE
  /\ queue = Nothing /\ held = Empty /\ tombed = {}

-----------------------------------------------------------------------------
(* The node *)

SendSample(kind) == queue' = Sample(Mine, kind)

\* Faulty variant: the node stops refreshing, and leaves its last sample behind.
AbortSilently ==
  /\ moveState' = "ABORTED"
  /\ UNCHANGED <<queue, alive, move, controlVars, settling, charted, check>>

\* The zero revokes the session at the mux.
AbortMove ==
  /\ moveState' = "ABORTED"
  /\ SendSample("revoke")
  /\ UNCHANGED <<alive, move, controlVars, settling, charted, check>>

Blocked == inputs # Inputs

\* Refused while a move runs or settles, and while something blocks it.
AcceptMove ==
  /\ alive /\ moveState \notin {"MOVING", "SETTLING"} /\ ~Blocked
  /\ move < MaxMoves
  /\ moveState' = "MOVING" /\ move' = move + 1
  /\ progress' = 0 /\ best' = 0 /\ stalled' = 0 /\ spent' = 0
  /\ charted' \in BOOLEAN /\ check' = "none"
  /\ UNCHANGED <<alive, settling, inputs, browserVars, queue, intake>>

StopMove ==
  /\ alive /\ moveState = "MOVING"
  /\ AbortMove
  /\ UNCHANGED <<inputs, browserVars, intake>>

\* An input goes stale or bad.  A panel image with an emergency or a pendant button aborts at once.
InputLost(i) ==
  /\ i \in inputs
  /\ inputs' = inputs \ {i}
  /\ \/ UNCHANGED <<nodeVars, queue>>
     \/ i = "panel" /\ alive /\ moveState = "MOVING" /\ AbortMove
  /\ UNCHANGED <<browserVars, intake>>

InputBack(i) ==
  /\ i \notin inputs
  /\ inputs' = inputs \union {i}
  /\ UNCHANGED <<nodeVars, browserVars, queue, intake>>

\* Faulty variant: any progress starts the stall time again, and nothing limits the whole.
StepForEver(p) ==
  IF p >= Target THEN "arrived"
  ELSE IF p # progress THEN "better"
  ELSE IF stalled >= Stall THEN "abort"
  ELSE "go"

\* MoveController.step: arrival first, then the stall, then the time limit.
StepResult(p) ==
  IF p >= Target THEN "arrived"
  ELSE IF p <= best /\ stalled >= Stall THEN "abort"
  ELSE IF spent >= TimeLimit THEN "abort"
  ELSE IF p > best THEN "better"
  ELSE "go"

Control(p, step) ==
  /\ progress' = p
  /\ best' = IF step = "better" /\ p > best THEN p ELSE best
  /\ stalled' = IF step = "better" THEN 0 ELSE stalled + 1
  /\ spent' = IF spent >= TimeLimit THEN spent ELSE spent + 1

TickMoving ==
  /\ moveState = "MOVING"
  /\ IF Blocked THEN AbortMove
     ELSE \E p \in {progress - 1, progress, progress + 1} :
            /\ p >= 0
            /\ Control(p, StepResult(p))
            /\ CASE StepResult(p) = "abort" -> SendSample("revoke") /\ moveState' = "ABORTED"
                                         /\ UNCHANGED settling
                 [] StepResult(p) = "arrived" -> SendSample("revoke") /\ moveState' = "SETTLING"
                                           /\ settling' = Settle
                 [] OTHER -> SendSample("go") /\ UNCHANGED <<moveState, settling>>
            /\ UNCHANGED <<alive, move, charted, check>>

\* The correction of map->odom at the vehicle, over the move, within the allowance or not.
Verdict(slipped) == IF slipped THEN "slipped" ELSE "ok"

Finish ==
  /\ moveState' = "DONE"
  /\ \E known, slipped \in BOOLEAN :
       check' = IF charted /\ known THEN Verdict(slipped) ELSE "skipped"

TickSettling ==
  /\ moveState = "SETTLING"
  /\ IF settling > 0
       THEN settling' = settling - 1 /\ UNCHANGED <<moveState, check>>
       ELSE Finish /\ UNCHANGED settling
  /\ UNCHANGED <<alive, move, controlVars, charted, queue>>

TickMove ==
  /\ alive
  /\ TickMoving \/ TickSettling
  /\ UNCHANGED <<inputs, browserVars, intake>>

\* The node shuts down in order, with a last zero, or dies.
NodeEnds ==
  /\ alive /\ alive' = FALSE
  /\ \/ moveState = "MOVING" /\ SendSample("revoke")
     \/ UNCHANGED queue
  /\ UNCHANGED <<moveState, move, controlVars, settling, charted, check, inputs>>
  /\ UNCHANGED <<browserVars, intake>>

-----------------------------------------------------------------------------
(* The browser *)

Publishes(sample) ==
  /\ queue' = sample /\ unheard' = TRUE
  /\ UNCHANGED <<nodeVars, inputs, intake>>

JogRefresh ==
  /\ \/ jogHeld /\ UNCHANGED <<jogs, jogHeld>>
     \/ ~jogHeld /\ jogs < MaxJogs /\ jogs' = jogs + 1 /\ jogHeld' = TRUE
  /\ Publishes(Sample(Session("jog", jogs'), "go"))

JogRelease ==
  /\ jogHeld /\ jogHeld' = FALSE
  /\ Publishes(Sample(Jog, "revoke"))
  /\ UNCHANGED jogs

\* /api/stop: the empty session.
StopAll ==
  /\ jogHeld' = FALSE
  /\ Publishes(Sample(NoSession, "revoke"))
  /\ UNCHANGED jogs

\* Whatever another session publishes ends the move.
HearOther ==
  /\ alive /\ unheard
  /\ unheard' = FALSE
  /\ IF moveState = "MOVING" THEN AbortMove ELSE UNCHANGED <<nodeVars, queue>>
  /\ UNCHANGED <<inputs, jogs, jogHeld, intake>>

-----------------------------------------------------------------------------
(* The mux *)

\* ManualIntake.offer.
Offer(q) ==
  CASE q.session \in tombed -> UNCHANGED intake
    [] q.session \notin tombed /\ q.kind = "revoke" ->
         /\ tombed' = tombed \union
              ({IF q.session = NoSession THEN held.session ELSE q.session} \ {NoSession})
         /\ held' = IF q.session \in {NoSession, held.session} THEN Empty ELSE held
    [] q.session \notin tombed /\ q.kind = "go" ->
         /\ held' = [session |-> q.session, fresh |-> TRUE]
         /\ UNCHANGED tombed

MuxTakes ==
  /\ queue # Nothing
  /\ Offer(queue)
  /\ queue' = Nothing
  /\ UNCHANGED <<nodeVars, inputs, browserVars>>

\* valid_for_s after it was received a command no longer counts.
CommandExpires ==
  /\ held.fresh
  /\ held' = [held EXCEPT !.fresh = FALSE]
  /\ UNCHANGED <<nodeVars, inputs, browserVars, queue, tombed>>

SurveyMoveNext ==
  \/ AcceptMove \/ StopMove \/ TickMove \/ NodeEnds
  \/ \E i \in Inputs : InputLost(i) \/ InputBack(i)
  \/ JogRefresh \/ JogRelease \/ StopAll \/ HearOther
  \/ MuxTakes \/ CommandExpires

\* The node's executor, while it lives, and the mux's tick: it takes samples, it looks at their age.
SurveyMoveSpec ==
  /\ SurveyMoveInit /\ [][SurveyMoveNext]_surveyMoveVars
  /\ WF_surveyMoveVars(TickMove) /\ WF_surveyMoveVars(HearOther) /\ WF_surveyMoveVars(MuxTakes)
  /\ WF_surveyMoveVars(CommandExpires)

-----------------------------------------------------------------------------
(* Properties *)

\* The mux takes a moving sample of a move only while the node that drives it is in it, or died
\* in it: whatever ended it, and whichever samples of the browser came between, no refresh of it is
\* taken afterwards.
EndedMovesNothing ==
  [][(held' # held /\ held'.fresh /\ held'.session.who = "survey")
       => (held'.session = Mine /\ (moveState = "MOVING" \/ ~alive))]_surveyMoveVars

\* A move comes to an end however the odometry behaves, and so does what the mux holds of it, though
\* its revocation may be lost to a sample of the browser, or the node die (valid_for_s).
MovesEnd ==
  /\ (alive /\ moveState = "MOVING") ~> (~alive \/ moveState # "MOVING")
  /\ (~alive \/ moveState # "MOVING") ~>
       (~(held.fresh /\ held.session.who = "survey") \/ (alive /\ moveState = "MOVING"))
=============================================================================
