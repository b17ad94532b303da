------------------------------ MODULE MCMotions -------------------------------
(***************************************************************************)
(* The motions of the mission package: a route, and the exact moves of a     *)
(* survey.  They share no state: part is chosen at the start, one machine    *)
(* runs and the other stays in its initial state.                           *)
(***************************************************************************)
EXTENDS MCRouteExecutor, SurveyMove

VARIABLE part  \* the machine of this behaviour

mcVars == <<part, vars, surveyMoveVars>>

McInit == part \in {"route", "move"} /\ Init /\ SurveyMoveInit

McNext ==
  \/ part = "route" /\ Next /\ UNCHANGED <<part, surveyMoveVars>>
  \/ part = "move" /\ SurveyMoveNext /\ UNCHANGED <<part, vars>>

\* The fairness of each machine, of the behaviours in which it runs.
McSpec ==
  /\ McInit /\ [][McNext]_mcVars
  /\ WF_vars(part = "route" /\ (TickPending \/ TickWindowOver))
  /\ WF_vars(part = "route" /\ GiveUpObsolete)
  /\ WF_vars(part = "route" /\ PremoveTick)
  /\ WF_surveyMoveVars(part = "move" /\ TickMove)
  /\ WF_surveyMoveVars(part = "move" /\ HearOther)
  /\ WF_surveyMoveVars(part = "move" /\ MuxTakes)
  /\ WF_surveyMoveVars(part = "move" /\ CommandExpires)

-----------------------------------------------------------------------------
\* The waits of a run for the drives, the warning and a cancelled goal, and the moves of a survey.
MotionsEnd == WaitsEnd /\ MovesEnd
=============================================================================
