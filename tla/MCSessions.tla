------------------------------ MODULE MCSessions ------------------------------
(***************************************************************************)
(* What begins and has to end: the layers and operations of the supervisor,  *)
(* an emergency, a survey and a jog.  They share no state: part is chosen at *)
(* the start, one machine runs and the others stay in their initial state.  *)
(***************************************************************************)
EXTENDS Supervisor, EmergencyStop, SurveySession, BrowserJog

VARIABLE part  \* the machine of this behaviour

mcVars == <<part, vars, stopVars, surveyVars, jogVars>>

McInit ==
  /\ part \in {"supervisor", "emergency", "survey", "jog"}
  /\ Init /\ EmergencyInit /\ SurveyInit /\ JogInit

McNext ==
  \/ part = "supervisor" /\ Next
       /\ UNCHANGED <<part, stopVars, surveyVars, jogVars>>
  \/ part = "emergency" /\ EmergencyNext
       /\ UNCHANGED <<part, vars, surveyVars, jogVars>>
  \/ part = "survey" /\ SurveyNext
       /\ UNCHANGED <<part, vars, stopVars, jogVars>>
  \/ part = "jog" /\ JogNext
       /\ UNCHANGED <<part, vars, stopVars, surveyVars>>

\* The fairness of each machine, of the behaviours in which it runs.
McFairness ==
  /\ WF_vars(part = "supervisor" /\ Tick)
  /\ WF_vars(part = "supervisor" /\ DeadlinePasses)
  /\ WF_vars(part = "supervisor" /\ ShutdownEnds)
  /\ WF_stopVars(part = "emergency" /\ PanelTick) /\ WF_stopVars(part = "emergency" /\ MuxTick)
  /\ WF_surveyVars(part = "survey" /\ SaveSteps)
  /\ WF_jogVars(part = "jog" /\ CommandAges)

McSpec == McInit /\ [][McNext]_mcVars /\ McFairness

-----------------------------------------------------------------------------
\* What begins comes to an end: every operation of the supervisor, the wait for the drives after a
\* Reset (ResettingEnds) and the save of a survey (SavingEnds), each under the ticks of its own node.
SessionsEnd ==
  /\ OperationsEnd
  /\ (state = "RESETTING" \/ survey = "SAVING")
       ~> (state # "RESETTING" /\ survey # "SAVING")
=============================================================================
