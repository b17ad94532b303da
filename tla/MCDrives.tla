------------------------------- MODULE MCDrives -------------------------------
(***************************************************************************)
(* The drives of the two vehicles and the goals, machines that share no      *)
(* state with one another, for one run of TLC: part is chosen at the start,  *)
(* one machine runs and the others stay in their initial state.             *)
(***************************************************************************)
EXTENDS CanDrives, QrDrives, GoalAttempts

VARIABLE part  \* the machine of this behaviour

mcVars == <<part, canVars, qrVars, goalVars>>

McInit == part \in {"can", "qr", "goals"} /\ CanInit /\ QrInit /\ GoalInit

McNext ==
  \/ part = "can" /\ CanNext /\ UNCHANGED <<part, qrVars, goalVars>>
  \/ part = "qr" /\ QrNext /\ UNCHANGED <<part, canVars, goalVars>>
  \/ part = "goals" /\ GoalNext /\ UNCHANGED <<part, canVars, qrVars>>

\* The fairness of each machine, of the behaviours in which it runs.
McFairness ==
  /\ WF_canVars(part = "can" /\ (ServeRequests \/ Policy \/ SendOut))
  /\ WF_canVars(part = "can" /\ ConfirmTimePasses)
  /\ \A n \in Drives : WF_canVars(part = "can" /\ Silent /\ Trip(n))
  /\ WF_qrVars(part = "qr" /\ (ControlTick \/ Late))
  /\ SF_qrVars(part = "qr" /\ ScanReads)
  /\ SF_qrVars(part = "qr" /\ WriteCoil("fwd", "rev"))
  /\ SF_qrVars(part = "qr" /\ WriteCoil("rev", "done"))
  /\ WF_qrVars(part = "qr" /\ ScanEnds)
  /\ WF_qrVars(part = "qr" /\ Reconnects)

McSpec == McInit /\ [][McNext]_mcVars /\ McFairness
=============================================================================
