----------------------------- MODULE MCAuthority -----------------------------
(***************************************************************************)
(* Who may move the vehicle: the leases and permits between the supervisor   *)
(* and the wheels, and the blind run of the commissioning under a lease of   *)
(* its own.  They share no state: part is chosen at the start, one machine   *)
(* runs and the other stays in its initial state.                           *)
(***************************************************************************)
EXTENDS MotionAuthority, Commissioning

VARIABLE part  \* the machine of this behaviour

mcVars == <<part, vars, commissioningVars>>

McInit == part \in {"authority", "blind"} /\ Init /\ CommissioningInit

McNext ==
  \/ part = "authority" /\ Next /\ UNCHANGED <<part, commissioningVars>>
  \/ part = "blind" /\ CommissioningNext /\ UNCHANGED <<part, vars>>

\* The clock of the drive owner and the timer of the blind run.
McSpec ==
  /\ McInit /\ [][McNext]_mcVars
  /\ WF_vars(part = "authority" /\ DriveLeaseExpires)
  /\ WF_commissioningVars(part = "blind" /\ CommissioningTick)
=============================================================================
