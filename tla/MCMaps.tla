-------------------------------- MODULE MCMaps --------------------------------
(***************************************************************************)
(* The map and what is drawn on it: bundles, routes and missions on disk,    *)
(* the plan of a route, the floor labels and the trust in the pose.  They    *)
(* share no state: part is chosen at the start, one machine runs and the     *)
(* others stay in their initial state.                                      *)
(***************************************************************************)
EXTENDS MapStore, RoutePlan, FloorLabels, LocalizationReadiness

VARIABLE part  \* the machine of this behaviour

mcVars == <<part, storeVars, planVars, labelVars, readinessVars>>

\* A machine that does not run starts in one state only.
McInit ==
  /\ part \in {"store", "plan", "labels", "localization"}
  /\ StoreInit /\ PlanInit /\ LabelsInit /\ ReadinessInit
  /\ part # "plan" => session = "drawing" /\ world.unk = {}
  /\ part # "labels" => factory /\ spot = CHOOSE l \in LabelIds : TRUE
  /\ part # "localization" => ~torque

McNext ==
  \/ part = "store" /\ StoreNext
       /\ UNCHANGED <<part, planVars, labelVars, readinessVars>>
  \/ part = "plan" /\ PlanNext
       /\ UNCHANGED <<part, storeVars, labelVars, readinessVars>>
  \/ part = "labels" /\ LabelsNext
       /\ UNCHANGED <<part, storeVars, planVars, readinessVars>>
  \/ part = "localization" /\ ReadinessNext
       /\ UNCHANGED <<part, storeVars, planVars, labelVars>>

\* The two requests that are served at a time are alike.
RequestsAlike == Permutations(Workers)

McSpec == McInit /\ [][McNext]_mcVars
=============================================================================
