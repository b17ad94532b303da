------------------------------ MODULE MCRecords -------------------------------
(***************************************************************************)
(* What is taken for true of an earlier moment: the checkpoint of a stopped  *)
(* run, the requests of the browsers, the marker of the last boot, the        *)
(* profile of the vehicle, and the keys and selectors of its operator.  They *)
(* share no state: part is chosen at the start, one machine runs and the     *)
(* others stay in their initial state.                                      *)
(***************************************************************************)
EXTENDS RouteCheckpoint, OperationJournal, UptimeMarker, VehicleProfile, QrPanel, PanelImage

VARIABLE part  \* the machine of this behaviour

mcVars == <<part, vars, journalVars, markerVars, profileVars, panelVars, imageVars>>

\* A machine that does not run starts in one state only.
McInit ==
  /\ part \in {"checkpoint", "journal", "marker", "profile", "keypad", "panel"}
  /\ Init /\ JournalInit /\ MarkerInit /\ ProfileInit /\ PanelInit /\ ImageInit
  /\ part # "marker" => bootRead
  /\ part # "profile" => document = Shipped(Qr) /\ watched = "drive"

McNext ==
  \/ part = "checkpoint" /\ Next
       /\ UNCHANGED <<part, journalVars, markerVars, profileVars, panelVars, imageVars>>
  \/ part = "journal" /\ JournalNext
       /\ UNCHANGED <<part, vars, markerVars, profileVars, panelVars, imageVars>>
  \/ part = "marker" /\ MarkerNext
       /\ UNCHANGED <<part, vars, journalVars, profileVars, panelVars, imageVars>>
  \/ part = "profile" /\ ProfileNext
       /\ UNCHANGED <<part, vars, journalVars, markerVars, panelVars, imageVars>>
  \/ part = "keypad" /\ PanelNext
       /\ UNCHANGED <<part, vars, journalVars, markerVars, profileVars, imageVars>>
  \/ part = "panel" /\ ImageNext
       /\ UNCHANGED <<part, vars, journalVars, markerVars, profileVars, panelVars>>

McSpec == McInit /\ [][McNext]_mcVars

-----------------------------------------------------------------------------
\* A press acts once, and only one made in an image that is trusted: Start, AUTO and Reset on the
\* keypad (qr_panel.py), the destination keys of the cabinet (panel.py).
OnePressOnce == OnePressOneAct /\ OnePressOneDestination
=============================================================================
