-------------------------- MODULE SessionsProofs ----------------------------
(***************************************************************************)
(* A survey that goes on is recorded, proved for any number of surveys and *)
(* of calls under way. The pause service is a toggle, so the argument is   *)
(* about what the session takes slam_toolbox to be: it is right as long as *)
(* every call was answered, and it is "paused" only inside a save. The     *)
(* emergency, for every number of scans: what a blind panel forgets it     *)
(* forgets as ACTIVE, and an operator sees more ticks of it than the       *)
(* inputs need to be believed. The move of a survey, of which nothing      *)
(* waits at the mux when it has ended. And the jog of a browser page: what *)
(* is published is of a session that was not revoked, by whatever way the  *)
(* requests of the pages come.                                             *)
(***************************************************************************)
EXTENDS SurveySession, EmergencyStop, SurveyMove, BrowserJog, SequenceTheorems, TLAPS

PauseOK == {tracked, paused, doubted} \subseteq BOOLEAN /\ late \in Nat

\* A save runs exactly while the session is saving.
SaveRuns == step # "" <=> survey = "SAVING"

\* As long as every call was answered, none is under way and the session is right.
PauseIsKnown == doubted = FALSE => late = 0 /\ paused = tracked

\* Before the first map, SLAM is paused only between the pause of a save and its end.
PausedWithinSave ==
  saved = {} /\ doubted = FALSE /\ tracked = TRUE => step \in {"serialize", "publish", "resume"}

SurveyIInv == PauseOK /\ SaveRuns /\ PauseIsKnown /\ PausedWithinSave

LEMMA InitSurveyIInv == SurveyInit => SurveyIInv
<1> SUFFICES ASSUME SurveyInit PROVE SurveyIInv
  OBVIOUS
<1>1. PauseOK
  <2>1. late \in Nat
    BY DEF SurveyInit
  <2> QED
    BY <2>1, Zenon DEF SurveyInit, PauseOK
<1> QED
  BY <1>1, Zenon DEF SurveyInit, SurveyIInv, SaveRuns, PauseIsKnown, PausedWithinSave

\* What a call of the pause service leaves: the state that was wanted, or a doubt.
LEMMA PauseSlamDoes ==
  ASSUME PauseOK, PauseIsKnown, NEW want \in BOOLEAN, NEW then, NEW otherwise,
         PauseSlam(want, then, otherwise)
  PROVE  /\ PauseOK' /\ PauseIsKnown'
         /\ step' \in {then, otherwise}
         /\ ~doubted' => ~doubted /\ step' = then /\ tracked' = want
<1> USE DEF PauseOK, PauseIsKnown
<1>1. CASE tracked = want /\ step' = then /\ UNCHANGED <<tracked, paused, late, doubted>>
  BY <1>1
<1>2. CASE /\ tracked # want /\ paused' = ~paused /\ tracked' = want /\ step' = then
           /\ UNCHANGED <<late, doubted>>
  BY <1>2
<1>3. CASE /\ late' \in {late, late + 1} /\ doubted' = TRUE /\ step' = otherwise
           /\ UNCHANGED <<tracked, paused>>
  <2>1. late' \in Nat
    BY <1>3
  <2> QED
    BY <1>3, <2>1, Zenon
<1> QED
  BY <1>1, <1>2, <1>3 DEF PauseSlam

\* The services of the operator run only while no save does.
LEMMA ServicesKeepSurveyIInv ==
  ASSUME SurveyIInv, Start \/ Returned \/ AbortSurvey \/ BeginSave
  PROVE  SurveyIInv'
BY DEF SurveyIInv, PauseOK, SaveRuns, PauseIsKnown, PausedWithinSave, Start, Returned,
       AbortSurvey, BeginSave

\* The steps of a save.
LEMMA SaveKeepsSurveyIInv ==
  ASSUME SurveyIInv, SaveSteps
  PROVE  SurveyIInv'
<1> USE DEF SurveyIInv, SaveRuns, PausedWithinSave
<1>1. CASE Stage
  BY <1>1 DEF Stage, SaveFails, PauseOK, PauseIsKnown
<1>2. CASE Pause
  <2>1. PauseOK' /\ PauseIsKnown'
    BY <1>2, PauseSlamDoes DEF Pause
  <2>2. step' \in {"serialize", "resume"} /\ survey' = survey /\ step # ""
    BY <1>2, PauseSlamDoes DEF Pause
  <2> QED
    BY <2>1, <2>2
<1>3. CASE Serialize
  BY <1>3 DEF Serialize, SaveFails, PauseOK, PauseIsKnown
<1>4. CASE PublishMap
  <2>1. CASE SaveFails
    BY <1>4, <2>1 DEF PublishMap, SaveFails, PauseOK, PauseIsKnown
  <2>2. CASE /\ saved' = saved \cup {reviewed} /\ survey' = "SAVED" /\ step' = ""
             /\ UNCHANGED <<began, reviewed, tracked, paused, late, doubted, hung>>
    <3>1. saved' # {}
      BY <2>2
    <3> QED
      BY <2>2, <3>1 DEF PauseOK, PauseIsKnown
  <2> QED
    BY <1>4, <2>1, <2>2 DEF PublishMap
<1>5. CASE ReviewAgain
  <2>1. PauseOK' /\ PauseIsKnown' /\ step' = "" /\ (~doubted' => tracked' = FALSE)
    BY <1>5, PauseSlamDoes DEF ReviewAgain
  <2> QED
    BY <1>5, <2>1 DEF ReviewAgain
<1> QED
  BY <1>1, <1>2, <1>3, <1>4, <1>5 DEF SaveSteps

\* slam_toolbox on its own, and the timer.
LEMMA SlamKeepsSurveyIInv ==
  ASSUME SurveyIInv, LateToggle \/ CheckSlam
  PROVE  SurveyIInv'
<1>0. late \in Nat
  BY Zenon DEF SurveyIInv, PauseOK
<1>1. CASE LateToggle
  <2>1. late # 0 /\ late' \in Nat
    BY <1>0, <1>1 DEF LateToggle
  <2>2. doubted # FALSE
    BY <2>1, Zenon DEF SurveyIInv, PauseIsKnown
  <2> QED
    BY <1>1, <2>1, <2>2, Zenon
    DEF LateToggle, SurveyIInv, PauseOK, SaveRuns, PauseIsKnown, PausedWithinSave
<1>2. CASE CheckSlam
  BY <1>2 DEF CheckSlam, SurveyIInv, PauseOK, SaveRuns, PauseIsKnown, PausedWithinSave
<1> QED
  BY <1>1, <1>2

\* What the session takes slam_toolbox to be is right as long as every call was answered, and
\* "paused" only inside a save.
THEOREM SurveyInvariant == SurveySpec => []SurveyIInv
<1>1. ASSUME SurveyIInv, [SurveyNext]_surveyVars PROVE SurveyIInv'
  <2>1. CASE SurveyNext
    BY <1>1, <2>1, ServicesKeepSurveyIInv, SaveKeepsSurveyIInv, SlamKeepsSurveyIInv
    DEF SurveyNext
  <2>2. CASE UNCHANGED surveyVars
    BY <1>1, <2>2
    DEF surveyVars, SurveyIInv, PauseOK, SaveRuns, PauseIsKnown, PausedWithinSave
  <2> QED
    BY <1>1, <2>1, <2>2
<1> QED
  BY InitSurveyIInv, <1>1, PTL DEF SurveySpec

\* A survey that is driven or reviewed is recorded until its first map is saved, whichever of
\* the steps of a save failed (mapping_session_node.py): driving and reviewing are outside a
\* save, so the session takes SLAM to be running, and is right.
THEOREM SurveyRecorded == SurveySpec => []SurveyIsRecorded
<1>1. SurveyIInv => SurveyIsRecorded
  BY DEF SurveyIInv, PauseOK, SaveRuns, PauseIsKnown, PausedWithinSave, SurveyIsRecorded
<1> QED
  BY SurveyInvariant, <1>1, PTL

-----------------------------------------------------------------------------
(***************************************************************************)
(* The emergency.                                                          *)
(***************************************************************************)

BlindIsActive ==
    stable = Untold =>
        /\ state = "ACTIVE" /\ believed = FALSE
        /\ count < Scans
        /\ count <= high \/ wasLow = TRUE

LowIsTripped ==
    stable # Untold => IF believed = TRUE THEN state # "ACTIVE"
                                          ELSE state = "ACTIVE" /\ tripped = TRUE

ResetIsRemembered ==
    resetAge # Untold \/ state \in {"RESETTING", "RESET_FAILED"} => pressed = TRUE

EmergencyIInv ==
    /\ EmergencyTypeOK
    /\ BlindIsActive
    /\ LowIsTripped
    /\ state = "NORMAL" => tripped = FALSE
    /\ TripsAreReal
    /\ ResetIsRemembered

SampleIsState ==
    /\ sample.emergency = state
    /\ sample.hand = TRUE <=> handStable = TRUE
    /\ sample.through = through

HandIsCounted ==
    handRun > 0 /\ (count > 0 \/ stable # Untold) =>
        /\ handCandidate = TRUE
        /\ handCount >= handRun \/ (stable = Untold /\ handCount >= count)

HandIsStable == stable # Untold /\ handRun >= Scans => handStable = TRUE

EmergencyIsSeen ==
    state # "NORMAL" /\ blocked = FALSE =>
        /\ stable = Untold =>
              \/ behind >= count + 1
              \/ behind >= count /\ through = FALSE /\ handRun <= count
        /\ stable # Untold /\ believed = TRUE => behind >= Scans
        /\ stable # Untold /\ believed = FALSE => behind >= high + 1

HandIInv ==
    /\ SampleIsState
    /\ HandIsCounted
    /\ HandIsStable
    /\ through = TRUE => handRun >= Scans
    /\ EmergencyIsSeen
    /\ state = "NORMAL" /\ through = TRUE => blocked = TRUE

-----------------------------------------------------------------------------
\* What one step of the emergency makes of the inputs: where it is ACTIVE, when it may be NORMAL.
LEMMA StepOutcome ==
    ASSUME NEW ok \in BOOLEAN, NEW estop \in BOOLEAN, NEW edge \in BOOLEAN, NEW sto,
           tripped \in BOOLEAN, Step(ok, estop, edge, sto)
    PROVE  /\ tripped' \in BOOLEAN
           /\ ~ok \/ ~estop => state' = "ACTIVE"
           /\ ok /\ estop => state' # "ACTIVE"
           /\ ok /\ ~estop => tripped'
           /\ tripped' => tripped \/ (ok /\ ~estop)
           /\ state' = "NORMAL" => ~tripped' \/ state = "NORMAL"
           /\ state = "NORMAL" /\ ok /\ estop => state' = "NORMAL"
           /\ state # "NORMAL" /\ state' = "NORMAL" /\ tripped =>
                  state \in {"RESETTING", "RESET_FAILED"}
           /\ resetAge' # Untold \/ state' \in {"RESETTING", "RESET_FAILED"} =>
                  /\ ~EntersActive
                  /\ edge \/ resetAge # Untold \/ state \in {"RESETTING", "RESET_FAILED"}
<1>1. Older # Untold => resetAge # Untold
  BY DEF Older
<1>2. CASE EnterActive(ok, estop)
  BY <1>2, Zenon DEF EnterActive, Go, EntersActive
<1>3. CASE BlindTrips(ok, estop)
  BY <1>3, Zenon DEF BlindTrips, Go, EntersActive
<1>4. CASE StayActive(ok, estop, edge)
  BY <1>1, <1>4, Zenon DEF StayActive, EntersActive
<1>5. CASE BlindOver(ok, estop, sto)
  BY <1>5, Zenon DEF BlindOver, Go, EntersActive
<1>6. CASE Released(ok, estop, edge)
  BY <1>1, <1>6, Zenon DEF Released, Go, EntersActive
<1>7. CASE ResetPressed(ok, estop, edge)
  BY <1>7, Zenon DEF ResetPressed, Go, EntersActive
<1>8. CASE Resetting(ok, estop, sto)
  BY <1>8, Zenon DEF Resetting, Go, EntersActive
<1>9. CASE LateReset(ok, estop, edge, sto)
  BY <1>9, Zenon DEF LateReset, Go, EntersActive
<1>10. CASE IdleState(ok, estop, edge, sto)
  BY <1>10, Zenon DEF IdleState, EntersActive, emergencyVars
<1> QED
  BY <1>2, <1>3, <1>4, <1>5, <1>6, <1>7, <1>8, <1>9, <1>10, Zenon DEF Step

\* One step of the emergency keeps the types.
LEMMA StepTypes ==
    ASSUME NEW ok \in BOOLEAN, NEW estop \in BOOLEAN, NEW edge \in BOOLEAN, NEW sto,
           state \in EmergencyStates, resetAge \in 0..Timeout \cup {Untold},
           waited \in 0..(Timeout - 1), Step(ok, estop, edge, sto)
    PROVE  /\ state' \in EmergencyStates
           /\ resetAge' \in 0..Timeout \cup {Untold}
           /\ waited' \in 0..(Timeout - 1)
<1> USE EmergencyAssumption
<1>1. Older \in 0..Timeout \cup {Untold}
  BY DEF Older
<1>2. CASE EnterActive(ok, estop) \/ BlindTrips(ok, estop) \/ StayActive(ok, estop, edge)
  BY <1>1, <1>2 DEF EnterActive, BlindTrips, StayActive, Go, EmergencyStates
<1>3. CASE BlindOver(ok, estop, sto) \/ LateReset(ok, estop, edge, sto)
  BY <1>3 DEF BlindOver, LateReset, Go, EmergencyStates
<1>4. CASE Released(ok, estop, edge)
  BY <1>4 DEF Released, Go, EmergencyStates
<1>5. CASE ResetPressed(ok, estop, edge)
  BY <1>5 DEF ResetPressed, Go, EmergencyStates
<1>6. CASE Resetting(ok, estop, sto)
  <2>1. CASE sto # TRUE \/ waited + 1 >= Timeout
    <3>1. state' \in {"NORMAL", "RESET_FAILED"} /\ resetAge' = Untold /\ waited' = 0
      BY <1>6, <2>1 DEF Resetting, Go
    <3> QED
      BY <3>1 DEF EmergencyStates
  <2>2. CASE sto = TRUE /\ ~(waited + 1 >= Timeout)
    <3>1. waited' = waited + 1 /\ UNCHANGED <<state, resetAge>>
      BY <1>6, <2>2, Zenon DEF Resetting
    <3> QED
      BY <2>2, <3>1
  <2> QED
    BY <2>1, <2>2
<1>7. CASE IdleState(ok, estop, edge, sto)
  BY <1>7 DEF IdleState, emergencyVars
<1> QED
  BY <1>2, <1>3, <1>4, <1>5, <1>6, <1>7 DEF Step

\* What a scan makes of its image, button and hand.
LEMMA ButtonsRead ==
    ASSUME EmergencyTypeOK, NEW good \in BOOLEAN, NEW reset \in BOOLEAN, NEW other \in BOOLEAN,
           ScanButtons(good, reset, other)
    PROVE  /\ candidate' \in (BOOLEAN \X BOOLEAN) \cup {Untold}
           /\ stable' \in BOOLEAN \cup {Untold}
           /\ count' \in 0..Scans
           /\ ~good => count' = 0 /\ stable' = Untold
           /\ good => count' <= count + 1 /\ count' >= 1
           /\ good /\ stable # Untold => stable' # Untold
           /\ good /\ count' >= Scans => stable' # Untold
           /\ stable' # Untold => good
           /\ stable' # Untold /\ stable = Untold => count' >= Scans
<1> USE EmergencyAssumption DEF EmergencyTypeOK
<1>1. good => /\ count' \in 1..Scans
              /\ count' <= count + 1
  BY DEF ScanButtons, Count, AtMost
<1>2. candidate' \in (BOOLEAN \X BOOLEAN) \cup {Untold}
  <2>1. candidate' = <<reset, other>> \/ candidate' = Untold
    BY Zenon DEF ScanButtons
  <2> QED
    BY <2>1
<1>3. /\ stable' \in BOOLEAN \cup {Untold}
      /\ ~good => count' = 0 /\ stable' = Untold
      /\ good => stable' = IF count' >= Scans THEN reset ELSE stable
  BY Zenon DEF ScanButtons
<1>4. reset # Untold
  BY Zenon
<1>5. /\ good /\ stable # Untold => stable' # Untold
      /\ good /\ count' >= Scans => stable' # Untold
      /\ stable' # Untold => good
      /\ stable' # Untold /\ stable = Untold => count' >= Scans
  BY <1>3, <1>4, Zenon
<1>6. count' \in 0..Scans
  BY <1>1, <1>3
<1> QED
  <2>1. good => count' <= count + 1 /\ count' >= 1
    BY <1>1
  <2> QED
    BY <1>2, <1>3, <1>5, <1>6, <2>1, Zenon

\* What a scan makes of the hand switch.
LEMMA HandRead ==
    ASSUME EmergencyTypeOK, NEW good \in BOOLEAN, NEW hand \in BOOLEAN, ScanHand(good, hand)
    PROVE  /\ handCandidate' \in BOOLEAN \cup {Untold}
           /\ handStable' \in BOOLEAN \cup {Untold}
           /\ handCount' \in 0..Scans
           /\ good /\ hand => /\ handCandidate' = TRUE /\ handCount' >= 1
                              /\ handCandidate = TRUE =>
                                     handCount' >= Scans \/ handCount' = handCount + 1
                              /\ handCount' >= Scans => handStable' = TRUE
<1> USE EmergencyAssumption DEF EmergencyTypeOK
<1>1. handCount' \in 0..Scans
  BY DEF ScanHand, Count, AtMost
<1>2. handStable' \in BOOLEAN \cup {Untold} /\ handCandidate' \in BOOLEAN \cup {Untold}
  BY Zenon DEF ScanHand
<1>3. good /\ hand => handCandidate' = TRUE /\ (handCount' >= Scans => handStable' = TRUE)
  BY Zenon DEF ScanHand
<1>4. good => handCount' >= 1
  BY DEF ScanHand, Count, AtMost
<1>5. ASSUME good, hand, handCandidate = TRUE PROVE handCount' >= Scans \/ handCount' = handCount + 1
  <2>1. handCount' = AtMost(handCount + 1, Scans)
    BY <1>5, Zenon DEF ScanHand, Count
  <2> QED
    BY <2>1 DEF AtMost
<1> QED
  BY <1>1, <1>2, <1>3, <1>4, <1>5

\* What a scan makes of the E-stop input.
LEMMA EstopRead ==
    ASSUME EmergencyTypeOK, NEW good \in BOOLEAN, NEW estop \in BOOLEAN, ScanEstop(good, estop)
    PROVE  /\ high' \in 0..Scans /\ low' \in 0..LowScans /\ believed' \in BOOLEAN
           /\ good /\ estop => high' >= Scans \/ high' = high + 1
           /\ ~good \/ ~estop => high' = 0
           /\ high' <= high + 1
           /\ believed' => stable' # Untold
           /\ stable' # Untold /\ believed = TRUE /\ ~believed' => ~good \/ ~estop
           /\ stable' # Untold /\ believed = FALSE => (believed' <=> high' >= Scans)
<1> USE EmergencyAssumption DEF EmergencyTypeOK
<1>1. /\ high' \in 0..Scans /\ low' \in 0..LowScans
      /\ good /\ estop => high' >= Scans \/ high' = high + 1
      /\ ~good \/ ~estop => high' = 0
      /\ high' <= high + 1
      /\ good /\ estop => low' < LowScans
  BY DEF ScanEstop, AtMost
<1>2. /\ believed' \in BOOLEAN
      /\ believed' => stable' # Untold
      /\ stable' # Untold /\ believed = TRUE => (believed' <=> low' < LowScans)
      /\ stable' # Untold /\ believed = FALSE => (believed' <=> high' >= Scans)
  BY Zenon DEF ScanEstop
<1> QED
  BY <1>1, <1>2, Zenon

-----------------------------------------------------------------------------
\* The one-scan and the repeated-image tick share what they do to the state.
LEMMA ScanKeeps ==
    ASSUME EmergencyIInv, NEW good \in BOOLEAN, NEW estop \in BOOLEAN, NEW reset \in BOOLEAN,
           NEW other \in BOOLEAN, NEW hand \in BOOLEAN, NEW sto \in Sto,
           Scan(good, estop, reset, other, hand, sto)
    PROVE  EmergencyIInv'
<1> DEFINE ok == stable' # Untold
<1> USE EmergencyAssumption
<1>1. /\ EmergencyTypeOK /\ BlindIsActive /\ LowIsTripped
      /\ state = "NORMAL" => tripped = FALSE
      /\ TripsAreReal /\ ResetIsRemembered
  BY DEF EmergencyIInv
<1>2. /\ ScanButtons(good, reset, other) /\ ScanHand(good, hand) /\ ScanEstop(good, estop)
      /\ Step(ok, believed', ResetEdge, sto)
      /\ wasLow' = ((good /\ ~estop) \/ (wasLow /\ state # "NORMAL"))
      /\ pressed' = (~EntersActive /\ (pressed \/ ResetEdge))
      /\ handRun' = IF hand THEN AtMost(handRun + 1, Scans) ELSE 0
      /\ through' = (hand /\ (through \/ (state' # "NORMAL" /\ handRun' >= Scans)))
      /\ Publish
  BY DEF Scan
<1>3. ok \in BOOLEAN /\ ResetEdge \in BOOLEAN /\ believed' \in BOOLEAN
  BY <1>1, <1>2, EstopRead DEF ResetEdge
<1>4. EmergencyTypeOK'
  <2>1. /\ candidate' \in (BOOLEAN \X BOOLEAN) \cup {Untold} /\ count' \in 0..Scans
        /\ stable' \in BOOLEAN \cup {Untold}
    BY <1>1, <1>2, ButtonsRead
  <2>2. /\ handCandidate' \in BOOLEAN \cup {Untold} /\ handCount' \in 0..Scans
        /\ handStable' \in BOOLEAN \cup {Untold}
    BY <1>1, <1>2, HandRead
  <2>3. high' \in 0..Scans /\ low' \in 0..LowScans
    BY <1>1, <1>2, EstopRead
  <2>4. /\ state' \in EmergencyStates /\ resetAge' \in 0..Timeout \cup {Untold}
        /\ waited' \in 0..(Timeout - 1)
    <3>1. /\ state \in EmergencyStates /\ resetAge \in 0..Timeout \cup {Untold}
          /\ waited \in 0..(Timeout - 1)
      BY <1>1 DEF EmergencyTypeOK
    <3> HIDE DEF ok
    <3> QED
      BY <1>2, <1>3, <3>1, StepTypes
  <2>5. tripped' \in BOOLEAN
    <3>1. tripped \in BOOLEAN
      BY <1>1 DEF EmergencyTypeOK
    <3> HIDE DEF ok
    <3> QED
      BY <1>2, <1>3, <3>1, StepOutcome
  <2>6. wasLow' \in BOOLEAN /\ pressed' \in BOOLEAN /\ through' \in BOOLEAN
    BY <1>2, Zenon
  <2>7. handRun' \in 0..Scans
    BY <1>1, <1>2 DEF EmergencyTypeOK, AtMost
  <2>8. /\ sample' \in [emergency : EmergencyStates, hand : BOOLEAN, through : BOOLEAN]
        /\ blocked' \in BOOLEAN /\ driving' \in BOOLEAN
    BY <1>1, <1>2, <2>4, <2>6 DEF EmergencyTypeOK, Publish
  <2>9. behind' \in 0..MaxBehind
    BY <1>1, <1>2 DEF EmergencyTypeOK, Publish
  <2> QED
    BY <1>3, <2>1, <2>2, <2>3, <2>4, <2>5, <2>6, <2>7, <2>8, <2>9, Zenon DEF EmergencyTypeOK
<1>5. /\ tripped' \in BOOLEAN
      /\ ~ok \/ ~believed' => state' = "ACTIVE"
      /\ ok /\ believed' => state' # "ACTIVE"
      /\ ok /\ ~believed' => tripped'
      /\ tripped' => tripped \/ (ok /\ ~believed')
      /\ state' = "NORMAL" => ~tripped' \/ state = "NORMAL"
      /\ resetAge' # Untold \/ state' \in {"RESETTING", "RESET_FAILED"} =>
             /\ ~EntersActive
             /\ ResetEdge \/ resetAge # Untold \/ state \in {"RESETTING", "RESET_FAILED"}
  <2>1. tripped \in BOOLEAN
    BY <1>1 DEF EmergencyTypeOK
  <2> HIDE DEF ok
  <2> QED
    BY <1>2, <1>3, <2>1, StepOutcome
<1>6. BlindIsActive'
  <2> SUFFICES ASSUME stable' = Untold
               PROVE  /\ state' = "ACTIVE" /\ believed' = FALSE
                      /\ count' < Scans
                      /\ count' <= high' \/ wasLow' = TRUE
    BY DEF BlindIsActive
  <2>1. state' = "ACTIVE" /\ believed' = FALSE
    BY <1>1, <1>2, <1>3, <1>5, EstopRead
  <2>2. count' < Scans
    BY <1>1, <1>2, ButtonsRead
  <2>3. CASE ~good
    <3>1. count' = 0
      BY <1>1, <1>2, <2>3, ButtonsRead
    <3>2. high' \in 0..Scans
      BY <1>1, <1>2, EstopRead
    <3> QED
      BY <2>1, <2>2, <3>1, <3>2
  <2>4. CASE good
    <3>1. stable = Untold /\ count' <= count + 1 /\ count' \in 0..Scans
      BY <1>1, <1>2, <2>4, ButtonsRead
    <3>2. CASE ~estop
      BY <1>2, <2>1, <2>2, <2>4, <3>2
    <3>3. CASE wasLow = TRUE
      BY <1>1, <1>2, <2>1, <2>2, <3>1, <3>3 DEF BlindIsActive
    <3>4. CASE estop /\ count <= high
      <4>1. high' >= Scans \/ high' = high + 1
        BY <1>1, <1>2, <2>4, <3>4, EstopRead
      <4>2. count \in Nat /\ high \in Nat /\ high' \in Nat
        BY <1>1, <1>4 DEF EmergencyTypeOK
      <4> QED
        BY <2>1, <2>2, <3>1, <3>4, <4>1, <4>2
    <3> QED
      BY <1>1, <3>1, <3>2, <3>3, <3>4 DEF BlindIsActive
  <2> QED
    BY <2>3, <2>4
<1>7. LowIsTripped'
  BY <1>3, <1>5 DEF LowIsTripped
<1>8. state' = "NORMAL" => tripped' = FALSE
  <2>1. ASSUME state' = "NORMAL", state = "NORMAL" PROVE tripped' = FALSE
    BY <1>1, <1>5, <2>1, Zenon
  <2> QED
    BY <1>5, <2>1, Zenon
<1>9. TripsAreReal'
  <2> SUFFICES ASSUME tripped' PROVE wasLow'
    BY DEF TripsAreReal
  <2>1. CASE good /\ ~estop
    BY <1>2, <2>1, Zenon
  <2>2. CASE tripped
    <3>1. wasLow /\ state # "NORMAL"
      BY <1>1, <2>2, Zenon DEF TripsAreReal
    <3> QED
      BY <1>2, <3>1, Zenon
  <2>3. CASE ok /\ ~believed' /\ ~tripped /\ ~(good /\ ~estop)
    <3>1. good /\ estop
      BY <1>1, <1>2, <2>3, ButtonsRead
    <3>2. believed = FALSE
      <4>1. believed \in BOOLEAN
        BY <1>1 DEF EmergencyTypeOK
      <4> QED
        BY <1>1, <1>2, <2>3, <3>1, <4>1, EstopRead
    <3>3. stable = Untold
      BY <1>1, <2>3, <3>2 DEF LowIsTripped
    <3>4. state = "ACTIVE" /\ (count <= high \/ wasLow)
      BY <1>1, <3>3 DEF BlindIsActive
    <3>5. count' >= Scans /\ count' <= count + 1 /\ count' \in 0..Scans
      BY <1>1, <1>2, <2>3, <3>1, <3>3, ButtonsRead
    <3>6. high' < Scans /\ high' = high + 1
      <4>1. high' \in 0..Scans
        BY <1>1, <1>2, EstopRead
      <4>5. high' >= Scans \/ high' = high + 1
        BY <1>1, <1>2, <3>1, EstopRead, Zenon
      <4>2. believed' <=> high' >= Scans
        BY <1>1, <1>2, <2>3, <3>2, EstopRead, Zenon
      <4>3. Scans \in Nat
        OBVIOUS
      <4> QED
        BY <2>3, <4>1, <4>2, <4>3, <4>5
    <3>7. ~(count <= high)
      <4>1. count \in Nat /\ high \in Nat
        BY <1>1 DEF EmergencyTypeOK
      <4> QED
        BY <3>5, <3>6, <4>1
    <3> QED
      BY <1>2, <3>4, <3>7, Zenon
  <2> QED
    BY <1>5, <2>1, <2>2, <2>3, Zenon
<1>10. ResetIsRemembered'
  BY <1>1, <1>2, <1>5, Zenon DEF ResetIsRemembered
<1> QED
  BY <1>4, <1>6, <1>7, <1>8, <1>9, <1>10 DEF EmergencyIInv

\* A repeated image keeps the emergency as it should be.
LEMMA RepeatKeeps ==
    ASSUME EmergencyIInv, NEW sto \in Sto, Repeat(sto)
    PROVE  EmergencyIInv'
<1> DEFINE ok == stable # Untold
<1> USE EmergencyAssumption
<1>1. /\ EmergencyTypeOK /\ BlindIsActive /\ LowIsTripped
      /\ state = "NORMAL" => tripped = FALSE
      /\ TripsAreReal /\ ResetIsRemembered
  BY DEF EmergencyIInv
<1>2. /\ Step(ok, believed, FALSE, sto)
      /\ pressed' = (~EntersActive /\ pressed)
      /\ through' = (through \/ (state' # "NORMAL" /\ handRun >= Scans))
      /\ UNCHANGED <<scanVars, wasLow, handRun>>
      /\ Publish
  BY DEF Repeat
<1>3. ok \in BOOLEAN /\ FALSE \in BOOLEAN /\ believed \in BOOLEAN /\ tripped \in BOOLEAN
  BY <1>1 DEF EmergencyTypeOK
<1>4. /\ tripped' \in BOOLEAN
      /\ ~ok \/ ~believed => state' = "ACTIVE"
      /\ ok /\ believed => state' # "ACTIVE"
      /\ ok /\ ~believed => tripped'
      /\ tripped' => tripped \/ (ok /\ ~believed)
      /\ state' = "NORMAL" => ~tripped' \/ state = "NORMAL"
      /\ resetAge' # Untold \/ state' \in {"RESETTING", "RESET_FAILED"} =>
             /\ ~EntersActive
             /\ resetAge # Untold \/ state \in {"RESETTING", "RESET_FAILED"}
  <2> DEFINE edge == FALSE
  <2>1. edge \in BOOLEAN /\ Step(ok, believed, edge, sto) /\ ~edge
    BY <1>2
  <2> HIDE DEF ok, edge
  <2> QED
    BY <1>3, <2>1, StepOutcome
<1>5. EmergencyTypeOK'
  <2>1. /\ state' \in EmergencyStates /\ resetAge' \in 0..Timeout \cup {Untold}
        /\ waited' \in 0..(Timeout - 1)
    <3>1. /\ state \in EmergencyStates /\ resetAge \in 0..Timeout \cup {Untold}
          /\ waited \in 0..(Timeout - 1)
      BY <1>1 DEF EmergencyTypeOK
    <3> HIDE DEF ok
    <3> QED
      BY <1>2, <1>3, <3>1, StepTypes
  <2>2. pressed' \in BOOLEAN /\ through' \in BOOLEAN
    BY <1>1, <1>2, Zenon DEF EmergencyTypeOK
  <2>3. /\ sample' \in [emergency : EmergencyStates, hand : BOOLEAN, through : BOOLEAN]
        /\ blocked' \in BOOLEAN /\ driving' \in BOOLEAN
    BY <1>1, <1>2, <2>1, <2>2 DEF EmergencyTypeOK, Publish
  <2>4. behind' \in 0..MaxBehind
    BY <1>1, <1>2 DEF EmergencyTypeOK, Publish
  <2> QED
    BY <1>1, <1>2, <1>4, <2>1, <2>2, <2>3, <2>4 DEF EmergencyTypeOK, scanVars
<1>6. BlindIsActive'
  BY <1>1, <1>2, <1>4, Zenon DEF BlindIsActive, scanVars
<1>7. LowIsTripped'
  BY <1>2, <1>3, <1>4, Zenon DEF LowIsTripped, scanVars
<1>8. state' = "NORMAL" => tripped' = FALSE
  BY <1>1, <1>2, <1>3, <1>4, Zenon
<1>9. TripsAreReal'
  BY <1>1, <1>2, <1>3, <1>4, Zenon DEF TripsAreReal, LowIsTripped, BlindIsActive
<1>10. ResetIsRemembered'
  BY <1>1, <1>2, <1>4, Zenon DEF ResetIsRemembered
<1> QED
  BY <1>5, <1>6, <1>7, <1>8, <1>9, <1>10 DEF EmergencyIInv

-----------------------------------------------------------------------------
\* What one tick of the panel does to the debounced hand, with a new image.
LEMMA HandStaysCounted ==
    ASSUME EmergencyIInv, HandIsCounted, through = TRUE => handRun >= Scans,
           NEW good \in BOOLEAN, NEW estop \in BOOLEAN, NEW reset \in BOOLEAN,
           NEW other \in BOOLEAN, NEW hand \in BOOLEAN, NEW sto \in Sto,
           Scan(good, estop, reset, other, hand, sto)
    PROVE  /\ HandIsCounted' /\ HandIsStable'
           /\ through' = TRUE => handRun' >= Scans
           /\ handRun' <= handRun + 1
<1> USE EmergencyAssumption
<1>1. /\ ScanButtons(good, reset, other) /\ ScanHand(good, hand)
      /\ handRun' = IF hand THEN AtMost(handRun + 1, Scans) ELSE 0
      /\ through' = (hand /\ (through \/ (state' # "NORMAL" /\ handRun' >= Scans)))
      /\ EmergencyTypeOK
  BY DEF Scan, EmergencyIInv
<1>2. /\ count \in 0..Scans /\ handCount \in 0..Scans /\ handRun \in 0..Scans
      /\ through \in BOOLEAN
  BY <1>1 DEF EmergencyTypeOK
<1>3. /\ handRun' \in 0..Scans /\ handRun' <= handRun + 1
      /\ ~hand => handRun' = 0
      /\ hand => handRun' = handRun + 1 \/ handRun' = Scans
  <2>1. handRun' = IF hand THEN (IF handRun + 1 < Scans THEN handRun + 1 ELSE Scans) ELSE 0
    BY <1>1, Zenon DEF AtMost
  <2>2. handRun \in Nat /\ handRun <= Scans /\ Scans \in Nat /\ hand \in BOOLEAN
    BY <1>2, SMT
  <2> QED
    BY <2>1, <2>2, SMT
<1>4. HandIsCounted'
  <2> SUFFICES ASSUME handRun' > 0, count' > 0 \/ stable' # Untold
               PROVE  /\ handCandidate' = TRUE
                      /\ handCount' >= handRun' \/ (stable' = Untold /\ handCount' >= count')
    BY DEF HandIsCounted
  <2>1. hand = TRUE
    BY <1>3
  <2>2. good = TRUE
    <3>1. ~good => count' = 0 /\ stable' = Untold
      BY <1>1, ButtonsRead
    <3> QED
      BY <3>1
  <2>3. /\ count' \in 0..Scans /\ count' <= count + 1
        /\ stable # Untold => stable' # Untold
        /\ stable' # Untold /\ stable = Untold => count' >= Scans
    BY <1>1, <2>2, ButtonsRead
  <2>4. /\ handCount' \in 0..Scans /\ handCandidate' = TRUE /\ handCount' >= 1
        /\ handCandidate = TRUE => handCount' >= Scans \/ handCount' = handCount + 1
    BY <1>1, <2>1, <2>2, HandRead
  <2>5. CASE handRun = 0
    BY <1>2, <1>3, <2>1, <2>4, <2>5
  <2>6. CASE handRun > 0 /\ (count > 0 \/ stable # Untold)
    <3>1. handCandidate = TRUE
      BY <2>6 DEF HandIsCounted
    <3>2. handCount >= handRun \/ (stable = Untold /\ handCount >= count)
      BY <2>6 DEF HandIsCounted
    <3>3. handCount' >= Scans \/ handCount' = handCount + 1
      BY <2>4, <3>1
    <3> QED
      BY <1>2, <1>3, <2>1, <2>3, <2>4, <3>2, <3>3
  <2>7. CASE count = 0 /\ stable = Untold
    BY <1>2, <1>3, <2>3, <2>4, <2>7
  <2>8. (handRun = 0 \/ handRun > 0) /\ (count = 0 \/ count > 0)
    BY <1>2
  <2> QED
    BY <2>5, <2>6, <2>7, <2>8, Zenon
<1>5. HandIsStable'
  <2> SUFFICES ASSUME stable' # Untold, handRun' >= Scans
               PROVE  handStable' = TRUE
    BY DEF HandIsStable
  <2>1. hand = TRUE /\ handRun' > 0
    BY <1>3
  <2>2. good = TRUE
    <3>1. ~good => stable' = Untold
      BY <1>1, ButtonsRead
    <3> QED
      BY <3>1
  <2>3. handCount' >= handRun' \/ (stable' = Untold /\ handCount' >= count')
    BY <1>4, <2>1 DEF HandIsCounted
  <2>4. handCount' \in 0..Scans /\ (handCount' >= Scans => handStable' = TRUE)
    BY <1>1, <2>1, <2>2, HandRead
  <2> QED
    BY <1>3, <2>3, <2>4
<1>6. through' = TRUE => handRun' >= Scans
  <2>1. ASSUME through' = TRUE, ~(handRun' >= Scans) PROVE hand = TRUE /\ through = TRUE
    BY <1>1, <1>2, <2>1, Zenon
  <2>2. handRun >= Scans /\ hand = TRUE => handRun' >= Scans
    BY <1>2, <1>3
  <2> QED
    BY <2>1, <2>2, Zenon
<1> QED
  BY <1>3, <1>4, <1>5, <1>6

\* One more tick unseen is at least one more than what was counted.
LEMMA OneMoreUnseen ==
    ASSUME NEW n \in Nat, NEW b \in Nat, NEW nn \in Nat, NEW bb \in Nat,
           bb = b + 1, nn <= n + 1, b >= n + 1 \/ (b >= n /\ nn <= n)
    PROVE  bb >= nn + 1
OBVIOUS

\* What was missed at least as often as the bound is missed once more than a smaller count.
LEMMA EnoughUnseen ==
    ASSUME NEW n \in Nat, NEW b \in Nat, NEW bound \in Nat
    PROVE  /\ b >= bound /\ n < bound => b >= n + 1
           /\ b >= n + 1 /\ n >= bound => b >= bound
OBVIOUS

\* A scan shows the mux the hand before the emergency ends.
LEMMA ScanShowsHand ==
    ASSUME MaxBehind <= Scans, EmergencyIInv, EmergencyIInv', HandIInv,
           NEW good \in BOOLEAN, NEW estop \in BOOLEAN, NEW reset \in BOOLEAN,
           NEW other \in BOOLEAN, NEW hand \in BOOLEAN, NEW sto \in Sto,
           Scan(good, estop, reset, other, hand, sto)
    PROVE  HandIInv'
<1> USE EmergencyAssumption
<1>1. /\ ScanButtons(good, reset, other) /\ ScanEstop(good, estop)
      /\ Step(stable' # Untold, believed', ResetEdge, sto)
      /\ through' = (hand /\ (through \/ (state' # "NORMAL" /\ handRun' >= Scans)))
      /\ Publish
      /\ EmergencyTypeOK /\ BlindIsActive /\ LowIsTripped
  BY DEF Scan, EmergencyIInv
<1>2. /\ EmergencyTypeOK' /\ BlindIsActive' /\ LowIsTripped'
  BY DEF EmergencyIInv
<1>3. /\ HandIsCounted' /\ HandIsStable'
      /\ through' = TRUE => handRun' >= Scans
      /\ handRun' <= handRun + 1
  <2>1. HandIsCounted /\ (through = TRUE => handRun >= Scans)
    BY DEF HandIInv
  <2> QED
    BY <2>1, HandStaysCounted, ZenonT(60)
<1>4. /\ count \in Nat /\ high \in Nat /\ behind \in Nat /\ handRun \in Nat
      /\ Scans \in Nat /\ MaxBehind \in Nat
  BY <1>1 DEF EmergencyTypeOK
<1>5. /\ count' \in Nat /\ high' \in Nat /\ handRun' \in Nat
  BY <1>2 DEF EmergencyTypeOK
<1>6. /\ believed \in BOOLEAN /\ believed' \in BOOLEAN /\ through \in BOOLEAN
      /\ blocked \in BOOLEAN
  BY <1>1, <1>2 DEF EmergencyTypeOK
<1>7. behind' = behind + 1 /\ behind < MaxBehind /\ blocked' = blocked
  BY <1>1 DEF Publish
<1>17. behind' = behind + 1 /\ behind' \in Nat
  BY <1>4, <1>7
<1>8. /\ stable' = Untold \/ ~believed' => state' = "ACTIVE"
      /\ state = "NORMAL" /\ stable' # Untold /\ believed' => state' = "NORMAL"
  <2>1. tripped \in BOOLEAN /\ ResetEdge \in BOOLEAN
    BY <1>1 DEF EmergencyTypeOK, ResetEdge
  <2> DEFINE ok == stable' # Untold
  <2>2. ok \in BOOLEAN /\ Step(ok, believed', ResetEdge, sto)
    BY <1>1
  <2> HIDE DEF ok
  <2>3. /\ ~ok \/ ~believed' => state' = "ACTIVE"
        /\ state = "NORMAL" /\ ok /\ believed' => state' = "NORMAL"
    BY <1>6, <2>1, <2>2, StepOutcome
  <2> QED
    BY <2>3 DEF ok
<1>9. SampleIsState'
  BY <1>1, Zenon DEF Publish, SampleIsState
<1>10. /\ ~good => count' = 0 /\ stable' = Untold
       /\ count' <= count + 1
       /\ good /\ stable # Untold => stable' # Untold
       /\ stable' # Untold /\ stable = Untold => count' >= Scans
  <2>1. good => count' <= count + 1
    BY <1>1, ButtonsRead
  <2>2. ~good => count' = 0 /\ stable' = Untold
    BY <1>1, ButtonsRead
  <2>3. /\ good /\ stable # Untold => stable' # Untold
        /\ stable' # Untold /\ stable = Untold => count' >= Scans
    BY <1>1, ButtonsRead
  <2> QED
    BY <1>4, <2>1, <2>2, <2>3
<1>11. /\ high' <= high + 1
       /\ stable' # Untold /\ believed = TRUE /\ ~believed' => high' = 0
       /\ stable' # Untold /\ believed = FALSE => (believed' <=> high' >= Scans)
  BY <1>1, EstopRead
\* Every image of a stretch that is not NORMAL is one more the mux missed.
<1>12. ASSUME state # "NORMAL", blocked = FALSE
       PROVE  /\ stable = Untold =>
                    \/ behind >= count + 1
                    \/ behind >= count /\ through = FALSE /\ handRun <= count
              /\ stable # Untold /\ believed = TRUE => behind >= Scans
              /\ stable # Untold /\ believed = FALSE => behind >= high + 1
  BY <1>12, Zenon DEF HandIInv, EmergencyIsSeen
<1>13. stable = Untold \/ believed = FALSE => state # "NORMAL"
  BY <1>1, <1>6 DEF BlindIsActive, LowIsTripped
<1>14. ASSUME blocked = FALSE, state # "NORMAL", stable' # Untold, stable = Untold
       PROVE  behind + 1 >= Scans /\ (through = TRUE => behind >= Scans)
  <2>1. \/ behind >= count + 1
        \/ behind >= count /\ through = FALSE
    BY <1>12, <1>14
  <2>2. count + 1 >= Scans
    BY <1>4, <1>5, <1>10, <1>14
  <2> QED
    BY <1>4, <2>1, <2>2
<1>15. EmergencyIsSeen'
  <2> SUFFICES ASSUME state' # "NORMAL", blocked = FALSE
               PROVE  /\ stable' = Untold =>
                            \/ behind' >= count' + 1
                            \/ behind' >= count' /\ through' = FALSE /\ handRun' <= count'
                      /\ stable' # Untold /\ believed' = TRUE => behind' >= Scans
                      /\ stable' # Untold /\ believed' = FALSE => behind' >= high' + 1
    BY <1>7 DEF EmergencyIsSeen
  <2>1. CASE stable' = Untold /\ ~good
    BY <1>4, <1>7, <1>10, <2>1
  <2>2. CASE stable' = Untold /\ good
    <3>1. stable = Untold
      BY <1>10, <2>2
    <3>2. \/ behind >= count + 1
          \/ behind >= count /\ through = FALSE /\ handRun <= count
      BY <1>12, <1>13, <3>1
    <3>3. CASE behind >= count + 1 \/ count' <= count
      <4>1. behind >= count
        BY <1>4, <3>2
      <4>3. count' <= count + 1
        BY <1>10
      <4>2. behind' >= count' + 1
        BY <1>4, <1>5, <1>17, <3>3, <4>1, <4>3, OneMoreUnseen, Zenon
      <4> QED
        BY <2>2, <4>2, Zenon
    <3>4. CASE behind >= count /\ through = FALSE /\ handRun <= count /\ count' = count + 1
      <4>1. handRun' <= count' /\ behind' >= count'
        BY <1>3, <1>4, <1>5, <1>7, <3>4
      <4>2. count' < Scans
        BY <1>2, <2>2 DEF BlindIsActive
      <4>3. through' = FALSE
        <5>1. ~(handRun' >= Scans)
          BY <1>4, <1>5, <4>1, <4>2
        <5> QED
          BY <1>1, <3>4, <5>1, Zenon
      <4> QED
        BY <2>2, <4>1, <4>3
    <3>5. count' <= count \/ count' = count + 1
      BY <1>4, <1>5, <1>10
    <3> QED
      BY <3>2, <3>3, <3>4, <3>5, Zenon
  <2>3. CASE stable' # Untold /\ stable = Untold
    <3>1. behind' >= Scans
      BY <1>4, <1>7, <1>13, <1>14, <2>3
    <3>2. believed' = FALSE => high' < Scans
      <4>1. believed = FALSE
        BY <1>1, <2>3 DEF BlindIsActive
      <4>2. believed' <=> high' >= Scans
        BY <1>11, <2>3, <4>1
      <4> QED
        BY <1>4, <1>5, <4>2
    <3>3. high' < Scans => behind' >= high' + 1
      BY <1>4, <1>5, <1>17, <3>1, EnoughUnseen, Zenon
    <3> QED
      BY <2>3, <3>1, <3>2, <3>3, Zenon
  <2>4. CASE stable' # Untold /\ stable # Untold /\ believed = TRUE
    <3>1. believed' = TRUE => behind >= Scans
      BY <1>8, <1>12, <2>4
    <3>2. believed' = FALSE => high' = 0
      BY <1>11, <2>4
    <3>3. behind >= Scans => behind' >= Scans
      BY <1>4, <1>7
    <3>4. high' = 0 => behind' >= high' + 1
      BY <1>4, <1>7
    <3> QED
      BY <2>4, <3>1, <3>2, <3>3, <3>4, Zenon
  <2>5. CASE stable' # Untold /\ stable # Untold /\ believed = FALSE
    <3>1. behind >= high + 1
      BY <1>12, <1>13, <2>5
    <3>2. believed' = TRUE => high' >= Scans
      BY <1>11, <2>5
    <3>3. high' <= high + 1
      BY <1>11
    <3>4. behind' >= high' + 1
      BY <1>4, <1>5, <1>17, <3>1, <3>3, OneMoreUnseen, Zenon
    <3>5. high' >= Scans => behind' >= Scans
      BY <1>4, <1>5, <1>17, <3>4, EnoughUnseen, Zenon
    <3> QED
      BY <2>5, <3>2, <3>4, <3>5, Zenon
  <2> QED
    BY <1>6, <2>1, <2>2, <2>3, <2>4, <2>5
<1>16. state' = "NORMAL" /\ through' = TRUE => blocked' = TRUE
  <2> SUFFICES ASSUME state' = "NORMAL", through' = TRUE, blocked = FALSE
               PROVE  FALSE
    BY <1>6, <1>7
  <2>1. through = TRUE
    BY <1>1, <1>6, Zenon
  <2>2. state # "NORMAL"
    BY <2>1 DEF HandIInv
  <2>3. stable' # Untold /\ believed' = TRUE
    BY <1>6, <1>8
  <2>4. behind >= Scans
    <3>1. CASE stable = Untold
      BY <1>14, <2>1, <2>2, <2>3, <3>1
    <3>2. CASE stable # Untold /\ believed = TRUE
      BY <1>12, <2>2, <3>2
    <3>3. CASE stable # Untold /\ believed = FALSE
      <4>1. behind >= high + 1
        BY <1>12, <2>2, <3>3
      <4>2. high' >= Scans /\ high' <= high + 1
        BY <1>11, <2>3, <3>3
      <4> QED
        BY <1>4, <1>5, <4>1, <4>2
    <3> QED
      BY <1>6, <3>1, <3>2, <3>3
  <2> QED
    BY <1>4, <1>7, <2>4
<1> QED
  BY <1>3, <1>9, <1>15, <1>16 DEF HandIInv

\* So does a repeated image: every one of a stretch that is not NORMAL is one more the mux missed.
LEMMA RepeatShowsHand ==
    ASSUME MaxBehind <= Scans, EmergencyIInv, HandIInv, NEW sto \in Sto, Repeat(sto)
    PROVE  HandIInv'
<1> USE EmergencyAssumption
<1>1. /\ Step(stable # Untold, believed, FALSE, sto)
      /\ through' = (through \/ (state' # "NORMAL" /\ handRun >= Scans))
      /\ UNCHANGED <<scanVars, handRun>>
      /\ Publish
      /\ EmergencyTypeOK /\ BlindIsActive /\ LowIsTripped
  BY DEF Repeat, EmergencyIInv
<1>2. /\ count \in Nat /\ high \in Nat /\ behind \in Nat /\ handRun \in Nat
      /\ Scans \in Nat /\ MaxBehind \in Nat
      /\ believed \in BOOLEAN /\ through \in BOOLEAN /\ blocked \in BOOLEAN
      /\ tripped \in BOOLEAN
  BY <1>1 DEF EmergencyTypeOK
<1>3. behind' = behind + 1 /\ behind < MaxBehind /\ blocked' = blocked
  BY <1>1 DEF Publish
<1>4. /\ stable = Untold \/ ~believed => state' = "ACTIVE"
      /\ state = "NORMAL" /\ stable # Untold /\ believed => state' = "NORMAL"
  <2> DEFINE ok == stable # Untold
             edge == FALSE
  <2>1. ok \in BOOLEAN /\ edge \in BOOLEAN /\ Step(ok, believed, edge, sto)
    BY <1>1
  <2> HIDE DEF ok, edge
  <2>2. /\ ~ok \/ ~believed => state' = "ACTIVE"
        /\ state = "NORMAL" /\ ok /\ believed => state' = "NORMAL"
    BY <1>2, <2>1, StepOutcome
  <2> QED
    BY <2>2 DEF ok
<1>5. SampleIsState'
  BY <1>1, Zenon DEF Publish, SampleIsState
<1>6. HandIsCounted' /\ HandIsStable'
  BY <1>1 DEF HandIInv, HandIsCounted, HandIsStable, scanVars
<1>7. through' = TRUE => handRun' >= Scans
  BY <1>1, <1>2, Zenon DEF HandIInv
<1>8. stable = Untold \/ believed = FALSE => state # "NORMAL"
  BY <1>1, <1>2 DEF BlindIsActive, LowIsTripped
<1>9. EmergencyIsSeen'
  <2> SUFFICES ASSUME state' # "NORMAL", blocked = FALSE
               PROVE  /\ stable = Untold => behind' >= count + 1
                      /\ stable # Untold /\ believed = TRUE => behind' >= Scans
                      /\ stable # Untold /\ believed = FALSE => behind' >= high + 1
    BY <1>1, <1>3 DEF EmergencyIsSeen, scanVars
  <2>1. state # "NORMAL"
    BY <1>2, <1>4, <1>8
  <2> QED
    BY <1>2, <1>3, <2>1 DEF HandIInv, EmergencyIsSeen
<1>10. state' = "NORMAL" /\ through' = TRUE => blocked' = TRUE
  <2> SUFFICES ASSUME state' = "NORMAL", through' = TRUE, blocked = FALSE
               PROVE  FALSE
    BY <1>2, <1>3
  <2>1. through = TRUE
    BY <1>1, <1>2, Zenon
  <2>2. state # "NORMAL"
    BY <2>1 DEF HandIInv
  <2>3. stable # Untold /\ believed = TRUE
    BY <1>2, <1>4
  <2>4. behind >= Scans
    BY <2>2, <2>3 DEF HandIInv, EmergencyIsSeen
  <2> QED
    BY <1>2, <1>3, <2>4
<1> QED
  BY <1>5, <1>6, <1>7, <1>9, <1>10 DEF HandIInv

\* The guard of the mux, on the sample it has.
LEMMA GuardHolds ==
    ASSUME EmergencyIInv, HandIInv, MuxTick
    PROVE  /\ HandIInv'
           /\ driving' => ~sample.through
<1> USE EmergencyAssumption
<1>1. /\ blocked' = (sample.emergency # "NORMAL" \/ (blocked /\ sample.hand))
      /\ driving' = (sample.emergency = "NORMAL" /\ sample.hand /\ ~blocked')
      /\ behind' = 0
      /\ UNCHANGED <<scanVars, emergencyVars, sample, history>>
  BY DEF MuxTick, Repress
<1>2. /\ EmergencyTypeOK /\ BlindIsActive
  BY DEF EmergencyIInv
<1>3. /\ through \in BOOLEAN /\ blocked \in BOOLEAN /\ sample.hand \in BOOLEAN
  BY <1>2 DEF EmergencyTypeOK
<1>4. ASSUME state = "NORMAL", through = TRUE PROVE blocked' = TRUE
  <2>1. stable # Untold /\ blocked = TRUE /\ handRun >= Scans
    BY <1>2, <1>4 DEF BlindIsActive, HandIInv
  <2>2. handStable = TRUE
    BY <2>1 DEF HandIInv, HandIsStable
  <2>3. sample.hand = TRUE
    BY <2>2 DEF HandIInv, SampleIsState
  <2> QED
    BY <1>1, <2>1, <2>3, Zenon
<1>5. driving' => ~sample.through
  BY <1>1, <1>3, <1>4, Zenon DEF HandIInv, SampleIsState
<1>6. state # "NORMAL" => blocked' = TRUE
  BY <1>1, Zenon DEF HandIInv, SampleIsState
<1>7. SampleIsState' /\ HandIsCounted' /\ HandIsStable' /\ (through' = TRUE => handRun' >= Scans)
  BY <1>1 DEF HandIInv, SampleIsState, HandIsCounted, HandIsStable, scanVars, emergencyVars, history
<1>8. EmergencyIsSeen' /\ (state' = "NORMAL" /\ through' = TRUE => blocked' = TRUE)
  BY <1>1, <1>4, <1>6, Zenon DEF EmergencyIsSeen, emergencyVars, history
<1> QED
  BY <1>5, <1>7, <1>8 DEF HandIInv

-----------------------------------------------------------------------------
\* It holds when the panel starts.
LEMMA EmergencyStarts == EmergencyInit => EmergencyIInv /\ HandIInv
<1> USE EmergencyAssumption
<1> SUFFICES ASSUME EmergencyInit PROVE EmergencyIInv /\ HandIInv
  OBVIOUS
<1>1. EmergencyTypeOK
  <2>1. /\ candidate = Untold /\ count = 0 /\ stable = Untold
        /\ handCandidate = Untold /\ handCount = 0 /\ handStable = Untold
        /\ high = 0 /\ low = 0 /\ resetAge = Untold /\ waited = 0
        /\ state = "ACTIVE" /\ behind = 0 /\ handRun = 0
    BY DEF EmergencyInit
  <2>2. /\ believed \in BOOLEAN /\ tripped \in BOOLEAN /\ blocked \in BOOLEAN
        /\ driving \in BOOLEAN /\ wasLow \in BOOLEAN /\ pressed \in BOOLEAN
        /\ through \in BOOLEAN
    BY Zenon DEF EmergencyInit
  <2>3. sample \in [emergency : EmergencyStates, hand : BOOLEAN, through : BOOLEAN]
    BY DEF EmergencyInit, EmergencyStates
  <2> QED
    BY <2>1, <2>2, <2>3 DEF EmergencyTypeOK, EmergencyStates
<1>2. BlindIsActive /\ LowIsTripped /\ TripsAreReal /\ ResetIsRemembered
  BY DEF EmergencyInit, BlindIsActive, LowIsTripped, TripsAreReal, ResetIsRemembered
<1>3. SampleIsState
  <2>1. handStable # TRUE
    BY Zenon DEF EmergencyInit
  <2> QED
    BY <2>1, Zenon DEF EmergencyInit, SampleIsState
<1>5. HandIsCounted /\ HandIsStable
  BY DEF EmergencyInit, HandIsCounted, HandIsStable
<1>6. through = TRUE => handRun >= Scans
  BY DEF EmergencyInit
<1>4. EmergencyIsSeen
  BY DEF EmergencyInit, EmergencyIsSeen
<1> QED
  BY <1>1, <1>2, <1>3, <1>4, <1>5, <1>6 DEF EmergencyInit, EmergencyIInv, HandIInv

\* Ticks of the mux, and steps of nothing, leave the emergency as it is.
LEMMA EmergencyKept ==
    ASSUME EmergencyIInv, [EmergencyNext]_stopVars
    PROVE  EmergencyIInv'
<1>1. CASE PanelTick
  BY <1>1, ScanKeeps, RepeatKeeps DEF PanelTick
<1>2. CASE MuxTick
  <2>1. /\ UNCHANGED <<scanVars, emergencyVars, sample, history>>
        /\ blocked' = (sample.emergency # "NORMAL" \/ (blocked /\ sample.hand))
        /\ driving' = (sample.emergency = "NORMAL" /\ sample.hand /\ ~blocked')
        /\ behind' = 0
    BY <1>2 DEF MuxTick, Repress
  <2>2. blocked' \in BOOLEAN /\ driving' \in BOOLEAN
    BY <2>1, Zenon
  <2>3. behind' \in 0..MaxBehind
    BY <2>1, EmergencyAssumption
  <2> QED
    BY <2>1, <2>2, <2>3 DEF EmergencyIInv, EmergencyTypeOK, BlindIsActive, LowIsTripped,
       TripsAreReal, ResetIsRemembered, scanVars, emergencyVars, history
<1>3. CASE UNCHANGED stopVars
  BY <1>3 DEF EmergencyIInv, EmergencyTypeOK, BlindIsActive, LowIsTripped, TripsAreReal,
     ResetIsRemembered, stopVars, scanVars, emergencyVars, muxVars, history
<1> QED
  BY <1>1, <1>2, <1>3 DEF EmergencyNext

\* Every step keeps what the mux is shown of the hand.
LEMMA HandKept ==
    ASSUME MaxBehind <= Scans, EmergencyIInv, HandIInv, [EmergencyNext]_stopVars
    PROVE  HandIInv'
<1>1. CASE PanelTick
  <2>1. EmergencyIInv'
    BY EmergencyKept
  <2> QED
    BY <1>1, <2>1, ScanShowsHand, RepeatShowsHand DEF PanelTick
<1>2. CASE MuxTick
  BY <1>2, GuardHolds
<1>3. CASE UNCHANGED stopVars
  BY <1>3 DEF HandIInv, SampleIsState, HandIsCounted, HandIsStable, EmergencyIsSeen,
     stopVars, scanVars, emergencyVars, muxVars, history
<1> QED
  BY <1>1, <1>2, <1>3 DEF EmergencyNext

\* The end of an emergency that began with the E-stop, in any tick.
LEMMA EndsByReset ==
    ASSUME EmergencyIInv, [EmergencyNext]_stopVars,
           state # "NORMAL", state' = "NORMAL", tripped
    PROVE  pressed
<1>1. tripped \in BOOLEAN /\ ResetIsRemembered
  BY DEF EmergencyIInv, EmergencyTypeOK
<1>2. SUFFICES state \in {"RESETTING", "RESET_FAILED"}
  BY <1>1 DEF ResetIsRemembered
<1>3. ASSUME NEW good \in BOOLEAN, NEW estop \in BOOLEAN, NEW reset \in BOOLEAN,
             NEW other \in BOOLEAN, NEW hand \in BOOLEAN, NEW sto \in Sto,
             Scan(good, estop, reset, other, hand, sto)
      PROVE  state \in {"RESETTING", "RESET_FAILED"}
  <2> DEFINE ok == stable' # Untold
             seen == believed'
             edge == ResetEdge
  <2>1. Step(ok, seen, edge, sto) /\ ok \in BOOLEAN /\ edge \in BOOLEAN /\ seen \in BOOLEAN
    BY <1>3, EstopRead DEF Scan, ResetEdge, EmergencyIInv
  <2> HIDE DEF ok, seen, edge
  <2> QED
    BY <1>1, <2>1, StepOutcome
<1>4. ASSUME NEW sto \in Sto, Repeat(sto)
      PROVE  state \in {"RESETTING", "RESET_FAILED"}
  <2> DEFINE ok == stable # Untold
             edge == FALSE
  <2>1. Step(ok, believed, edge, sto) /\ ok \in BOOLEAN /\ edge \in BOOLEAN /\ believed \in BOOLEAN
    BY <1>4 DEF Repeat, EmergencyIInv, EmergencyTypeOK
  <2> HIDE DEF ok, edge
  <2> QED
    BY <1>1, <2>1, StepOutcome
<1>5. state' = state => FALSE
  OBVIOUS
<1> QED
  BY <1>3, <1>4, <1>5, ZenonT(60)
     DEF EmergencyNext, PanelTick, MuxTick, stopVars, emergencyVars

\* Every reachable state of the emergency picture is of its type, a panel that
\* is blind is ACTIVE, and a remembered Reset edge was pressed after the
\* emergency last became ACTIVE.
THEOREM EmergencyInvariance == EmergencySpec => []EmergencyIInv
<1>1. EmergencyInit => EmergencyIInv
  BY EmergencyStarts
<1>2. EmergencyIInv /\ [EmergencyNext]_stopVars => EmergencyIInv'
  BY EmergencyKept
<1> QED
  BY <1>1, <1>2, PTL DEF EmergencySpec

\* An emergency goes back to a LOW the E-stop really read, and one that began
\* with it ends only after a Reset edge that came later (Emergency.step,
\* PanelAdapter.tick), however many ticks the mux misses.
THEOREM TripsEndByReset == EmergencySpec => []TripsAreReal /\ NormalAfterReset
<1>1. EmergencyIInv => TripsAreReal
  BY DEF EmergencyIInv
<1>2. EmergencyIInv /\ [EmergencyNext]_stopVars =>
          [state # "NORMAL" /\ state' = "NORMAL" => (tripped => pressed)]_stopVars
  BY EndsByReset
<1> QED
  BY <1>1, <1>2, EmergencyInvariance, PTL DEF EmergencySpec, NormalAfterReset

\* An emergency is real, ends by a Reset only, and the Reset drives nothing: as
\* long as the mux ticks at least once in the time the inputs need to be
\* debounced.
THEOREM HonestEmergency ==
    ASSUME MaxBehind <= Scans
    PROVE  EmergencySpec => EmergencyIsHonest
<1>1. EmergencyInit => HandIInv
  BY EmergencyStarts
<1>2. EmergencyIInv /\ HandIInv /\ [EmergencyNext]_stopVars => HandIInv'
  BY HandKept
<1>3. EmergencyIInv /\ HandIInv /\ [EmergencyNext]_stopVars =>
          [MuxTick /\ driving' => ~sample.through]_stopVars
  BY GuardHolds
<1> QED
  BY <1>1, <1>2, <1>3, EmergencyInvariance, TripsEndByReset, PTL
     DEF EmergencySpec, HeldHandStaysStopped, EmergencyIsHonest

-----------------------------------------------------------------------------
(***************************************************************************)
(* The move of a survey.                                                   *)
(***************************************************************************)

\* Whatever ends a move takes the place of its last sample: a moving sample that
\* waits at the mux is of the move under way, or of the one the node died in.
WaitingIsOfTheMove ==
    queue.kind = "go" /\ queue.session.who = "survey" =>
        queue.session = Mine /\ (moveState = "MOVING" \/ alive = FALSE)

SurveyMoveIInv ==
    /\ alive \in BOOLEAN
    /\ queue = Nothing \/ queue.kind \in {"go", "revoke"}
    /\ WaitingIsOfTheMove

\* What the mux may take in one step.
TakenStep ==
    held' # held /\ held'.fresh /\ held'.session.who = "survey" =>
        held'.session = Mine /\ (moveState = "MOVING" \/ ~alive)

-----------------------------------------------------------------------------
\* An abort replaces the sample that waits.
LEMMA AbortEndsTheMove ==
    ASSUME SurveyMoveIInv, AbortMove
    PROVE  SurveyMoveIInv'
BY DEF AbortMove, SendSample, Sample, SurveyMoveIInv, WaitingIsOfTheMove

\* So does a tick that ends the move.
LEMMA TickEndsTheMove ==
    ASSUME SurveyMoveIInv, alive, TickMoving \/ TickSettling
    PROVE  SurveyMoveIInv'
<1>1. CASE TickMoving /\ Blocked
  <2>1. AbortMove
    BY <1>1 DEF TickMoving
  <2> QED
    BY <2>1, AbortEndsTheMove
<1>2. CASE TickMoving /\ ~Blocked
  <2>1. UNCHANGED <<alive, move>> /\ moveState = "MOVING"
    BY <1>2 DEF TickMoving
  <2>2. \/ SendSample("revoke")
        \/ SendSample("go") /\ UNCHANGED moveState
    BY <1>2, Zenon DEF TickMoving
  <2> QED
    BY <2>1, <2>2 DEF SendSample, Sample, Mine, Session, SurveyMoveIInv, WaitingIsOfTheMove
<1>3. CASE TickSettling
  BY <1>3 DEF TickSettling, SurveyMoveIInv, WaitingIsOfTheMove, Mine
<1> QED
  BY <1>1, <1>2, <1>3

\* Every step keeps what waits of the move.
LEMMA MoveStepKeeps ==
    ASSUME SurveyMoveIInv, [SurveyMoveNext]_surveyMoveVars
    PROVE  SurveyMoveIInv'
<1> USE DEF SurveyMoveIInv, WaitingIsOfTheMove, Mine
<1>1. CASE AcceptMove
  BY <1>1 DEF AcceptMove
<1>2. CASE StopMove
  BY <1>2, AbortEndsTheMove DEF StopMove
<1>3. CASE TickMove
  BY <1>3, TickEndsTheMove DEF TickMove
<1>4. CASE NodeEnds
  <2>1. alive' = FALSE /\ move' = move
    BY <1>4 DEF NodeEnds
  <2>2. queue' = queue \/ queue' = Sample(Mine, "revoke")
    BY <1>4 DEF NodeEnds, SendSample
  <2>3. CASE queue' = queue
    BY <2>1, <2>3
  <2>4. CASE queue' = Sample(Mine, "revoke")
    BY <2>1, <2>4 DEF Sample
  <2> QED
    BY <2>2, <2>3, <2>4
<1>5. ASSUME NEW i \in Inputs, InputLost(i) \/ InputBack(i) PROVE SurveyMoveIInv'
  BY <1>5, AbortEndsTheMove DEF InputLost, InputBack, nodeVars
<1>6. CASE JogRefresh \/ JogRelease \/ StopAll
  <2>1. /\ UNCHANGED nodeVars
        /\ queue'.kind = "revoke" \/ (queue'.kind = "go" /\ queue'.session.who = "jog")
    BY <1>6 DEF JogRefresh, JogRelease, StopAll, Publishes, Sample, Session
  <2> QED
    BY <2>1 DEF nodeVars
<1>7. CASE HearOther
  BY <1>7, AbortEndsTheMove DEF HearOther, nodeVars
<1>8. CASE MuxTakes \/ CommandExpires
  <2>1. UNCHANGED nodeVars /\ (queue' = Nothing \/ queue' = queue)
    BY <1>8 DEF MuxTakes, CommandExpires
  <2> QED
    BY <2>1 DEF nodeVars, Nothing
<1>9. CASE UNCHANGED surveyMoveVars
  BY <1>9 DEF surveyMoveVars, nodeVars
<1> QED
  BY <1>1, <1>2, <1>3, <1>4, <1>5, <1>6, <1>7, <1>8, <1>9 DEF SurveyMoveNext

\* Only taking a sample makes what the mux holds fresh.
LEMMA OnlyTakingRefreshes ==
    ASSUME SurveyMoveIInv, [SurveyMoveNext]_surveyMoveVars, ~MuxTakes
    PROVE  held' = held \/ ~held'.fresh
<1>1. CASE CommandExpires
  <2>1. held.fresh /\ held' = [held EXCEPT !.fresh = FALSE]
    BY <1>1 DEF CommandExpires
  <2>2. CASE "fresh" \in DOMAIN held
    BY <2>1, <2>2
  <2>3. CASE "fresh" \notin DOMAIN held
    BY <2>1, <2>3
  <2> QED
    BY <2>2, <2>3
<1> QED
  BY <1>1 DEF SurveyMoveNext, surveyMoveVars, AcceptMove, StopMove, TickMove, NodeEnds, InputLost,
     InputBack, JogRefresh, JogRelease, StopAll, HearOther, Publishes, intake

\* What the mux takes was waiting.
LEMMA MuxTakesTheMove ==
    ASSUME SurveyMoveIInv, [SurveyMoveNext]_surveyMoveVars
    PROVE  TakenStep
<1>1. CASE MuxTakes
  <2>1. Offer(queue) /\ queue.kind \in {"go", "revoke"}
    BY <1>1 DEF MuxTakes, SurveyMoveIInv
  <2>2. \/ held' = held \/ held' = Empty
        \/ queue.kind = "go" /\ held' = [session |-> queue.session, fresh |-> TRUE]
    <3>1. CASE queue.session \in tombed
      BY <2>1, <3>1 DEF Offer, intake
    <3>2. CASE queue.session \notin tombed /\ queue.kind = "revoke"
      BY <2>1, <3>2 DEF Offer
    <3>3. CASE queue.session \notin tombed /\ queue.kind = "go"
      BY <2>1, <3>3 DEF Offer
    <3> QED
      BY <2>1, <3>1, <3>2, <3>3
  <2> QED
    BY <2>2 DEF TakenStep, Empty, SurveyMoveIInv, WaitingIsOfTheMove
<1> QED
  BY <1>1, OnlyTakingRefreshes DEF TakenStep

\* Nothing waits when the node starts.
LEMMA MoveStarts == SurveyMoveInit => SurveyMoveIInv
BY DEF SurveyMoveInit, SurveyMoveIInv, WaitingIsOfTheMove, Nothing, Session, NoSession

\* The mux takes a moving sample of a move only while the node that drives it is
\* in it, or died in it, whatever the browser, the inputs and the services do in
\* between (survey_move_node's zero sample, the one-sample topic).
THEOREM EndedMoveIsTakenNoMore == SurveyMoveSpec => EndedMovesNothing
<1>1. SurveyMoveIInv /\ [SurveyMoveNext]_surveyMoveVars => SurveyMoveIInv'
  BY MoveStepKeeps
<1>2. SurveyMoveIInv /\ [SurveyMoveNext]_surveyMoveVars =>
          [(held' # held /\ held'.fresh /\ held'.session.who = "survey")
             => (held'.session = Mine /\ (moveState = "MOVING" \/ ~alive))]_surveyMoveVars
  BY MuxTakesTheMove DEF TakenStep
<1> QED
  BY <1>1, <1>2, MoveStarts, PTL DEF SurveyMoveSpec, EndedMovesNothing

-----------------------------------------------------------------------------
(* The jog of a browser page.                                              *)

Served == 0..Len(sessions)
PadType == [state : {"idle", "pending", "held", "releasing"}, id : Served, ticket : {0, 1}]
MessageType ==
    [kind : {"press", "pressed", "cancelled press", "cancelled pressed", "refresh", "refreshed",
             "release", "stop"}, owner : Owners, id : Served, ticket : {0, 1}]

\* Only a session that was served is named, by the pads, on the network and in the server.
JogTypes ==
    /\ sessions \in Seq([owner : Owners, gen : JogGenerations])
    /\ pad \in [Owners -> PadType] /\ net \subseteq MessageType
    /\ session \in [id : Served, ticket : {0, 1}, released : BOOLEAN]
    /\ accepted \in Served /\ revoked \subseteq Served

\* What is live in the server, in the hands of an accepted refresh or published last as a
\* command has not been revoked.
LiveIsUnrevoked ==
    /\ session.id # 0 /\ session.released = FALSE => session.id \notin revoked
    /\ accepted # 0 => accepted \notin revoked
    /\ topic # NoSample /\ topic.revokes = FALSE => topic.id \notin revoked

CommandIsRecord == mux = [id |-> mux.id, fresh |-> mux.fresh]

JogIInv == JogTypes /\ LiveIsUnrevoked

\* A message of the right parts is one.
LEMMA MessageIs ==
    ASSUME NEW o \in Owners, NEW i \in Served, NEW t \in {0, 1}
    PROVE  \A k \in {"press", "pressed", "cancelled press", "cancelled pressed", "refresh",
                     "refreshed", "release", "stop"} : Message(k, o, i, t) \in MessageType
  BY DEF Message, MessageType

\* A pad with another state, or another ticket, is still one; so is an idle one.
LEMMA PadIs ==
    ASSUME JogTypes, NEW o \in Owners
    PROVE  /\ \A s \in {"idle", "pending", "held", "releasing"} :
                 [pad EXCEPT ![o].state = s] \in [Owners -> PadType]
           /\ \A t \in {0, 1} : [pad EXCEPT ![o].ticket = t] \in [Owners -> PadType]
           /\ \A p \in PadType : [pad EXCEPT ![o] = p] \in [Owners -> PadType]
           /\ [pad EXCEPT ![o] = NoPad] \in [Owners -> PadType]
<1>1. pad \in [Owners -> PadType]
  BY DEF JogTypes
<1>2. \A p \in PadType : [pad EXCEPT ![o] = p] \in [Owners -> PadType]
  BY <1>1
<1>3. \A s \in {"idle", "pending", "held", "releasing"}, t \in {0, 1} :
          /\ [pad[o] EXCEPT !.state = s] \in PadType
          /\ [pad[o] EXCEPT !.ticket = t] \in PadType
  <2>1. pad[o] \in PadType
    BY <1>1
  <2> QED
    BY <2>1 DEF PadType
<1>4. NoPad \in PadType
  <2>1. 0 \in Served
    BY LenProperties DEF JogTypes, Served
  <2> QED
    BY <2>1 DEF NoPad, PadType
<1>5. /\ \A s : [pad EXCEPT ![o].state = s] = [pad EXCEPT ![o] = [pad[o] EXCEPT !.state = s]]
      /\ \A t : [pad EXCEPT ![o].ticket = t] = [pad EXCEPT ![o] = [pad[o] EXCEPT !.ticket = t]]
  OBVIOUS
<1> QED
  BY <1>2, <1>3, <1>4, <1>5

\* The same session counts and the same pads and requests: as long as no session is added,
\* the new state is of the right types if its parts are.
LEMMA ServedStays ==
    ASSUME JogTypes, UNCHANGED sessions, pad' \in [Owners -> PadType], net' \subseteq MessageType,
           session' \in [id : Served, ticket : {0, 1}, released : BOOLEAN],
           accepted' \in Served, revoked' \subseteq Served
    PROVE  JogTypes'
<1>1. Served' = Served
  BY DEF Served
<1>2. PadType' = PadType /\ MessageType' = MessageType
  BY <1>1 DEF PadType, MessageType
<1> QED
  BY <1>1, <1>2 DEF JogTypes

\* The page's own steps: pads and requests change, and nothing else.
LEMMA PageKeeps ==
    ASSUME JogIInv, pad' \in [Owners -> PadType], net' \subseteq MessageType,
           UNCHANGED <<webVars, topic, intakeVars, seenGen>>
    PROVE  JogIInv'
<1>1. JogTypes'
  BY ServedStays DEF JogIInv, JogTypes, webVars
<1> QED
  BY <1>1 DEF JogIInv, LiveIsUnrevoked, webVars

\* What a refusal leaves of a pad.
LEMMA RefusedIsPad ==
    ASSUME JogTypes, NEW o \in Owners, NEW m, Refused(o, m)
    PROVE  pad' \in [Owners -> PadType]
<1>1. pad' = pad \/ pad' = [pad EXCEPT ![o] = NoPad]
  BY DEF Refused
<1>2. pad \in [Owners -> PadType]
  BY DEF JogTypes
<1>3. [pad EXCEPT ![o] = NoPad] \in [Owners -> PadType]
  BY PadIs, ZenonT(60)
<1> QED
  BY ONLY <1>1, <1>2, <1>3

\* Letting go: what is sent is a request, and the pad one that waits for an answer or is idle.
LEMMA LetGoIsPage ==
    ASSUME JogTypes, NEW o \in Owners, NEW others \in SUBSET MessageType, LetGo(o, others)
    PROVE  pad' \in [Owners -> PadType] /\ net' \subseteq MessageType
<1>1. Cancelled(net, o) \subseteq MessageType
  <2> SUFFICES ASSUME NEW m \in net PROVE /\ [m EXCEPT !.kind = "cancelled press"] \in MessageType
                                          /\ [m EXCEPT !.kind = "cancelled pressed"] \in MessageType
                                          /\ m \in MessageType
    BY DEF Cancelled
  <2>1. m \in MessageType
    BY DEF JogTypes
  <2> QED
    BY <2>1 DEF MessageType
<1>2. Message("release", o, pad[o].id, 0) \in MessageType
  BY DEF JogTypes, PadType, Message, MessageType
<1>3. pad \in [Owners -> PadType] /\ net \subseteq MessageType
  BY DEF JogTypes
<1>4. CASE pad[o].state = "pending"
  BY <1>1, <1>3, <1>4, PadIs DEF LetGo
<1>5. CASE pad[o].state = "held"
  BY <1>2, <1>3, <1>5, PadIs DEF LetGo
<1>6. CASE pad[o].state \notin {"pending", "held"}
  BY <1>3, <1>6 DEF LetGo
<1> QED
  BY <1>4, <1>5, <1>6

\* The hand, the stop key and the answers of the network keep the invariant.
LEMMA PagesKeep ==
    ASSUME JogIInv, NEW o \in Owners, HandDown(o) \/ HandUp(o) \/ StopKey(o)
    PROVE  JogIInv'
<1>1. JogTypes /\ 0 \in Served /\ 0 \in {0, 1}
  BY LenProperties DEF JogIInv, JogTypes, Served
<1>2. pad \in [Owners -> PadType] /\ net \subseteq MessageType
  BY <1>1 DEF JogTypes
<1>3. CASE HandDown(o)
  <2>1. Message("press", o, 0, 0) \in MessageType
    BY <1>1, MessageIs
  <2>2. pad' \in [Owners -> PadType] /\ net' \subseteq MessageType
    <3>1. [pad EXCEPT ![o].state = "pending"] \in [Owners -> PadType]
      BY <1>1, PadIs
    <3>2. pad' = pad \/ pad' = [pad EXCEPT ![o].state = "pending"]
      BY <1>3 DEF HandDown
    <3>3. net' = net \/ net' = net \union {Message("press", o, 0, 0)}
      BY <1>3 DEF HandDown
    <3> QED
      BY ONLY <1>2, <2>1, <3>1, <3>2, <3>3
  <2> QED
    BY <1>3, <2>2, PageKeeps DEF HandDown
<1>4. CASE HandUp(o)
  <2>1. LetGo(o, {}) /\ {} \in SUBSET MessageType
    BY <1>4 DEF HandUp
  <2> QED
    BY <1>1, <2>1, LetGoIsPage, PageKeeps DEF LetGo
<1>5. CASE StopKey(o)
  <2>1. PICK others \in {{}, {Message("stop", o, 0, 0)}} : LetGo(o, others)
    BY <1>5 DEF StopKey
  <2>2. others \in SUBSET MessageType
    <3>1. Message("stop", o, 0, 0) \in MessageType
      BY <1>1, MessageIs
    <3> QED
      BY <2>1, <3>1
  <2> QED
    BY <1>1, <2>1, <2>2, LetGoIsPage, PageKeeps DEF LetGo
<1> QED
  BY <1>3, <1>4, <1>5

\* So do the answers and what is lost.
LEMMA AnswersKeep ==
    ASSUME JogIInv, NEW m \in net, Lost(m) \/ Answered(m)
    PROVE  JogIInv'
<1>1. JogTypes /\ m \in MessageType /\ net \subseteq MessageType /\ pad \in [Owners -> PadType]
  BY DEF JogIInv, JogTypes
<1>2. m.owner \in Owners /\ m.id \in Served /\ m.ticket \in {0, 1} /\ 0 \in {0, 1}
  BY <1>1 DEF MessageType
<1>3. CASE Lost(m)
  <2>1. pad' \in [Owners -> PadType]
    BY <1>1, <1>2, <1>3, RefusedIsPad DEF Lost
  <2> QED
    BY <1>1, <1>3, <2>1, PageKeeps DEF Lost
<1>4. CASE Answered(m)
  <2>1. /\ Message("release", m.owner, m.id, 0) \in MessageType
        /\ Refresh(m.owner, m.id, 0) \in MessageType /\ Refresh(m.owner, m.id, m.ticket) \in MessageType
    BY <1>2, MessageIs DEF Refresh
  <2>2. [state |-> "held", id |-> m.id, ticket |-> 0] \in PadType
    BY <1>2 DEF PadType
  <2>3. UNCHANGED <<webVars, topic, intakeVars, seenGen>>
    BY <1>4 DEF Answered
  <2>4. CASE AnswerToPress(m.owner, m)
    <3>1. \/ pad' = pad
          \/ pad' = [pad EXCEPT ![m.owner] = [state |-> "held", id |-> m.id, ticket |-> 0]]
      BY <2>4 DEF AnswerToPress
    <3>2. pad' \in [Owners -> PadType]
      BY <1>1, <1>2, <2>2, <3>1, PadIs
    <3>3. net' \subseteq MessageType
      BY <1>1, <2>1, <2>4 DEF AnswerToPress
    <3> QED
      BY <2>3, <3>2, <3>3, PageKeeps
  <2>5. CASE AnswerToRefresh(m.owner, m)
    <3>1. pad' = pad \/ pad' = [pad EXCEPT ![m.owner].ticket = m.ticket]
      BY <2>5 DEF AnswerToRefresh
    <3>2. pad' \in [Owners -> PadType]
      <4>1. [pad EXCEPT ![m.owner].ticket = m.ticket] \in [Owners -> PadType]
        BY <1>1, <1>2, PadIs, Zenon
      <4> QED
        BY <1>1, <3>1, <4>1
    <3>3. net' \subseteq MessageType
      BY <1>1, <2>1, <2>5 DEF AnswerToRefresh
    <3> QED
      BY <2>3, <3>2, <3>3, PageKeeps
  <2> QED
    BY <1>4, <2>4, <2>5 DEF Answered
<1> QED
  BY <1>3, <1>4

\* A press that is served makes a session with a number of its own, which nothing has revoked.
LEMMA PressKeeps ==
    ASSUME JogIInv, NEW m \in net, ServePress(m)
    PROVE  JogIInv'
<1> DEFINE n == Len(sessions)
<1>1. JogTypes /\ m \in MessageType /\ net \subseteq MessageType /\ pad \in [Owners -> PadType]
  BY DEF JogIInv, JogTypes
<1>2. m.owner \in Owners /\ n \in Nat
  BY <1>1, LenProperties DEF MessageType, JogTypes
<1>3. UNCHANGED <<accepted, revoked, topic>>
  BY DEF ServePress
<1>4. CASE UNCHANGED <<session, sessions>> /\ net' = net \ {m} /\ Refused(m.owner, m)
  <2>1. pad' \in [Owners -> PadType]
    BY <1>1, <1>2, <1>4, RefusedIsPad
  <2>2. JogTypes'
    BY <1>1, <1>3, <1>4, <2>1, ServedStays DEF JogTypes
  <2> QED
    BY <1>3, <1>4, <2>2 DEF JogIInv, LiveIsUnrevoked
<1>5. CASE /\ session' = [id |-> n + 1, ticket |-> 0, released |-> FALSE]
           /\ \E gen \in JogGenerations : sessions' = Append(sessions, [owner |-> m.owner, gen |-> gen])
           /\ \E k \in {"pressed", "cancelled pressed"} :
                 net' = (net \ {m}) \union {Message(k, m.owner, n + 1, 0)}
           /\ UNCHANGED pad
  <2>1. /\ sessions' \in Seq([owner : Owners, gen : JogGenerations]) /\ Len(sessions') = n + 1
    <3>1. PICK gen \in JogGenerations : sessions' = Append(sessions, [owner |-> m.owner, gen |-> gen])
      BY <1>5
    <3>2. [owner |-> m.owner, gen |-> gen] \in [owner : Owners, gen : JogGenerations]
      BY <1>2
    <3>3. sessions \in Seq([owner : Owners, gen : JogGenerations])
      BY <1>1 DEF JogTypes
    <3> QED
      BY <3>1, <3>2, <3>3, AppendProperties
  <2>2. Served \subseteq Served' /\ n + 1 \in Served' /\ n + 1 \notin Served
    BY <1>2, <2>1 DEF Served
  <2>3. /\ PadType \subseteq PadType' /\ MessageType \subseteq MessageType'
    BY <2>2 DEF PadType, MessageType
  <2>4. pad' \in [Owners -> PadType']
    BY <1>1, <1>5, <2>3
  <2>5. net' \subseteq MessageType'
    <3>1. \A k \in {"pressed", "cancelled pressed"} : Message(k, m.owner, n + 1, 0) \in MessageType'
      BY <1>2, <2>2 DEF Message, MessageType
    <3> QED
      BY <1>1, <1>5, <2>3, <3>1
  <2>6. JogTypes'
    <3>1. session' \in [id : Served', ticket : {0, 1}, released : BOOLEAN]
      BY <1>5, <2>2
    <3>2. accepted' \in Served' /\ revoked' \subseteq Served'
      BY <1>1, <1>3, <2>2 DEF JogTypes
    <3> QED
      BY <2>1, <2>4, <2>5, <3>1, <3>2 DEF JogTypes
  <2>7. session'.id \notin revoked'
    BY <1>1, <1>3, <1>5, <2>2 DEF JogTypes
  <2> QED
    BY <1>3, <2>6, <2>7 DEF JogIInv, LiveIsUnrevoked
<1> QED
  BY <1>4, <1>5 DEF ServePress

\* A revocation ends the session it names; what is published after it commands nothing.
LEMMA RevokeKeeps ==
    ASSUME JogIInv, LockFree, NEW i \in Served, RevokeSession(i),
           net' \subseteq MessageType, pad' \in [Owners -> PadType],
           UNCHANGED <<sessions, accepted>>
    PROVE  JogIInv'
<1>1. JogTypes /\ accepted = 0 /\ topic' = [id |-> i, revokes |-> TRUE] /\ revoked' = revoked \cup {i}
  BY DEF JogIInv, LockFree, RevokeSession, PublishSample
<1>2. session' = IF session.id = i THEN [session EXCEPT !.released = TRUE] ELSE session
  BY DEF RevokeSession
<1>3. session \in [id : Served, ticket : {0, 1}, released : BOOLEAN]
  BY <1>1 DEF JogTypes
<1>4. session' \in [id : Served, ticket : {0, 1}, released : BOOLEAN]
  BY <1>2, <1>3
<1>5. JogTypes'
  BY <1>1, <1>4, ServedStays DEF JogTypes
<1>6. session'.id # 0 /\ session'.released = FALSE => session'.id \notin revoked'
  <2>1. CASE session.id = i
    BY <1>2, <1>3, <2>1
  <2>2. CASE session.id # i
    BY <1>1, <1>2, <2>2 DEF JogIInv, LiveIsUnrevoked
  <2> QED
    BY <2>1, <2>2
<1> QED
  BY <1>1, <1>5, <1>6 DEF JogIInv, LiveIsUnrevoked

\* The stop ends the session there is.
LEMMA StopKeeps ==
    ASSUME JogIInv, NEW m \in net, ServeStop(m)
    PROVE  JogIInv'
<1>1. /\ JogTypes /\ accepted = 0 /\ topic' = [id |-> 0, revokes |-> TRUE] /\ net' = net \ {m}
      /\ session' = [session EXCEPT !.released = TRUE] /\ revoked' = revoked \cup ({session.id} \ {0})
      /\ UNCHANGED <<pad, sessions, accepted>>
  BY DEF JogIInv, LockFree, ServeStop, PublishSample, padVars
<1>2. session \in [id : Served, ticket : {0, 1}, released : BOOLEAN]
  BY <1>1 DEF JogTypes
<1>3. session' \in [id : Served, ticket : {0, 1}, released : BOOLEAN] /\ session'.released = TRUE
  BY <1>1, <1>2
<1>4. revoked' \subseteq Served
  BY <1>1, <1>2 DEF JogTypes
<1>5. JogTypes'
  BY <1>1, <1>3, <1>4, ServedStays DEF JogTypes
<1> QED
  BY <1>1, <1>3, <1>5 DEF JogIInv, LiveIsUnrevoked

\* A refresh is only accepted for a session that is live, hence not revoked.
LEMMA RefreshKeeps ==
    ASSUME JogIInv, NEW m \in net, ServeRefresh(m)
    PROVE  JogIInv'
<1>1. JogTypes /\ m \in MessageType /\ net \subseteq MessageType /\ pad \in [Owners -> PadType]
  BY DEF JogIInv, JogTypes
<1>2. m.owner \in Owners /\ m.id \in Served /\ 1 - m.ticket \in {0, 1}
  <2>1. m.owner \in Owners /\ m.id \in Served /\ m.ticket \in {0, 1}
    BY <1>1 DEF MessageType
  <2>2. \A t \in {0, 1} : 1 - t \in {0, 1}
    OBVIOUS
  <2> QED
    BY <2>1, <2>2, Zenon
<1>3. session \in [id : Served, ticket : {0, 1}, released : BOOLEAN]
  BY <1>1 DEF JogTypes
<1>4. LockFree /\ accepted = 0
  BY DEF ServeRefresh, LockFree
<1>5. PICK gen \in JogGenerations, emergency \in BOOLEAN, aged \in BOOLEAN :
       CASE emergency ->
              /\ RevokeSession(m.id)
              /\ net' = net \ {m} /\ Refused(m.owner, m)
              /\ UNCHANGED <<sessions, accepted>>
         [] ~emergency /\ Accepts(m, gen, aged) ->
              /\ session' = [session EXCEPT !.ticket = 1 - @]
              /\ accepted' = m.id
              /\ net' = (net \ {m}) \union {Message("refreshed", m.owner, m.id, 1 - m.ticket)}
              /\ UNCHANGED <<pad, sessions, revoked, topic>>
         [] OTHER ->
              /\ session' = IF session.id = m.id /\ (aged \/ gen # sessions[m.id].gen)
                            THEN [session EXCEPT !.released = TRUE] ELSE session
              /\ net' = net \ {m} /\ Refused(m.owner, m)
              /\ UNCHANGED <<sessions, accepted, revoked, topic>>
  BY Zenon DEF ServeRefresh
<1>6. CASE emergency
  <2>1. RevokeSession(m.id) /\ net' = net \ {m} /\ Refused(m.owner, m) /\ UNCHANGED <<sessions, accepted>>
    BY <1>5, <1>6
  <2>2. pad' \in [Owners -> PadType]
    BY <1>1, <1>2, <2>1, RefusedIsPad
  <2> QED
    BY <1>1, <1>2, <1>4, <2>1, <2>2, RevokeKeeps
<1>7. CASE ~emergency /\ Accepts(m, gen, aged)
  <2>1. /\ session' = [session EXCEPT !.ticket = 1 - @] /\ accepted' = m.id
        /\ net' = (net \ {m}) \union {Message("refreshed", m.owner, m.id, 1 - m.ticket)}
        /\ UNCHANGED <<pad, sessions, revoked, topic>>
    BY <1>5, <1>7
  <2>2. session.id = m.id /\ session.id # 0 /\ ~session.released
    BY <1>7 DEF Accepts, SessionLive
  <2>3. m.id \notin revoked
    BY <1>3, <2>2 DEF JogIInv, LiveIsUnrevoked
  <2>4. /\ session' \in [id : Served, ticket : {0, 1}, released : BOOLEAN]
        /\ session'.id = session.id /\ session'.released = session.released
    BY <1>3, <2>1
  <2>5. net' \subseteq MessageType
    BY <1>1, <1>2, <2>1, MessageIs
  <2>6. JogTypes'
    BY <1>1, <1>2, <2>1, <2>4, <2>5, ServedStays DEF JogTypes
  <2> QED
    BY <2>1, <2>2, <2>3, <2>4, <2>6 DEF JogIInv, LiveIsUnrevoked
<1>8. CASE ~emergency /\ ~Accepts(m, gen, aged)
  <2>1. /\ session' = session \/ session' = [session EXCEPT !.released = TRUE]
        /\ net' = net \ {m} /\ Refused(m.owner, m)
        /\ UNCHANGED <<sessions, accepted, revoked, topic>>
    BY <1>5, <1>8
  <2>2. pad' \in [Owners -> PadType]
    BY <1>1, <1>2, <2>1, RefusedIsPad
  <2>3. /\ session' \in [id : Served, ticket : {0, 1}, released : BOOLEAN]
        /\ session' = session \/ session'.released = TRUE
    BY <1>3, <2>1
  <2>4. JogTypes'
    BY <1>1, <2>1, <2>2, <2>3, ServedStays DEF JogTypes
  <2> QED
    BY <2>1, <2>3, <2>4 DEF JogIInv, LiveIsUnrevoked
<1> QED
  BY <1>6, <1>7, <1>8

\* The publication, and the mux's own steps.
LEMMA PublishKeeps ==
    ASSUME JogIInv, PublishRefresh \/ Deliver \/ CommandAges \/ MuxSeesGeneration
    PROVE  JogIInv'
<1>1. UNCHANGED <<pad, net, session, sessions, revoked>>
  BY DEF PublishRefresh, Deliver, CommandAges, MuxSeesGeneration, padVars, webVars
<1>2. JogTypes
  BY DEF JogIInv
<1>3. CASE PublishRefresh
  <2>1. accepted # 0 /\ topic' = [id |-> accepted, revokes |-> FALSE] /\ accepted' = 0
    BY <1>3 DEF PublishRefresh, PublishSample
  <2>2. 0 \in Served
    BY <1>2, LenProperties DEF JogTypes, Served
  <2>3. JogTypes'
    BY <1>1, <1>2, <2>1, <2>2, ServedStays DEF JogTypes
  <2> QED
    BY <1>1, <2>1, <2>3 DEF JogIInv, LiveIsUnrevoked
<1>4. CASE Deliver \/ CommandAges \/ MuxSeesGeneration
  <2>1. accepted' = accepted /\ (topic' = topic \/ topic' = NoSample)
    BY <1>4 DEF Deliver, CommandAges, MuxSeesGeneration, webVars
  <2>2. JogTypes'
    BY <1>1, <1>2, <2>1, ServedStays DEF JogTypes
  <2> QED
    BY <1>1, <2>1, <2>2 DEF JogIInv, LiveIsUnrevoked
<1> QED
  BY <1>3, <1>4

\* No session is live, accepted or commanded after its revocation; any number of pages and
\* presses.
THEOREM JogInvariant == JogSpec => []JogIInv
<1>1. JogInit => JogIInv
  <2> SUFFICES ASSUME JogInit PROVE JogIInv
    OBVIOUS
  <2>1. sessions = <<>> /\ sessions \in Seq([owner : Owners, gen : JogGenerations]) /\ Len(sessions) = 0
    BY EmptySeq DEF JogInit
  <2>2. 0 \in Served
    BY <2>1 DEF Served
  <2>3. pad \in [Owners -> PadType]
    BY <2>2 DEF JogInit, NoPad, PadType
  <2> QED
    BY <2>1, <2>2, <2>3 DEF JogInit, NoJogSession, JogIInv, JogTypes, LiveIsUnrevoked
<1>2. JogIInv /\ [JogNext]_jogVars => JogIInv'
  <2> SUFFICES ASSUME JogIInv, [JogNext]_jogVars PROVE JogIInv'
    OBVIOUS
  <2>1. ASSUME NEW o \in Owners, HandDown(o) \/ HandUp(o) \/ StopKey(o) PROVE JogIInv'
    BY <2>1, PagesKeep
  <2>2. ASSUME NEW m \in net, Lost(m) \/ Answered(m) PROVE JogIInv'
    BY <2>2, AnswersKeep
  <2>3. ASSUME NEW m \in net, ServePress(m) PROVE JogIInv'
    BY <2>3, PressKeeps
  <2>4. ASSUME NEW m \in net, ServeRefresh(m) PROVE JogIInv'
    BY <2>4, RefreshKeeps
  <2>5. ASSUME NEW m \in net, ServeRelease(m) PROVE JogIInv'
    <3>1. /\ LockFree /\ RevokeSession(m.id) /\ net' = net \ {m} /\ Refused(m.owner, m)
          /\ UNCHANGED <<sessions, accepted>>
      BY <2>5 DEF ServeRelease
    <3>2. JogTypes /\ m \in MessageType /\ net \subseteq MessageType
      BY DEF JogIInv, JogTypes
    <3>3. m.owner \in Owners /\ m.id \in Served
      BY <3>2 DEF MessageType
    <3>4. pad' \in [Owners -> PadType]
      BY <3>1, <3>2, <3>3, RefusedIsPad
    <3> QED
      BY <3>1, <3>2, <3>3, <3>4, RevokeKeeps
  <2>6. ASSUME NEW m \in net, ServeStop(m) PROVE JogIInv'
    BY <2>6, StopKeeps
  <2>7. CASE UNCHANGED jogVars
    <3>1. UNCHANGED <<pad, net, webVars, topic, intakeVars, seenGen>>
      BY <2>7 DEF jogVars, webVars, intakeVars
    <3>2. pad' \in [Owners -> PadType] /\ net' \subseteq MessageType
      BY <3>1 DEF JogIInv, JogTypes
    <3> QED
      BY <3>1, <3>2, PageKeeps
  <2> QED
    BY <2>1, <2>2, <2>3, <2>4, <2>5, <2>6, <2>7, PublishKeeps DEF JogNext
<1> QED
  BY <1>1, <1>2, PTL DEF JogSpec

\* The mux's command changes in the mux's own steps only.
LEMMA MuxActs ==
    ASSUME JogNext
    PROVE  UNCHANGED intakeVars \/ Deliver \/ CommandAges \/ MuxSeesGeneration
<1>1. CASE \E o \in Owners : HandDown(o) \/ HandUp(o) \/ StopKey(o)
  BY <1>1 DEF HandDown, HandUp, StopKey, LetGo, intakeVars
<1>2. CASE \E m \in net : Lost(m) \/ Answered(m) \/ ServePress(m) \/ ServeRefresh(m)
                          \/ ServeRelease(m) \/ ServeStop(m)
  BY <1>2, Zenon DEF Lost, Answered, ServePress, ServeRefresh, ServeRelease, ServeStop
<1>3. CASE PublishRefresh
  BY <1>3 DEF PublishRefresh
<1> QED
  BY <1>1, <1>2, <1>3, Zenon DEF JogNext

\* What the mux holds is a session and whether its command is fresh.
LEMMA CommandStays ==
    ASSUME CommandIsRecord, [JogNext]_jogVars
    PROVE  CommandIsRecord'
<1>1. CASE UNCHANGED intakeVars
  BY <1>1 DEF CommandIsRecord, intakeVars
<1>2. CASE Deliver
  <2>1. UNCHANGED intakeVars \/ mux' = mux \/ mux' = NoCommand \/ mux' = [id |-> topic.id, fresh |-> TRUE]
    BY <1>2, Zenon DEF Deliver
  <2> QED
    BY <1>1, <2>1 DEF NoCommand, CommandIsRecord
<1>3. CASE CommandAges
  BY <1>3 DEF CommandAges, CommandIsRecord
<1>4. CASE MuxSeesGeneration
  BY <1>4 DEF MuxSeesGeneration, CommandIsRecord, NoCommand
<1>5. CASE UNCHANGED jogVars
  BY <1>1, <1>5 DEF jogVars, intakeVars
<1> QED
  BY <1>1, <1>2, <1>3, <1>4, <1>5, MuxActs

\* No command of a session that was released, stopped or ended by an emergency reaches the mux
\* after its revocation, whatever is delayed, reordered or lost.
THEOREM ReleasedStaysReleased == JogSpec => NothingRevives
<1> DEFINE Kept == mux'.fresh /\ mux'.id \in revoked' => mux' = mux
<1>1. JogInit => CommandIsRecord
  BY DEF JogInit, NoCommand, CommandIsRecord
<1>2. JogIInv /\ CommandIsRecord /\ [JogNext]_jogVars => [Kept]_jogVars
  <2> SUFFICES ASSUME JogIInv, CommandIsRecord, JogNext, mux' # mux, mux'.fresh
               PROVE  mux'.id \notin revoked'
    BY DEF Kept
  <2>1. ~UNCHANGED intakeVars
    BY DEF intakeVars
  <2>2. ~CommandAges
    BY DEF CommandAges, CommandIsRecord
  <2>3. ~MuxSeesGeneration
    BY DEF MuxSeesGeneration, NoCommand
  <2>4. Deliver
    BY <2>1, <2>2, <2>3, MuxActs
  <2>5. mux' = [id |-> topic.id, fresh |-> TRUE] /\ ~topic.revokes /\ topic # NoSample
    BY <2>4 DEF Deliver, NoCommand, intakeVars
  <2> QED
    BY <2>4, <2>5 DEF Deliver, webVars, JogIInv, LiveIsUnrevoked
<1> QED
  BY <1>1, <1>2, CommandStays, JogInvariant, PTL DEF JogSpec, NothingRevives
=============================================================================
