----------------------------- MODULE SurveySession -----------------------------
(***************************************************************************)
(* The mapping session: a survey is started at a mark, driven, reviewed on    *)
(* its return to the mark and saved as one map revision.                      *)
(*                                                                           *)
(* The four services share one callback group, so one runs at a time; a save  *)
(* calls slam_toolbox twice and waits, and the other callbacks (scans, wheel   *)
(* states, the one-second timer) run meanwhile.  slam_toolbox's pause service *)
(* is a toggle, and a call that was given up on may still be executed.        *)
(***************************************************************************)
EXTENDS Integers

CONSTANTS
  MaxSurveys,   \* surveys started
  MaxLate       \* toggles given up on and still to be executed

VARIABLES
  survey,     \* _state
  began,      \* surveys started so far; the last one is the one under way
  reviewed,   \* the survey that _review is of, 0 for none
  saved,      \* the surveys a revision was published of
  step,       \* where the running save is: "" when none runs
  tracked,    \* _slam_paused, what the session takes slam_toolbox to be
  paused,     \* slam_toolbox does not take measurements
  late,       \* toggles that slam_toolbox has not executed yet
  doubted,    \* some call of the pause service was not answered
  hung     \* _slam_stalled_s > 0

surveyVars ==
  <<survey, began, reviewed, saved, step, tracked, paused, late, doubted, hung>>

SurveyInit ==
  /\ survey = "IDLE" /\ began = 0 /\ reviewed = 0 /\ saved = {} /\ step = ""
  /\ tracked = FALSE /\ paused = FALSE /\ late = 0 /\ doubted = FALSE
  /\ hung = FALSE

\* A stalled SLAM is never ready; fresh sensors, standing wheels and a pose are the vehicle's.
Ready == ~hung

-----------------------------------------------------------------------------
(* Services *)

\* A new survey from the mark the vehicle stands at, with no review and nothing saved yet.
Start ==
  /\ step = "" /\ survey = "IDLE" /\ Ready
  /\ began < MaxSurveys
  /\ began' = began + 1
  /\ reviewed' = 0
  /\ survey' = "MAPPING"
  /\ UNCHANGED <<saved, step, tracked, paused, late, doubted, hung>>

\* Back at the mark: the closure is measured, again after every further loop.
Returned ==
  /\ step = "" /\ survey \in {"MAPPING", "RETURN_REVIEW"} /\ Ready
  /\ reviewed' = began
  /\ survey' = "RETURN_REVIEW"
  /\ UNCHANGED <<began, saved, step, tracked, paused, late, doubted, hung>>

AbortSurvey ==
  /\ step = "" /\ survey # "SAVING"
  /\ reviewed' = 0
  /\ survey' = "IDLE"
  /\ UNCHANGED <<began, saved, step, tracked, paused, late, doubted, hung>>

\* A save under the map's writer lock: allocation and stage are its first step.
BeginSave ==
  /\ step = "" /\ survey = "RETURN_REVIEW" /\ Ready
  /\ survey' = "SAVING"
  /\ step' = "stage"
  /\ UNCHANGED <<began, reviewed, saved, tracked, paused, late, doubted, hung>>

-----------------------------------------------------------------------------
(* The save *)

SaveFails ==
  /\ step' = "resume"
  /\ UNCHANGED <<survey, began, reviewed, saved, tracked, paused, late, doubted, hung>>

\* The pause service is called, unless SLAM is taken to be in that state already: it toggles and
\* answers, it is not there, or the call is given up on and may be executed yet.
PauseSlam(want, then, otherwise) ==
  \/ /\ tracked = want
     /\ step' = then
     /\ UNCHANGED <<tracked, paused, late, doubted>>
  \/ /\ tracked # want
     /\ paused' = ~paused
     /\ tracked' = want
     /\ step' = then
     /\ UNCHANGED <<late, doubted>>
  \/ /\ tracked # want
     /\ late' \in {late, late + 1} /\ late' <= MaxLate
     /\ doubted' = TRUE
     /\ step' = otherwise
     /\ UNCHANGED <<tracked, paused>>

\* The writer lock, the revision's number and a stage: an unwritable directory fails here.
Stage ==
  /\ step = "stage"
  /\ \/ step' = "pause"
        /\ UNCHANGED <<survey, began, reviewed, saved, tracked, paused, late, doubted, hung>>
     \/ SaveFails

Pause ==
  /\ step = "pause"
  /\ PauseSlam(TRUE, "serialize", "resume")
  /\ UNCHANGED <<survey, began, reviewed, saved, hung>>

\* The pose graph is serialised into the stage and the last map taken: it may fail or time out.
Serialize ==
  /\ step = "serialize"
  /\ \/ step' = "publish"
        /\ UNCHANGED <<survey, began, reviewed, saved, tracked, paused, late, doubted, hung>>
     \/ SaveFails

\* Bundle staged, verified and renamed into place; HOME's label set after it costs the map nothing.
PublishMap ==
  /\ step = "publish"
  /\ \/ /\ saved' = saved \cup {reviewed}
        /\ survey' = "SAVED"
        /\ step' = ""
        /\ UNCHANGED <<began, reviewed, tracked, paused, late, doubted, hung>>
     \/ SaveFails

\* Faulty variant: SLAM stays as the failed save left it.
ReviewAgainOnly ==
  /\ step = "resume"
  /\ step' = ""
  /\ survey' = "RETURN_REVIEW"
  /\ UNCHANGED <<began, reviewed, saved, tracked, paused, late, doubted, hung>>

\* Any failure keeps the draft, resumes SLAM if that can be done, and goes back to the review.
ReviewAgain ==
  /\ step = "resume"
  /\ PauseSlam(FALSE, "", "")
  /\ survey' = "RETURN_REVIEW"
  /\ UNCHANGED <<began, reviewed, saved, hung>>

-----------------------------------------------------------------------------
(* slam_toolbox and the timer *)

\* A toggle that nobody waits for any more is executed, or lost.
LateToggle ==
  /\ late > 0
  /\ late' = late - 1
  /\ paused' \in BOOLEAN
  /\ UNCHANGED <<survey, began, reviewed, saved, step, tracked, doubted, hung>>

\* Once a second: only a survey being driven is watched, for scans that SLAM does not consume.
CheckSlam ==
  /\ hung' \in (IF survey = "MAPPING" THEN BOOLEAN ELSE {FALSE})
  /\ UNCHANGED <<survey, began, reviewed, saved, step, tracked, paused, late, doubted>>

SaveSteps == Stage \/ Pause \/ Serialize \/ PublishMap \/ ReviewAgain

SurveyNext ==
  \/ Start \/ Returned \/ AbortSurvey \/ BeginSave
  \/ SaveSteps
  \/ LateToggle \/ CheckSlam

\* Every call of the save has its timeout.
SurveySpec == SurveyInit /\ [][SurveyNext]_surveyVars /\ WF_surveyVars(SaveSteps)

-----------------------------------------------------------------------------
(* Properties *)

\* Before the first map is saved, and as long as slam_toolbox answered, a survey that is driven or
\* reviewed is recorded: a failed save has resumed SLAM ("let the operator keep surveying").
SurveyIsRecorded ==
  survey \in {"MAPPING", "RETURN_REVIEW"} /\ saved = {} /\ ~doubted => ~paused

=============================================================================
