-------------------------- MODULE LocalizationReadiness --------------------------
(***************************************************************************)
(* Whether the estimated pose may be trusted: readiness.Readiness as          *)
(* localization_monitor_node feeds it (amr_localization/readiness.py,         *)
(* localization_monitor_node.py).                                             *)
(*                                                                           *)
(* Time is counted in ticks of the monitor.  Between two ticks the monitor    *)
(* hears AMCL, the comparison of a scan with the map, the sensors, the drives, *)
(* the operator and a new map, in any order; each of them may also be silent, *)
(* and what was measured before the current initial pose may still arrive.    *)
(*                                                                           *)
(* Not modelled: the numbers behind "good" - a covariance is good, wide or     *)
(* not a number; a comparison is good, poor, long (beams pass through walls)  *)
(* or not a number - and the request to AMCL for an update at standstill.     *)
(***************************************************************************)
EXTENDS Integers

CONSTANTS
  Streams,     \* the streams whose age counts: scan, wheels, imu, tf
  Graced,      \* of them, those a READY pose waits for a little longer
  AgeLimit,    \* age_limits
  Grace,       \* wheels_grace_s, imu_grace_s
  AmclAge,     \* amcl_age_max_s
  MatchAge,    \* match_age_max_s
  BadHold,     \* cov_hold_s, match_hold_s
  Settle,      \* settle_s
  Snap,        \* initial_grace_s
  DrivesAge    \* drives_age_limit_s

ASSUME ReadinessAssumption ==
  /\ "wheels" \in Streams /\ Graced \subseteq Streams
  /\ {AgeLimit, Grace, AmclAge, MatchAge, BadHold, Settle, Snap, DrivesAge} \subseteq Nat

VARIABLES
  fix,           \* UNLOCALIZED, CHECKING, READY or LOST
  canConfirm,    \* can_confirm
  cov, covAge,   \* the covariance and the ticks since it was heard
  covBad,        \* ticks since the covariance was first found wide while READY, or Never
  match, matchAge,   \* the comparison and the ticks since it succeeded
  matchBad,      \* ticks since a comparison was first long, or Never
  steady,        \* ticks since everything was found in order, or Never
  sincePose,     \* ticks since the initial pose, or Never
  tracked,       \* map->odom was read in this attempt
  age,           \* of each stream: ticks since it was heard
  torqueOff,     \* ticks since the drives last said that their torque is off, or Never
  torque,        \* the drives have torque
  unfed,         \* history: ticks the drives have had torque without wheel feedback
  stale          \* history: evidence in use that was measured before the initial pose

estimateVars == <<cov, covAge, match, matchAge, matchBad>>
attemptVars == <<fix, canConfirm, covBad, steady, sincePose, tracked>>
feedVars == <<age, torqueOff, torque, unfed>>
readinessVars == <<estimateVars, attemptVars, feedVars, stale>>

Never == -1
Older(n, bound) == IF n = Never \/ n > bound THEN n ELSE n + 1
LongSilent == AgeLimit + Grace + 1

ReadinessInit ==
  /\ fix = "UNLOCALIZED" /\ canConfirm = FALSE
  /\ cov = "none" /\ covAge = Never /\ covBad = Never
  /\ match = "none" /\ matchAge = Never /\ matchBad = Never
  /\ steady = Never /\ sincePose = Never /\ tracked = FALSE
  /\ age = [s \in Streams |-> LongSilent]
  /\ torqueOff = Never /\ torque \in BOOLEAN
  /\ unfed = 0
  /\ stale = {}

-----------------------------------------------------------------------------
(* Readiness: helpers *)

\* _lose
Lost ==
  /\ fix' = "LOST" /\ canConfirm' = FALSE

\* _clear_evidence: covariance, comparison and corrections belong to one attempt.
ClearEvidence ==
  /\ cov' = "none" /\ covAge' = Never /\ covBad' = Never
  /\ match' = "none" /\ matchAge' = Never /\ matchBad' = Never
  /\ steady' = Never /\ tracked' = FALSE
  /\ stale' = {}

-----------------------------------------------------------------------------
(* What the monitor hears *)

\* on_initialpose
InitialPose ==
  /\ fix' = "CHECKING" /\ canConfirm' = FALSE
  /\ ClearEvidence
  /\ sincePose' = 0
  /\ UNCHANGED feedVars

\* reset, by the operator or because another map was loaded.
Reset ==
  /\ fix' = "UNLOCALIZED" /\ canConfirm' = FALSE
  /\ ClearEvidence
  /\ sincePose' = Never
  /\ UNCHANGED feedVars

\* The operator says that the scans align with fixed structure.
Confirm ==
  /\ fix = "CHECKING" /\ canConfirm
  /\ fix' = "READY"
  /\ UNCHANGED <<canConfirm, covBad, steady, sincePose, tracked, estimateVars, feedVars, stale>>

\* Faulty variant: a sample counts by its arrival, whenever it was measured.
TakenByArrival(early) == TRUE

\* Measured before the current initial pose: of an earlier attempt, and ignored.
Taken(early) == ~early \/ sincePose = Never

\* What is in use of samples measured too early.
Stamped(what, early) == IF early /\ fix # "UNLOCALIZED" THEN stale \cup {what} ELSE stale \ {what}

\* on_amcl_pose: what is not a number is no evidence, and takes the place of what was.
AmclPose(value, early) ==
  /\ Taken(early)
  /\ cov' = IF value = "nan" THEN "none" ELSE value
  /\ covAge' = IF value = "nan" THEN Never ELSE 0
  /\ stale' = IF value = "nan" THEN stale \ {"cov"} ELSE Stamped("cov", early)
  /\ UNCHANGED <<match, matchAge, matchBad, attemptVars, feedVars>>

\* on_scan_match: the comparison of one released scan with the map.
ScanMatch(value, early) ==
  /\ Taken(early)
  /\ match' = IF value = "nan" THEN "none" ELSE value
  /\ matchAge' = IF value = "nan" THEN Never ELSE 0
  /\ stale' = IF value = "nan" THEN stale \ {"match"} ELSE Stamped("match", early)
  /\ matchBad' = CASE value = "nan" -> matchBad
                   [] value = "long" /\ matchBad = Never -> 0
                   [] value = "long" /\ matchBad # Never -> matchBad
                   [] OTHER -> Never
  /\ IF value = "long" /\ matchBad >= BadHold /\ fix = "READY"
       THEN Lost
       ELSE UNCHANGED <<fix, canConfirm>>
  /\ UNCHANGED <<cov, covAge, covBad, steady, sincePose, tracked, feedVars>>

\* A sample of a stream; of the wheels only one that both drives vouch for.
Hear(s) ==
  /\ s # "tf"
  /\ age' = [age EXCEPT ![s] = 0]
  /\ unfed' = IF s = "wheels" THEN 0 ELSE unfed
  /\ UNCHANGED <<estimateVars, attemptVars, torqueOff, torque, stale>>

\* The safety chain takes the torque away or gives it back.
TorqueChanges ==
  /\ torque' = ~torque
  /\ unfed' = 0
  /\ UNCHANGED <<estimateVars, attemptVars, age, torqueOff, stale>>

\* _on_drives; a status may also be lost.
DriveStatus ==
  /\ torqueOff' = IF torque THEN Never ELSE 0
  /\ UNCHANGED <<estimateVars, attemptVars, age, torque, unfed, stale>>

-----------------------------------------------------------------------------
(* The tick *)

\* The wheels are excused while the drives say that their torque is off.
Excused == IF torqueOff' # Never /\ torqueOff' <= DrivesAge THEN {"wheels"} ELSE {}

Silent == {s \in Streams \ Excused : age'[s] > AgeLimit}
SilentTooLong == {s \in Silent : s \in Graced => age'[s] > AgeLimit + Grace}

\* A correction at the robot beyond the trigger; right after the initial pose it is expected.
Jumps(frame) == frame = "corrected" /\ tracked /\ ~(sincePose' # Never /\ sincePose' < Snap)

CovOk == cov = "good"
MatchRecent == matchAge' # Never /\ matchAge' <= MatchAge

\* READY is held on continuing evidence.
EvaluateReady ==
  /\ covBad' = IF SilentTooLong # {} \/ ~MatchRecent THEN covBad
               ELSE IF CovOk THEN Never
               ELSE IF covBad = Never THEN 0 ELSE Older(covBad, BadHold)
  /\ IF SilentTooLong # {} \/ ~MatchRecent \/ (~CovOk /\ covBad' >= BadHold /\ covBad # Never)
       THEN Lost
       ELSE UNCHANGED <<fix, canConfirm>>

InOrder ==
  /\ Silent = {}
  /\ covAge' # Never /\ covAge' <= AmclAge /\ CovOk
  /\ MatchRecent /\ match = "good"

\* A pose that is checked: everything has to be in order for Settle before it can be confirmed.
EvaluateChecking(jump) ==
  /\ steady' = IF ~InOrder THEN Never
               ELSE IF jump \/ steady = Never THEN 0 ELSE Older(steady, Settle)
  /\ canConfirm' = (InOrder /\ steady' >= Settle)
  /\ UNCHANGED <<fix, covBad>>

\* Time passes; map->odom is read - there is none, the one of before, a new one, or a new one that
\* moves the robot beyond the trigger; then the rules are applied.
Tick(frame) ==
  LET jump == Jumps(frame) IN
  /\ covAge' = Older(covAge, AmclAge) /\ matchAge' = Older(matchAge, MatchAge)
  /\ matchBad' = Older(matchBad, BadHold)
  /\ sincePose' = Older(sincePose, Snap)
  /\ torqueOff' = Older(torqueOff, DrivesAge)
  /\ age' = [s \in Streams |-> IF s = "tf" /\ frame \in {"new", "corrected"} THEN 0
                           ELSE Older(age[s], AgeLimit + Grace)]
  /\ unfed' = IF torque THEN Older(unfed, DrivesAge + LongSilent) ELSE 0
  /\ tracked' = (tracked \/ frame # "none")
  /\ CASE fix = "READY" /\ jump -> Lost /\ steady' = Never /\ UNCHANGED covBad
       [] fix = "READY" /\ ~jump -> EvaluateReady /\ UNCHANGED steady
       [] fix = "CHECKING" -> EvaluateChecking(jump)
       [] fix \in {"UNLOCALIZED", "LOST"} ->
            /\ canConfirm' = FALSE /\ steady' = (IF jump THEN Never ELSE steady)
            /\ UNCHANGED <<fix, covBad>>
  /\ UNCHANGED <<cov, match, torque, stale>>

ReadinessNext ==
  \/ InitialPose \/ Reset \/ Confirm
  \/ \E value \in {"good", "wide", "nan"}, early \in BOOLEAN : AmclPose(value, early)
  \/ \E value \in {"good", "poor", "long", "nan"}, early \in BOOLEAN : ScanMatch(value, early)
  \/ \E s \in Streams : Hear(s)
  \/ TorqueChanges \/ DriveStatus
  \/ \E frame \in {"none", "old", "new", "corrected"} : Tick(frame)

ReadinessSpec == ReadinessInit /\ [][ReadinessNext]_readinessVars

-----------------------------------------------------------------------------
(* Properties *)

\* What a pose is checked and trusted by was measured after it was given: a late sample of AMCL or
\* of the comparison, or one left over from the attempt before, is never in use.
EvidenceIsOfThisPose == fix \in {"CHECKING", "READY"} => stale = {}

\* A trusted pose follows the wheels: drives with torque and no wheel feedback end READY, at the
\* latest when the last word of a safety stop, or the grace of a silent stream, has run out.
ReadyFollowsWheels ==
  fix = "READY" => unfed <= (IF DrivesAge + 1 > AgeLimit + Grace THEN DrivesAge + 1
                             ELSE AgeLimit + Grace)

\* READY is earned and is lost: by evidence of this pose, and with the wheels.
ReadyIsEarned == EvidenceIsOfThisPose /\ ReadyFollowsWheels
=============================================================================
