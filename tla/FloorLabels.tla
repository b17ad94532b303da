------------------------------ MODULE FloorLabels ------------------------------
(***************************************************************************)
(* The floor-label camera and the labels recorded with it: the TCP link that  *)
(* believes a camera only once its settings have read back as expected       *)
(* (drivers/gls_link.py), the images put together from code reads (gls.py),   *)
(* gls_node that publishes them, the executor's buffer of readings and        *)
(* "Record label here" (label_record.py, glspose.py), and the label sets on   *)
(* disk, one new revision per record (amr_navigation/store.py).              *)
(*                                                                         *)
(* An image is the label and the place it was taken at and whether the        *)
(* camera's settings were the expected ones; the vehicle's map pose is its    *)
(* place, right from the start (LocalizationReadiness has how it gets so).    *)
(***************************************************************************)
EXTENDS Integers, Sequences, FiniteSets, SequencesExt

CONSTANTS LabelIds,    \* the labels on the floor, one per place
          LabelNames,  \* what an operator calls them
          FixFrames,   \* gls.fix_frames
          Stationary,  \* gls.stationary_s, in units of time
          StaleAfter,  \* gls.stale_s
          MaxSets      \* bound: revisions of the label set

ASSUME LabelsAssumption ==
  /\ FixFrames \in Nat \ {0} /\ MaxSets \in Nat
  /\ Stationary \in Nat /\ StaleAfter \in Nat

Settings == {"template", "code_selection"}  \* what must read back (expected_settings)
MaxFrames == 1          \* bound: frames waiting in the link
MaxSamples == FixFrames \* bound: no observation looks at older ones
Unknown == "unknown"

VARIABLES factory,    \* the camera lost its settings: it outputs other positions
          connected,  \* a connection is open
          verdict,    \* config_ok: of the last connection until the next one
          answered,   \* setting -> the value this connection read, Unknown before
          image,      \* the image being received (FrameAggregator), at most one: a sequence
          frames,     \* GlsLink._frames: complete frames not yet taken by the node
          believed,   \* config_ok of the snapshot gls_node's tick took, Unknown before
          samples,    \* the executor's buffer: readings since the wheels came to rest, newest last
          sampleAge,  \* units since the newest of them
          spot,      \* the label the vehicle stands over
          still,      \* units since the wheels came to rest, Moving while they turn
          floorLabels,     \* the newest label set of the active map revision
          revision,   \* its revision, 0 while there is none
          labelsOf,   \* the bundle it names
          mapStamp    \* the active bundle: that of the map revision, which may be made again

linkVars == <<factory, connected, verdict, answered, image, frames, believed>>
bufferVars == <<samples, sampleAge, spot, still>>
setVars == <<floorLabels, revision, labelsOf, mapStamp>>
labelVars == <<linkVars, bufferVars, setVars>>

VehicleMoves == -1
Unverified == [s \in Settings |-> Unknown]

LabelsInit ==
  /\ factory \in BOOLEAN /\ connected = FALSE /\ verdict = Unknown /\ answered = Unverified
  /\ image = <<>> /\ frames = <<>> /\ believed = Unknown
  /\ samples = <<>> /\ sampleAge = StaleAfter + 1
  /\ spot \in LabelIds /\ still = VehicleMoves
  /\ floorLabels = {} /\ revision = 0 /\ labelsOf = 0 /\ mapStamp = 0

-----------------------------------------------------------------------------
(* The link's thread.                                                       *)

\* Faulty variant: the verdict of the last connection is kept.
ConnectKeepsVerdict ==
  /\ ~connected /\ connected' = TRUE
  /\ answered' = Unverified
  /\ UNCHANGED <<factory, verdict, image, frames, believed, bufferVars, setVars>>

\* _run: connected, and nothing is known of the camera any more.
Connect ==
  /\ ~connected /\ connected' = TRUE
  /\ answered' = Unverified /\ verdict' = Unknown
  /\ UNCHANGED <<factory, image, frames, believed, bufferVars, setVars>>

\* The connection fails, or is closed by a camera that restarts, with its settings or
\* without: the image begun goes with the session, the verdict stays.
Drop ==
  /\ connected /\ connected' = FALSE /\ factory' \in BOOLEAN /\ image' = <<>>
  /\ UNCHANGED <<verdict, answered, frames, believed, bufferVars, setVars>>

\* _feed: a reply, with one of the expected settings. Once judged, nothing is compared again.
Reply ==
  \E s \in Settings :
    /\ connected /\ verdict = Unknown
    /\ answered' = [answered EXCEPT ![s] = IF factory THEN "other" ELSE "expected"]
    /\ UNCHANGED <<factory, connected, verdict, image, frames, believed, bufferVars, setVars>>

\* _judge, once every value has answered; or, at any time before, the verify timeout.
Judge ==
  /\ connected /\ verdict = Unknown
  /\ verdict' = IF \A s \in Settings : answered[s] = "expected" THEN "verified" ELSE "mismatch"
  /\ UNCHANGED <<factory, connected, answered, image, frames, believed, bufferVars, setVars>>

\* _deliver: a frame of a camera not verified is counted and dropped.
Delivered ==
  IF verdict # "verified" THEN frames
  ELSE LET all == frames \o image
       IN SubSeq(all, Len(all) - MaxFrames + 1, Len(all))

\* A code read of a new image closes the one before.
Image ==
  /\ connected
  /\ frames' = IF image = <<>> THEN frames ELSE Delivered
  /\ image' = <<[label |-> spot, right |-> ~factory]>>
  /\ UNCHANGED <<factory, connected, verdict, answered, believed, bufferVars, setVars>>

\* FrameAggregator.flush: nothing arrived for the frame gap.
Flush ==
  /\ connected /\ image # <<>>
  /\ frames' = Delivered /\ image' = <<>>
  /\ UNCHANGED <<factory, connected, verdict, answered, believed, bufferVars, setVars>>

-----------------------------------------------------------------------------
(* gls_node's tick, and the executor's buffer.                              *)

\* The tick takes its snapshot of the link...
Snapshot ==
  /\ believed = Unknown
  /\ believed' = IF verdict = "verified" THEN "verified" ELSE "not verified"
  /\ UNCHANGED <<factory, connected, verdict, answered, image, frames, bufferVars, setVars>>

\* ... and then the frames, each published valid only if the snapshot's settings were verified.
\* The executor keeps the valid ones; an observation looks at those since the wheels came to rest.
PublishReadings ==
  /\ believed # Unknown
  /\ LET valid == IF believed = "verified" THEN frames ELSE <<>>
         all == samples \o valid
     IN /\ samples' = IF still = VehicleMoves THEN <<>>
                      ELSE SubSeq(all, IF Len(all) > MaxSamples THEN Len(all) - MaxSamples + 1
                                       ELSE 1, Len(all))
        /\ sampleAge' = IF valid = <<>> THEN sampleAge ELSE 0
  /\ frames' = <<>> /\ believed' = Unknown
  /\ UNCHANGED <<factory, connected, verdict, answered, image, spot, still, setVars>>

\* The wheels turn, and the vehicle ends over another label (or the same).
DriveOff ==
  /\ still' = VehicleMoves /\ samples' = <<>> /\ spot' \in LabelIds
  /\ UNCHANGED <<linkVars, sampleAge, setVars>>

\* _on_wheels: the first message of wheels at rest.
Rest ==
  /\ still = VehicleMoves /\ still' = 0
  /\ UNCHANGED <<linkVars, samples, sampleAge, spot, setVars>>

\* The map revision is removed, published again under its number, as another bundle, and
\* activated: the label sets stay on disk and the layer's executor is a new one. Bound:
\* not once MaxSets revisions are recorded, after which nothing is recorded any more.
Remake ==
  /\ floorLabels # {} /\ labelsOf = mapStamp /\ revision < MaxSets
  /\ mapStamp' = mapStamp + 1
  /\ samples' = <<>> /\ sampleAge' = StaleAfter + 1 /\ still' = VehicleMoves
  /\ UNCHANGED <<linkVars, spot, floorLabels, revision, labelsOf>>

\* One unit of time: a frame waits no longer than that, neither in its image nor in the link.
Elapse ==
  /\ image = <<>> /\ frames = <<>> /\ believed = Unknown
  /\ still' = IF still \in 0..(Stationary - 1) THEN still + 1 ELSE still
  /\ sampleAge' = IF sampleAge <= StaleAfter THEN sampleAge + 1 ELSE sampleAge
  /\ <<still', sampleAge'>> # <<still, sampleAge>>
  /\ UNCHANGED <<linkVars, samples, spot, setVars>>

-----------------------------------------------------------------------------
(* Recording.                                                               *)

\* label_record.observe: at rest for long enough, the newest reading fresh, and enough of
\* them, all of one label.
Observe ==
  /\ still >= Stationary /\ sampleAge <= StaleAfter
  /\ Len(samples) >= FixFrames
  /\ \A i \in DOMAIN samples : samples[i].label = Last(samples).label

\* check_labels, of the entries' ids, names and roles.
CheckLabels(set) ==
  /\ set # {}
  /\ \A a, b \in set : a # b => a.id # b.id /\ a.name # b.name
  /\ Cardinality({e \in set : e.role = "home"}) <= 1

\* Faulty variant: an entry replaces the one of its label only.
WithLabelById(set, entry) == {e \in set : e.id # entry.id} \cup {entry}

\* with_label: a copy with the entry, in place of any of its label, of its name, or the old home.
WithLabel(set, entry) ==
  {e \in set : /\ e.id # entry.id /\ e.name # entry.name
               /\ ~(entry.role = "home" /\ e.role = "home")} \cup {entry}

\* Faulty variant: the newest set of the map revision's number, whatever bundle it names.
OldLabelsByNumber == floorLabels

\* record: the labels of the newest set, if it was made for this bundle.
OldLabels == IF labelsOf = mapStamp THEN floorLabels ELSE {}

\* save_labels: the next revision, for this bundle, unless the set is not a valid one.
SaveLabels(set) ==
  IF CheckLabels(set)
  THEN floorLabels' = set /\ revision' = revision + 1 /\ labelsOf' = mapStamp /\ UNCHANGED mapStamp
  ELSE UNCHANGED setVars

\* _srv_record_label: observe, and record it into the newest label set.
Record ==
  \E name \in LabelNames, role \in {"home", "dest"} :
    /\ Observe /\ revision < MaxSets
    /\ SaveLabels(WithLabel(OldLabels,
         [id |-> Last(samples).label, name |-> name, role |-> role, over |-> spot, on |-> mapStamp,
          right |-> \A i \in DOMAIN samples : samples[i].right]))
    /\ UNCHANGED <<linkVars, bufferVars>>

LabelsNext ==
  \/ Connect \/ Drop \/ Reply \/ Judge \/ Image \/ Flush \/ Remake
  \/ Snapshot \/ PublishReadings \/ DriveOff \/ Rest \/ Elapse \/ Record

LabelsSpec == LabelsInit /\ [][LabelsNext]_labelVars

-----------------------------------------------------------------------------
\* A label is recorded where it lies: what stands in a label set is the label under the vehicle
\* at that moment, from images of a camera whose settings were the expected ones - whatever was
\* still in the link, in the image being received or in the node's tick when the camera
\* restarted or the wheels came to rest - and was recorded on the bundle that the set names: a
\* map revision made again under its number starts afresh.
RecordedWhereItLies == \A e \in floorLabels : e.id = e.over /\ e.right /\ e.on = labelsOf

\* No label is lost: a new revision has every entry of the last one but those of its own label,
\* its own name or, for a home, the old home, unless the last one names another bundle; and a
\* record is never refused for the set it would make, however labels and names were exchanged.
NoLabelIsLost ==
  [][ /\ \A id \in LabelIds, name \in LabelNames, role \in {"home", "dest"} :
           CheckLabels(WithLabel(OldLabels, [id |-> id, name |-> name, role |-> role,
                                          over |-> id, on |-> mapStamp, right |-> TRUE]))
      /\ revision' # revision /\ labelsOf = mapStamp =>
           \E new \in floorLabels' : \A e \in floorLabels :
             e \in floorLabels' \/ e.id = new.id \/ e.name = new.name
                           \/ (e.role = "home" /\ new.role = "home") ]_labelVars
=============================================================================
