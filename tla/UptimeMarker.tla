---------------------------- MODULE UptimeMarker ----------------------------
(***************************************************************************)
(* How the supervisor tells a clean stop, a crash and a power cut apart at   *)
(* its next start: the running marker (uptime.py), which is written at every *)
(* change of the mode and removed last of all (shutdown of                   *)
(* supervisor_node.py), and the boot time of the machine.                   *)
(*                                                                         *)
(* A time is the boot it lies in.  What a set clock does to the comparison   *)
(* of two times is kept apart (clock): set back, the time in the marker is    *)
(* later than the boot after it; set ahead, earlier than its own boot.       *)
(***************************************************************************)
EXTENDS Naturals

CONSTANT MaxBoots  \* bound on boots of the machine, and on starts in each

ASSUME MarkerAssumption == MaxBoots \in Nat \ {0}

VARIABLES
  life,        \* down, starting, running, stopping, leaving
  boot,        \* how often the machine started
  bootRead,    \* /proc/stat tells when this boot began
  restartsDone,    \* how often systemd started the supervisor in this boot
  marker,      \* running.json: the boot it was written in; 0 when there is none
  clock,       \* how the clock was set since: kept, back, ahead
  verdict,     \* what the last start made of it
  ended,       \* history: how the run before ended
  marked       \* history: the marker of that run reached the disk

markerVars == <<life, boot, bootRead, restartsDone, marker, clock, verdict, ended, marked>>

MarkerTypeOK ==
  /\ life \in {"down", "starting", "running", "stopping", "leaving"}
  /\ boot \in 1..MaxBoots /\ restartsDone \in 0..MaxBoots /\ marker \in 0..boot
  /\ bootRead \in BOOLEAN /\ clock \in {"kept", "back", "ahead"}
  /\ verdict \in {"none", "service_crash", "power_loss"}
  /\ ended \in {"stopped", "left", "killed", "cut"} /\ marked \in BOOLEAN

MarkerInit ==
  /\ life = "down" /\ boot = 1 /\ bootRead \in BOOLEAN /\ restartsDone = 0
  /\ marker = 0 /\ clock = "kept"
  /\ verdict = "none" /\ ended = "stopped" /\ marked = FALSE

\* verdict(): a marker older than this boot means that the machine went down; without a boot
\* time the heavier of the two is taken.
Verdict ==
  CASE marker = 0 -> "none"
    [] marker # 0 /\ (~bootRead \/ clock = "ahead" \/ (clock = "kept" /\ marker < boot)) ->
         "power_loss"
    [] OTHER -> "service_crash"

\* write(): atomic; an OSError leaves the file as it was.
MarkWritten ==
  \/ marker' = boot /\ clock' = "kept" /\ marked' = TRUE
  \/ UNCHANGED <<marker, clock, marked>>

Starts ==
  /\ life = "down" /\ restartsDone < MaxBoots
  /\ life' = "starting" /\ restartsDone' = restartsDone + 1
  /\ UNCHANGED <<boot, bootRead, marker, clock, verdict, ended, marked>>

\* _boot(): first the verdict on the run before, then the marker of this one.
BootReport ==
  /\ life = "starting"
  /\ life' = "running"
  /\ verdict' = Verdict
  /\ \/ marker' = boot /\ clock' = "kept" /\ marked' = TRUE
     \/ marked' = FALSE /\ UNCHANGED <<marker, clock>>
  /\ UNCHANGED <<boot, bootRead, restartsDone, ended>>

\* _mark() at every change of the mode, also by a tick under way as the stop begins.
ModeChange ==
  /\ life \in {"running", "stopping"}
  /\ MarkWritten
  /\ UNCHANGED <<life, boot, bootRead, restartsDone, verdict, ended>>

\* Faulty variant: the marker goes as soon as the stop is asked for.
StopClearsFirst ==
  /\ life = "running"
  /\ life' = "stopping" /\ marker' = 0
  /\ UNCHANGED <<boot, bootRead, restartsDone, clock, verdict, ended, marked>>

\* shutdown() marks STOPPING if it has the state lock within 2 s, and goes on without it.
StopBegins ==
  /\ life = "running"
  /\ life' = "stopping" /\ MarkWritten
  /\ UNCHANGED <<boot, bootRead, restartsDone, verdict, ended>>

\* clear(), once the groups are down: an OSError leaves the marker, and nobody is told.
StopEnds ==
  /\ life = "stopping"
  /\ life' = "leaving"
  /\ \/ marker' = 0 /\ ended' = "stopped"
     \/ marker # 0 /\ ended' = "left" /\ UNCHANGED marker
  /\ UNCHANGED <<boot, bootRead, restartsDone, clock, verdict, marked>>

\* The process ends; a tick that was stuck until now may set a mode, and its marker, first.
LastStepOfLoop ==
  /\ life = "leaving"
  /\ life' = "down"
  /\ MarkWritten
  /\ ended' = IF marker' = 0 THEN ended ELSE "left"
  /\ UNCHANGED <<boot, bootRead, restartsDone, verdict>>

\* A run that dies before it wrote its marker leaves that of an earlier one, or none.
RunInterrupted(how) ==
  /\ life' = "down" /\ ended' = how
  /\ marked' = (marked /\ life # "starting")
  /\ UNCHANGED <<marker, clock, verdict>>

RunKilled ==
  /\ life \in {"starting", "running", "stopping"}
  /\ RunInterrupted("killed")
  /\ UNCHANGED <<boot, bootRead, restartsDone>>

\* The machine goes down, with the supervisor or after it.
MachineCut ==
  /\ boot < MaxBoots
  /\ boot' = boot + 1 /\ restartsDone' = 0 /\ bootRead' \in BOOLEAN
  /\ IF life \in {"down", "leaving"} /\ ended \in {"stopped", "left"}
     THEN life' = "down" /\ UNCHANGED <<marker, clock, verdict, ended, marked>>
     ELSE RunInterrupted("cut")

\* Somebody, or the time server, sets the clock past the time in the marker, or right again.
ClockSet ==
  /\ marker # 0
  /\ clock' \in {"kept", "back", "ahead"}
  /\ UNCHANGED <<life, boot, bootRead, restartsDone, marker, verdict, ended, marked>>

MarkerNext ==
  \/ Starts \/ BootReport \/ ModeChange \/ StopBegins \/ StopEnds \/ LastStepOfLoop
  \/ RunKilled \/ MachineCut \/ ClockSet

MarkerSpec == MarkerInit /\ [][MarkerNext]_markerVars

(* What a start says of the run before, whichever of its steps that ended    *)
(* at.  A stop that left no marker is not reported.  A run that died with    *)
(* its marker on the disk always is: killed in the middle of its own stop,   *)
(* too ("a kill during teardown must still read as unclean").  A power cut    *)
(* is reported as one, and never as the lesser crash, when the boot time      *)
(* cannot be read either - unless that is read and the clock was set back;   *)
(* and a crash as a crash, if it can be read and no clock was set ahead.     *)
VerdictIsTrue ==
  [][life = "starting" /\ life' = "running" =>
       /\ ended = "stopped" => verdict' = "none"
       /\ marked /\ ended \in {"killed", "cut"} => verdict' # "none"
       /\ marked /\ ended = "cut" /\ (bootRead => clock # "back") => verdict' = "power_loss"
       /\ marked /\ ended = "killed" /\ bootRead /\ clock # "ahead" =>
             verdict' = "service_crash"]_markerVars
=============================================================================
