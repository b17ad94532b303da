------------------------------- MODULE PanelImage -------------------------------
(***************************************************************************)
(* The operator panel of the differential vehicle, from the images of the     *)
(* digital inputs to the frame the mux and the executor get: the selector,    *)
(* the jog pendant and the destination buttons (amr_base/panel_io.py,         *)
(* agv_core/panel.py).  The E-stop, Reset and Start are in EmergencyStop.     *)
(*                                                                           *)
(* A scan is one acquisition.  The inputs change freely between two scans.    *)
(* The panel node also ticks on an image it has evaluated, and repeats the    *)
(* frame without its edges.                                                   *)
(*                                                                           *)
(* Not modelled: the arm switch, debounced as the pendant is, and the opposing *)
(* directions of the pendant that cancel each other.                          *)
(***************************************************************************)
EXTENDS Naturals, FiniteSets

CONSTANTS
  DebounceScans,   \* debounce_scans
  HoldScans,       \* coincidence_hold_scans
  Directions,      \* directions of the pendant
  Destinations     \* destination buttons

ASSUME PanelAssumption ==
  /\ DebounceScans \in Nat \ {0} /\ HoldScans \in Nat \ {0}
  /\ IsFiniteSet(Destinations)
  /\ "none" \notin Directions \cup Destinations

VARIABLES
  selectorScan,    \* PanelScan: [image, count, believed], the images AUTO or MANUAL
  pendantScan,     \* DebouncedLevels of the pendant: a direction, or "none"
  buttonScan,      \* DebouncedLevels of the destination buttons: a set of them
  buttonsBefore,   \* ButtonEdges._prev
  withheld,        \* _held: the selector and the direction withheld
  withheldFor,     \* _held_for
  shown,           \* _last_mode and _last_pendant
  panelFrame,      \* the last PanelFrame
  same,            \* history: scans the believed selector and pendant have been what they are
  apart,           \* history: the selector and the pendant were not believed changed in one scan
  released         \* history: destination buttons believed up since the image is trusted

imageVars == <<selectorScan, pendantScan, buttonScan, buttonsBefore, withheld, withheldFor,
               shown, panelFrame, same, apart, released>>

Selector == {"auto", "manual"}
Nothing == "nothing"           \* not believed, not withheld, not shown
NoButtons == {"nothing"}
Blank(image) == [image |-> image, count |-> 0, believed |-> image]
Invalid == [valid |-> FALSE, mode |-> "manual", pendant |-> "none", destination |-> "none"]

ImageInit ==
  /\ selectorScan = Blank(Nothing) /\ pendantScan = Blank(Nothing) /\ buttonScan = Blank(NoButtons)
  /\ buttonsBefore = NoButtons
  /\ withheld = <<>> /\ withheldFor = 0
  /\ shown = [mode |-> Nothing, pendant |-> "none"]
  /\ panelFrame = Invalid
  /\ same = 0 /\ apart = TRUE /\ released = {}

-----------------------------------------------------------------------------
(* Debouncing *)

\* An image is believed when it has read the same on DebounceScans scans in a row; other contacts
\* of the same image may have changed.
Debounced(scan, image, other) ==
  LET seen == IF image # scan.image \/ other THEN 1
              ELSE IF scan.count < DebounceScans THEN scan.count + 1 ELSE scan.count
  IN [image |-> image, count |-> seen,
      believed |-> IF seen >= DebounceScans THEN image ELSE scan.believed]

\* The destination button whose press counts: the only one that went down, and the only one down.
SinglePress(before, now) ==
  IF before # NoButtons /\ Cardinality(now) = 1 /\ now \subseteq Destinations \ before
    THEN CHOOSE d \in now : TRUE
    ELSE "none"

-----------------------------------------------------------------------------
(* The guard against the selector and the pendant changing in one scan *)

ModeShown(mode) == IF shown.mode = Nothing THEN mode ELSE shown.mode
Held(direction) == IF direction = Nothing THEN "none" ELSE direction

\* Faulty variant: only a direction pressed over another one is suspect.
SuspectOverAnother(mode, pendant) ==
  /\ mode # ModeShown(mode)
  /\ pendant # "none" /\ pendant # shown.pendant /\ shown.pendant # "none"

\* The selector and the pendant changed, and the pendant is held: no hand does that in one scan.
Suspect(mode, pendant) ==
  /\ mode # ModeShown(mode)
  /\ pendant # "none" /\ pendant # shown.pendant

Withhold(mode, pendant) ==
  /\ withheld = <<>> /\ Suspect(mode, pendant)
  /\ withheld' = <<mode, pendant>> /\ withheldFor' = 1
  /\ shown' = [mode |-> shown.mode, pendant |-> "none"]

\* Still the same image, and not yet for long enough.
KeepWithholding(mode, pendant) ==
  /\ withheld = <<mode, pendant>> /\ withheldFor + 1 < HoldScans
  /\ withheldFor' = withheldFor + 1
  /\ shown' = [mode |-> shown.mode, pendant |-> "none"]
  /\ UNCHANGED withheld

\* Nothing suspect, persisted, or another image: it reverted or moved on.
Accept(mode, pendant) ==
  /\ IF withheld = <<>> THEN ~Suspect(mode, pendant)
     ELSE withheld # <<mode, pendant>> \/ withheldFor + 1 >= HoldScans
  /\ withheld' = <<>> /\ withheldFor' = 0
  /\ shown' = [mode |-> mode, pendant |-> pendant]

-----------------------------------------------------------------------------
(* The node *)

\* One acquisition that is fresh: PanelAdapter.tick.
Acquire(mode, pendant, buttons, other) ==
  LET valid == selectorScan'.believed # Nothing
      direction == Held(pendantScan'.believed)
      moved == selectorScan'.believed # selectorScan.believed
      pushed == direction # Held(pendantScan.believed)
  IN
  /\ selectorScan' = Debounced(selectorScan, mode, other)
  /\ pendantScan' = Debounced(pendantScan, pendant, FALSE)
  /\ buttonScan' = Debounced(buttonScan, buttons, FALSE)
  /\ buttonsBefore' = buttonScan'.believed
  /\ IF valid
       THEN \/ Withhold(selectorScan'.believed, direction)
            \/ KeepWithholding(selectorScan'.believed, direction)
            \/ Accept(selectorScan'.believed, direction)
       ELSE /\ withheld' = <<>> /\ withheldFor' = 0
            /\ shown' = [mode |-> shown.mode, pendant |-> direction]
  /\ panelFrame' = IF valid
       THEN [valid |-> TRUE,
             mode |-> shown'.mode,
             pendant |-> shown'.pendant,
             destination |-> SinglePress(buttonsBefore, buttonScan'.believed)]
       ELSE [Invalid EXCEPT !.pendant = shown'.pendant]
  /\ same' = IF moved \/ pushed THEN 1 ELSE IF same < HoldScans THEN same + 1 ELSE same
  /\ apart' = IF moved \/ pushed THEN ~(moved /\ pushed) ELSE apart
  /\ released' = IF buttonScan'.believed = NoButtons THEN {}
                 ELSE (released \cup (Destinations \ buttonScan'.believed)) \ {panelFrame'.destination}

\* A link that is silent or an image that is old: every baseline is dropped.
Lose ==
  /\ selectorScan' = Blank(Nothing) /\ pendantScan' = Blank(Nothing) /\ buttonScan' = Blank(NoButtons)
  /\ buttonsBefore' = NoButtons
  /\ withheld' = <<>> /\ withheldFor' = 0
  /\ shown' = [shown EXCEPT !.pendant = "none"]
  /\ panelFrame' = Invalid
  /\ same' = 0 /\ apart' = TRUE /\ released' = {}

\* A tick on an image already evaluated: the frame again, its edges spent.
RepeatFrame ==
  /\ panelFrame' = [panelFrame EXCEPT !.destination = "none"]
  /\ UNCHANGED <<selectorScan, pendantScan, buttonScan, buttonsBefore, withheld, withheldFor,
                 shown, same, apart, released>>

ImageNext ==
  \/ \E mode \in Selector, pendant \in Directions \cup {"none"}, buttons \in SUBSET Destinations :
        \E other \in BOOLEAN : Acquire(mode, pendant, buttons, other)
  \/ Lose
  \/ RepeatFrame

ImageSpec == ImageInit /\ [][ImageNext]_imageVars

-----------------------------------------------------------------------------
(* Properties *)

ShownTogether ==
  /\ panelFrame.valid /\ panelFrame'.valid
  /\ panelFrame'.mode # panelFrame.mode
  /\ panelFrame'.pendant \notin {"none", panelFrame.pendant}

\* A selector and a pendant that changed in one scan reach the mux only when they have stayed for
\* HoldScans scans; until then it is shown the selector of before and no direction.
PhantomIsWithheld == [][ShownTogether => apart' \/ same' >= HoldScans]_imageVars

\* A destination counts once for each time its button went down alone: it was believed up since the
\* image is trusted and since it last counted, and no other is down.
OnePressOneDestination ==
  [][panelFrame'.destination # "none" /\ panelFrame'.destination # panelFrame.destination
        => /\ panelFrame'.destination \in released
           /\ buttonScan'.believed = {panelFrame'.destination}]_imageVars
=============================================================================
