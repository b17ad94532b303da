-------------------------------- MODULE QrPanel --------------------------------
(***************************************************************************)
(* The operator panel of the steering vehicle: two push buttons and a USB     *)
(* keypad, turned into a virtual AUTO/MANUAL selector with Start and Reset    *)
(* edges (amr_base/qr_panel.py, qr_keypad.py).                                *)
(*                                                                           *)
(* The operator presses and releases buttons and keys at any time.  A tick    *)
(* takes one image of the inputs, trusted or not, and the keypad's levels,     *)
(* and makes one panel frame.  The keypad's reader thread may stop for longer *)
(* than STALE_S, which reads as "nothing held", and go on.                    *)
(*                                                                           *)
(* Not modelled: what passes through - the pendant, the direction keys, the   *)
(* level of the E-stop - and keys with nothing to do.                         *)
(***************************************************************************)
EXTENDS Integers

CONSTANTS
  Scans,       \* debounce_scans
  Holds        \* values of auto_hold_s, in ticks

VARIABLES
  button,      \* the push buttons held down: START, STOP
  held,        \* panel keys held on the keypad: "g" is START, "enter" is STOP
  latch,       \* the keypad's E-stop
  toggled,     \* Q was pressed since the last tick
  alive,       \* the reader's heartbeat is fresh
  candidate, count, stable,   \* DebouncedLevels
  hold,        \* auto_hold_s
  auto,        \* the selector
  before,      \* the levels of the tick before, or NoImage
  down,        \* ticks since START went down in MANUAL, or Up
  spent,       \* _start_consumed
  edges,       \* the edges of the last QrPanelFrame: "start", "reset"
  unspent,       \* history: buttons and keys pressed in a trusted image and not acted on since
  lapsed       \* history: the reader stopped under a held key, no tick without a key since

keypadVars == <<held, latch, toggled, alive>>
selectorVars == <<candidate, count, stable, auto, before, down, spent, edges>>
panelVars == <<button, keypadVars, hold, selectorVars, unspent, lapsed>>

Buttons == {"start", "stop"}
KeyOf == [start |-> "g", stop |-> "enter"]
NoImage == {"untrusted"}
Up == -1
LongestHold == CHOOSE h \in Holds : \A k \in Holds : k <= h

PanelInit ==
  /\ button = {}
  /\ held = {} /\ latch = FALSE /\ toggled = FALSE /\ alive = FALSE
  /\ candidate = NoImage /\ count = 0 /\ stable = NoImage
  /\ hold \in Holds
  /\ auto = FALSE /\ before = NoImage /\ down = Up /\ spent = FALSE /\ edges = {}
  /\ unspent = {} /\ lapsed = FALSE

-----------------------------------------------------------------------------
(* The operator and the keypad's reader *)

Press(b) ==
  /\ b \notin button
  /\ button' = button \cup {b}
  /\ unspent' = unspent \cup {b}
  /\ UNCHANGED <<keypadVars, hold, selectorVars, lapsed>>

Release(b) ==
  /\ b \in button
  /\ button' = button \ {b}
  /\ UNCHANGED <<keypadVars, hold, selectorVars, unspent, lapsed>>

\* G or ENTER goes down; an ENTER that releases the E latch is never held as STOP.
KeyDown(b) ==
  /\ KeyOf[b] \notin held
  /\ IF b = "stop" /\ latch
       THEN latch' = FALSE /\ UNCHANGED <<held, unspent>>
       ELSE held' = held \cup {KeyOf[b]} /\ unspent' = unspent \cup {KeyOf[b]} /\ UNCHANGED latch
  /\ alive' = TRUE
  /\ UNCHANGED <<button, toggled, hold, selectorVars, lapsed>>

\* A key goes up, or its device is gone and everything it held with it.
KeysUp(keys) ==
  /\ keys # {} /\ keys \subseteq held
  /\ held' = held \ keys
  /\ alive' = TRUE
  /\ UNCHANGED <<button, latch, toggled, hold, selectorVars, unspent, lapsed>>

KeyQ ==
  /\ ~toggled
  /\ toggled' = TRUE
  /\ alive' = TRUE
  /\ UNCHANGED <<button, held, latch, hold, selectorVars, unspent, lapsed>>

KeyE ==
  /\ latch' = TRUE
  /\ alive' = TRUE
  /\ UNCHANGED <<button, held, toggled, hold, selectorVars, unspent, lapsed>>

\* The reader makes no progress for longer than STALE_S, or is back.
ReaderStops ==
  /\ alive
  /\ alive' = FALSE
  /\ lapsed' = (lapsed \/ held # {})
  /\ UNCHANGED <<button, held, latch, toggled, hold, selectorVars, unspent>>

ReaderGoesOn ==
  /\ ~alive
  /\ alive' = TRUE
  /\ UNCHANGED <<button, held, latch, toggled, hold, selectorVars, unspent, lapsed>>

-----------------------------------------------------------------------------
(* A tick *)

\* The levels believed after an image, or NoImage: it must read the same Scans times.  The E-stop
\* is part of the image: a contact that moved starts the count again.
Scan(trusted, moved) ==
  IF ~trusted
    THEN candidate' = NoImage /\ count' = 0 /\ stable' = NoImage
    ELSE /\ candidate' = button
         /\ count' = IF button # candidate \/ moved THEN 1
                     ELSE IF count < Scans THEN count + 1 ELSE count
         /\ stable' = IF count' >= Scans THEN button ELSE stable

\* START or STOP as the selector sees it: the button, or the keypad's key while its reader lives.
Level(b) == b \in stable' \/ (alive /\ KeyOf[b] \in held)
Levels == {b \in Buttons : Level(b)}

\* What the selector makes of the levels: [auto, start, reset, down, spent].
Same == [auto |-> auto, start |-> FALSE, reset |-> FALSE, down |-> down, spent |-> spent]

StopRises ==
  [Same EXCEPT !.auto = FALSE, !.reset = ~auto, !.down = Up, !.spent = Level("start")]

StartInAuto(rises) == [Same EXCEPT !.start = rises]

\* Without a hold time a press in MANUAL is the selector.
StartInManual(rises) == IF rises THEN [Same EXCEPT !.auto = TRUE, !.spent = TRUE] ELSE Same

\* With one, START held that long is the selector and a shorter press a Start edge on release.
StartHeld(rises, falls) ==
  LET since == IF rises THEN 0 ELSE IF down # Up /\ down < LongestHold THEN down + 1 ELSE down
      used == spent /\ ~rises
      counts == ~used /\ since # Up
  IN IF falls
       THEN [Same EXCEPT !.start = counts, !.down = Up, !.spent = FALSE]
       ELSE IF Level("start") /\ counts /\ since >= hold
              THEN [Same EXCEPT !.auto = TRUE, !.down = since, !.spent = TRUE]
              ELSE [Same EXCEPT !.down = since, !.spent = used]

\* Faulty variant: the first trusted image is compared with an empty panel.
NoBaseline ==
  LET was == IF before = NoImage THEN {} ELSE before
      rises == Level("start") /\ "start" \notin was
  IN CASE Level("stop") /\ "stop" \notin was -> StopRises
       [] Level("stop") /\ "stop" \in was -> Same
       [] ~Level("stop") /\ auto -> StartInAuto(rises)
       [] ~Level("stop") /\ ~auto /\ hold = 0 -> StartInManual(rises)
       [] OTHER -> StartHeld(rises, "start" \in was /\ ~Level("start"))

\* The first trusted image is a baseline; STOP wins over START.
Buttonwise ==
  IF before = NoImage THEN [Same EXCEPT !.spent = Level("start")]
  ELSE LET rises == Level("start") /\ "start" \notin before
       IN CASE Level("stop") /\ "stop" \notin before -> StopRises
            [] Level("stop") /\ "stop" \in before -> Same
            [] ~Level("stop") /\ auto -> StartInAuto(rises)
            [] ~Level("stop") /\ ~auto /\ hold = 0 -> StartInManual(rises)
            [] OTHER -> StartHeld(rises, "start" \in before /\ ~Level("start"))

\* A START that is up in AUTO is ready for the next press.
Readied(s) == IF s.auto /\ ~Level("start") THEN [s EXCEPT !.spent = FALSE] ELSE s

\* A press of Q switches, unless STOP is held; it is never kept for later.
Switched(s) ==
  IF toggled /\ ~Level("stop")
    THEN [s EXCEPT !.auto = ~@, !.down = Up, !.spent = Level("start")]
    ELSE s

\* What an act uses up: the inputs of b that this image shows, and the ones released by now.
Spent(b) == (stable' \cap {b}) \cup ({b} \ button)
            \cup (IF alive \/ KeyOf[b] \notin held THEN {KeyOf[b]} ELSE {})

\* One frame.  Without a trusted image the selector is MANUAL.
PanelTick(trusted, moved) ==
  /\ Scan(trusted, moved)
  /\ LET valid == stable' # NoImage
         pressed == IF valid THEN Buttonwise ELSE Same
         s == IF valid THEN Switched(Readied(pressed))
              ELSE [Same EXCEPT !.auto = FALSE, !.down = Up, !.spent = FALSE]
     IN /\ auto' = s.auto /\ down' = s.down /\ spent' = s.spent
        /\ before' = IF valid THEN Levels ELSE NoImage
        /\ edges' = (IF s.start THEN {"start"} ELSE {}) \cup (IF s.reset THEN {"reset"} ELSE {})
        /\ unspent' = IF ~valid THEN {}
                    ELSE (unspent \ (IF pressed.start \/ (pressed.auto /\ ~auto)
                                     THEN Spent("start") ELSE {}))
                               \ (IF pressed.reset THEN Spent("stop") ELSE {})
  /\ toggled' = FALSE
  /\ lapsed' = (lapsed /\ held # {})
  /\ UNCHANGED <<button, held, latch, alive, hold>>

PanelNext ==
  \/ \E b \in Buttons : Press(b) \/ Release(b) \/ KeyDown(b)
  \/ \E keys \in SUBSET {"g", "enter"} : KeysUp(keys)
  \/ KeyQ \/ KeyE \/ ReaderStops \/ ReaderGoesOn
  \/ \E trusted, moved \in BOOLEAN : PanelTick(trusted, moved)

PanelSpec == PanelInit /\ [][PanelNext]_panelVars

-----------------------------------------------------------------------------
(* Properties *)

Acts ==
  \/ "start" \in edges' \ edges
  \/ auto' /\ ~auto /\ ~toggled

\* Every Start edge and every change to AUTO that is not a press of Q is one press of START or G of
\* its own, made in a trusted image; so is every Reset edge one of STOP or ENTER.  What is held at
\* power-on or across a gap does nothing until it is released and pressed again.  (A reader that
\* stops under a held key and goes on is not such a gap: the key counts as pressed again.)
OnePressOneAct ==
  [][~lapsed => /\ Acts => unspent \cap {"start", "g"} # {}
                /\ "reset" \in edges' \ edges => unspent \cap {"stop", "enter"} # {}]_panelVars
=============================================================================
