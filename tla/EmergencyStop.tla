---------------------------- MODULE EmergencyStop ----------------------------
(***************************************************************************)
(* The emergency picture from the panel's inputs to the mux                *)
(* (agv_core/panel.py, amr_base/panel_io.py, emergency.py and the          *)
(* RepressGuard of gating.py).                                             *)
(*                                                                         *)
(* A scan is one image of the digital inputs: whether it can be trusted,   *)
(* the E-stop level (DI08), the Reset button, one pendant direction, and   *)
(* whether the other debounced channels changed.  The panel node ticks     *)
(* faster than the inputs are scanned, so it also repeats its last frame;  *)
(* every tick steps the emergency state and publishes a sample.  The mux   *)
(* ticks on its own, on the last sample it was given.                      *)
(*                                                                         *)
(* Not modelled: the selector (MANUAL here) and the guard against the      *)
(* selector and the pendant changing in one scan, and the staleness of a   *)
(* sample at the mux.                                                      *)
(***************************************************************************)
EXTENDS Integers

CONSTANTS
    Scans,      \* debounce_scans
    LowScans,   \* estop_low_scans
    Timeout,    \* estop_reset_timeout_s, in panel ticks
    MaxBehind,  \* bound: panel ticks between two ticks of the mux
    Untold

ASSUME EmergencyAssumption ==
    /\ Scans \in Nat \ {0} /\ LowScans \in Nat \ {0} /\ Timeout \in Nat \ {0}
    /\ MaxBehind \in Nat \ {0}
    /\ Untold \notin BOOLEAN /\ Untold \notin Nat

VARIABLES
    candidate, count,   \* PanelScan: the sample being debounced, how often seen
    stable,             \* PanelScan._stable, its Reset level: Untold before a baseline
    handCandidate, handCount,   \* DebouncedLevels of the pendant
    handStable,
    high, low,          \* _estop_high, _estop_low
    believed,           \* _estop_believed
    state, tripped,     \* Emergency
    resetAge,           \* ticks since the remembered Reset edge, or Untold
    waited,             \* ticks since RESETTING was entered
    sample,             \* the last PanelState: [emergency, hand, through]
    blocked,            \* RepressGuard.blocked
    driving,            \* the mux selected the pendant in its last tick
    behind,             \* panel ticks the mux has not seen
    wasLow,             \* history: DI08 read LOW since NORMAL was left
    pressed,            \* history: Reset edge since ACTIVE was entered or tripped
    handRun,            \* history: consecutive scans the pendant was held
    through             \* history: held since before NORMAL, without a break

scanVars == <<candidate, count, stable, handCandidate, handCount, handStable, high, low, believed>>
emergencyVars == <<state, tripped, resetAge, waited>>
muxVars == <<blocked, driving, behind>>
history == <<wasLow, pressed, handRun, through>>
stopVars == <<scanVars, emergencyVars, sample, muxVars, history>>

EmergencyStates == {"NORMAL", "ACTIVE", "RESET_NEEDED", "RESETTING", "RESET_FAILED"}
Sto == {TRUE, FALSE, Untold}
AtMost(n, bound) == IF n < bound THEN n ELSE bound

EmergencyInit ==
    /\ candidate = Untold /\ count = 0 /\ stable = Untold
    /\ handCandidate = Untold /\ handCount = 0 /\ handStable = Untold
    /\ high = 0 /\ low = 0 /\ believed = FALSE
    /\ state = "ACTIVE" /\ tripped = FALSE /\ resetAge = Untold /\ waited = 0
    /\ sample = [emergency |-> "ACTIVE", hand |-> FALSE, through |-> FALSE]
    /\ blocked = FALSE /\ driving = FALSE /\ behind = 0
    /\ wasLow = FALSE /\ pressed = FALSE /\ handRun = 0 /\ through = FALSE

-----------------------------------------------------------------------------
(* Debouncing: agv_core/panel.py and PanelAdapter.tick.                    *)

Count(seen, current, n) == IF seen = current THEN AtMost(n + 1, Scans) ELSE 1

\* PanelScan.scan: the baseline is the first believed sample.
ScanButtons(good, reset, other) ==
    IF good
    THEN /\ candidate' = <<reset, other>>
         /\ count' = Count(<<reset, other>>, candidate, count)
         /\ stable' = IF count' >= Scans THEN reset ELSE stable
    ELSE candidate' = Untold /\ count' = 0 /\ stable' = Untold

\* DebouncedLevels.scan: a level, believed without a baseline.
ScanHand(good, hand) ==
    IF good
    THEN /\ handCandidate' = hand
         /\ handCount' = Count(hand, handCandidate, handCount)
         /\ handStable' = IF handCount' >= Scans THEN hand ELSE handStable
    ELSE handCandidate' = Untold /\ handCount' = 0 /\ handStable' = Untold

\* DI08 HIGH needs Scans images, LOW needs LowScans of them.
ScanEstop(good, estop) ==
    /\ high' = IF good /\ estop THEN AtMost(high + 1, Scans) ELSE 0
    /\ low' = IF good /\ estop THEN 0 ELSE AtMost(low + 1, LowScans)
    /\ believed' =
         /\ stable' # Untold
         /\ IF believed THEN low' < LowScans ELSE high' >= Scans

\* The Reset edge this scan, after ScanButtons.
ResetEdge == stable' = TRUE /\ stable = FALSE

-----------------------------------------------------------------------------
(* Emergency.step.  ok: the image is valid; estop: DI08 believed HIGH;     *)
(* edge: the Reset edge; sto: what the drives say of STO.                  *)

Older == IF resetAge = Untold \/ resetAge >= Timeout THEN Untold ELSE resetAge + 1

Go(to) == state' = to /\ resetAge' = Untold

\* DI08 LOW, or no valid image, in any other state.
EnterActive(ok, estop) ==
    /\ ~ok \/ ~estop
    /\ state # "ACTIVE"
    /\ Go("ACTIVE") /\ tripped' = (tripped \/ ok) /\ UNCHANGED waited

\* The panel was blind, and DI08 turns out to be LOW.
BlindTrips(ok, estop) ==
    /\ ok /\ ~estop
    /\ state = "ACTIVE" /\ ~tripped
    /\ Go("ACTIVE") /\ tripped' = TRUE /\ UNCHANGED waited

\* Still LOW or blind: a Reset edge is remembered for Timeout.
StayActive(ok, estop, edge) ==
    /\ ~ok \/ ~estop
    /\ state = "ACTIVE" /\ (ok => tripped)
    /\ resetAge' = IF ok /\ edge THEN 0 ELSE Older
    /\ UNCHANGED <<state, tripped, waited>>

\* Faulty variant: any return of DI08 is taken for the end of a blind gap.
BlindOverAlways(ok, estop, sto) ==
    /\ ok /\ estop
    /\ state = "ACTIVE"
    /\ Go(IF sto = TRUE THEN "RESET_NEEDED" ELSE "NORMAL")
    /\ tripped' = FALSE /\ UNCHANGED waited

\* DI08 HIGH and never seen LOW: no Reset, unless the drives hold STO.
BlindOver(ok, estop, sto) ==
    /\ ok /\ estop
    /\ state = "ACTIVE" /\ ~tripped
    /\ Go(IF sto = TRUE THEN "RESET_NEEDED" ELSE "NORMAL")
    /\ UNCHANGED <<tripped, waited>>

\* DI08 HIGH again after a trip, with the Reset already pressed or not.
Released(ok, estop, edge) ==
    /\ ok /\ estop
    /\ state = "ACTIVE" /\ tripped
    /\ IF edge \/ Older # Untold
       THEN Go("RESETTING") /\ waited' = 0
       ELSE Go("RESET_NEEDED") /\ UNCHANGED waited
    /\ UNCHANGED tripped

ResetPressed(ok, estop, edge) ==
    /\ ok /\ estop /\ edge
    /\ state \in {"RESET_NEEDED", "RESET_FAILED"}
    /\ Go("RESETTING") /\ waited' = 0 /\ UNCHANGED tripped

\* Faulty variant: a tick that finds STO held starts the deadline again.
ResettingRestarts(ok, estop, sto) ==
    /\ ok /\ estop
    /\ state = "RESETTING"
    /\ IF sto # TRUE
       THEN Go("NORMAL") /\ tripped' = FALSE /\ waited' = 0
       ELSE waited' = 0 /\ UNCHANGED <<state, resetAge, tripped>>

\* The drives leave STO, cannot be observed, or still hold it at the deadline.
Resetting(ok, estop, sto) ==
    /\ ok /\ estop
    /\ state = "RESETTING"
    /\ IF sto # TRUE
       THEN Go("NORMAL") /\ tripped' = FALSE /\ waited' = 0
       ELSE IF waited + 1 >= Timeout
            THEN Go("RESET_FAILED") /\ waited' = 0 /\ UNCHANGED tripped
            ELSE waited' = waited + 1 /\ UNCHANGED <<state, resetAge, tripped>>

LateReset(ok, estop, edge, sto) ==
    /\ ok /\ estop /\ ~edge /\ sto = FALSE
    /\ state = "RESET_FAILED"
    /\ Go("NORMAL") /\ tripped' = FALSE /\ UNCHANGED waited

\* Nothing to do: NORMAL, or waiting for a Reset.
IdleState(ok, estop, edge, sto) ==
    /\ ok /\ estop
    /\ \/ state = "NORMAL"
       \/ state = "RESET_NEEDED" /\ ~edge
       \/ state = "RESET_FAILED" /\ ~edge /\ sto # FALSE
    /\ UNCHANGED emergencyVars

Step(ok, estop, edge, sto) ==
    \/ EnterActive(ok, estop)
    \/ BlindTrips(ok, estop)
    \/ StayActive(ok, estop, edge)
    \/ BlindOver(ok, estop, sto)
    \/ Released(ok, estop, edge)
    \/ ResetPressed(ok, estop, edge)
    \/ Resetting(ok, estop, sto)
    \/ LateReset(ok, estop, edge, sto)
    \/ IdleState(ok, estop, edge, sto)

-----------------------------------------------------------------------------
(* The panel node and the mux.                                             *)

\* PanelNode._tick publishes what it knows.
Publish ==
    /\ sample' = [emergency |-> state',
                  hand |-> handStable' = TRUE,
                  through |-> through']
    /\ behind < MaxBehind /\ behind' = behind + 1
    /\ UNCHANGED <<blocked, driving>>

EntersActive == state' = "ACTIVE" /\ (state # "ACTIVE" \/ tripped' # tripped)

\* A tick on a new image.
Scan(good, estop, reset, other, hand, sto) ==
    /\ ScanButtons(good, reset, other)
    /\ ScanHand(good, hand)
    /\ ScanEstop(good, estop)
    /\ Step(stable' # Untold, believed', ResetEdge, sto)
    /\ wasLow' = ((good /\ ~estop) \/ (wasLow /\ state # "NORMAL"))
    /\ pressed' = (~EntersActive /\ (pressed \/ ResetEdge))
    /\ handRun' = IF hand THEN AtMost(handRun + 1, Scans) ELSE 0
    /\ through' = (hand /\ (through \/ (state' # "NORMAL" /\ handRun' >= Scans)))
    /\ Publish

\* A tick on the image of the last scan: its edges are spent.
Repeat(sto) ==
    /\ Step(stable # Untold, believed, FALSE, sto)
    /\ pressed' = (~EntersActive /\ pressed)
    /\ through' = (through \/ (state' # "NORMAL" /\ handRun >= Scans))
    /\ UNCHANGED <<scanVars, wasLow, handRun>>
    /\ Publish

\* RepressGuard.update, on the sample the mux has.
Repress ==
    blocked' = (sample.emergency # "NORMAL" \/ (blocked /\ sample.hand))

\* A tick of the mux: select, then _repress_gate.
MuxTick ==
    /\ Repress
    /\ driving' = (sample.emergency = "NORMAL" /\ sample.hand /\ ~blocked')
    /\ behind' = 0
    /\ UNCHANGED <<scanVars, emergencyVars, sample, history>>

PanelTick ==
    \/ \E good, estop, reset, other, hand \in BOOLEAN, sto \in Sto :
          Scan(good, estop, reset, other, hand, sto)
    \/ \E sto \in Sto : Repeat(sto)

EmergencyNext == PanelTick \/ MuxTick

\* Both nodes tick at 50 Hz.
EmergencySpec ==
    EmergencyInit /\ [][EmergencyNext]_stopVars /\ WF_stopVars(PanelTick) /\ WF_stopVars(MuxTick)

-----------------------------------------------------------------------------
EmergencyTypeOK ==
    /\ candidate \in (BOOLEAN \X BOOLEAN) \cup {Untold} /\ count \in 0..Scans
    /\ stable \in BOOLEAN \cup {Untold}
    /\ handCandidate \in BOOLEAN \cup {Untold} /\ handCount \in 0..Scans
    /\ handStable \in BOOLEAN \cup {Untold}
    /\ high \in 0..Scans /\ low \in 0..LowScans /\ believed \in BOOLEAN
    /\ state \in EmergencyStates /\ tripped \in BOOLEAN
    /\ resetAge \in 0..Timeout \cup {Untold} /\ waited \in 0..(Timeout - 1)
    /\ sample \in [emergency : EmergencyStates, hand : BOOLEAN, through : BOOLEAN]
    /\ blocked \in BOOLEAN /\ driving \in BOOLEAN /\ behind \in 0..MaxBehind
    /\ wasLow \in BOOLEAN /\ pressed \in BOOLEAN /\ through \in BOOLEAN
    /\ handRun \in 0..Scans

\* PanelAdapter.tick, "a boot with DI08 HIGH is never a one-scan LOW": an
\* emergency that asks for a Reset goes back to DI08 read LOW, never to the
\* debouncing of an image that comes back.
TripsAreReal == tripped => wasLow

\* Whatever the image, the button and the drives do, an emergency that began
\* with the E-stop ends only after a Reset edge that came later than the last
\* time it became ACTIVE.
NormalAfterReset ==
    [][state # "NORMAL" /\ state' = "NORMAL" => (tripped => pressed)]_stopVars

\* "Reset alone never moves the vehicle": a hand held on the pendant from
\* before NORMAL, across lost images and samples the mux never saw, drives
\* nothing until it was let go.
HeldHandStaysStopped == [][MuxTick /\ driving' => ~sample.through]_stopVars

\* An emergency is real, ends by a Reset only, and the Reset moves nothing.
EmergencyIsHonest == []TripsAreReal /\ NormalAfterReset /\ HeldHandStaysStopped

=============================================================================
