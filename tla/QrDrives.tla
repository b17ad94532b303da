------------------------------ MODULE QrDrives ------------------------------
(***************************************************************************)
(* The wheel drives of the QR vehicle: analog drivers that obey a voltage    *)
(* and a FWD or a REV coil and report nothing.  The control thread           *)
(* (qr_base_node.py with WheelLoop and DriveLogic of qr_motor.py) decides    *)
(* every 20 ms; a thread of its own (dio.py) carries its claims on the coils *)
(* to the digital module, scan by scan; the analog module (qr_analog.py) is  *)
(* written by the control thread itself.  One wheel is modelled; the other   *)
(* one is what may make the drive logic fault.                               *)
(*                                                                         *)
(* Time is counted in ticks of the control thread.  The time a detector      *)
(* needs before it calls a wheel stalled or running away is a choice.        *)
(***************************************************************************)
EXTENDS Integers

CONSTANTS
  Dwell,    \* qr_base.dir_dwell_s: both coils low before a direction is raised
  CoilHold,     \* qr_base.coil_hold_s: a claim that is not renewed falls low
  Fresh,    \* IO_FRESH_S
  Reconnect, \* dio.reconnect_period_s: not before the image has this age
  Coast,    \* LoopParams.coast_s
  MaxScan   \* the longest time from the start of a scan to that of the next

ASSUME QrAssumption == {Dwell, CoilHold, Fresh, Reconnect, Coast, MaxScan} \subseteq Nat \ {0}

\* load() asks it of the period of a scan; nothing bounds the scan itself.
ASSUME ScanAssumption == MaxScan <= Dwell

\* True of the profile the vehicle runs on (0.3 + 0.15 < 0.5); load() does not ask for it.
ASSUME ReconnectAssumption == Fresh + CoilHold < Reconnect

VARIABLES
  armState,    \* DriveLogic.state: disarmed, armed, fault
  wantArmed,   \* DriveLogic.want_armed
  wanted,      \* the direction of the command that passes the gate, 0 is rest
  dir,         \* WheelLoop.dir, the direction applied
  dwelt,       \* time since dir became 0
  coasted,     \* time since the wish to rest, while dir is kept
  control,     \* the control thread: running, ended
  claim,       \* the claims on the two coils as a direction, and their age
  dio,         \* the scan thread: up, lost (reconnecting), stopped
  scanStep,    \* idle, fwd, rev (the coil it writes next), done
  readback,    \* the coils as this scan read them
  desired,     \* what this scan wants of them
  imageLow,    \* whether the last whole scan read both coils low
  imageAge,    \* its age, up to the larger of Fresh + 1 and Reconnect
  scanAge,     \* time since a scan started
  coil,        \* the coils of the module, which latch
  volts,       \* whether the analog module gives a voltage, which latches
  analogOk     \* AnalogOut.ok

logicVars == <<armState, wantArmed>>
wheelVars == <<dir, dwelt, coasted>>
scanThreadVars == <<dio, scanStep, readback, desired, imageLow>>
qrVars == <<logicVars, wanted, wheelVars, control, claim, scanThreadVars, imageAge, scanAge, coil,
            volts, analogOk>>

Oldest == IF Reconnect > Fresh THEN Reconnect ELSE Fresh + 1
Directions == {-1, 0, 1}
Coils == [fwd : BOOLEAN, rev : BOOLEAN]
CoilsOf(d) == [fwd |-> d = 1, rev |-> d = -1]

QrTypeOK ==
  /\ armState \in {"disarmed", "armed", "fault"} /\ wantArmed \in BOOLEAN
  /\ {wanted, dir} \subseteq Directions /\ dwelt \in 0..Dwell /\ coasted \in 0..Coast
  /\ control \in {"running", "ended"}
  /\ claim \in [dir : Directions, age : 0..CoilHold]
  /\ dio \in {"up", "lost", "stopped"} /\ scanStep \in {"idle", "fwd", "rev", "done"}
  /\ {readback, desired, coil} \subseteq Coils
  /\ imageAge \in 0..Oldest /\ scanAge \in 0..MaxScan
  /\ {volts, analogOk, imageLow} \subseteq BOOLEAN

QrInit ==
  /\ armState = "disarmed" /\ wantArmed = TRUE /\ wanted = 0
  /\ dir = 0 /\ dwelt = Dwell /\ coasted = 0
  /\ control = "running" /\ claim = [dir |-> 0, age |-> 0]
  /\ dio = "up" /\ scanStep = "idle"
  /\ readback = CoilsOf(0) /\ desired = CoilsOf(0) /\ imageLow = TRUE
  /\ imageAge = Oldest /\ scanAge = 0
  /\ coil = CoilsOf(0) /\ volts = FALSE /\ analogOk = FALSE

-----------------------------------------------------------------------------
(* One wheel: WheelLoop.step.                                               *)

UpTo(n, bound) == IF n < bound THEN n + 1 ELSE bound

\* reset(): at rest, nothing remembered.
Reset == dir' = 0 /\ dwelt' = 0 /\ coasted' = 0

\* A brief wish to rest keeps the direction, at 0 V, while the wheel still turns along.
Coasts(want, measured) ==
  /\ want = 0 /\ dir # 0 /\ measured = dir /\ coasted < Coast
  /\ coasted' = coasted + 1
  /\ UNCHANGED <<dir, dwelt>>

\* The interlock: the coils were claimed low for the dwell, and read low.
MayRaise == UpTo(dwelt, Dwell) >= Dwell /\ imageLow

\* Faulty variant: the new direction takes the place of the old one.
DirectsThrough(want) ==
  /\ want # 0
  /\ coasted' = 0
  /\ dir' = (IF MayRaise \/ dir # 0 THEN want ELSE 0) /\ dwelt' = UpTo(dwelt, Dwell)

Directs(want) ==
  /\ want # 0
  /\ coasted' = 0
  /\ CASE want = dir -> UNCHANGED <<dir, dwelt>>
       [] want # dir /\ dir # 0 -> dir' = 0 /\ dwelt' = 0
       [] want # dir /\ dir = 0 -> /\ dir' = IF MayRaise THEN want ELSE 0
                                  /\ dwelt' = UpTo(dwelt, Dwell)

Rests(want, measured) ==
  /\ want = 0 /\ ~(dir # 0 /\ measured = dir /\ coasted < Coast)
  /\ dir' = 0
  /\ dwelt' = IF dir # 0 THEN 0 ELSE UpTo(dwelt, Dwell)
  /\ coasted' = 0

-----------------------------------------------------------------------------
(* The control thread.                                                      *)

IoOk == imageAge <= Fresh /\ analogOk

\* The state a tick works with: a fault while armed, a disarm, or arming.
StateNow(encoders) ==
  CASE armState = "armed" /\ ~(IoOk /\ encoders) -> "fault"
    [] armState = "armed" /\ IoOk /\ encoders /\ ~wantArmed -> "disarmed"
    [] armState = "disarmed" /\ wantArmed /\ IoOk /\ encoders -> "armed"
    [] OTHER -> armState

\* AnalogOut.write: refused, or done while the answer is lost, and the link is down.
AnalogWrite(on) ==
  \/ volts' = on /\ analogOk' = TRUE
  \/ volts' \in {volts, on} /\ analogOk' = FALSE

\* _apply(): every claim is renewed, then the voltages are written.
Apply(on) == claim' = [dir |-> dir', age |-> 0] /\ AnalogWrite(on)

AtRest(state) == armState' = state /\ Reset /\ Apply(FALSE)

\* Not armed, the E-stop, or armed only now, with nothing dwelt yet.
TickAtRest(estop, encoders) ==
  /\ estop \/ StateNow(encoders) # "armed" \/ armState # "armed"
  /\ AtRest(StateNow(encoders))

\* The wheel loops run; without power, or a fresh command, they are asked to rest.
TickArmed(want, measured) ==
  /\ armState = "armed" /\ StateNow(TRUE) = "armed"
  /\ Coasts(want, measured) \/ Rests(want, measured) \/ Directs(want)
  /\ Apply(dir' # 0 /\ want = dir')
  /\ UNCHANGED armState

\* A detector of either wheel: it turns against the command, not at all, or at rest.
TickFaults ==
  /\ armState = "armed" /\ StateNow(TRUE) = "armed"
  /\ AtRest("fault")

\* The bound on the scans holds while the module answers.
TimeMayPass == dio = "up" => scanAge < MaxScan

TimePasses ==
  /\ imageAge' = UpTo(imageAge, Oldest)
  /\ scanAge' = IF dio = "up" THEN scanAge + 1 ELSE 0

ControlTick ==
  /\ control = "running" /\ TimeMayPass
  /\ \/ \E estop, encoders \in BOOLEAN : TickAtRest(estop, encoders)
     \/ \E want \in {0, wanted}, measured \in Directions : TickArmed(want, measured)
     \/ TickFaults
  /\ TimePasses
  /\ UNCHANGED <<wantArmed, wanted, control, scanThreadVars, coil>>

\* The control thread is late, blocked in the analog write or gone: nothing is renewed.
Late ==
  /\ TimeMayPass
  /\ TimePasses
  /\ claim' = [claim EXCEPT !.age = UpTo(@, CoilHold)]
  /\ dwelt' = IF dir = 0 THEN UpTo(dwelt, Dwell) ELSE 0
  /\ coasted' = IF coasted > 0 THEN UpTo(coasted, Coast) ELSE 0
  /\ UNCHANGED <<logicVars, wanted, dir, control, scanThreadVars, coil, volts, analogOk>>

\* _serve_requests(): arm, disarm, ack.
Serve ==
  /\ control = "running"
  /\ \/ wantArmed' = TRUE /\ UNCHANGED armState
     \/ /\ wantArmed' = FALSE
        /\ armState' = IF armState = "armed" THEN "disarmed" ELSE armState
     \/ armState = "fault" /\ armState' = "disarmed" /\ UNCHANGED wantArmed
  /\ UNCHANGED <<wanted, wheelVars, control, claim, scanThreadVars, imageAge, scanAge, coil,
                 volts, analogOk>>

\* What the gate lets through: a fresh command of the lease's generation, or rest.
WishChanges ==
  /\ wanted' \in Directions \ {wanted}
  /\ UNCHANGED <<logicVars, wheelVars, control, claim, scanThreadVars, imageAge, scanAge, coil,
                 volts, analogOk>>

\* The thread ends, asked or by an exception: 0 V, then the claims are driven low.
ControlEnds ==
  /\ control = "running"
  /\ control' = "ended"
  /\ AnalogWrite(FALSE)
  /\ UNCHANGED <<logicVars, wanted, wheelVars, claim, scanThreadVars, imageAge, scanAge, coil>>

-----------------------------------------------------------------------------
(* The scan thread (dio.py).                                                *)

Quiescing == control = "ended"

\* Faulty variant: a claim holds until the next one.
Unexpired == CoilsOf(IF Quiescing THEN 0 ELSE claim.dir)

\* A claim is worth its value until it expires, and low when the outputs are to be quiet.
Claimed == CoilsOf(IF Quiescing \/ claim.age >= CoilHold THEN 0 ELSE claim.dir)

ScanReads ==
  /\ dio = "up" /\ scanStep = "idle"
  /\ scanStep' = "fwd"
  /\ readback' = coil
  /\ desired' = Claimed
  /\ scanAge' = 0
  /\ UNCHANGED <<logicVars, wanted, wheelVars, control, claim, dio, imageLow, imageAge, coil, volts,
                 analogOk>>

\* What a scan read and wants ends with it.
ScanOver == scanStep' = "idle" /\ readback' = CoilsOf(0) /\ desired' = CoilsOf(0)

\* Only the difference against the readback is written, FWD before REV.
Writes(c) == readback[c] # desired[c]

WriteCoil(c, next) ==
  /\ dio = "up" /\ scanStep = c
  /\ coil' = [coil EXCEPT ![c] = IF Writes(c) THEN desired[c] ELSE @]
  /\ scanStep' = next
  /\ UNCHANGED <<logicVars, wanted, wheelVars, control, claim, dio, readback, desired, imageLow,
                 imageAge, scanAge, volts, analogOk>>

\* An error, after which the write may have been done: the connection is dropped.
WriteFails(c) ==
  /\ dio = "up" /\ scanStep = c /\ Writes(c)
  /\ coil' \in {coil, [coil EXCEPT ![c] = desired[c]]}
  /\ dio' = "lost" /\ ScanOver
  /\ UNCHANGED <<logicVars, wanted, wheelVars, control, claim, imageLow, imageAge, scanAge, volts,
                 analogOk>>

\* The image is what the module reported, before this scan's own writes.
ScanEnds ==
  /\ dio = "up" /\ scanStep = "done"
  /\ ScanOver
  /\ imageLow' = (readback = CoilsOf(0)) /\ imageAge' = 0
  /\ dio' = IF Quiescing /\ ~Writes("fwd") /\ ~Writes("rev") THEN "stopped" ELSE "up"
  /\ UNCHANGED <<logicVars, wanted, wheelVars, control, claim, scanAge, coil, volts, analogOk>>

\* No answer to the reads.
ScanFails ==
  /\ dio = "up" /\ scanStep = "idle"
  /\ dio' = "lost"
  /\ UNCHANGED <<logicVars, wanted, wheelVars, control, claim, scanStep, readback, desired,
                 imageLow, imageAge, scanAge, coil, volts, analogOk>>

\* Not before DIO_RECONNECT_PERIOD_S have passed since the failure.
Reconnects ==
  /\ dio = "lost" /\ imageAge >= Reconnect
  /\ dio' = "up" /\ scanAge' = 0
  /\ UNCHANGED <<logicVars, wanted, wheelVars, control, claim, scanStep, readback, desired,
                 imageLow, imageAge, coil, volts, analogOk>>

\* stop() waits a second for the readback, and goes on without it.
GivesUp ==
  /\ dio = "lost" /\ Quiescing
  /\ dio' = "stopped"
  /\ UNCHANGED <<logicVars, wanted, wheelVars, control, claim, scanStep, readback, desired,
                 imageLow, imageAge, scanAge, coil, volts, analogOk>>

QrNext ==
  \/ ControlTick \/ Late \/ Serve \/ WishChanges \/ ControlEnds
  \/ ScanReads \/ WriteCoil("fwd", "rev") \/ WriteCoil("rev", "done") \/ ScanEnds
  \/ ScanFails \/ WriteFails("fwd") \/ WriteFails("rev") \/ Reconnects \/ GivesUp

\* The clock and the scan thread go on, and the module answers again and again.
QrFairness ==
  /\ WF_qrVars(ControlTick \/ Late)
  /\ SF_qrVars(ScanReads) /\ SF_qrVars(WriteCoil("fwd", "rev"))
  /\ SF_qrVars(WriteCoil("rev", "done")) /\ WF_qrVars(ScanEnds)
  /\ WF_qrVars(Reconnects)

QrSpec == QrInit /\ [][QrNext]_qrVars /\ QrFairness

-----------------------------------------------------------------------------
(* The direction inputs of a driver are never both on, although the image    *)
(* the interlock looks at is older than the last scan's writes, a write may  *)
(* fail half way, and claims are carried out scans later.                   *)
(* qr_base_node.py:580-582: "the order in which DioLink writes the claims    *)
(* within a scan cannot overlap them".                                      *)
NeverBothOn == ~(coil.fwd /\ coil.rev)

Turns == volts /\ (coil.fwd \/ coil.rev)

(* Once nothing is commanded any more the wheel is left without drive, even  *)
(* if the control thread hangs, ends, or cannot reach the analog module: only *)
(* losing both modules at the exit leaves it on.                            *)
RestIsReached ==
  <>[](wanted = 0 \/ control = "ended")
    => <>[](~Turns \/ (dio = "stopped" /\ ~analogOk))
=============================================================================
