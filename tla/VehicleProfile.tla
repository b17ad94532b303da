---------------------------- MODULE VehicleProfile ----------------------------
(***************************************************************************)
(* The vehicle profile (agv_core/config.py): one JSON document, parsed,       *)
(* derived, validated and then published whole, or refused - and what the    *)
(* machine then does with its numbers.  The values that decide when a sign   *)
(* of life is too old, and which wire means what, are followed into two      *)
(* threads at run time: an owner that renews the claims of its outputs at    *)
(* every tick and the DIO scan that writes them, and a drive whose           *)
(* heartbeats keep it from being reported silent.                            *)
(*                                                                         *)
(* A time is a whole number of units of 50 ms; Never stands for a number     *)
(* that is not finite.  Of a value no machine here follows only the rule it  *)
(* breaks is kept (flaws).  An input or an output is named for its function, *)
(* and its channel for the function the shipped profiles wire there.         *)
(***************************************************************************)
EXTENDS Integers

CONSTANTS Loops,      \* the values of timing.loop_period_s the documents have
          CoilHolds,  \* those of qr_base.coil_hold_s
          Late,       \* periods by which a live thread or heartbeat may be late
          MaxAge      \* bound: no age is counted further

\* Ages are counted past every hold and every timeout a document may carry.
ASSUME PeriodsAssumption ==
  /\ Loops \subseteq Nat \ {0} /\ CoilHolds \subseteq Nat /\ Late \in 0..1
  /\ MaxAge \in Nat /\ MaxAge > 16 /\ \A l \in Loops : 5 * l + 6 < MaxAge

Never == 40          \* Infinity or NaN of the JSON reader, past every age that is counted
LongestCoilHold == 10    \* 0.5 s
MaxSteady == 7       \* bound: how long the levels are counted as steady, or unwritten

Blvr == "blvr_canopen"
Qr == "qr_analog"
NoProfile == [hold |-> 0]

PanelInputs == {"reset", "start", "auto", "manual_arm", "estop_ok", "continue"}
DestinationCoils == {"first"}
PendantInputs == {"fwd", "rvs"}
Inputs == PanelInputs \cup DestinationCoils \cup PendantInputs
MotorCoils == {"motor_fwd", "motor_rev", "motor_brk"}
PanelOutputs == {"horn", "motion", "alarm"}
Outputs == MotorCoils \cup PanelOutputs

VARIABLES document,   \* the profile file being loaded
          profile,    \* what load() published, or NoProfile
          refused,    \* the load ended with ConfigError
          beating,      \* the owner of the outputs runs (a drive, where one is watched)
          watched,    \* what this behaviour follows: the outputs or the drive
          asked,      \* output -> the level its owner asked for last
          claim,      \* channel -> the level of its claim (DioLink._want)
          coil,       \* channel -> the level of the module's coil
          renewed,    \* units since the owner's last tick, or the last heartbeat
          steady,     \* units since the owner last asked for another level
          scanned     \* units since the last write phase

profileVars == <<document, profile, refused, beating, watched, asked, claim, coil,
                 renewed, steady, scanned>>

Larger(a, b) == IF a > b THEN a ELSE b
Aged(n, most) == IF n < most THEN n + 1 ELSE n

-----------------------------------------------------------------------------
(* The document.                                                            *)

Sections == {"vehicle", "dio", "panel", "can", "timing"}

\* The rules on values this model does not follow, one name per group of checks.
Rules == {"mistyped", "unknown_key", "missing_key", "unsized_names", "destinations", "ramp",
          "zone_bytes", "name", "geometry", "bus", "thresholds", "lidar", "scan_counts", "imu",
          "blind_run", "premove", "gls"}
QrRules == {"analog", "encoders", "wheel_loop", "latches"}

\* The document of a vehicle as its profile in the repository has it, in these units.
Shipped(platform) ==
  [platform |-> platform,
   sections |-> Sections \cup (IF platform = Qr THEN {"qr_base"} ELSE {}),
   flaws |-> {},
   off |-> IF platform = Qr THEN {"monitor"} ELSE {},
   di |-> [i \in Inputs |-> i],
   do |-> [o \in Outputs |-> o],
   loop |-> 1, telemetry |-> 1, driver_timeout |-> 8, heartbeat |-> 3,
   scan |-> 2, timeout |-> 1, silent |-> 8, reconnect |-> 3, coil_hold |-> 4]

\* A shipped document s with one thing changed by hand: what stands in it,
Misshapen(s) ==
  {[s EXCEPT !.flaws = {r}] : r \in Rules \cup (IF s.platform = Qr THEN QrRules ELSE {})}
  \cup {[s EXCEPT !.sections = @ \ {x}] : x \in Sections \cup {"qr_base"}}
  \cup {[s EXCEPT !.sections = @ \cup {x}] : x \in {"qr_base", "spare"}}
  \cup {[s EXCEPT !.off = @ \cup x] : x \in {{"dio"}, {"panel"}, {"horn"}, {"pendant"},
                                            {"dio", "panel", "horn", "pendant"}}}

\* which wire is which,
Rewired(s) ==
  LET outputs == IF s.platform = Qr THEN MotorCoils \cup {"horn"} ELSE PanelOutputs
  IN {[s EXCEPT !.di[w[1]] = w[2]] : w \in Inputs \X Inputs}
     \cup {[s EXCEPT !.do[w[1]] = w[2]] : w \in outputs \X outputs}

\* and its periods.
Retimed(s) ==
  {[s EXCEPT !.loop = t.loop, !.telemetry = t.loop, !.scan = t.scan, !.coil_hold = t.hold] :
     t \in [loop : Loops, scan : 1..3, hold : CoilHolds]}
  \cup {[s EXCEPT !.driver_timeout = t.limit, !.heartbeat = t.beat] :
          t \in [limit : {1, 3, 8, Never}, beat : 0..4]}
  \cup {[s EXCEPT !.timeout = t.answer, !.silent = t.silent, !.reconnect = t.again] :
          t \in [answer : 1..2, silent : {2, 8, Never}, again : {2, 8, Never}]}

\* The documents a load may meet: as shipped, or with one such change.
Documents ==
  UNION {{s} \cup Misshapen(s) \cup Rewired(s) \cup Retimed(s) : s \in {Shipped(Blvr), Shipped(Qr)}}

-----------------------------------------------------------------------------
(* _parse and the readers of single values.                                 *)

\* _coerce and _check_finite: every value of its key's type, every number finite.
Coerce(d) ==
  /\ "mistyped" \notin d.flaws
  /\ \A n \in {d.loop, d.driver_timeout, d.silent, d.reconnect, d.coil_hold} : n # Never

\* The lists of the document: names, channels, zone offsets, destinations, ramps.
ListsRead(d) == d.flaws \cap {"unsized_names", "destinations", "ramp", "zone_bytes"} = {}

\* Exactly the sections of the platform, each with exactly its keys.
Parse(d) ==
  /\ d.sections = Sections \cup (IF d.platform = Qr THEN {"qr_base"} ELSE {})
  /\ d.flaws \cap {"unknown_key", "missing_key"} = {}
  /\ Coerce(d)
  /\ ListsRead(d)

\* Faulty variant: a claim of the panel's outputs is good for one tick.
DeriveOneTick(d) ==
  [hold |-> IF d.platform = Qr THEN d.coil_hold ELSE d.loop]

\* _derive: how long a claim of an output outlives its last renewal - HORN_HOLD_S of the
\* panel's outputs, qr_base.coil_hold_s of the motor coils.
Derive(d) ==
  [hold |-> IF d.platform = Qr THEN d.coil_hold ELSE Larger(5 * d.loop, 2 * d.scan)]

-----------------------------------------------------------------------------
(* _validate and _validate_qr.                                              *)

Geometry(d) == "geometry" \notin d.flaws
Bus(d) == "bus" \notin d.flaws

\* The windows of the bus: a heartbeat takes less than half of the one that reports a drive
\* silent, and the polls and thresholds are in order.
Timing(d) ==
  /\ d.loop > 0 /\ d.telemetry >= d.loop /\ d.driver_timeout > d.telemetry
  /\ d.heartbeat = 0 \/ 2 * d.heartbeat < d.driver_timeout
  /\ "thresholds" \notin d.flaws

ScanTiming(d) ==
  /\ d.scan > 0 /\ d.timeout > 0 /\ d.reconnect > 0
  /\ d.timeout < d.scan
  /\ d.silent > d.scan
  /\ d.reconnect < d.silent

Scanner(d) == "lidar" \notin d.flaws

\* One function per input: the panel's buttons with the destinations'.
PanelChannels(d) ==
  /\ \A i, j \in PanelInputs \cup DestinationCoils : i # j => d.di[i] # d.di[j]
  /\ "scan_counts" \notin d.flaws

\* The pendant's buttons with each other, and with all of those.
PendantChannels(d) ==
  /\ \A i, j \in PendantInputs : i # j => d.di[i] # d.di[j]
  /\ \A i \in PendantInputs, j \in PanelInputs \cup DestinationCoils : d.di[i] # d.di[j]

\* One owner per coil of the panel's: the horn, motion_on and alarm_on.
OutputChannels(d) ==
  /\ "horn" \notin d.off => d.do["horn"] \notin {d.do["motion"], d.do["alarm"]}
  /\ d.do["motion"] # d.do["alarm"]

\* What is read out of the DI image or written by the scan needs the scan.
NeedsScan(d) == "dio" \in d.off => {"panel", "horn", "pendant"} \subseteq d.off

MotionPlans(d) == d.flaws \cap {"imu", "blind_run", "premove"} = {}
Camera(d) == "gls" \notin d.flaws

\* The analog module, the encoders, the wheel loop and its fault latches.
QrPlainRules(d) == d.flaws \cap QrRules = {}

QrCoils(d) ==
  /\ \A a, b \in MotorCoils : a # b => d.do[a] # d.do[b]
  /\ "horn" \notin d.off => \A a \in MotorCoils : d.do["horn"] # d.do[a]
  /\ 2 * d.scan <= d.coil_hold /\ d.coil_hold <= LongestCoilHold

ValidateQr(d) ==
  /\ "monitor" \in d.off /\ "dio" \notin d.off /\ "panel" \notin d.off
  /\ QrCoils(d) /\ QrPlainRules(d)

Validate(d) ==
  /\ Geometry(d) /\ Bus(d) /\ Timing(d) /\ ScanTiming(d) /\ Scanner(d)
  /\ PanelChannels(d) /\ OutputChannels(d) /\ PendantChannels(d) /\ NeedsScan(d)
  /\ MotionPlans(d) /\ Camera(d)
  /\ d.platform = Qr => ValidateQr(d)

Accepts(d) == Parse(d) /\ "name" \notin d.flaws /\ Validate(d)

-----------------------------------------------------------------------------
\* Bound: the outputs are followed under the documents whose changes concern them.
OfTheOutputs(d) ==
  /\ d.driver_timeout = 8 /\ d.heartbeat = 3 /\ d.timeout = 1 /\ d.silent = 8 /\ d.reconnect = 3
  /\ \A i \in Inputs : d.di[i] = i

ProfileInit ==
  /\ document \in Documents
  /\ profile = NoProfile /\ refused = FALSE
  /\ beating = TRUE /\ watched \in {"outputs", "drive"}
  /\ watched = "outputs" => OfTheOutputs(document)
  /\ asked = [o \in Outputs |-> FALSE]
  /\ claim = [c \in Outputs |-> FALSE]
  /\ coil = [c \in Outputs |-> FALSE]
  /\ renewed = 0 /\ steady = 0 /\ scanned = 0

\* load(): nothing is published on failure.
LoadProfile ==
  /\ profile = NoProfile /\ ~refused
  /\ IF Accepts(document) THEN profile' = Derive(document) /\ UNCHANGED refused
     ELSE refused' = TRUE /\ UNCHANGED profile
  /\ UNCHANGED <<document, beating, watched, asked, claim, coil, renewed, steady, scanned>>

\* The process that refused its profile ends; it is started again with a corrected one.
Corrected ==
  /\ refused /\ refused' = FALSE /\ document' = Shipped(document.platform)
  /\ UNCHANGED <<profile, beating, watched, asked, claim, coil, renewed, steady, scanned>>

Running == profile # NoProfile

\* The outputs this platform's owner of the DIO island drives, those a profile that leaves the
\* island unused promises nothing of left out.
Driven == IF document.platform = Qr THEN MotorCoils
          ELSE (IF "horn" \in document.off THEN {} ELSE {"horn"})
               \cup (IF "dio" \in document.off THEN {} ELSE {"motion", "alarm"})

\* How long a live source goes at most between two signs of life.
Every == IF watched = "outputs" THEN document.loop + Late * document.loop
         ELSE document.heartbeat + Late * document.heartbeat

\* One tick of the owner: it asks for its levels and renews the claim of every channel.  Two
\* outputs on one channel leave the level of whichever is claimed last.
OwnerTick ==
  /\ Running /\ beating /\ watched = "outputs" /\ renewed > 0 /\ Driven # {}
  /\ \E level \in [Driven -> BOOLEAN], last \in Driven :
       /\ asked' = [o \in Outputs |-> o \in Driven /\ level[o]]
       /\ claim' = [c \in Outputs |->
            IF \E o \in Driven : document.do[o] = c
            THEN level[IF document.do[last] = c THEN last
                       ELSE CHOOSE o \in Driven : document.do[o] = c]
            ELSE claim[c]]
       /\ steady' = IF asked' = asked THEN steady ELSE 0
  /\ renewed' = 0
  /\ UNCHANGED <<document, profile, refused, beating, watched, coil, scanned>>

\* DioLink._resolve: a claim is worth itself, or LOW once it has expired.
Resolve(c) == claim[c] /\ renewed < profile.hold

\* DioLink._write_phase: every claimed channel to what its claim is worth.
WritePhase ==
  /\ Running /\ watched = "outputs" /\ "dio" \notin document.off /\ scanned > 0
  /\ coil' = [c \in Outputs |-> Resolve(c)]
  /\ scanned' = 0
  /\ UNCHANGED <<document, profile, refused, beating, watched, asked, claim, renewed, steady>>

\* A heartbeat of a live drive.
Heartbeat ==
  /\ Running /\ beating /\ watched = "drive" /\ renewed > 0 /\ document.heartbeat > 0
  /\ renewed' = 0
  /\ UNCHANGED <<document, profile, refused, beating, watched, asked, claim, coil, steady,
                 scanned>>

\* The owner's process, or the drive, stops.
Dies ==
  /\ Running /\ beating /\ beating' = FALSE
  /\ UNCHANGED <<document, profile, refused, watched, asked, claim, coil, renewed, steady,
                 scanned>>

\* One unit of time: no live source outstays its period, no scan its own, by more than Late.
Passes ==
  /\ Running
  /\ beating => renewed < Every
  /\ (watched = "outputs" /\ "dio" \notin document.off) =>
        scanned < document.scan + Late * document.scan
  /\ renewed' = Aged(renewed, MaxAge)
  /\ steady' = IF beating THEN Aged(steady, MaxSteady) ELSE steady
  /\ scanned' = IF watched = "outputs" THEN Aged(scanned, MaxSteady) ELSE scanned
  /\ UNCHANGED <<document, profile, refused, beating, watched, asked, claim, coil>>

ProfileNext == LoadProfile \/ Corrected \/ OwnerTick \/ WritePhase \/ Heartbeat \/ Dies \/ Passes

ProfileSpec == ProfileInit /\ [][ProfileNext]_profileVars

-----------------------------------------------------------------------------
\* LinkedCan.silent_nodes: the drive is reported silent.
SilentDrive == watched = "drive" /\ renewed > document.driver_timeout

\* load() compares the coil hold of the QR platform with the scan (config.py:1375) and never
\* with the period of the loop that renews the claims: of the profiles it accepts, those whose
\* hold also outlives a tick that comes Late.  On BLV-R the hold is derived from the loop.
RenewedInTime ==
  document.platform = Qr => document.loop + Late * document.loop < document.coil_hold

\* A sign of life that is at most one period late is never taken for a death: on any profile
\* load() accepts a live drive is not reported silent, and no output of a live owner is driven
\* that it no longer asks for, once the scan has had its period (and its delay) to write it;
\* where the claims are RenewedInTime each stands in the module exactly as asked.  Too short a
\* derived hold, two owners of one coil or a module nobody scans would each break it.
LiveOwnersAreHeard ==
  (Running /\ beating) =>
     /\ (watched = "drive" /\ document.heartbeat > 0) => ~SilentDrive
     /\ (watched = "outputs" /\ steady > 2 * document.scan) =>
           \A o \in Driven : /\ coil[document.do[o]] => asked[o]
                             /\ RenewedInTime /\ asked[o] => coil[document.do[o]]

\* How long an output may outlive its owner: half a second; on BLV-R five ticks, if they are more.
OutlivesAtMost == IF document.platform = Qr THEN LongestCoilHold
                  ELSE Larger(LongestCoilHold, 5 * document.loop)

\* And a death is noticed: that long after the last renewal, and one late scan, every coil is
\* low; a drive that stopped is reported silent before an age is counted to its end.
SilenceIsNoticed ==
  (Running /\ ~beating) =>
     /\ (watched = "outputs" /\ renewed > OutlivesAtMost + 2 * document.scan) =>
           \A c \in Outputs : ~coil[c]
     /\ (watched = "drive" /\ renewed = MaxAge) => SilentDrive

\* Alive is heard, dead is noticed: the periods of a profile fit one another both ways, but for
\* the coils of a QR profile whose hold is not RenewedInTime (they fall between two ticks).
PeriodsFit == LiveOwnersAreHeard /\ SilenceIsNoticed
=============================================================================
