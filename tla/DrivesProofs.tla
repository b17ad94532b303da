--------------------------- MODULE DrivesProofs -----------------------------
(***************************************************************************)
(* The power of the CAN drives, proved for any number of drives and stop   *)
(* retries. What the link knows (armed, a supervised fault) says that a    *)
(* stage may be on; what it owes says that somebody will take it off; and  *)
(* a drive that lost its guard lost its power before. FWD and REV of a     *)
(* wheel are never on together, proved for all times that satisfy the      *)
(* assumptions of QrDrives. A scan writes FWD before REV, so what has to   *)
(* be excluded is a scan that wants FWD and finds REV on. REV is on, or    *)
(* about to be, only while the direction is backwards, or for less than    *)
(* the dwell after it, or when a write failed: and then the image is too   *)
(* old for a claim to be alive.                                            *)
(***************************************************************************)
EXTENDS CanDrives, QrDrives, TLAPS

Idle == {"off", "ready", "tripped"}
Stages == Idle \union Powered
Links == {"disarmed", "standby", "armed", "fault"}

StagesOK == stage \in [Drives -> Stages] /\ link \in Links

\* A stage that is on is known to be on, and its teardown is owed, even when the thread is dead.
PowerOnBooks == \A n \in Drives : stage[n] \in Powered => energised /\ cleanupOwed

\* A link that is up owes its teardown.
LinkIsOwed == link # "disarmed" => cleanupOwed

\* An armed link, and the fault it leaves, know that the stages may be on.
ArmedIsEnergised ==
  /\ link = "armed" => energised
  /\ watched => link = "fault" /\ energised

\* With the link up a drive holds its guard, unless its power was cycled after a fault.
GuardedOrOff ==
  link # "disarmed" =>
    \A n \in Drives : n \in guarded \/ (link = "fault" /\ stage[n] \in {"off", "tripped"})

CanIInv == StagesOK /\ PowerOnBooks /\ LinkIsOwed /\ ArmedIsEnergised /\ GuardedOrOff

\* Both forms of switching off leave no power.
LEMMA PowerOff ==
  ASSUME NEW s
  PROVE  Shutdown(s) \in Idle /\ DisableVoltage(s) \in Idle
BY DEF Shutdown, DisableVoltage, Idle

\* An RPDO sets its target on a drive that can take it, and does nothing to another.
LEMMA RpdoSets ==
  ASSUME NEW s \in Stages, NEW target \in Powered
  PROVE  /\ Rpdo(s, target) \in Stages
         /\ Rpdo(s, target) = s \/ Rpdo(s, target) = target
         /\ s \in {"off", "tripped"} => Rpdo(s, target) = s
BY DEF Rpdo, Stages, Idle, Powered

\* The two kinds of state share no value.
LEMMA IdleIsUnpowered == ASSUME NEW s \in Idle PROVE s \in Stages /\ s \notin Powered
BY DEF Stages, Idle, Powered

LEMMA InitCanIInv == CanInit => CanIInv
BY DEF CanInit, CanIInv, StagesOK, PowerOnBooks, LinkIsOwed, ArmedIsEnergised, GuardedOrOff,
       Stages, Idle, Powered, Links

\* A teardown that was heard in any part leaves the link down, and on the books what it could
\* not switch off.
LEMMA TeardownKeepsCanIInv ==
  ASSUME NEW s \in [Drives -> Stages], NEW g, NEW t, NEW zero \in BOOLEAN,
         zero => energised,
         \A n \in Drives : s[n] \in Powered => energised,
         Teardown(s, g, t, zero)
  PROVE  CanIInv'
<1>1. PICK o \in [Drives -> TeardownOutcome(zero)] :
        /\ stage' = [n \in Drives |-> TornDown(o[n], s[n])]
        /\ cleanupOwed' = ({n \in Drives : o[n] # "done"} # {})
        /\ energised' = (energised /\ {n \in Drives : o[n] # "done"} # {})
        /\ link' = "disarmed"
        /\ ResetStop
  BY DEF Teardown
<1>2. ASSUME NEW n \in Drives
      PROVE  /\ stage'[n] \in Stages
             /\ stage'[n] \in Powered => energised' /\ cleanupOwed'
  <2>1. stage'[n] = TornDown(o[n], s[n]) /\ s[n] \in Stages /\ o[n] \in TeardownOutcome(zero)
    BY <1>1
  <2>2. CASE o[n] = "done"
    BY <2>1, <2>2, PowerOff, IdleIsUnpowered DEF TornDown
  <2>3. CASE o[n] # "done"
    <3>1. cleanupOwed' /\ (energised => energised')
      BY <1>1, <2>3
    <3>2. CASE o[n] = "lost"
      BY <2>1, <3>2, PowerOff, IdleIsUnpowered DEF TornDown
    <3>3. CASE o[n] = "zeroed"
      <4>1. energised
        BY <2>1, <3>3 DEF TeardownOutcome
      <4>2. stage'[n] = Rpdo(s[n], "holding")
        BY <2>1, <3>3 DEF TornDown
      <4> QED
        BY <2>1, <3>1, <4>1, <4>2, RpdoSets DEF Powered
    <3>4. CASE o[n] \notin {"lost", "zeroed"}
      <4>1. stage'[n] = s[n]
        BY <2>1, <2>3, <3>4 DEF TornDown
      <4> QED
        BY <2>1, <3>1, <4>1
    <3> QED
      BY <3>2, <3>3, <3>4
  <2> QED
    BY <2>2, <2>3
<1>3. stage' \in [Drives -> Stages]
  BY <1>1, <1>2
<1> QED
  BY <1>1, <1>2, <1>3 DEF CanIInv, StagesOK, PowerOnBooks, LinkIsOwed, ArmedIsEnergised,
                           GuardedOrOff, ResetStop, Links

LEMMA LinkUnchangedKeepsCanIInv ==
  ASSUME CanIInv, LinkUnchanged
  PROVE  CanIInv'
BY DEF CanIInv, StagesOK, PowerOnBooks, LinkIsOwed, ArmedIsEnergised, GuardedOrOff,
       LinkUnchanged, linkVars

LEMMA DisarmKeepsCanIInv ==
  ASSUME CanIInv, Disarm \/ Cleanup
  PROVE  CanIInv'
<1>1. CASE Teardown(stage, guarded, tracked, SendsZero)
  <2>1. /\ stage \in [Drives -> Stages] /\ SendsZero \in BOOLEAN /\ (SendsZero => energised)
        /\ \A n \in Drives : stage[n] \in Powered => energised
    BY DEF CanIInv, StagesOK, PowerOnBooks, SendsZero
  <2> QED
    BY <1>1, <2>1, TeardownKeepsCanIInv
<1>2. CASE LinkUnchanged
  BY <1>2, LinkUnchangedKeepsCanIInv
<1> QED
  BY <1>1, <1>2 DEF Disarm, Cleanup, LinkUnchanged

\* Nothing is on when prepare() begins, and it switches nothing on.
LEMMA PrepareKeepsCanIInv ==
  ASSUME CanIInv, Prepare
  PROVE  CanIInv'
<1>1. CASE PreflightFails
  BY <1>1, LinkUnchangedKeepsCanIInv DEF PreflightFails, LinkUnchanged
<1>2. CASE PrepareSucceeds
  <2>1. /\ link' = "standby" /\ cleanupOwed' = TRUE /\ guarded' = Drives /\ watched' = FALSE
        /\ stage' = [n \in Drives |-> Shutdown(stage[n])]
    BY <1>2 DEF PrepareSucceeds, ResetStop
  <2>2. \A n \in Drives : stage'[n] \in Stages /\ stage'[n] \notin Powered
    BY <2>1, PowerOff, IdleIsUnpowered
  <2>3. stage' \in [Drives -> Stages]
    BY <2>1, <2>2
  <2> QED
    BY <2>1, <2>2, <2>3 DEF CanIInv, StagesOK, PowerOnBooks, LinkIsOwed, ArmedIsEnergised,
                             GuardedOrOff, Links
<1>3. CASE PrepareFails
  <2>1. PICK acked, heard, shut \in Prefixes :
          Teardown([n \in Drives |-> IF n \in shut THEN Shutdown(stage[n]) ELSE stage[n]],
                   guarded \union heard, tracked \union acked, FALSE)
    BY <1>3 DEF PrepareFails
  <2> DEFINE s == [n \in Drives |-> IF n \in shut THEN Shutdown(stage[n]) ELSE stage[n]]
  <2>2. \A n \in Drives : s[n] \in Stages /\ s[n] \notin Powered
    BY PowerOff, IdleIsUnpowered DEF Prepare, CanIInv, StagesOK, PowerOnBooks
  <2>3. s \in [Drives -> Stages]
    BY <2>2
  <2>4. Teardown(s, guarded \union heard, tracked \union acked, FALSE)
    BY <2>1
  <2> HIDE DEF s
  <2> QED
    BY <2>2, <2>3, <2>4, TeardownKeepsCanIInv
<1> QED
  BY <1>1, <1>2, <1>3 DEF Prepare

\* engage() that fails forgets no drive that its rollback could not reach.
LEMMA EngageKeepsCanIInv ==
  ASSUME CanIInv, Engage
  PROVE  CanIInv'
<1>1. link = "standby" /\ cleanupOwed /\ ~watched /\ \A n \in Drives : n \in guarded
  BY DEF Engage, CanIInv, LinkIsOwed, ArmedIsEnergised, GuardedOrOff
<1>2. CASE EngageSucceeds
  <2>1. stage' = [n \in Drives |-> "holding"]
    BY <1>2 DEF EngageSucceeds
  <2>2. stage' \in [Drives -> Stages]
    BY <2>1 DEF Stages, Powered
  <2> QED
    BY <1>1, <1>2, <2>2 DEF EngageSucceeds, CanIInv, StagesOK, PowerOnBooks, LinkIsOwed,
                             ArmedIsEnergised, GuardedOrOff, Links
<1>3. CASE EngageFails
  <2>1. /\ link' = link /\ cleanupOwed' = cleanupOwed /\ watched' = watched
        /\ guarded' = guarded
    BY <1>3 DEF EngageFails
  <2>2. PICK on \in Prefixes, o \in [Drives -> {"done", "lost", "dead"}] :
          LET enabled(n) == n \in on /\ ~sto /\ stage[n] # "tripped"
              before == [n \in Drives |-> IF enabled(n) THEN "holding" ELSE stage[n]]
          IN /\ stage' = [n \in Drives |-> IF o[n] = "dead" THEN before[n]
                                                            ELSE Shutdown(before[n])]
             /\ energised' = (~FALSE /\ \E n \in Drives : o[n] # "done")
    BY <1>3, Zenon DEF EngageFails, RolledBack
  <2> DEFINE before == [n \in Drives |-> IF n \in on /\ ~sto /\ stage[n] # "tripped"
                                         THEN "holding" ELSE stage[n]]
  <2>3. \A n \in Drives : before[n] \in Stages
    BY DEF CanIInv, StagesOK, Stages, Powered
  <2>4. /\ stage' = [n \in Drives |-> IF o[n] = "dead" THEN before[n] ELSE Shutdown(before[n])]
        /\ energised' = \E n \in Drives : o[n] # "done"
    BY <2>2
  <2> HIDE DEF before
  <2>5. ASSUME NEW n \in Drives
        PROVE  stage'[n] \in Stages /\ (stage'[n] \in Powered => energised')
    <3>1. CASE o[n] = "dead"
      BY <2>3, <2>4, <3>1
    <3>2. CASE o[n] # "dead"
      BY <2>4, <3>2, PowerOff, IdleIsUnpowered
    <3> QED
      BY <3>1, <3>2
  <2>6. stage' \in [Drives -> Stages]
    BY <2>4, <2>5
  <2> QED
    BY <1>1, <2>1, <2>5, <2>6 DEF CanIInv, StagesOK, PowerOnBooks, LinkIsOwed,
                                   ArmedIsEnergised, GuardedOrOff, Links
<1> QED
  BY <1>2, <1>3 DEF Engage

\* A release that a drive did not confirm stays on the books.
LEMMA ReleaseKeepsCanIInv ==
  ASSUME CanIInv, Release
  PROVE  CanIInv'
<1>1. link = "armed" /\ cleanupOwed /\ energised /\ ~watched /\ \A n \in Drives : n \in guarded
  BY DEF Release, CanIInv, LinkIsOwed, ArmedIsEnergised, GuardedOrOff
<1>2. PICK o \in [Drives -> {"done", "lost", "zeroed", "dead"}] :
        /\ stage' = [n \in Drives |->
                       CASE o[n] \in {"done", "lost"} -> Shutdown(stage[n])
                         [] o[n] = "zeroed" -> Rpdo(stage[n], "holding")
                         [] OTHER -> stage[n]]
        /\ link' = IF \A n \in Drives : o[n] = "done" THEN "standby" ELSE "fault"
        /\ energised' = (energised /\ ~(\A n \in Drives : o[n] = "done"))
  BY DEF Release
<1>3. ASSUME NEW n \in Drives
      PROVE  stage'[n] \in Stages /\ (stage'[n] \in Powered => energised')
  <2>1. stage[n] \in Stages
    BY DEF CanIInv, StagesOK
  <2>2. CASE o[n] \in {"done", "lost"}
    BY <1>2, <2>2, PowerOff, IdleIsUnpowered
  <2>3. CASE o[n] = "zeroed"
    <3>1. stage'[n] = Rpdo(stage[n], "holding") /\ energised'
      BY <1>1, <1>2, <2>3
    <3> QED
      BY <2>1, <3>1, RpdoSets DEF Powered
  <2>4. CASE o[n] \notin {"done", "lost", "zeroed"}
    BY <1>1, <1>2, <2>1, <2>4
  <2> QED
    BY <2>2, <2>3, <2>4
<1>4. stage' \in [Drives -> Stages]
  BY <1>2, <1>3
<1>5. cleanupOwed' = cleanupOwed /\ watched' = watched /\ guarded' = guarded
  BY DEF Release
<1> QED
  BY <1>1, <1>2, <1>3, <1>4, <1>5 DEF CanIInv, StagesOK, PowerOnBooks, LinkIsOwed,
                                       ArmedIsEnergised, GuardedOrOff, Links

\* An RPDO to any drives, over a link that knows they may be on.
LEMMA RpdosKeepCanIInv ==
  ASSUME CanIInv, energised, NEW heard, NEW target \in Powered,
         link # "disarmed",
         stage' = [n \in Drives |-> IF n \in heard THEN Rpdo(stage[n], target) ELSE stage[n]],
         UNCHANGED <<energised, cleanupOwed, guarded>>,
         link' \in {link, "fault"}, watched' => link' = "fault"
  PROVE  CanIInv'
<1>1. ASSUME NEW n \in Drives
      PROVE  stage'[n] \in Stages /\ (stage[n] \in {"off", "tripped"} => stage'[n] = stage[n])
  BY <1>1, RpdoSets DEF CanIInv, StagesOK
<1>2. stage' \in [Drives -> Stages]
  BY <1>1
<1> QED
  BY <1>1, <1>2 DEF CanIInv, StagesOK, PowerOnBooks, LinkIsOwed, ArmedIsEnergised,
                     GuardedOrOff, Links

LEMMA FaultKeepsCanIInv ==
  ASSUME CanIInv, RaiseFault \/ FaultTick
  PROVE  CanIInv'
<1>1. CASE RaiseFault /\ link = "armed"
  <2>1. PICK heard \in SUBSET Drives :
          stage' = [n \in Drives |-> IF n \in heard THEN Rpdo(stage[n], "holding")
                                                    ELSE stage[n]]
    BY <1>1 DEF RaiseFault
  <2> QED
    BY <1>1, <2>1, RpdosKeepCanIInv DEF RaiseFault, CanIInv, ArmedIsEnergised, Powered
<1>2. CASE RaiseFault /\ link # "armed"
  BY <1>2 DEF RaiseFault, CanIInv, StagesOK, PowerOnBooks, LinkIsOwed, ArmedIsEnergised,
              GuardedOrOff, Links
<1>3. CASE FaultTick
  <2>1. PICK heard \in SUBSET Drives :
          stage' = [n \in Drives |-> IF (stopPending # {} /\ stopTries < StopRetries)
                                        /\ n \in heard
                                     THEN Rpdo(stage[n], "holding") ELSE stage[n]]
    BY <1>3 DEF FaultTick
  <2> DEFINE reached == {n \in heard : stopPending # {} /\ stopTries < StopRetries}
  <2>2. stage' = [n \in Drives |-> IF n \in reached THEN Rpdo(stage[n], "holding")
                                                    ELSE stage[n]]
    BY <2>1
  <2>3. /\ link = "fault" /\ watched /\ energised
        /\ UNCHANGED <<link, energised, cleanupOwed, guarded, watched>>
    BY <1>3 DEF FaultTick, CanIInv, ArmedIsEnergised
  <2> HIDE DEF reached
  <2> QED
    BY <2>2, <2>3, RpdosKeepCanIInv DEF Powered
<1> QED
  BY <1>1, <1>2, <1>3

\* Setpoints go out over an armed link only.
LEMMA SetpointKeepsCanIInv ==
  ASSUME CanIInv, Setpoint
  PROVE  CanIInv'
<1>1. PICK target \in Outputs, heard \in SUBSET Drives :
        stage' = [n \in Drives |-> IF n \in heard THEN Rpdo(stage[n], target) ELSE stage[n]]
  BY DEF Setpoint
<1>2. target \in Powered
  BY <1>1 DEF Outputs, Powered
<1>3. /\ link = "armed" /\ energised /\ ~watched
      /\ UNCHANGED <<link, energised, cleanupOwed, guarded, watched>>
  BY DEF Setpoint, linkVars, CanIInv, ArmedIsEnergised
<1> QED
  BY <1>1, <1>2, <1>3, RpdosKeepCanIInv

\* The loop of the bus thread, and its end.
LEMMA ThreadKeepsCanIInv ==
  ASSUME CanIInv, ServeRequests \/ Policy \/ SendOut \/ ThreadEnds \/ Killed
  PROVE  CanIInv'
<1>1. CASE ServeRequests
  BY <1>1, DisarmKeepsCanIInv, LinkUnchangedKeepsCanIInv DEF ServeRequests
<1>2. CASE Policy
  <2>1. \/ Cleanup \/ Disarm \/ LinkUnchanged \/ Prepare \/ RaiseFault \/ Release \/ Engage
    BY <1>2 DEF Policy, DecideUp
  <2> QED
    BY <2>1, DisarmKeepsCanIInv, LinkUnchangedKeepsCanIInv, PrepareKeepsCanIInv,
       FaultKeepsCanIInv, ReleaseKeepsCanIInv, EngageKeepsCanIInv
<1>3. CASE SendOut
  BY <1>3, FaultKeepsCanIInv, SetpointKeepsCanIInv, LinkUnchangedKeepsCanIInv DEF SendOut
<1>4. CASE ThreadEnds
  BY <1>4, DisarmKeepsCanIInv DEF ThreadEnds
<1>5. CASE Killed
  BY <1>5, LinkUnchangedKeepsCanIInv DEF Killed, LinkUnchanged, driveVars
<1> QED
  BY <1>1, <1>2, <1>3, <1>4, <1>5

\* What happens beside the thread takes power away and gives none.
LEMMA OthersKeepCanIInv ==
  ASSUME CanIInv,
         \/ Ask \/ Command \/ Expire \/ ConfirmTimePasses \/ SafetyChain
         \/ \E n \in Drives : Trip(n) \/ PowerCycle(n)
  PROVE  CanIInv'
<1>1. CASE Ask \/ Command \/ Expire
  BY <1>1, LinkUnchangedKeepsCanIInv DEF Ask, Command, Expire, LinkUnchanged, driveVars
<1>2. CASE ConfirmTimePasses
  BY <1>2 DEF ConfirmTimePasses, driveVars, CanIInv, StagesOK, PowerOnBooks, LinkIsOwed,
              ArmedIsEnergised, GuardedOrOff
<1>3. CASE SafetyChain
  <2>1. /\ stage' = [n \in Drives |-> IF sto' /\ stage[n] # "tripped" THEN "off" ELSE stage[n]]
        /\ UNCHANGED <<link, energised, cleanupOwed, watched, guarded>>
    BY <1>3 DEF SafetyChain, linkVars
  <2>2. \A n \in Drives : stage'[n] \in {stage[n], "off"} /\ stage'[n] \in Stages
    BY <2>1 DEF CanIInv, StagesOK, Stages, Idle
  <2>3. stage' \in [Drives -> Stages]
    BY <2>1, <2>2
  <2> QED
    BY <2>1, <2>2, <2>3 DEF CanIInv, StagesOK, PowerOnBooks, LinkIsOwed, ArmedIsEnergised,
                             GuardedOrOff, Powered
<1>4. ASSUME NEW n \in Drives, Trip(n) PROVE CanIInv'
  <2>1. /\ stage' = [stage EXCEPT ![n] = "tripped"]
        /\ UNCHANGED <<link, energised, cleanupOwed, watched, guarded>>
    BY <1>4 DEF Trip, linkVars
  <2>2. \A m \in Drives : stage'[m] = IF m = n THEN "tripped" ELSE stage[m]
    BY <2>1 DEF CanIInv, StagesOK
  <2>3. stage' \in [Drives -> Stages]
    BY <2>1 DEF CanIInv, StagesOK, Stages, Idle
  <2> QED
    BY <1>4, <2>1, <2>2, <2>3 DEF Trip, CanIInv, StagesOK, PowerOnBooks, LinkIsOwed,
                             ArmedIsEnergised, GuardedOrOff, Powered
<1>5. ASSUME NEW n \in Drives, PowerCycle(n) PROVE CanIInv'
  <2>1. /\ stage' = [stage EXCEPT ![n] = "off"] /\ guarded' = guarded \ {n}
        /\ link \in {"disarmed", "fault"}
        /\ UNCHANGED <<link, energised, cleanupOwed, watched>>
    BY <1>5 DEF PowerCycle, linkVars
  <2>2. \A m \in Drives : stage'[m] = IF m = n THEN "off" ELSE stage[m]
    BY <2>1 DEF CanIInv, StagesOK
  <2>3. stage' \in [Drives -> Stages]
    BY <2>1 DEF CanIInv, StagesOK, Stages, Idle
  <2> QED
    BY <2>1, <2>2, <2>3 DEF CanIInv, StagesOK, PowerOnBooks, LinkIsOwed, ArmedIsEnergised,
                             GuardedOrOff, Powered
<1> QED
  BY <1>1, <1>2, <1>3, <1>4, <1>5

\* A stage that is on is on the books, and the drive holds its guard, whatever is lost on the bus.
THEOREM CanInvariant == CanSpec => []CanIInv
<1>1. ASSUME CanIInv, [CanNext]_canVars PROVE CanIInv'
  <2>1. CASE CanNext
    BY <1>1, <2>1, ThreadKeepsCanIInv, OthersKeepCanIInv DEF CanNext
  <2>2. CASE UNCHANGED canVars
    BY <1>1, <2>2, LinkUnchangedKeepsCanIInv DEF canVars, LinkUnchanged, linkVars, driveVars
  <2> QED
    BY <1>1, <2>1, <2>2
<1> QED
  BY InitCanIInv, <1>1, PTL DEF CanSpec

\* Power is accounted for in both directions (canopen.py: what a sequence left on is owed a
\* teardown, and a drive of a link that is up guards itself), for any number of drives.
THEOREM PowerAccounted == CanSpec => []PowerIsAccounted
<1>1. CanIInv => PowerIsAccounted
  BY DEF CanIInv, PowerOnBooks, GuardedOrOff, PowerIsAccounted, PowerIsOwed, PowerIsGuarded,
         Powered
<1> QED
  BY CanInvariant, <1>1, PTL

-----------------------------------------------------------------------------
\* Frames other than a setpoint start no wheel.
LEMMA FramesStopOrKeep ==
  ASSUME NEW s
  PROVE  /\ Shutdown(s) # "turning" /\ DisableVoltage(s) # "turning"
         /\ Rpdo(s, "holding") = "turning" => s = "turning"
BY DEF Shutdown, DisableVoltage, Rpdo

LEMMA TeardownStartsNothing ==
  ASSUME NEW s, NEW g, NEW t, NEW zero, Teardown(s, g, t, zero),
         NEW n \in Drives, stage'[n] = "turning"
  PROVE  s[n] = "turning"
<1>1. PICK o \in [Drives -> TeardownOutcome(zero)] :
        stage' = [m \in Drives |-> TornDown(o[m], s[m])]
  BY DEF Teardown
<1>2. stage'[n] = TornDown(o[n], s[n])
  BY <1>1
<1> QED
  BY <1>2, FramesStopOrKeep DEF TornDown

LEMMA DisarmStartsNothing ==
  ASSUME Disarm \/ Cleanup, NEW n \in Drives, stage'[n] = "turning"
  PROVE  stage[n] = "turning"
BY TeardownStartsNothing DEF Disarm, Cleanup

LEMMA PrepareStartsNothing ==
  ASSUME Prepare, NEW n \in Drives, stage'[n] = "turning"
  PROVE  stage[n] = "turning"
<1>1. CASE PreflightFails
  BY <1>1 DEF PreflightFails
<1>2. CASE PrepareSucceeds
  BY <1>2, FramesStopOrKeep DEF PrepareSucceeds
<1>3. CASE PrepareFails
  <2>1. PICK acked, heard, shut \in Prefixes :
          Teardown([m \in Drives |-> IF m \in shut THEN Shutdown(stage[m]) ELSE stage[m]],
                   guarded \union heard, tracked \union acked, FALSE)
    BY <1>3 DEF PrepareFails
  <2> DEFINE s == [m \in Drives |-> IF m \in shut THEN Shutdown(stage[m]) ELSE stage[m]]
  <2>2. Teardown(s, guarded \union heard, tracked \union acked, FALSE)
    BY <2>1
  <2>3. s[n] = IF n \in shut THEN Shutdown(stage[n]) ELSE stage[n]
    OBVIOUS
  <2> HIDE DEF s
  <2>4. s[n] = "turning"
    BY <2>2, TeardownStartsNothing
  <2> QED
    BY <2>3, <2>4, FramesStopOrKeep
<1> QED
  BY <1>1, <1>2, <1>3 DEF Prepare

LEMMA EngageStartsNothing ==
  ASSUME Engage, NEW n \in Drives, stage'[n] = "turning"
  PROVE  stage[n] = "turning"
<1>1. CASE EngageSucceeds
  BY <1>1 DEF EngageSucceeds
<1>2. CASE EngageFails
  <2>1. PICK on \in Prefixes, o \in [Drives -> {"done", "lost", "dead"}] :
          LET enabled(m) == m \in on /\ ~sto /\ stage[m] # "tripped"
              before == [m \in Drives |-> IF enabled(m) THEN "holding" ELSE stage[m]]
          IN stage' = [m \in Drives |-> IF o[m] = "dead" THEN before[m]
                                                         ELSE Shutdown(before[m])]
    BY <1>2, Zenon DEF EngageFails, RolledBack
  <2> DEFINE before == [m \in Drives |-> IF m \in on /\ ~sto /\ stage[m] # "tripped"
                                         THEN "holding" ELSE stage[m]]
  <2>2. stage'[n] = IF o[n] = "dead" THEN before[n] ELSE Shutdown(before[n])
    BY <2>1
  <2>3. before[n] = "turning" => stage[n] = "turning"
    OBVIOUS
  <2> HIDE DEF before
  <2> QED
    BY <2>2, <2>3, FramesStopOrKeep
<1> QED
  BY <1>1, <1>2 DEF Engage

LEMMA StopsStartNothing ==
  ASSUME Release \/ RaiseFault \/ FaultTick, NEW n \in Drives, stage'[n] = "turning"
  PROVE  stage[n] = "turning"
<1>1. CASE Release
  BY <1>1, FramesStopOrKeep DEF Release
<1>2. CASE RaiseFault
  BY <1>2, FramesStopOrKeep DEF RaiseFault
<1>3. CASE FaultTick
  BY <1>3, FramesStopOrKeep DEF FaultTick
<1> QED
  BY <1>1, <1>2, <1>3

\* A wheel starts to turn by a setpoint, and by one that is sent on a live command.
LEMMA TurnsOnLiveCommand ==
  ASSUME CanIInv, CanNext, NEW n \in Drives, stage[n] # "turning", stage'[n] = "turning"
  PROVE  command = "live"
<1> DEFINE Kept == stage' = stage
<1>1. CASE ServeRequests
  BY <1>1, DisarmStartsNothing DEF ServeRequests, LinkUnchanged
<1>2. CASE Policy
  <2>1. Cleanup \/ Disarm \/ Kept \/ Prepare \/ RaiseFault \/ Release \/ Engage
    BY <1>2 DEF Policy, DecideUp, LinkUnchanged
  <2> QED
    BY <2>1, DisarmStartsNothing, PrepareStartsNothing, EngageStartsNothing, StopsStartNothing
<1>3. CASE SendOut
  <2>1. Setpoint
    BY <1>3, StopsStartNothing DEF SendOut, LinkUnchanged
  <2>2. PICK target \in Outputs, heard \in SUBSET Drives :
          stage' = [m \in Drives |-> IF m \in heard THEN Rpdo(stage[m], target) ELSE stage[m]]
    BY <2>1 DEF Setpoint
  <2>3. target = "turning"
    BY <2>2, FramesStopOrKeep DEF Outputs
  <2> QED
    BY <2>3 DEF Outputs
<1>4. CASE ThreadEnds
  BY <1>4, DisarmStartsNothing DEF ThreadEnds
<1>5. CASE Killed \/ Ask \/ Command \/ Expire \/ ConfirmTimePasses
  BY <1>5 DEF Killed, Ask, Command, Expire, ConfirmTimePasses, driveVars
<1>6. CASE SafetyChain
  BY <1>6 DEF SafetyChain
<1>7. ASSUME NEW m \in Drives, Trip(m) \/ PowerCycle(m) PROVE stage'[n] # "turning"
  BY <1>7 DEF Trip, PowerCycle, CanIInv, StagesOK
<1> QED
  BY <1>1, <1>2, <1>3, <1>4, <1>5, <1>6, <1>7 DEF CanNext

\* A wheel starts to turn only on a command that is live at the moment it is sent, whatever the
\* thread was blocked in before (_target() of drive_node.py), for any number of drives.
THEOREM ExpiredIsNeverSent == CanSpec => ExpiredNeverSent
<1>1. CanIInv /\ [CanNext]_canVars
        => [\A n \in Drives : stage[n] # "turning" /\ stage'[n] = "turning"
              => command = "live"]_canVars
  BY TurnsOnLiveCommand
<1> QED
  BY CanInvariant, <1>1, PTL DEF CanSpec, ExpiredNeverSent

-----------------------------------------------------------------------------
(***************************************************************************)
(* The contactors of the steering base.                                    *)
(***************************************************************************)

QrTypes ==
  /\ dir \in Directions /\ dwelt \in Nat /\ imageAge \in Nat /\ scanAge \in Nat
  /\ claim \in [dir : Directions, age : Nat]
  /\ coil \in Coils /\ readback \in Coils /\ desired \in Coils
  /\ imageAge <= Reconnect /\ control \in {"running", "ended"}
  /\ scanStep \in {"idle", "fwd", "rev", "done"}

\* What is claimed is the direction applied.
ClaimIsDir == claim.dir = dir

\* A claim to go forward that the next scan would carry out.
Forward == claim.dir = 1 /\ claim.age < CoilHold /\ control = "running"

\* It was renewed while the image was fresh.
ForwardIsFresh == Forward => imageAge <= Fresh + 1 + claim.age

\* How far a scan has carried its wishes into the module.
ScanProgress ==
  /\ scanStep # "idle" => dio = "up"
  /\ scanStep = "fwd" => coil = readback
  /\ scanStep = "rev" => coil.fwd = desired.fwd /\ coil.rev = readback.rev
  /\ scanStep = "done" => coil = desired

\* A scan wants one direction, and forward only where it read REV low.
ScanIsSafe ==
  scanStep # "idle" => ~(desired.fwd /\ desired.rev) /\ ~(desired.fwd /\ readback.rev)

\* Backwards now, or for less time than since the last scan began.
Backwards == dir = -1 \/ (dir = 0 /\ dwelt < scanAge)

\* REV is wanted, or on, only under a direction that is, or was just now, backwards; or it is
\* left over from a write that failed.
RevIsExplained ==
  dio = "up" =>
    /\ scanStep # "idle" /\ desired.rev => Backwards
    /\ scanStep = "idle" /\ coil.rev => Backwards \/ imageAge = Reconnect

QrIInv ==
  /\ QrTypes /\ ClaimIsDir /\ ForwardIsFresh /\ ScanProgress /\ ScanIsSafe /\ RevIsExplained
  /\ NeverBothOn

\* The times as the proof uses them.
LEMMA Times ==
  /\ Dwell \in Nat /\ CoilHold \in Nat /\ Fresh \in Nat /\ Reconnect \in Nat /\ MaxScan \in Nat
  /\ Dwell >= 1 /\ CoilHold >= 1 /\ MaxScan <= Dwell /\ Fresh + CoilHold < Reconnect
  /\ Oldest = Reconnect
BY QrAssumption, ScanAssumption, ReconnectAssumption DEF Oldest

\* A counter goes on to its bound and stays there.
LEMMA CountsUp ==
  ASSUME NEW n \in Nat, NEW bound \in Nat
  PROVE  UpTo(n, bound) \in Nat /\ UpTo(n, bound) <= bound /\ UpTo(n, bound) <= n + 1
BY DEF UpTo

LEMMA CoilsOfOne ==
  ASSUME NEW d \in Directions
  PROVE  /\ CoilsOf(d) \in Coils
         /\ CoilsOf(d).fwd <=> d = 1
         /\ CoilsOf(d).rev <=> d = -1
BY DEF CoilsOf, Coils, Directions

LEMMA InitQrIInv == QrInit => QrIInv
<1> SUFFICES ASSUME QrInit PROVE QrIInv
  OBVIOUS
<1>1. CoilsOf(0) \in Coils /\ ~CoilsOf(0).fwd /\ ~CoilsOf(0).rev
  <2>1. 0 \in Directions /\ ~(0 = 1) /\ ~(0 = -1)
    BY DEF Directions
  <2> QED
    BY <2>1, CoilsOfOne, Zenon
<1>2. QrTypes
  <2>1. imageAge = Reconnect /\ dwelt \in Nat /\ scanAge \in Nat /\ dir \in Directions
    BY Times DEF QrInit, Directions
  <2>2. claim \in [dir : Directions, age : Nat]
    BY DEF QrInit, Directions
  <2> QED
    BY <1>1, <2>1, <2>2, Times DEF QrInit, QrTypes
<1>3. ClaimIsDir /\ ForwardIsFresh /\ ScanProgress /\ ScanIsSafe
  BY DEF QrInit, ClaimIsDir, ForwardIsFresh, Forward, ScanProgress, ScanIsSafe
<1> QED
  BY <1>1, <1>2, <1>3, Zenon DEF QrIInv, QrInit, RevIsExplained, NeverBothOn

-----------------------------------------------------------------------------
\* What a tick of the control thread does to the direction: it is taken back and the dwell
\* begins, stays at rest, is kept, or is raised after the dwell; the latter two on a fresh image.
TickDirection ==
  /\ dir' \in Directions /\ dwelt' \in Nat
  /\ claim' = [dir |-> dir', age |-> 0]
  /\ dir' # 0 => imageAge <= Fresh
  /\ \/ dir' = 0 /\ dwelt' = 0
     \/ dir' = 0 /\ dir = 0 /\ dwelt' = UpTo(dwelt, Dwell)
     \/ dir' # 0 /\ dir' = dir
     \/ dir' # 0 /\ dir = 0 /\ UpTo(dwelt, Dwell) >= Dwell

LEMMA TickDirects ==
  ASSUME QrTypes, wanted \in Directions, ControlTick
  PROVE  TickDirection
<1> USE DEF QrTypes, Directions
<1>0. UpTo(dwelt, Dwell) \in Nat
  BY Times, CountsUp
<1>1. ASSUME NEW state, AtRest(state) PROVE TickDirection
  BY <1>1 DEF AtRest, Reset, Apply, TickDirection
<1>2. ASSUME NEW want \in {0, wanted}, NEW measured, TickArmed(want, measured)
      PROVE  TickDirection
  <2>1. imageAge <= Fresh
    BY <1>2 DEF TickArmed, StateNow, IoOk
  <2>2. claim' = [dir |-> dir', age |-> 0]
    BY <1>2 DEF TickArmed, Apply
  <2>3. CASE Coasts(want, measured)
    BY <2>1, <2>2, <2>3 DEF Coasts, TickDirection
  <2>4. CASE Rests(want, measured)
    BY <1>0, <2>1, <2>2, <2>4 DEF Rests, TickDirection
  <2>5. CASE Directs(want)
    <3>1. CASE want = dir
      BY <2>1, <2>2, <2>5, <3>1 DEF Directs, TickDirection
    <3>2. CASE want # dir /\ dir # 0
      <4>1. dir' = 0 /\ dwelt' = 0
        BY <2>5, <3>2 DEF Directs
      <4> QED
        BY <2>2, <4>1 DEF TickDirection
    <3>3. CASE want # dir /\ dir = 0
      <4>1. dir' = (IF MayRaise THEN want ELSE 0) /\ dwelt' = UpTo(dwelt, Dwell) /\ want # 0
        BY <2>5, <3>3 DEF Directs
      <4> QED
        BY <1>0, <2>1, <2>2, <3>3, <4>1 DEF MayRaise, TickDirection
    <3> QED
      BY <3>1, <3>2, <3>3
  <2> QED
    BY <1>2, <2>3, <2>4, <2>5 DEF TickArmed
<1> QED
  BY <1>1, <1>2 DEF ControlTick, TickAtRest, TickFaults

\* Time passes for the image and the scan.
LEMMA ImageAges ==
  ASSUME QrTypes, TimePasses
  PROVE  /\ imageAge' \in Nat /\ scanAge' \in Nat
         /\ imageAge' <= Reconnect /\ imageAge' <= imageAge + 1
         /\ imageAge = Reconnect => imageAge' = Reconnect
         /\ dio = "up" => scanAge' = scanAge + 1
BY Times, CountsUp DEF QrTypes, TimePasses, UpTo

LEMMA TickKeepsQrIInv ==
  ASSUME QrIInv, wanted \in Directions, ControlTick
  PROVE  QrIInv'
<1>1. TickDirection
  BY TickDirects DEF QrIInv
<1>2. /\ UNCHANGED <<scanThreadVars, coil, control>>
      /\ dio = "up" => scanAge < MaxScan
      /\ TimePasses
  BY DEF ControlTick, TimeMayPass
<1>3. UNCHANGED <<dio, scanStep, readback, desired, coil, control>>
  BY <1>2 DEF scanThreadVars
<1>4. /\ imageAge' \in Nat /\ scanAge' \in Nat
      /\ imageAge' <= Reconnect /\ imageAge' <= imageAge + 1
      /\ imageAge = Reconnect => imageAge' = Reconnect
      /\ dio = "up" => scanAge' = scanAge + 1
  BY <1>2, ImageAges DEF QrIInv
<1>5. QrTypes'
  BY <1>1, <1>3, <1>4 DEF QrIInv, QrTypes, TickDirection
<1>6. ClaimIsDir' /\ ForwardIsFresh'
  BY <1>1, <1>4, Times DEF TickDirection, ClaimIsDir, ForwardIsFresh, Forward, QrIInv, QrTypes
<1>7. ScanProgress' /\ ScanIsSafe' /\ NeverBothOn'
  BY <1>3 DEF QrIInv, ScanProgress, ScanIsSafe, NeverBothOn
<1>8. ASSUME dio = "up", Backwards PROVE Backwards'
  <2>1. dwelt \in Nat /\ scanAge \in Nat /\ scanAge < MaxScan /\ scanAge' = scanAge + 1
    BY <1>2, <1>4, <1>8 DEF QrIInv, QrTypes
  <2>2. UpTo(dwelt, Dwell) <= dwelt + 1 /\ UpTo(dwelt, Dwell) \in Nat
    BY <2>1, Times, CountsUp
  <2>3. CASE dir = -1
    BY <1>1, <2>1, <2>3 DEF TickDirection, Backwards
  <2>4. CASE dir = 0 /\ dwelt < scanAge
    <3>1. UpTo(dwelt, Dwell) < Dwell
      BY <2>1, <2>2, <2>4, Times
    <3> QED
      BY <1>1, <2>1, <2>2, <2>4, <3>1, Times DEF TickDirection, Backwards
  <2> QED
    BY <1>8, <2>3, <2>4 DEF Backwards
<1>9. RevIsExplained'
  BY <1>3, <1>4, <1>8 DEF QrIInv, RevIsExplained
<1> QED
  BY <1>5, <1>6, <1>7, <1>9 DEF QrIInv

\* Nothing is decided, and everything grows older.
LEMMA LateKeepsQrIInv ==
  ASSUME QrIInv, Late
  PROVE  QrIInv'
<1>1. /\ UNCHANGED <<dio, scanStep, readback, desired, coil, control, dir>>
      /\ TimePasses
      /\ claim' = [claim EXCEPT !.age = UpTo(@, CoilHold)]
      /\ dwelt' = IF dir = 0 THEN UpTo(dwelt, Dwell) ELSE 0
  BY DEF Late, scanThreadVars
<1>2. /\ imageAge' \in Nat /\ scanAge' \in Nat
      /\ imageAge' <= Reconnect /\ imageAge' <= imageAge + 1
      /\ imageAge = Reconnect => imageAge' = Reconnect
      /\ dio = "up" => scanAge' = scanAge + 1
  BY <1>1, ImageAges DEF QrIInv
<1>3. /\ claim.age \in Nat /\ dwelt \in Nat /\ scanAge \in Nat /\ imageAge \in Nat
      /\ claim' \in [dir : Directions, age : Nat]
      /\ claim'.dir = claim.dir /\ claim'.age = UpTo(claim.age, CoilHold)
  BY <1>1, CountsUp, Times DEF QrIInv, QrTypes
<1>4. dwelt' \in Nat /\ dwelt' <= dwelt + 1
  BY <1>1, <1>3, CountsUp, Times
<1>5. QrTypes'
  BY <1>1, <1>2, <1>3, <1>4 DEF QrIInv, QrTypes
<1>6. ClaimIsDir' /\ ForwardIsFresh'
  BY <1>1, <1>2, <1>3, Times DEF QrIInv, ClaimIsDir, ForwardIsFresh, Forward, UpTo
<1>7. ScanProgress' /\ ScanIsSafe' /\ NeverBothOn'
  BY <1>1 DEF QrIInv, ScanProgress, ScanIsSafe, NeverBothOn
<1>8. dio = "up" /\ Backwards => Backwards'
  BY <1>1, <1>2, <1>3, <1>4 DEF Backwards
<1>9. RevIsExplained'
  BY <1>1, <1>2, <1>8 DEF QrIInv, RevIsExplained
<1> QED
  BY <1>5, <1>6, <1>7, <1>9 DEF QrIInv

\* Requests, wishes and the end of the thread leave directions and coils alone.
LEMMA RequestsKeepQrIInv ==
  ASSUME QrIInv, Serve \/ WishChanges \/ ControlEnds
  PROVE  QrIInv'
<1>1. /\ UNCHANGED <<wheelVars, claim, scanThreadVars, imageAge, scanAge, coil>>
      /\ control' = control \/ control' = "ended"
  BY DEF Serve, WishChanges, ControlEnds
<1>2. UNCHANGED <<dir, dwelt, dio, scanStep, readback, desired>>
  BY <1>1 DEF wheelVars, scanThreadVars
<1> QED
  BY <1>1, <1>2 DEF QrIInv, QrTypes, ClaimIsDir, ForwardIsFresh, Forward, ScanProgress,
                     ScanIsSafe, RevIsExplained, Backwards, NeverBothOn

-----------------------------------------------------------------------------
\* A claim to go forward finds REV low at the start of a scan.
LEMMA ScanReadsKeepsQrIInv ==
  ASSUME QrIInv, ScanReads
  PROVE  QrIInv'
<1>1. /\ dio = "up" /\ scanStep = "idle" /\ scanStep' = "fwd" /\ readback' = coil
      /\ desired' = Claimed /\ scanAge' = 0
      /\ UNCHANGED <<wheelVars, control, claim, dio, imageAge, coil>>
  BY DEF ScanReads
<1>2. UNCHANGED <<dir, dwelt>>
  BY <1>1 DEF wheelVars
<1> DEFINE d == IF Quiescing \/ claim.age >= CoilHold THEN 0 ELSE claim.dir
<1>3. /\ d \in Directions /\ desired' = CoilsOf(d)
      /\ d = 1 => Forward
      /\ d = -1 => claim.dir = -1
  <2>1. control = "running" \/ control = "ended"
    BY DEF QrIInv, QrTypes
  <2>2. claim.age \in Nat /\ claim.dir \in Directions
    BY DEF QrIInv, QrTypes
  <2> QED
    BY <1>1, <2>1, <2>2, Times DEF Claimed, Quiescing, Forward, Directions
<1> HIDE DEF d
<1>4. desired' \in Coils /\ (desired'.fwd <=> d = 1) /\ (desired'.rev <=> d = -1)
  BY <1>3, CoilsOfOne, Zenon
<1>5. Forward => ~coil.rev
  <2> SUFFICES ASSUME Forward PROVE ~coil.rev
    OBVIOUS
  <2>1. dir = 1 /\ imageAge < Reconnect
    BY Times DEF Forward, QrIInv, ClaimIsDir, ForwardIsFresh, QrTypes
  <2>2. ~Backwards /\ imageAge # Reconnect
    BY <2>1, Times DEF Backwards, QrIInv, QrTypes
  <2> QED
    BY <1>1, <2>2, Zenon DEF QrIInv, RevIsExplained
<1>6. QrTypes'
  BY <1>1, <1>2, <1>4 DEF QrIInv, QrTypes
<1>7. ClaimIsDir' /\ ForwardIsFresh'
  BY <1>1, <1>2 DEF QrIInv, ClaimIsDir, ForwardIsFresh, Forward
<1>8. ScanProgress' /\ NeverBothOn'
  BY <1>1 DEF QrIInv, ScanProgress, NeverBothOn
<1>9. ScanIsSafe'
  <2>1. ~(d = 1 /\ d = -1)
    OBVIOUS
  <2>2. desired'.fwd => ~readback'.rev
    BY <1>1, <1>3, <1>4, <1>5
  <2> QED
    BY <1>4, <2>1, <2>2, Zenon DEF ScanIsSafe
<1>10. RevIsExplained'
  <2>1. desired'.rev => Backwards'
    BY <1>2, <1>3, <1>4 DEF QrIInv, ClaimIsDir, Backwards
  <2> QED
    BY <1>1, <2>1 DEF RevIsExplained
<1> QED
  BY <1>6, <1>7, <1>8, <1>9, <1>10 DEF QrIInv

\* The writes of a scan: FWD goes on only where REV was read low, REV only after FWD went low.
LEMMA WriteKeepsQrIInv ==
  ASSUME QrIInv, WriteCoil("fwd", "rev") \/ WriteCoil("rev", "done")
  PROVE  QrIInv'
<1>1. /\ UNCHANGED <<wheelVars, control, claim, dio, readback, desired, imageAge, scanAge>>
      /\ dio = "up"
  BY DEF WriteCoil
<1>2. UNCHANGED <<dir, dwelt>>
  BY <1>1 DEF wheelVars
<1>3. coil \in Coils /\ desired \in Coils /\ readback \in Coils
  BY DEF QrIInv, QrTypes
<1>4. CASE WriteCoil("fwd", "rev")
  <2>1. scanStep = "fwd" /\ scanStep' = "rev" /\ coil = readback
    BY <1>4 DEF WriteCoil, QrIInv, ScanProgress
  <2>2. coil' = [coil EXCEPT !.fwd = desired.fwd]
    BY <1>3, <1>4, <2>1 DEF WriteCoil, Writes, Coils
  <2>3. coil' \in Coils /\ coil'.fwd = desired.fwd /\ coil'.rev = readback.rev
    BY <1>3, <2>1, <2>2 DEF Coils
  <2> QED
    BY <1>1, <1>2, <2>1, <2>3
    DEF QrIInv, QrTypes, ClaimIsDir, ForwardIsFresh, Forward, ScanProgress, ScanIsSafe,
        RevIsExplained, Backwards, NeverBothOn
<1>5. CASE WriteCoil("rev", "done")
  <2>1. /\ scanStep = "rev" /\ scanStep' = "done"
        /\ coil.fwd = desired.fwd /\ coil.rev = readback.rev
    BY <1>5 DEF WriteCoil, QrIInv, ScanProgress
  <2>2. coil' = [coil EXCEPT !.rev = desired.rev]
    BY <1>3, <1>5, <2>1 DEF WriteCoil, Writes, Coils
  <2>3. coil' \in Coils /\ coil'.fwd = desired.fwd /\ coil'.rev = desired.rev
    BY <1>3, <2>1, <2>2 DEF Coils
  <2>4. coil' = desired
    BY <1>3, <2>3 DEF Coils
  <2> QED
    BY <1>1, <1>2, <2>1, <2>3, <2>4
    DEF QrIInv, QrTypes, ClaimIsDir, ForwardIsFresh, Forward, ScanProgress, ScanIsSafe,
        RevIsExplained, Backwards, NeverBothOn
<1> QED
  BY <1>4, <1>5

\* A write that fails may be done or not, and ends the connection.
LEMMA WriteFailsKeepsQrIInv ==
  ASSUME QrIInv, WriteFails("fwd") \/ WriteFails("rev")
  PROVE  QrIInv'
<1>1. /\ UNCHANGED <<wheelVars, control, claim, imageAge, scanAge>>
      /\ dio = "up" /\ dio' = "lost" /\ ScanOver
  BY DEF WriteFails
<1>2. UNCHANGED <<dir, dwelt>>
  BY <1>1 DEF wheelVars
<1>3. coil \in Coils /\ desired \in Coils /\ readback \in Coils
  BY DEF QrIInv, QrTypes
<1>4. coil' \in Coils /\ ~(coil'.fwd /\ coil'.rev)
  <2>1. CASE WriteFails("fwd")
    <3>1. scanStep = "fwd" /\ coil = readback /\ ~(desired.fwd /\ readback.rev)
      BY <2>1 DEF WriteFails, QrIInv, ScanProgress, ScanIsSafe
    <3>2. coil' = coil \/ coil' = [coil EXCEPT !.fwd = desired.fwd]
      BY <2>1 DEF WriteFails
    <3> QED
      BY <1>3, <3>1, <3>2 DEF QrIInv, NeverBothOn, Coils
  <2>2. CASE WriteFails("rev")
    <3>1. scanStep = "rev" /\ coil.fwd = desired.fwd /\ ~(desired.fwd /\ desired.rev)
      BY <2>2 DEF WriteFails, QrIInv, ScanProgress, ScanIsSafe
    <3>2. coil' = coil \/ coil' = [coil EXCEPT !.rev = desired.rev]
      BY <2>2 DEF WriteFails
    <3> QED
      BY <1>3, <3>1, <3>2 DEF QrIInv, NeverBothOn, Coils
  <2> QED
    BY <2>1, <2>2
<1>5. scanStep' = "idle" /\ readback' \in Coils /\ desired' \in Coils
  BY <1>1, CoilsOfOne DEF ScanOver, Directions
<1> QED
  BY <1>1, <1>2, <1>4, <1>5
  DEF QrIInv, QrTypes, ClaimIsDir, ForwardIsFresh, Forward, ScanProgress, ScanIsSafe,
      RevIsExplained, NeverBothOn

\* The end of a scan, and of a connection, and the next one.
LEMMA ScanEndsKeepsQrIInv ==
  ASSUME QrIInv, ScanEnds \/ ScanFails \/ Reconnects \/ GivesUp
  PROVE  QrIInv'
<1>1. UNCHANGED <<wheelVars, control, claim, coil>>
  BY DEF ScanEnds, ScanFails, Reconnects, GivesUp
<1>2. UNCHANGED <<dir, dwelt>>
  BY <1>1 DEF wheelVars
<1>3. CASE ScanEnds
  <2>1. /\ scanStep = "done" /\ dio = "up" /\ scanStep' = "idle" /\ imageAge' = 0
        /\ scanAge' = scanAge /\ coil = desired
    BY <1>3 DEF ScanEnds, ScanOver, QrIInv, ScanProgress
  <2>2. readback' \in Coils /\ desired' \in Coils
    BY <1>3, CoilsOfOne DEF ScanEnds, ScanOver, Directions
  <2>3. coil.rev => Backwards
    BY <2>1 DEF QrIInv, RevIsExplained
  <2>4. QrTypes'
    BY <1>1, <1>2, <2>1, <2>2, Times DEF QrIInv, QrTypes
  <2>5. ForwardIsFresh'
    BY <1>1, <2>1, Times DEF ForwardIsFresh, Forward, QrIInv, QrTypes
  <2> QED
    BY <1>1, <1>2, <2>1, <2>3, <2>4, <2>5
    DEF QrIInv, ClaimIsDir, ScanProgress, ScanIsSafe, RevIsExplained, Backwards, NeverBothOn
<1>4. CASE ScanFails \/ GivesUp
  <2>1. /\ UNCHANGED <<scanStep, readback, desired, imageAge, scanAge>>
        /\ dio' # "up" /\ scanStep = "idle"
    BY <1>4 DEF ScanFails, GivesUp, QrIInv, ScanProgress
  <2> QED
    BY <1>1, <1>2, <2>1
    DEF QrIInv, QrTypes, ClaimIsDir, ForwardIsFresh, Forward, ScanProgress, ScanIsSafe,
        RevIsExplained, NeverBothOn
<1>5. CASE Reconnects
  <2>1. /\ UNCHANGED <<scanStep, readback, desired, imageAge>>
        /\ dio' = "up" /\ scanStep = "idle" /\ scanAge' = 0 /\ imageAge = Reconnect
    BY <1>5, Times DEF Reconnects, QrIInv, ScanProgress, QrTypes
  <2> QED
    BY <1>1, <1>2, <2>1
    DEF QrIInv, QrTypes, ClaimIsDir, ForwardIsFresh, Forward, ScanProgress, ScanIsSafe,
        RevIsExplained, NeverBothOn
<1> QED
  BY <1>3, <1>4, <1>5

-----------------------------------------------------------------------------
LEMMA WishIsADirection == QrSpec => [](wanted \in Directions)
<1>1. QrInit => wanted \in Directions
  BY DEF QrInit, Directions
<1>2. wanted \in Directions /\ [QrNext]_qrVars => (wanted \in Directions)'
  BY DEF QrNext, qrVars, ControlTick, Late, Serve, WishChanges, ControlEnds, ScanReads,
         WriteCoil, ScanEnds, ScanFails, WriteFails, Reconnects, GivesUp
<1> QED
  BY <1>1, <1>2, PTL DEF QrSpec

\* REV is on, or about to be, only where the invariant explains it.
THEOREM QrInvariant == QrSpec => []QrIInv
<1>1. ASSUME QrIInv, wanted \in Directions, [QrNext]_qrVars PROVE QrIInv'
  <2>1. CASE QrNext
    BY <1>1, <2>1, TickKeepsQrIInv, LateKeepsQrIInv, RequestsKeepQrIInv, ScanReadsKeepsQrIInv,
       WriteKeepsQrIInv, WriteFailsKeepsQrIInv, ScanEndsKeepsQrIInv DEF QrNext
  <2>2. CASE UNCHANGED qrVars
    BY <1>1, <2>2
    DEF qrVars, wheelVars, scanThreadVars, QrIInv, QrTypes, ClaimIsDir, ForwardIsFresh, Forward,
        ScanProgress, ScanIsSafe, RevIsExplained, Backwards, NeverBothOn
  <2> QED
    BY <1>1, <2>1, <2>2
<1> QED
  BY InitQrIInv, <1>1, WishIsADirection, PTL DEF QrSpec

\* The direction inputs of a driver are never both on (_apply() of qr_base_node.py), for every
\* profile whose times satisfy the assumptions.
THEOREM DirectionsNeverMeet == QrSpec => []NeverBothOn
<1>1. QrIInv => NeverBothOn
  BY DEF QrIInv
<1> QED
  BY QrInvariant, <1>1, PTL
=============================================================================
