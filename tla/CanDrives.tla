----------------------------- MODULE CanDrives -----------------------------
(***************************************************************************)
(* The owner of the two wheel drives on the CAN bus: DriveLink (canopen.py) *)
(* and the bus thread's loop (drive_node.py), over a bus on which any write *)
(* may be lost, or be done while its answer is lost, and over drives that   *)
(* the safety chain (STO) or their own heartbeat guard (1016h) may take     *)
(* out of operation between any two steps.                                  *)
(*                                                                         *)
(* A blocking sequence is one action.  What became of it is one outcome per *)
(* drive, so that one drive may be done while the other never heard of it.  *)
(***************************************************************************)
EXTENDS Naturals, FiniteSets

CONSTANTS Drives,      \* node numbers: sequences go through them in order
          StopRetries  \* DriveLink.STOP_RETRIES

ASSUME DrivesAssumption == Drives \subseteq Nat /\ IsFiniteSet(Drives) /\ Drives # {}
ASSUME StopRetriesAssumption == StopRetries \in Nat

VARIABLES
  link,        \* DriveLink.state
  energised,   \* a power stage may be on
  cleanupOwed, \* the drives were touched, no teardown has fully undone it
  tracked,     \* pc_guard_nodes
  watched,     \* t_fault is set: the stop of this fault is supervised
  stopPending, \* drives the zero of the fault has not reached
  stopTries,   \* _stop_tries
  late,        \* STOP_CONFIRM_S has passed since t_fault
  withheld,    \* heartbeat_withheld
  wantLink,    \* drive_node's want_link
  request,     \* what _serve_requests finds in its queue
  command,     \* the last command: none, live (fresh, under its lease), expired
  tickFresh,   \* whether it was live at the loop's own time stamp
  loopPc,      \* where the bus thread is: serve, policy, send, or dead
  stage,       \* the drive itself: off (Switch on disabled), ready, ...
  guarded,     \* drives that hold a 1016h guard
  sto          \* the safety chain holds torque off

linkVars == <<link, energised, cleanupOwed, tracked, watched, stopPending, stopTries, late,
              withheld>>
ownerVars == <<wantLink, request, command, tickFresh, loopPc>>
driveVars == <<stage, guarded, sto>>
canVars == <<linkVars, ownerVars, driveVars>>

Powered == {"holding", "turning"}

CanTypeOK ==
  /\ link \in {"disarmed", "standby", "armed", "fault"}
  /\ {energised, cleanupOwed, watched, late, withheld, wantLink, tickFresh, sto} \subseteq BOOLEAN
  /\ tracked \subseteq Drives /\ stopPending \subseteq Drives /\ guarded \subseteq Drives
  /\ stopTries \in 0..StopRetries
  /\ request \in {"none", "arm", "disarm", "ack"}
  /\ command \in {"none", "live", "expired"}
  /\ loopPc \in {"serve", "policy", "send", "dead"}
  /\ stage \in [Drives -> {"off", "ready", "tripped"} \union Powered]

CanInit ==
  /\ link = "disarmed" /\ energised = FALSE /\ cleanupOwed = FALSE /\ tracked = {}
  /\ watched = FALSE /\ stopPending = {} /\ stopTries = 0 /\ late = FALSE /\ withheld = FALSE
  /\ wantLink = TRUE /\ request = "none" /\ command = "none" /\ tickFresh = FALSE
  /\ loopPc = "serve"
  /\ stage = [n \in Drives |-> "off"] /\ guarded = {} /\ sto = FALSE

-----------------------------------------------------------------------------
(* What a frame does to a drive.                                            *)

\* RPDO1: it carries controlword 0x0F, which also enables a drive in Ready to switch on.
Rpdo(s, target) == IF s \in {"ready"} \union Powered THEN target ELSE s

\* 6040h = Shutdown: power stage off; under STO a drive stays in Switch on disabled.
Shutdown(s) ==
  CASE s = "tripped" -> s
    [] s # "tripped" /\ sto -> "off"
    [] OTHER -> "ready"

\* 6040h = Shutdown, then Disable voltage.
DisableVoltage(s) == IF s = "tripped" THEN s ELSE "off"

\* What a sequence that goes through the drives in order has behind it when it fails.
Prefixes == {S \in SUBSET Drives : \A n \in S, m \in Drives : m < n => m \in S}

ResetStop ==
  /\ watched' = FALSE /\ stopPending' = {} /\ stopTries' = 0 /\ late' = FALSE
  /\ withheld' = FALSE

-----------------------------------------------------------------------------
(* disarm(): zero, retire the guards, de-energise.  Per drive: all          *)
(* acknowledged; all done but an answer lost; the guard retired and then    *)
(* silence; only the zero RPDO heard; nothing heard.                        *)

TeardownOutcome(zero) ==
  {"done", "lost", "unguarded", "dead"} \union (IF zero THEN {"zeroed"} ELSE {})

\* The zero RPDO is sent only to drives that were ours and enabled.
SendsZero == energised /\ link \in {"armed", "fault"}

TornDown(o, s) ==
  CASE o \in {"done", "lost"} -> DisableVoltage(s)
    [] o = "zeroed" -> Rpdo(s, "holding")
    [] OTHER -> s

\* Disarm from drive states s with guards g, of which t are tracked.
Teardown(s, g, t, zero) ==
  \E o \in [Drives -> TeardownOutcome(zero)] :
    LET failed == {n \in Drives : o[n] # "done"}
    IN /\ stage' = [n \in Drives |-> TornDown(o[n], s[n])]
       /\ guarded' = g \ {n \in t : o[n] \in {"done", "lost", "unguarded"}}
       /\ tracked' = t \ {n \in Drives : o[n] \in {"done", "unguarded"}}
       /\ cleanupOwed' = (failed # {})
       /\ energised' = (energised /\ failed # {})
       /\ link' = "disarmed"
       /\ ResetStop

Disarm ==
  IF link = "disarmed" /\ ~cleanupOwed
  THEN UNCHANGED <<linkVars, stage, guarded>>
  ELSE Teardown(stage, guarded, tracked, SendsZero)

\* disarm(force=True), the retry of a teardown that is owed.
Cleanup ==
  /\ link = "disarmed" /\ cleanupOwed
  /\ Teardown(stage, guarded, tracked, SendsZero)

-----------------------------------------------------------------------------
(* prepare(): DISARMED to STANDBY.                                          *)

\* A drive does not answer, or reports a fault: nothing was written.
PreflightFails == UNCHANGED <<linkVars, stage, guarded>>

PrepareSucceeds ==
  /\ \A n \in Drives : stage[n] # "tripped"
  /\ link' = "standby"
  /\ cleanupOwed' = TRUE
  /\ guarded' = Drives
  /\ tracked' = Drives
  /\ stage' = [n \in Drives |-> Shutdown(stage[n])]
  /\ ResetStop
  /\ UNCHANGED energised

\* A write fails: the guards acknowledged are tracked, the next drive may have heard its
\* own; when all are, some drives may already be in Shutdown.  The rollback follows.
PrepareFails ==
  /\ \A n \in Drives : stage[n] # "tripped"
  /\ \E acked, heard, shut \in Prefixes :
       /\ acked \subseteq heard /\ Cardinality(heard \ acked) <= 1
       /\ acked # Drives => shut = {}
       /\ Teardown([n \in Drives |-> IF n \in shut THEN Shutdown(stage[n]) ELSE stage[n]],
                   guarded \union heard, tracked \union acked, FALSE)

Prepare ==
  /\ link = "disarmed" /\ ~cleanupOwed
  /\ PreflightFails \/ PrepareSucceeds \/ PrepareFails

-----------------------------------------------------------------------------
(* engage() and release(): power on and off.                                *)

EngageSucceeds ==
  /\ ~sto
  /\ \A n \in Drives : stage[n] # "tripped"
  /\ energised' = TRUE
  /\ link' = "armed"
  /\ stage' = [n \in Drives |-> "holding"]
  /\ UNCHANGED <<cleanupOwed, tracked, watched, stopPending, stopTries, late, withheld,
                 guarded>>

\* The drives in on reached Operation enabled (of the last one we may not have heard), then
\* all get Shutdown: it is acknowledged, done but its answer lost, or lost itself.
RolledBack(forgets) ==
  \E on \in Prefixes, o \in [Drives -> {"done", "lost", "dead"}] :
    LET enabled(n) == n \in on /\ ~sto /\ stage[n] # "tripped"
        before == [n \in Drives |-> IF enabled(n) THEN "holding" ELSE stage[n]]
    IN /\ stage' = [n \in Drives |-> IF o[n] = "dead" THEN before[n] ELSE Shutdown(before[n])]
       /\ energised' = (~forgets /\ \E n \in Drives : o[n] # "done")

\* Faulty variant: what the rollback left undone is not looked at.
EngageForgets ==
  /\ RolledBack(TRUE)
  /\ UNCHANGED <<link, cleanupOwed, tracked, watched, stopPending, stopTries, late, withheld,
                 guarded>>

EngageFails ==
  /\ RolledBack(FALSE)
  /\ UNCHANGED <<link, cleanupOwed, tracked, watched, stopPending, stopTries, late, withheld,
                 guarded>>

Engage == link = "standby" /\ (EngageSucceeds \/ EngageFails)

\* Per drive: Shutdown acknowledged; done but its answer lost; only the zero heard; nothing.
\* Anything but the first leaves a fault latched that fault_tick does not supervise.
Release ==
  /\ link = "armed"
  /\ \E o \in [Drives -> {"done", "lost", "zeroed", "dead"}] :
       LET complete == \A n \in Drives : o[n] = "done"
       IN /\ stage' = [n \in Drives |->
                         CASE o[n] \in {"done", "lost"} -> Shutdown(stage[n])
                           [] o[n] = "zeroed" -> Rpdo(stage[n], "holding")
                           [] OTHER -> stage[n]]
          /\ link' = IF complete THEN "standby" ELSE "fault"
          /\ energised' = (energised /\ ~complete)
  /\ UNCHANGED <<cleanupOwed, tracked, watched, stopPending, stopTries, late, withheld,
                 guarded>>

\* fault(): latch it; when armed, a zero to each drive on its own.  A send that raises is
\* pending; one that does not raise proves nothing about reception.
RaiseFault ==
  /\ link \in {"standby", "armed"}
  /\ link' = "fault"
  /\ IF link = "armed"
     THEN \E raised, heard \in SUBSET Drives :
            /\ raised \intersect heard = {}
            /\ stopPending' = raised
            /\ stage' = [n \in Drives |-> IF n \in heard THEN Rpdo(stage[n], "holding")
                                                       ELSE stage[n]]
            /\ watched' = TRUE /\ stopTries' = 0
     ELSE UNCHANGED <<stopPending, stage, watched, stopTries>>
  /\ UNCHANGED <<energised, cleanupOwed, tracked, late, withheld, guarded>>

\* Faulty variant: a zero that was sent is taken for a stop.
UnconfirmedIfUnsent(pending, tries) == pending # {} /\ tries >= StopRetries

\* Standstill is confirmed only by a fresh status with the speed-zero bit.
Unconfirmed(pending, tries) ==
  \/ pending # {} /\ tries >= StopRetries
  \/ late /\ \E n \in Drives : stage[n] = "turning"

\* fault_tick() and the loop's answer to it: bounded retries, then positive evidence, else
\* the heartbeat is withheld.  A status may also be stale (alsoStale).
FaultTick ==
  /\ link = "fault" /\ watched
  /\ \E raised, heard \in SUBSET Drives, alsoStale \in BOOLEAN :
       LET retries == stopPending # {} /\ stopTries < StopRetries
           pending == IF retries THEN raised ELSE stopPending
           tries == IF retries THEN stopTries + 1 ELSE stopTries
       IN /\ raised \union heard \subseteq stopPending /\ raised \intersect heard = {}
          /\ stopPending' = pending /\ stopTries' = tries
          /\ stage' = [n \in Drives |-> IF retries /\ n \in heard
                                        THEN Rpdo(stage[n], "holding") ELSE stage[n]]
          /\ withheld' = \/ withheld
                          \/ /\ Unconfirmed(pending, tries) \/ (late /\ alsoStale)
                             /\ tracked # {}
  /\ UNCHANGED <<link, energised, cleanupOwed, tracked, watched, late, guarded>>

-----------------------------------------------------------------------------
(* arm_policy: the power the panel and the executor want.                   *)

PanelImage == [fresh : BOOLEAN, valid : BOOLEAN, normal : BOOLEAN, arm : BOOLEAN,
               auto : BOOLEAN]

WantPower(panel, runAsks) ==
  /\ panel.fresh /\ panel.valid /\ panel.normal /\ panel.arm
  /\ panel.auto => runAsks

PowerAnswers == {WantPower(p, a) : p \in PanelImage, a \in BOOLEAN}

-----------------------------------------------------------------------------
(* The bus thread's loop: requests, then one step of the policy, then the   *)
(* stop supervision or the setpoint.                                        *)

LinkUnchanged == UNCHANGED <<linkVars, stage, guarded>>

\* An iteration starts with the time stamp the policy works with, then serves what is asked:
\* it may have been answered "bus thread did not answer" long ago.
ServeRequests ==
  /\ loopPc = "serve"
  /\ loopPc' = "policy"
  /\ tickFresh' = (command = "live")
  /\ request' = "none"
  /\ wantLink' = (request = "arm" \/ (wantLink /\ request # "disarm"))
  /\ IF request = "disarm" \/ (request = "ack" /\ link = "fault") THEN Disarm ELSE LinkUnchanged
  /\ UNCHANGED <<command, sto>>

\* With the link up: trouble in the telemetry, which may be old; power no longer wanted, or a
\* statusword that left Operation enabled; power wanted.
DecideUp ==
  \/ RaiseFault
  \/ link = "armed" /\ FALSE \in PowerAnswers /\ Release
  \/ link = "standby" /\ TRUE \in PowerAnswers /\ Engage
  \/ LinkUnchanged

\* decide(): an owed teardown first, then the wish for the link.  What waits on the retry
\* backoff may be put off.
Policy ==
  /\ loopPc = "policy"
  /\ CASE link = "disarmed" /\ cleanupOwed -> Cleanup \/ LinkUnchanged
       [] link = "disarmed" /\ ~cleanupOwed -> (wantLink /\ Prepare) \/ LinkUnchanged
       [] link # "disarmed" /\ ~wantLink -> Disarm
       [] link # "disarmed" /\ wantLink -> DecideUp
  /\ loopPc' = "send"
  /\ UNCHANGED <<wantLink, request, command, tickFresh, sto>>

\* Faulty variant: the command's age is measured with the iteration's time stamp.
OutputsAtTick == IF tickFresh THEN {"holding", "turning"} ELSE {"holding"}

\* _target(): the command's age is measured when it is sent.
Outputs == IF command = "live" THEN {"holding", "turning"} ELSE {"holding"}

\* send_target(): one RPDO to each drive, which may not be heard.
Setpoint ==
  /\ link = "armed"
  /\ \E target \in Outputs, heard \in SUBSET Drives :
       stage' = [n \in Drives |-> IF n \in heard THEN Rpdo(stage[n], target) ELSE stage[n]]
  /\ UNCHANGED <<linkVars, guarded>>

SendOut ==
  /\ loopPc = "send"
  /\ loopPc' = "serve"
  /\ \/ FaultTick
     \/ Setpoint
     \/ ~(link = "fault" /\ watched) /\ LinkUnchanged
  /\ UNCHANGED <<wantLink, request, command, tickFresh, sto>>

\* stop(), or a send that raises in the loop: the thread ends with a disarm.
ThreadEnds ==
  /\ loopPc # "dead"
  /\ loopPc' = "dead"
  /\ Disarm
  /\ UNCHANGED <<wantLink, request, command, tickFresh, sto>>

\* The process is killed: no disarm, no more heartbeats.
Killed ==
  /\ loopPc # "dead"
  /\ loopPc' = "dead"
  /\ UNCHANGED <<linkVars, wantLink, request, command, tickFresh, driveVars>>

-----------------------------------------------------------------------------
(* What happens beside the bus thread.                                      *)

Ask ==
  /\ loopPc # "dead" /\ request = "none"
  /\ request' \in {"arm", "disarm", "ack"}
  /\ UNCHANGED <<linkVars, wantLink, command, tickFresh, loopPc, driveVars>>

\* A command arrives (a non-finite one leaves none), or the one held grows too old.
Command ==
  /\ command' \in {"live", "none"} \ {command}
  /\ UNCHANGED <<linkVars, wantLink, request, tickFresh, loopPc, driveVars>>

Expire ==
  /\ command = "live"
  /\ command' = "expired"
  /\ UNCHANGED <<linkVars, wantLink, request, tickFresh, loopPc, driveVars>>

ConfirmTimePasses ==
  /\ link = "fault" /\ watched /\ ~late
  /\ late' = TRUE
  /\ UNCHANGED <<link, energised, cleanupOwed, tracked, watched, stopPending, stopTries,
                 withheld, ownerVars, driveVars>>

SafetyChain ==
  /\ sto' = ~sto
  /\ stage' = [n \in Drives |-> IF sto' /\ stage[n] # "tripped" THEN "off" ELSE stage[n]]
  /\ UNCHANGED <<linkVars, ownerVars, guarded>>

\* A guarded drive that no longer hears our heartbeat trips (8130h) until it is power cycled.
Silent == withheld \/ loopPc = "dead"

Trip(n) ==
  /\ n \in guarded /\ stage[n] # "tripped"
  /\ stage' = [stage EXCEPT ![n] = "tripped"]
  /\ UNCHANGED <<linkVars, ownerVars, guarded, sto>>

\* The loop latches the fault of a trip long before anybody can cycle the power.
PowerCycle(n) ==
  /\ stage[n] = "tripped"
  /\ link \in {"disarmed", "fault"}
  /\ stage' = [stage EXCEPT ![n] = "off"]
  /\ guarded' = guarded \ {n}
  /\ UNCHANGED <<linkVars, ownerVars, sto>>

CanNext ==
  \/ ServeRequests \/ Policy \/ SendOut \/ ThreadEnds \/ Killed
  \/ Ask \/ Command \/ Expire \/ ConfirmTimePasses \/ SafetyChain
  \/ \E n \in Drives : Trip(n) \/ PowerCycle(n)

\* The bus thread goes round, its clock runs, and a drive's own guard trips once it hears
\* nothing.  Nothing is assumed of the bus.
CanFairness ==
  /\ WF_canVars(ServeRequests \/ Policy \/ SendOut)
  /\ WF_canVars(ConfirmTimePasses)
  /\ \A n \in Drives : WF_canVars(Silent /\ Trip(n))

CanSpec == CanInit /\ [][CanNext]_canVars /\ CanFairness

-----------------------------------------------------------------------------
(* A power stage that is on is on the books: the link knows it may be, and  *)
(* owes the teardown, whatever half of a sequence was heard, refused or     *)
(* lost.                                                                    *)
PowerIsOwed ==
  loopPc # "dead" => \A n \in Drives : stage[n] \in Powered => energised /\ cleanupOwed

(* While the link is up no drive is powered without the guard that stops it *)
(* should this computer die.                                                *)
PowerIsGuarded ==
  link # "disarmed" => \A n \in Drives : stage[n] \in Powered => n \in guarded

(* Power is accounted for in both directions: we owe its end, and the drive  *)
(* ends it without us.                                                      *)
PowerIsAccounted == PowerIsOwed /\ PowerIsGuarded

(* A command that expired while the thread was blocked is not sent after it: *)
(* a wheel starts to turn only on a command that is live at that moment.    *)
ExpiredNeverSent ==
  [][\A n \in Drives : stage[n] # "turning" /\ stage'[n] = "turning" => command = "live"]_canVars

(* After a fault that was latched while armed, a wheel that turns stops: by *)
(* the zero, by a retry of it, or by the drive's own guard once we withhold *)
(* the heartbeat; unless an acknowledgement tears the link down.            *)
FaultStops ==
  \A n \in Drives :
    link = "fault" /\ watched /\ stage[n] = "turning"
      ~> stage[n] # "turning" \/ link # "fault"

(* drive_node.py:446-447: "a stop we could not deliver or confirm must not be *)
(* covered by a heartbeat that says this controller is healthy".  A release *)
(* that fails latches a fault whose stop nobody supervises.                 *)
UnstoppedIsNotCovered ==
  \A n \in Drives :
    link = "fault" /\ stage[n] = "turning"
      ~> stage[n] # "turning" \/ link # "fault" \/ Silent
=============================================================================
