---------------------- MODULE MotionAuthorityProofs -------------------------
(***************************************************************************)
(* The path of the lease, proved for every number of generations. What the *)
(* wheels do follows from three orders that the checked invariants leave   *)
(* unsaid: generations only grow along a topic and behind it, every sample *)
(* under way was granted by the generation it names, and a sample of       *)
(* shutdown() is the end of its generation. And the books of a blind run,  *)
(* for every plan: a job is bound to the lease it was prepared under, and  *)
(* measures one segment per press.                                         *)
(***************************************************************************)
EXTENDS MotionAuthority, Commissioning, TLAPS

\* A sample only ever meets a lease of its own generation or an older one,
\* and the mux is heard to apply what it applied.
GenerationsGrow ==
    /\ acked <= applied /\ applied <= generation
    /\ toMux # None => applied <= toMux.gen /\ toMux.gen <= generation
    /\ toDrive # None => toDrive.gen <= generation
    /\ driveLease # None => driveLease.gen <= generation
    /\ toDrive # None /\ driveLease # None => driveLease.gen <= toDrive.gen

\* Something is only allowed once the mux was heard.
GrantIsAcked == allowed # "none" => acked = generation

\* What a lease allows was granted to the generation it names.
Covered(sample) ==
    sample # None /\ sample.allowed # "none" => <<sample.gen, sample.allowed>> \in granted

LeasesAreGranted ==
    /\ built # None /\ built # "none" => <<generation, built>> \in granted
    /\ Covered(toMux) /\ Covered(muxLease) /\ Covered(toDrive) /\ Covered(driveLease)

\* The command stands on a grant of the generation it comes from.
GrantedMotion(m) ==
    \/ <<m.from, m.by>> \in granted
    \/ m.by = "manual" /\ <<m.from, "autonomous">> \in granted

CommandIsGranted ==
    driveCmd # None /\ driveCmd.motion # None => GrantedMotion(driveCmd.motion)

\* A sample of shutdown() allows nothing and no generation follows it.
Final(sample) ==
    sample # None /\ sample.last =>
        over /\ sample.allowed = "none" /\ sample.gen = generation

LastIsLast == Final(toMux) /\ Final(muxLease) /\ Final(toDrive) /\ Final(driveLease)

MotionIInv ==
    /\ MotionTypeOK
    /\ GenerationsGrow
    /\ GrantIsAcked
    /\ LeasesAreGranted
    /\ CommandIsGranted
    /\ LastIsLast

-----------------------------------------------------------------------------
LEMMA InitMotionIInv == Init => MotionIInv
<1> SUFFICES ASSUME Init PROVE MotionIInv
  OBVIOUS
<1>1. MotionTypeOK
  <2>1. generation \in Generations /\ acked \in 0..MaxGen /\ permit \in 0..generation
    BY GrantAssumption DEF Init, GrantInit, Generations
  <2>2. {toMux, toDrive, muxLease, driveLease} \subseteq Lease \cup {None}
    BY DEF Init
  <2> QED
    BY <2>1, <2>2, Zenon DEF Init, GrantInit, MotionTypeOK, Allowed
<1>2. GenerationsGrow /\ GrantIsAcked
  BY SMT DEF Init, GrantInit, GenerationsGrow, GrantIsAcked
<1>3. LeasesAreGranted /\ CommandIsGranted /\ LastIsLast
  BY DEF Init, LeasesAreGranted, CommandIsGranted, LastIsLast, Covered, Final
<1> QED
  BY <1>1, <1>2, <1>3 DEF MotionIInv

\* Every step keeps the types, given that samples are not older than what
\* they meet.
LEMMA TypePreserved ==
    ASSUME MotionTypeOK, GenerationsGrow, [Next]_vars
    PROVE  MotionTypeOK'
<1> USE GrantAssumption DEF MotionTypeOK, netVars, muxVars, driveVars, grantVars
<1>1. CASE Regrant
  BY <1>1 DEF Regrant, Inhibit, Grant, Allowed
<1>2. CASE NewGeneration
  BY <1>2 DEF NewGeneration, Rotate, Generations
<1>3. CASE BuildLease
  BY <1>3 DEF BuildLease
<1>4. CASE PublishLease
  BY <1>4 DEF PublishLease, Lease
<1>5. CASE Shutdown
  <2>1. [gen |-> generation, allowed |-> "none", last |-> TRUE] \in Lease
    BY DEF Lease, Allowed
  <2>2. allowed' \in Allowed /\ over' \in BOOLEAN
    BY <1>5 DEF Shutdown, Close, Allowed
  <2> QED
    BY <1>5, <2>1, <2>2 DEF Shutdown, Close
<1>6. CASE MuxOnLease
  <2>1. CASE ~Newer(toMux, muxLease)
    BY <1>6, <2>1 DEF MuxOnLease
  <2>2. CASE Newer(toMux, muxLease)
    <3>1. toMux \in Lease /\ toMux # None /\ muxLease' = toMux /\ applied' = toMux.gen
      BY <1>6, <2>2 DEF MuxOnLease, Newer
    <3>2. follow' \in {0, applied'} /\ permit' \in 0..generation'
      BY <1>6, <2>2, <3>1 DEF MuxOnLease, Generations
    <3> QED
      BY <1>6, <2>2, <3>1, <3>2 DEF MuxOnLease
  <2> QED
    BY <2>1, <2>2
<1>7. CASE MuxOnPermit \/ MuxOnFollow
  BY <1>7 DEF MuxOnPermit, MuxOnFollow, Hears, Generations
<1>8. CASE MuxTick
  <2>1. applied \in 0..MaxGen
    BY DEF Lease, Generations
  <2>2. driveCmd' \in Command
    BY <1>8, <2>1 DEF MuxTick, Selectable, Command
  <2> QED
    BY <1>8, <2>2 DEF MuxTick
<1>9. CASE MuxState
  BY <1>9 DEF MuxState, Ack, Generations
<1>10. CASE DriveOnLease \/ DriveLeaseExpires \/ DriveCommandExpires
  BY <1>10 DEF DriveOnLease, DriveLeaseExpires, DriveCommandExpires
<1>11. CASE UNCHANGED vars
  BY <1>11 DEF vars
<1> QED
  BY <1>1, <1>2, <1>3, <1>4, <1>5, <1>6, <1>7, <1>8, <1>9, <1>10, <1>11 DEF Next

\* Generations only grow along a topic and behind it.
LEMMA OrderPreserved ==
    ASSUME MotionTypeOK, GenerationsGrow, GrantIsAcked, [Next]_vars
    PROVE  GenerationsGrow' /\ GrantIsAcked'
<1> USE DEF GenerationsGrow, GrantIsAcked, netVars, muxVars, driveVars, grantVars
<1> generation \in Int /\ applied \in Int /\ acked \in Int
         /\ (toMux # None => toMux.gen \in Int)
         /\ (toDrive # None => toDrive.gen \in Int)
         /\ (driveLease # None => driveLease.gen \in Int)
  BY GrantAssumption DEF MotionTypeOK, Lease, Generations
<1>1. CASE Regrant
  BY <1>1 DEF Regrant, Inhibit, Grant
<1>2. CASE NewGeneration
  BY <1>2 DEF NewGeneration, Rotate
<1>3. CASE PublishLease
  BY <1>3 DEF PublishLease
<1>4. CASE Shutdown
  BY <1>4 DEF Shutdown, Close
<1>5. CASE MuxOnLease
  BY <1>5 DEF MuxOnLease
<1>6. CASE MuxState
  BY <1>6 DEF MuxState, Ack
<1>7. CASE DriveOnLease
  BY <1>7 DEF DriveOnLease
<1>8. CASE BuildLease \/ MuxOnPermit \/ MuxOnFollow \/ MuxTick \/ DriveLeaseExpires
           \/ DriveCommandExpires \/ UNCHANGED vars
  BY <1>8 DEF BuildLease, MuxOnPermit, MuxOnFollow, MuxTick, DriveLeaseExpires,
              DriveCommandExpires, vars
<1> QED
  BY <1>1, <1>2, <1>3, <1>4, <1>5, <1>6, <1>7, <1>8 DEF Next

\* What a lease allows, and what a command moves by, was granted before.
LEMMA GrantsPreserved ==
    ASSUME MotionTypeOK, LeasesAreGranted, CommandIsGranted, [Next]_vars
    PROVE  LeasesAreGranted' /\ CommandIsGranted'
<1> USE DEF LeasesAreGranted, CommandIsGranted, Covered, GrantedMotion,
            netVars, muxVars, driveVars, grantVars
<1>1. CASE Regrant
  BY <1>1 DEF Regrant, Inhibit, Grant
<1>2. CASE NewGeneration
  BY <1>2 DEF NewGeneration, Rotate
<1>3. CASE BuildLease
  <2>1. allowed # "none" => <<generation, allowed>> \in granted'
    BY <1>3 DEF BuildLease, MotionTypeOK, Allowed
  <2>2. granted \subseteq granted'
    BY <1>3 DEF BuildLease
  <2> QED
    BY <1>3, <2>1, <2>2 DEF BuildLease
<1>4. CASE PublishLease
  BY <1>4 DEF PublishLease
<1>5. CASE Shutdown
  BY <1>5 DEF Shutdown, Close
<1>6. CASE MuxOnLease
  BY <1>6 DEF MuxOnLease, Newer
<1>7. CASE MuxTick
  <2>1. SUFFICES ASSUME driveCmd' # None, driveCmd'.motion # None
                 PROVE  GrantedMotion(driveCmd'.motion)
    BY <1>7 DEF MuxTick
  <2>2. PICK m \in Selectable(muxLease) : driveCmd' = [gen |-> applied, motion |-> m]
    BY <1>7, <2>1 DEF MuxTick
  <2>3. muxLease # None /\ muxLease.allowed \in {"none", "manual", "autonomous"}
    BY <1>7, <2>1 DEF MuxTick, MotionTypeOK, Lease, Allowed, Classes
  <2>4. m.from = muxLease.gen
    BY <2>2, <2>3 DEF Selectable, Autonomous, MotionTypeOK
  <2> QED
    BY <2>2, <2>3, <2>4 DEF Selectable, Autonomous
<1>8. CASE DriveOnLease
  BY <1>8 DEF DriveOnLease, Newer
<1>9. CASE MuxOnPermit \/ MuxOnFollow \/ MuxState \/ DriveLeaseExpires
           \/ DriveCommandExpires \/ UNCHANGED vars
  BY <1>9 DEF MuxOnPermit, MuxOnFollow, MuxState, Ack, DriveLeaseExpires,
              DriveCommandExpires, vars
<1> QED
  BY <1>1, <1>2, <1>3, <1>4, <1>5, <1>6, <1>7, <1>8, <1>9 DEF Next

\* Once shutdown() has built its sample, no generation and no grant follows.
LEMMA LastPreserved ==
    ASSUME MotionTypeOK, LastIsLast, [Next]_vars
    PROVE  LastIsLast'
<1> USE DEF LastIsLast, Final, netVars, muxVars, driveVars, grantVars
<1>1. CASE Regrant \/ NewGeneration
  BY <1>1 DEF Regrant, NewGeneration, Inhibit, Grant, Rotate
<1>2. CASE PublishLease
  BY <1>2 DEF PublishLease
<1>3. CASE Shutdown
  BY <1>3 DEF Shutdown, Close
<1>4. CASE MuxOnLease \/ DriveOnLease
  BY <1>4 DEF MuxOnLease, DriveOnLease, Newer
<1>5. CASE BuildLease \/ MuxOnPermit \/ MuxOnFollow \/ MuxTick \/ MuxState
           \/ DriveLeaseExpires \/ DriveCommandExpires \/ UNCHANGED vars
  BY <1>5 DEF BuildLease, MuxOnPermit, MuxOnFollow, MuxTick, MuxState, Ack,
              DriveLeaseExpires, DriveCommandExpires, vars
<1> QED
  BY <1>1, <1>2, <1>3, <1>4, <1>5 DEF Next

\* The inductive invariant holds for every number of generations.
THEOREM MotionInvariance == Spec => []MotionIInv
<1>1. MotionIInv /\ [Next]_vars => MotionIInv'
  BY TypePreserved, OrderPreserved, GrantsPreserved, LastPreserved DEF MotionIInv
<1> QED
  BY InitMotionIInv, <1>1, PTL DEF Spec

-----------------------------------------------------------------------------
\* MovesAsGranted, whatever controllers of older layers still send.
THEOREM WheelsMoveAsGranted == Spec => []MovesAsGranted
<1>1. MotionIInv => MovesAsGranted
  BY DEF MotionIInv, CommandIsGranted, GrantedMotion, MovesAsGranted, Moving
<1> QED
  BY MotionInvariance, <1>1, PTL

\* MuxFollowsGrant: what the mux reported it still applies.
THEOREM MuxFollows == Spec => []MuxFollowsGrant
<1>1. MotionIInv => MuxFollowsGrant
  <2> SUFFICES ASSUME MotionIInv, allowed # "none" PROVE applied = generation
    BY DEF MuxFollowsGrant
  <2>1. acked = generation /\ acked <= applied /\ applied <= generation
    BY DEF MotionIInv, GenerationsGrow, GrantIsAcked
  <2>2. generation \in Int /\ applied \in Int
    BY GrantAssumption DEF MotionIInv, MotionTypeOK, Lease, Generations
  <2> QED
    BY <2>1, <2>2
<1> QED
  BY MotionInvariance, <1>1, PTL

\* The wheels follow what was granted and the mux the newest generation, together.
THEOREM MotionFollowsAuthority == Spec => []AuthorityIsFollowed
BY WheelsMoveAsGranted, MuxFollows, PTL DEF AuthorityIsFollowed

\* ShutdownIsFinal: no sample that arrives later is newer than the last one.
THEOREM NothingMovesAfterShutdown == Spec => ShutdownIsFinal
<1>1. ASSUME MotionIInv, MotionIInv', [Next]_vars, driveLease # None, driveLease.last
      PROVE  Moving' = None
  <2>1. driveLease' # None /\ driveLease'.last
    <3>1. CASE DriveOnLease
      <4>1. over /\ driveLease.gen = generation
        BY <1>1 DEF MotionIInv, LastIsLast, Final
      <4>2. Newer(toDrive, driveLease) => toDrive.last
        <5> SUFFICES ASSUME toDrive # None, toDrive.gen # driveLease.gen PROVE FALSE
          BY <1>1 DEF Newer, MotionIInv, MotionTypeOK, Lease
        <5>1. driveLease.gen <= toDrive.gen /\ toDrive.gen <= generation
          BY <1>1 DEF MotionIInv, GenerationsGrow
        <5>2. toDrive \in Lease /\ generation \in Generations
          BY <1>1 DEF MotionIInv, MotionTypeOK
        <5>3. toDrive.gen \in Int /\ generation \in Int
          BY <5>2, GrantAssumption DEF Lease, Generations
        <5> QED
          BY <4>1, <5>1, <5>3
      <4> QED
        BY <1>1, <3>1, <4>2 DEF DriveOnLease, Newer
    <3>2. CASE UNCHANGED driveLease
      BY <1>1, <3>2
    <3> QED
      BY <1>1, <3>1, <3>2
         DEF Next, Regrant, NewGeneration, BuildLease, PublishLease, Shutdown, MuxOnLease,
             MuxOnPermit, MuxOnFollow, MuxTick, MuxState, DriveLeaseExpires,
             DriveCommandExpires, driveVars, vars
  <2>2. driveLease'.allowed = "none"
    BY <1>1, <2>1 DEF MotionIInv, LastIsLast, Final
  <2> QED
    BY <2>2 DEF Moving, DriveGate
<1>2. MotionIInv /\ MotionIInv' /\ [Next]_vars
        => [driveLease # None /\ driveLease.last => Moving' = None]_vars
  BY <1>1
<1> QED
  BY MotionInvariance, <1>2, PTL DEF Spec, ShutdownIsFinal

-----------------------------------------------------------------------------
(***************************************************************************)
(* Commissioning: the lease taken is the newest heard, and the segment     *)
(* under way the next one.                                                 *)
(***************************************************************************)

RunTypes ==
    /\ phase \in Phases /\ segment \in Nat /\ measured \in Nat
    /\ settled \in Nat /\ quiet \in Nat /\ rolling \in BOOLEAN /\ up \in BOOLEAN
    /\ lease \in [instance : Nat, generation : Nat, allowed : ControlClasses \cup {"none"}]

\* A lease is taken only when it is the newest ever heard.
LeaseIsNewest == newest = IdentityOf(lease)

\* A prepared plan has no evidence yet.
PreparedIsFresh == phase = "PREPARED" => records = 0

\* The segment under way is the one after those that were measured, and its
\* settling time is all quiet.
SegmentIsNext ==
    /\ phase \in Underway => segment <= Segments /\ segment = measured + 1
    /\ settled <= quiet

CommissioningIInv ==
    /\ RunTypes /\ LeaseIsNewest /\ PreparedIsFresh /\ SegmentIsNext
    /\ NothingIsLeftBehind

RevokedStep == (phase \in Underway /\ phase' \in Underway /\ CommissioningTick) => newest = bound
PressStep == phase' \in Underway /\ phase \notin Underway => edge = "new" /\ edge' = "none"
MeasureStep ==
    /\ measured' > measured =>
         /\ measured' = measured + 1 /\ measured' = segment
         /\ quiet + 1 >= SettleFor
    /\ (phase' = "DONE" /\ phase # "DONE") => measured' = Segments

\* What every step of the node is allowed to do.
RunStep == PressStep /\ MeasureStep

-----------------------------------------------------------------------------
\* The bounds of a plan, as they are assumed.
LEMMA PlanLimits ==
    /\ Segments \in Nat /\ Segments > 0 /\ SettleFor \in Nat /\ SettleFor > 0
BY CommissioningAssumption

\* Outside of a tick of a job under way, nothing is measured.
LEMMA StillRuns ==
    ASSUME CommissioningIInv, UNCHANGED <<runVars>>, phase' \notin Underway, phase' # "DONE" \/ phase = "DONE"
    PROVE  RunStep
BY DEF CommissioningIInv, RunTypes, RunStep, PressStep, MeasureStep, runVars

\* An update of a job under way keeps its books.
LEMMA UpdateAccounts ==
    ASSUME CommissioningIInv, up, phase \in Underway, bound[2] = lease.generation,
           NEW moved, NEW still \in BOOLEAN, Update(moved, still),
           UNCHANGED <<bound, leaseVars, up>>
    PROVE  CommissioningIInv' /\ MeasureStep
<1>1. /\ RunTypes /\ LeaseIsNewest /\ SegmentIsNext /\ NothingIsLeftBehind
  BY DEF CommissioningIInv
<1>2. /\ segment \in Nat /\ measured \in Nat /\ settled \in Nat /\ quiet \in Nat
      /\ segment <= Segments /\ segment = measured + 1 /\ settled <= quiet
      /\ records = 0
  BY <1>1 DEF RunTypes, SegmentIsNext, NothingIsLeftBehind
<1>3. LeaseIsNewest' /\ lease' = lease /\ up' = TRUE
  BY <1>1 DEF LeaseIsNewest, leaseVars, RunTypes
<1> DEFINE d == done + moved
           rest == Settling(d, still).rest
           verdict == IF rolling THEN Rolling(d, elapsed + 1) ELSE Settling(d, still).end
<1>4. rest = IF still THEN settled + 1 ELSE 0
  BY DEF Settling
<1>5. /\ verdict \in {"roll", "settle", "wait", "record", "abort"}
      /\ verdict = "record" => rest >= SettleFor
  <2>1. Rolling(d, elapsed + 1) \in {"roll", "settle", "abort"}
    <3> DEFINE t == elapsed + 1
    <3> HIDE DEF d, t
    <3>1. Rolling(d, t) \in {"roll", "settle", "abort"}
      BY Zenon DEF Rolling
    <3> QED
      BY <3>1 DEF t
  <2>2. /\ Settling(d, still).end \in {"wait", "record", "abort"}
        /\ Settling(d, still).end = "record" => rest >= SettleFor
    <3> HIDE DEF d
    <3> QED
      BY DEF Settling
  <2> QED
    BY <1>1, <2>1, <2>2 DEF RunTypes
<1>6. CASE verdict = "roll"
  <2>1. /\ phase' = "RUNNING" /\ velocity' = lease.generation /\ records' = records
        /\ UNCHANGED <<segment, rolling, settled, measured, quiet>>
    BY <1>6, Zenon DEF Update
  <2>2. MeasureStep /\ PreparedIsFresh' /\ SegmentIsNext'
    BY <1>2, <2>1 DEF PreparedIsFresh, SegmentIsNext, Underway, MeasureStep
  <2>4. RunTypes'
    BY <1>1, <1>3, <2>1 DEF RunTypes, Phases
  <2>3. velocity' = bound'[2]
    BY <2>1
  <2> QED
    BY <1>2, <1>3, <2>1, <2>2, <2>3, <2>4 DEF CommissioningIInv, NothingIsLeftBehind, Underway
<1>7. CASE verdict = "settle"
  <2>1. /\ phase' = "SETTLING" /\ velocity' = 0 /\ records' = records /\ rolling' = FALSE
        /\ UNCHANGED <<segment, settled, measured, quiet>>
    BY <1>7, Zenon DEF Update
  <2>2. MeasureStep /\ PreparedIsFresh' /\ SegmentIsNext'
    BY <1>2, <2>1 DEF PreparedIsFresh, SegmentIsNext, Underway, MeasureStep
  <2>3. RunTypes'
    BY <1>1, <1>3, <2>1 DEF RunTypes, Phases
  <2> QED
    BY <1>2, <1>3, <2>1, <2>2, <2>3 DEF CommissioningIInv, NothingIsLeftBehind, Underway
<1>8. CASE verdict = "wait"
  <2>1. /\ phase' = "SETTLING" /\ velocity' = 0 /\ records' = records
        /\ settled' = rest
        /\ quiet' = IF still THEN quiet + 1 ELSE 0
        /\ UNCHANGED <<segment, rolling, measured>>
    BY <1>8, Zenon DEF Update
  <2>2. settled' \in Nat /\ quiet' \in Nat /\ settled' <= quiet'
    BY <1>2, <1>4, <2>1
  <2> QED
    BY <1>1, <1>2, <1>3, <2>1, <2>2
       DEF CommissioningIInv, RunTypes, Phases, PreparedIsFresh, SegmentIsNext, Underway,
           NothingIsLeftBehind, MeasureStep
<1>9. CASE verdict = "record"
  <2>1. quiet + 1 >= SettleFor
    BY <1>2, <1>4, <1>5, <1>9, PlanLimits
  <2>5. segment < Segments => segment # Segments
    BY <1>2, PlanLimits
  <2>2. CASE segment < Segments
    <3>1. /\ BeginSegment(segment + 1) /\ measured' = measured + 1
          /\ phase' = "RUNNING" /\ velocity' = 0 /\ records' = records
      BY <1>9, <2>2, <2>5, Zenon DEF Update
    <3> QED
      BY <1>1, <1>2, <1>3, <2>1, <2>2, <3>1, PlanLimits
         DEF CommissioningIInv, RunTypes, Phases, PreparedIsFresh, SegmentIsNext, Underway,
             NothingIsLeftBehind, MeasureStep, BeginSegment
  <2>4. segment = Segments => ~(segment < Segments)
    BY <1>2, PlanLimits
  <2>3. CASE segment = Segments
    <3>1. /\ measured' = measured + 1
          /\ phase' = "DONE" /\ velocity' = 0 /\ records' = records + 1
          /\ UNCHANGED <<segment, rolling, settled, quiet>>
      BY <1>9, <2>3, <2>4, Zenon DEF Update
    <3> QED
      BY <1>1, <1>2, <1>3, <2>1, <2>3, <3>1, PlanLimits
         DEF CommissioningIInv, RunTypes, Phases, PreparedIsFresh, SegmentIsNext, Underway,
             NothingIsLeftBehind, MeasureStep
  <2> QED
    BY <1>2, <2>2, <2>3, PlanLimits
<1>10. CASE verdict = "abort"
  <2>1. /\ phase' = "ABORTED" /\ velocity' = 0 /\ records' = records + 1
        /\ UNCHANGED runVars
    BY <1>10, Zenon DEF Update
  <2> QED
    BY <1>1, <1>2, <1>3, <2>1
       DEF CommissioningIInv, RunTypes, Phases, PreparedIsFresh, SegmentIsNext, Underway,
           NothingIsLeftBehind, MeasureStep, runVars
<1> HIDE DEF verdict
<1> QED
  BY <1>5, <1>6, <1>7, <1>8, <1>9, <1>10

\* A tick of the node keeps the books, whatever it finds.
LEMMA TickAccounts ==
    ASSUME CommissioningIInv, CommissioningTick
    PROVE  CommissioningIInv' /\ RunStep /\ RevokedStep
<1>1. /\ RunTypes /\ LeaseIsNewest /\ PreparedIsFresh /\ SegmentIsNext /\ NothingIsLeftBehind
  BY DEF CommissioningIInv
<1>2. /\ up /\ UNCHANGED <<leaseVars, up>>
      /\ edge' \in IF phase \in Active THEN {"none"} ELSE {"none", edge}
  BY DEF CommissioningTick
<1>3. ASSUME NEW recent \in BOOLEAN, NEW still \in BOOLEAN, NEW calm \in BOOLEAN,
             NEW s \in Scales \cup {0}, NEW manual \in BOOLEAN,
             TickPrepared(recent, s, manual, calm, still)
      PROVE  CommissioningIInv' /\ RunStep /\ RevokedStep
  <2>1. phase = "PREPARED" /\ UNCHANGED <<bound, scale>> /\ edge' = "none"
    BY <1>2, <1>3 DEF TickPrepared, Active
  <2>2. CASE phase' = "IDLE" /\ UNCHANGED <<runVars, velocity, records>>
    BY <1>1, <1>2, <2>1, <2>2, StillRuns
       DEF CommissioningIInv, RunTypes, LeaseIsNewest, PreparedIsFresh, SegmentIsNext,
           NothingIsLeftBehind, runVars, leaseVars, Phases, Underway, RevokedStep
  <2>3. CASE /\ edge = "new" /\ phase' = "RUNNING" /\ BeginSegment(1)
             /\ measured' = 0 /\ UNCHANGED <<velocity, records>>
    BY <1>1, <1>2, <2>1, <2>3, PlanLimits
       DEF CommissioningIInv, RunTypes, LeaseIsNewest, PreparedIsFresh, SegmentIsNext,
           NothingIsLeftBehind, BeginSegment, leaseVars, Phases, Underway,
           RevokedStep, RunStep, PressStep, MeasureStep
  <2>4. CASE UNCHANGED <<phase, runVars, velocity, records>>
    BY <1>1, <1>2, <2>1, <2>4, StillRuns
       DEF CommissioningIInv, RunTypes, LeaseIsNewest, PreparedIsFresh, SegmentIsNext,
           NothingIsLeftBehind, runVars, leaseVars, Phases, Underway, RevokedStep
  <2> QED
    BY <1>3, <2>2, <2>3, <2>4, Zenon DEF TickPrepared, PressedForPlan
<1>4. ASSUME NEW recent \in BOOLEAN, NEW still \in BOOLEAN, NEW calm \in BOOLEAN,
             NEW s \in Scales \cup {0}, NEW manual \in BOOLEAN, NEW moved \in 0..Stride,
             TickUnderway(recent, s, manual, calm, still, moved)
      PROVE  CommissioningIInv' /\ RunStep /\ RevokedStep
  <2>1. phase \in Underway /\ UNCHANGED <<bound, scale>>
    BY <1>4 DEF TickUnderway
  <2>2. CASE phase' = "ABORTED" /\ velocity' = 0 /\ records' = records + 1 /\ UNCHANGED runVars
    <3>1. CommissioningIInv'
      BY <1>1, <1>2, <2>1, <2>2
         DEF CommissioningIInv, RunTypes, LeaseIsNewest, PreparedIsFresh, SegmentIsNext,
             NothingIsLeftBehind, runVars, leaseVars, Phases, Underway, RevokedStep
    <3> QED
      BY <2>2, <3>1, StillRuns DEF Underway, RevokedStep
  <2>3. CASE /\ IdentityOf(lease) = bound /\ Update(moved, still)
    <3>1. bound[2] = lease.generation /\ newest = bound
      BY <1>1, <2>3 DEF IdentityOf, LeaseIsNewest
    <3>2. CommissioningIInv' /\ MeasureStep
      BY <1>2, <2>1, <2>3, <3>1, UpdateAccounts
    <3> QED
      BY <2>1, <3>1, <3>2 DEF RevokedStep, RunStep, PressStep
  <2> QED
    BY <1>4, <2>2, <2>3, Zenon DEF TickUnderway, Authority
<1>5. CASE TickIdle
  <2>1. phase \notin Underway /\ UNCHANGED <<jobVars, runVars, velocity, records>>
    BY <1>5 DEF TickIdle, Active, Underway
  <2> QED
    BY <1>1, <1>2, <2>1, StillRuns
       DEF CommissioningIInv, RunTypes, LeaseIsNewest, PreparedIsFresh, SegmentIsNext,
           NothingIsLeftBehind, jobVars, runVars, leaseVars, RevokedStep
<1>6. \/ TickIdle
      \/ \E recent, still, calm \in BOOLEAN, s \in Scales \cup {0}, moved \in 0..Stride,
            manual \in BOOLEAN :
           \/ TickPrepared(recent, s, manual, calm, still)
           \/ TickUnderway(recent, s, manual, calm, still, moved)
  <2>1. \/ \E recent, still, calm \in BOOLEAN, s \in Scales \cup {0}, moved \in 0..Stride :
             \E manual \in IF watching THEN BOOLEAN ELSE {FALSE} :
                \/ moved = 0 /\ TickPrepared(recent, s, manual, calm, still)
                \/ TickUnderway(recent, s, manual, calm, still, moved)
        \/ TickIdle
    BY Zenon DEF CommissioningTick
  <2>2. ASSUME ~TickIdle
        PROVE  \E recent, still, calm \in BOOLEAN, s \in Scales \cup {0}, moved \in 0..Stride,
                  manual \in BOOLEAN :
                  \/ TickPrepared(recent, s, manual, calm, still)
                  \/ TickUnderway(recent, s, manual, calm, still, moved)
    <3>1. PICK recent \in BOOLEAN, still \in BOOLEAN, calm \in BOOLEAN, s \in Scales \cup {0},
               moved \in 0..Stride, manual \in IF watching THEN BOOLEAN ELSE {FALSE} :
             \/ moved = 0 /\ TickPrepared(recent, s, manual, calm, still)
             \/ TickUnderway(recent, s, manual, calm, still, moved)
      BY <2>1, <2>2, Zenon
    <3>2. manual \in BOOLEAN
      OBVIOUS
    <3>3. \/ TickPrepared(recent, s, manual, calm, still)
          \/ TickUnderway(recent, s, manual, calm, still, moved)
      BY <3>1
    <3> QED
      BY <3>2, <3>3, ZenonT(60)
  <2> QED
    BY <2>2
<1> QED
  BY <1>3, <1>4, <1>5, <1>6

\* Hearing a lease measures nothing and starts nothing.
LEMMA HearingAccounts ==
    ASSUME CommissioningIInv, HearLease
    PROVE  CommissioningIInv' /\ RunStep
<1>1. /\ RunTypes /\ LeaseIsNewest /\ PreparedIsFresh /\ SegmentIsNext /\ NothingIsLeftBehind
  BY DEF CommissioningIInv
<1>2. /\ up /\ UNCHANGED <<jobVars, runVars, velocity, records, up>>
  BY DEF HearLease
<1>3. PICK i \in lease.instance..MaxInstance, g \in 1..MaxLease, c \in ControlClasses :
        TakeLease([instance |-> i, generation |-> g, allowed |-> c])
  BY DEF HearLease
<1> DEFINE l == [instance |-> i, generation |-> g, allowed |-> c]
<1>4. /\ i \in Nat /\ g \in Nat /\ i >= lease.instance
      /\ lease.instance \in Nat /\ lease.generation \in Nat
  BY <1>1, CommissioningAssumption DEF RunTypes
<1>5. /\ lease' = l /\ (i = lease.instance => g >= lease.generation)
      /\ newest' = IF Later(newest, IdentityOf(l)) THEN newest ELSE IdentityOf(l)
  BY <1>3 DEF TakeLease
<1>6. ~Later(newest, IdentityOf(l))
  BY <1>1, <1>4, <1>5 DEF Later, IdentityOf, LeaseIsNewest
<1>7. LeaseIsNewest' /\ RunTypes'
  BY <1>1, <1>2, <1>4, <1>5, <1>6 DEF jobVars, runVars, LeaseIsNewest, RunTypes
<1>8. CommissioningIInv'
  BY <1>1, <1>2, <1>7
     DEF jobVars, runVars, CommissioningIInv, PreparedIsFresh, SegmentIsNext, NothingIsLeftBehind
<1> QED
  BY <1>1, <1>2, <1>8 DEF RunStep, PressStep, MeasureStep, jobVars, runVars, RunTypes

\* Nor do the services, except for the press that starts the next segment.
LEMMA ServicesAccount ==
    ASSUME CommissioningIInv,
           \/ PressStart \/ Clear \/ Finalize
           \/ \E s \in Scales : Plan(s)
    PROVE  CommissioningIInv' /\ RunStep
<1>1. /\ RunTypes /\ LeaseIsNewest /\ PreparedIsFresh /\ SegmentIsNext /\ NothingIsLeftBehind
  BY DEF CommissioningIInv
<1> USE DEF CommissioningIInv, LeaseIsNewest, PreparedIsFresh, SegmentIsNext,
            NothingIsLeftBehind, Underway
<1>2. CASE PressStart
  BY <1>1, <1>2 DEF PressStart, jobVars, leaseVars, runVars, RunTypes, RunStep, PressStep, MeasureStep
<1>3. ASSUME NEW s \in Scales, Plan(s) PROVE CommissioningIInv' /\ RunStep
  <2>1. /\ phase \notin Underway /\ phase' = "PREPARED" /\ records' = 0
        /\ UNCHANGED <<leaseVars, runVars, velocity, up>>
    BY <1>3 DEF Plan, AdmitPlan
  <2> QED
    BY <1>1, <2>1, StillRuns DEF leaseVars, runVars, RunTypes, Phases
<1>4. ASSUME NEW zero \in BOOLEAN, ClearJob(zero), up, zero = TRUE \/ up' = FALSE, up' \in BOOLEAN
      PROVE  CommissioningIInv' /\ RunStep
  <2>1. /\ phase' = IF phase \in Underway THEN "ABORTED" ELSE "IDLE"
        /\ UNCHANGED <<bound, leaseVars, runVars>>
    BY <1>4 DEF ClearJob
  <2>2. CASE phase \in Underway
    <3>1. velocity' = (IF zero THEN 0 ELSE velocity) /\ records' = records + 1
      BY <1>4, <2>2 DEF ClearJob
    <3> QED
      BY <1>1, <1>4, <2>1, <2>2, <3>1, StillRuns DEF leaseVars, runVars, RunTypes, Phases
  <2>3. CASE phase \notin Underway
    <3>1. UNCHANGED <<velocity, records>>
      BY <1>4, <2>3 DEF ClearJob
    <3> QED
      BY <1>1, <1>4, <2>1, <2>3, <3>1, StillRuns DEF leaseVars, runVars, RunTypes, Phases
  <2> QED
    BY <2>2, <2>3
<1>5. CASE Clear
  BY <1>1, <1>4, <1>5 DEF Clear, RunTypes
<1>6. CASE Finalize
  BY <1>4, <1>6 DEF Finalize
<1> QED
  BY <1>2, <1>3, <1>5, <1>6

\* The books agree when the node starts.
LEMMA CommissioningStarts == CommissioningInit => CommissioningIInv
<1> SUFFICES ASSUME CommissioningInit PROVE CommissioningIInv
  OBVIOUS
<1>1. RunTypes
  BY DEF CommissioningInit, RunTypes, Phases, NoLease
<1> QED
  BY <1>1 DEF CommissioningInit, CommissioningIInv, LeaseIsNewest, PreparedIsFresh,
              SegmentIsNext, NothingIsLeftBehind, Underway

\* Every step keeps the books.
LEMMA CommissioningAccounts ==
    ASSUME CommissioningIInv, [CommissioningNext]_commissioningVars
    PROVE  CommissioningIInv' /\ [RunStep /\ RevokedStep]_commissioningVars
<1>1. CommissioningTick => CommissioningIInv' /\ RunStep /\ RevokedStep
  BY TickAccounts
<1>2. ~CommissioningTick => RevokedStep
  BY DEF RevokedStep
<1>3. CASE UNCHANGED commissioningVars
  BY <1>3 DEF CommissioningIInv, RunTypes, LeaseIsNewest, PreparedIsFresh, SegmentIsNext,
              NothingIsLeftBehind, commissioningVars, jobVars, leaseVars, runVars
<1> QED
  BY <1>1, <1>2, <1>3, HearingAccounts, ServicesAccount DEF CommissioningNext

\* The books of a blind run agree in every reachable state: the lease taken is
\* the newest heard, the segment under way is the next to be measured, and the
\* time it settled was quiet throughout.
THEOREM CommissioningInvariance == CommissioningSpec => []CommissioningIInv
<1>1. CommissioningIInv /\ [CommissioningNext]_commissioningVars => CommissioningIInv'
  BY CommissioningAccounts
<1> QED
  BY <1>1, CommissioningStarts, PTL DEF CommissioningSpec

\* A blind run is one press, one plan, one record, whatever the leases, the
\* panel and the wheels do, and however long the plan (commissioning.Job,
\* blindrun.BlindRun).
THEOREM BlindRunIsAccounted == CommissioningSpec => RunIsAccounted
<1>1. CommissioningIInv => NothingIsLeftBehind
  BY DEF CommissioningIInv
<1>2. CommissioningIInv /\ [CommissioningNext]_commissioningVars =>
          [(phase \in Underway /\ phase' \in Underway /\ CommissioningTick)
             => (newest = bound)]_commissioningVars
  BY CommissioningAccounts DEF RevokedStep
<1>3. CommissioningIInv /\ [CommissioningNext]_commissioningVars =>
          [phase' \in Underway /\ phase \notin Underway
             => (edge = "new" /\ edge' = "none")]_commissioningVars
  BY CommissioningAccounts DEF RunStep, PressStep
<1>4. CommissioningIInv /\ [CommissioningNext]_commissioningVars =>
          [/\ measured' > measured =>
                /\ measured' = measured + 1 /\ measured' = segment
                /\ quiet + 1 >= SettleFor
           /\ (phase' = "DONE" /\ phase # "DONE") => measured' = Segments]_commissioningVars
  BY CommissioningAccounts DEF RunStep, MeasureStep
<1> QED
  BY <1>1, <1>2, <1>3, <1>4, CommissioningInvariance, PTL
     DEF CommissioningSpec, RunIsAccounted, RevokedStaysRevoked, OnePressOneRun, MeasuredAtRest
=============================================================================
