------------------------------ MODULE Commissioning ------------------------------
(***************************************************************************)
(* The blind run: a plan of measured moves, started by the physical Start     *)
(* and driven on encoder counts alone (amr_base/commissioning_node.py,        *)
(* commissioning.py, agv_core/blindrun.py).                                   *)
(*                                                                           *)
(* A tick sees the last lease heard, fresh or not, and takes the wheel        *)
(* feedback and the panel as they are then.  The supervisor's leases arrive   *)
(* late, twice or out of order, and it may restart; a restart takes seconds,  *)
(* and no lease of the one before is later than that.  Services and the tick  *)
(* run one at a time on one thread.                                           *)
(*                                                                           *)
(* Not modelled: the geometry of a plan (a segment is a distance of its       *)
(* faster wheel, in units), the trim of the slower wheel, the pose and the    *)
(* gyro, which are measured and never acted on, and wheels that turn back.    *)
(***************************************************************************)
EXTENDS Integers

CONSTANTS
  MaxInstance,  \* bound: supervisors, one after the other
  MaxLease,     \* bound: generations of the lease
  Scales,       \* encoder scales
  Segments,     \* segments of a plan
  Distance,     \* of a segment
  Overrun,      \* distance beyond it that is still tolerated
  Stride,       \* bound: distance between two ticks
  Budget,       \* ticks allowed for a segment
  SettleFor,    \* BLIND_SETTLE_S
  SettleLimit,  \* SETTLE_LIMIT_S
  Unbound

ASSUME CommissioningAssumption ==
  /\ {MaxInstance, MaxLease, Segments, Distance, Overrun, Stride, Budget} \subseteq Nat
  /\ {SettleFor, SettleLimit} \subseteq Nat
  /\ Segments > 0 /\ Distance > 0 /\ SettleFor > 0
  /\ 0 \notin Scales

VARIABLES
  phase,         \* Job.phase
  bound,         \* the lease identity the plan was admitted under, or Unbound
  scale,         \* its encoder scale
  edge,          \* a Start edge not yet consumed: "none", "old" (before the plan), "new"
  watching,      \* the panel is subscribed
  lease,         \* the last lease taken: [instance, generation, allowed]
  newest,        \* history: the newest identity heard
  segment,       \* BlindRun.index, from 1
  rolling,       \* BlindRun.phase is RUNNING, and not SETTLING
  done, elapsed, settled, unsettled,   \* progress and times of the segment
  measured,      \* segments recorded
  velocity,        \* the last WheelVelocities: 0, or the generation it moves under
  records,       \* history: evidence files attempted for the job
  quiet,         \* history: settling ticks in a row that saw the wheels at rest
  up             \* the node runs

runVars == <<segment, rolling, done, elapsed, settled, unsettled, measured, quiet>>
jobVars == <<phase, bound, scale>>
leaseVars == <<lease, newest>>
commissioningVars == <<jobVars, edge, watching, leaseVars, runVars, velocity, records, up>>

Phases == {"IDLE", "PREPARED", "RUNNING", "SETTLING", "DONE", "ABORTED"}
Underway == {"RUNNING", "SETTLING"}
Active == {"PREPARED", "RUNNING", "SETTLING"}
ControlClasses == {"manual", "commissioning", "autonomous"}
NoLease == [instance |-> 0, generation |-> 0, allowed |-> "none"]
IdentityOf(l) == <<l.instance, l.generation>>
Later(x, y) == x[1] > y[1] \/ (x[1] = y[1] /\ x[2] > y[2])

CommissioningInit ==
  /\ phase = "IDLE" /\ bound = Unbound /\ scale = 0
  /\ edge = "none" /\ watching = FALSE
  /\ lease = NoLease /\ newest = IdentityOf(NoLease)
  /\ segment = 1 /\ rolling = FALSE /\ done = 0 /\ elapsed = 0 /\ settled = 0 /\ unsettled = 0
  /\ measured = 0 /\ quiet = 0
  /\ velocity = 0 /\ records = 0 /\ up = TRUE

-----------------------------------------------------------------------------
(* What the node hears *)

\* Replayed or reordered leases of the same supervisor never move authority back.
TakeLease(l) ==
  /\ l.instance = lease.instance => l.generation >= lease.generation
  /\ lease' = l
  /\ newest' = IF Later(newest, IdentityOf(l)) THEN newest ELSE IdentityOf(l)

HearLease ==
  /\ up
  /\ \E i \in lease.instance..MaxInstance, g \in 1..MaxLease, c \in ControlClasses :
        /\ i > 0
        /\ TakeLease([instance |-> i, generation |-> g, allowed |-> c])
  /\ UNCHANGED <<jobVars, edge, watching, runVars, velocity, records, up>>

\* A press of Start; held, it makes no second edge.
PressStart ==
  /\ up /\ watching
  /\ edge' = "new"
  /\ UNCHANGED <<jobVars, watching, leaseVars, runVars, velocity, records, up>>

-----------------------------------------------------------------------------
(* Services *)

\* Job.plan: under a lease that does not drive, in IDLE, with the wheels at rest and a scale.
AdmitPlan(s) ==
  /\ phase \notin Underway
  /\ lease.allowed # "autonomous"
  /\ phase' = "PREPARED" /\ bound' = IdentityOf(lease) /\ scale' = s
  /\ records' = 0

\* The service: the lease and the wheel feedback have to be fresh; a press is older from here on.
Plan(s) ==
  /\ up /\ lease # NoLease
  /\ AdmitPlan(s)
  /\ edge' = IF edge = "new" THEN "old" ELSE edge
  /\ UNCHANGED <<watching, leaseVars, runVars, velocity, up>>

\* Job.clear, its zero sample and its evidence.
ClearJob(zero) ==
  /\ phase' = IF phase \in Underway THEN "ABORTED" ELSE "IDLE"
  /\ IF phase \in Underway
       THEN velocity' = (IF zero THEN 0 ELSE velocity) /\ records' = records + 1
       ELSE UNCHANGED <<velocity, records>>
  /\ UNCHANGED <<bound, scale, edge, watching, leaseVars, runVars>>

\* Cleared by the operator.
Clear == up /\ ClearJob(TRUE) /\ UNCHANGED up

\* An orderly shutdown: the zero may find the context already shut down.
Finalize == up /\ (\E zero \in BOOLEAN : ClearJob(zero)) /\ up' = FALSE

-----------------------------------------------------------------------------
(* BlindRun *)

BeginSegment(n) ==
  /\ segment' = n /\ rolling' = TRUE
  /\ done' = 0 /\ elapsed' = 0 /\ settled' = 0 /\ unsettled' = 0
  /\ quiet' = 0

\* Faulty variant: a segment may take any time.
RollingForEver(d, t) ==
  CASE d > Distance + Overrun -> "abort"
    [] d <= Distance + Overrun /\ d >= Distance -> "settle"
    [] OTHER -> "roll"

\* What an update of a rolling segment comes to.
Rolling(d, t) ==
  CASE d > Distance + Overrun -> "abort"
    [] d <= Distance + Overrun /\ t > Budget -> "abort"
    [] d <= Distance + Overrun /\ t <= Budget /\ d >= Distance -> "settle"
    [] OTHER -> "roll"

\* Counts are recorded only once both drives have reported standstill for SettleFor.
Settling(d, still) ==
  LET rest == IF still THEN settled + 1 ELSE 0
      wait == IF still THEN unsettled ELSE unsettled + 1
  IN [rest |-> rest, wait |-> wait,
      end |-> CASE d > Distance + Overrun \/ (~still /\ wait > SettleLimit) -> "abort"
                [] d <= Distance + Overrun /\ rest >= SettleFor -> "record"
                [] OTHER -> "wait"]

\* One update, and what the job becomes by it.
Update(moved, still) ==
  LET d == done + moved
      verdict == IF rolling THEN Rolling(d, elapsed + 1) ELSE Settling(d, still).end
  IN
  /\ CASE verdict = "roll" ->
            /\ done' = d /\ elapsed' = IF elapsed > Budget THEN elapsed ELSE elapsed + 1
            /\ phase' = "RUNNING" /\ velocity' = lease.generation /\ records' = records
            /\ UNCHANGED <<segment, rolling, settled, unsettled, measured, quiet>>
       [] verdict = "settle" ->
            /\ done' = d /\ rolling' = FALSE
            /\ phase' = "SETTLING" /\ velocity' = 0 /\ records' = records
            /\ UNCHANGED <<segment, elapsed, settled, unsettled, measured, quiet>>
       [] verdict = "wait" ->
            /\ done' = d /\ settled' = Settling(d, still).rest
            /\ unsettled' = Settling(d, still).wait
            /\ quiet' = IF still THEN quiet + 1 ELSE 0
            /\ phase' = "SETTLING" /\ velocity' = 0 /\ records' = records
            /\ UNCHANGED <<segment, rolling, elapsed, measured>>
       [] verdict = "record" /\ segment < Segments ->
            /\ BeginSegment(segment + 1) /\ measured' = measured + 1
            /\ phase' = "RUNNING" /\ velocity' = 0 /\ records' = records
       [] verdict = "record" /\ segment = Segments ->
            /\ measured' = measured + 1
            /\ phase' = "DONE" /\ velocity' = 0 /\ records' = records + 1
            /\ UNCHANGED <<segment, rolling, done, elapsed, settled, unsettled, quiet>>
       [] verdict = "abort" ->
            /\ phase' = "ABORTED" /\ velocity' = 0 /\ records' = records + 1
            /\ UNCHANGED runVars

-----------------------------------------------------------------------------
(* The tick.  fresh: the lease is; counts, s: the wheel counts and scale are valid, s = 0 if   *)
(* not; manual: a fresh panel image that is valid and MANUAL; calm: it shows no emergency.     *)

\* A definite change of lease or scale voids the plan; staleness does not.
BindingChanged(fresh, s) ==
  \/ fresh /\ IdentityOf(lease) # bound
  \/ s # 0 /\ s # scale

Authority(fresh, s, manual, calm) ==
  /\ calm /\ manual
  /\ fresh /\ lease.allowed = "commissioning" /\ IdentityOf(lease) = bound
  /\ s = scale

\* Faulty variant: any press that is still remembered starts the plan.
PressedEver == edge # "none"

\* The press is newer than the plan.
PressedForPlan == edge = "new"

TickPrepared(fresh, s, manual, calm, still) ==
  /\ phase = "PREPARED"
  /\ IF BindingChanged(fresh, s)
       THEN phase' = "IDLE" /\ UNCHANGED <<runVars, velocity, records>>
       ELSE IF PressedForPlan /\ Authority(fresh, s, manual, calm) /\ still
              THEN /\ phase' = "RUNNING" /\ BeginSegment(1)
                   /\ measured' = 0 /\ UNCHANGED <<velocity, records>>
              ELSE UNCHANGED <<phase, runVars, velocity, records>>
  /\ UNCHANGED <<bound, scale>>

TickUnderway(fresh, s, manual, calm, still, moved) ==
  /\ phase \in Underway
  /\ IF BindingChanged(fresh, s) \/ ~Authority(fresh, s, manual, calm)
       THEN phase' = "ABORTED" /\ velocity' = 0 /\ records' = records + 1 /\ UNCHANGED runVars
       ELSE Update(moved, still)
  /\ UNCHANGED <<bound, scale>>

\* Nothing prepared: the tick is skipped most of the time, and moves nothing.
TickIdle ==
  /\ phase \notin Active
  /\ UNCHANGED <<jobVars, runVars, velocity, records>>

\* The panel is subscribed while a job exists; a tick consumes the edge.
CommissioningTick ==
  /\ up
  /\ watching' = (phase \in Active)
  /\ edge' \in IF phase \in Active THEN {"none"} ELSE {"none", edge}
  /\ \/ \E fresh, still, calm \in BOOLEAN, s \in Scales \cup {0}, moved \in 0..Stride :
          \E manual \in IF watching THEN BOOLEAN ELSE {FALSE} :
             \/ moved = 0 /\ TickPrepared(fresh, s, manual, calm, still)
             \/ TickUnderway(fresh, s, manual, calm, still, moved)
     \/ TickIdle
  /\ UNCHANGED <<leaseVars, up>>

CommissioningNext ==
  \/ HearLease \/ PressStart
  \/ \E s \in Scales : Plan(s)
  \/ Clear \/ Finalize
  \/ CommissioningTick

CommissioningSpec ==
  CommissioningInit /\ [][CommissioningNext]_commissioningVars
  /\ WF_commissioningVars(CommissioningTick)

-----------------------------------------------------------------------------
(* Properties *)

\* While the node runs, its last wheel sample moves the wheels only while its job rolls,
\* and carries the generation the plan was made under; and whatever ends a run - its plan, a loss of
\* authority, the operator, a shutdown - one attempt is made to write its evidence (write_evidence).
NothingIsLeftBehind ==
  /\ up /\ velocity # 0 => phase = "RUNNING" /\ velocity = bound[2]
  /\ phase \in Underway => records = 0
  /\ phase \in {"DONE", "ABORTED"} => records = 1

\* Every tick that keeps a job going sees the newest lease ever heard as the one of its plan: one
\* replayed or late does not give back the authority a newer one took away (_on_lease).
RevokedStaysRevoked ==
  [][(phase \in Underway /\ phase' \in Underway /\ CommissioningTick)
       => (newest = bound)]_commissioningVars

\* One press of Start, made after the plan was accepted, starts one job (Job.tick).
OnePressOneRun ==
  [][phase' \in Underway /\ phase \notin Underway
       => (edge = "new" /\ edge' = "none")]_commissioningVars

\* A segment is recorded only when the wheels were at rest in every tick of SettleFor, this one
\* included, and the plan is done when each of its segments was (BlindRun.update).
MeasuredAtRest ==
  [][/\ measured' > measured =>
          /\ measured' = measured + 1 /\ measured' = segment
          /\ quiet + 1 >= SettleFor
     /\ (phase' = "DONE" /\ phase # "DONE") => measured' = Segments]_commissioningVars

\* A blind run is one press, one plan, one record: nothing rolls outside of it, and what it says
\* it measured it measured at rest.
RunIsAccounted ==
  []NothingIsLeftBehind /\ RevokedStaysRevoked /\ OnePressOneRun /\ MeasuredAtRest

\* A run comes to an end, whatever the wheels do, if the timer keeps ticking (BlindRun's budgets).
RunsEnd == up /\ phase \in Underway ~> phase \notin Underway
=============================================================================
