--------------------------- MODULE MotionAuthority ---------------------------
(***************************************************************************)
(* How the supervisor's lease reaches the wheels: the lease is published   *)
(* at 10 Hz, the mux selects one command source under it and the drive     *)
(* owner checks it again (amr_bringup/supervisor_node.py: _publish_lease,  *)
(* shutdown; amr_base/cmd_mux_kinematics_node.py; gating.py: select,       *)
(* drive_gate; drive_node.py: _on_lease, _on_cmd, _target).                *)
(*                                                                         *)
(* Every topic keeps its newest sample, and a sample may be late.  Layers  *)
(* and their controllers are external: one of any generation there has     *)
(* been may send at any time, as after a stop that left it running.        *)
(* Speeds, the panel and the scanner fields are left out: they, and the    *)
(* timeouts of everything the mux holds, are the mux selecting nothing.    *)
(***************************************************************************)
EXTENDS ControlGrant

CONSTANT None

VARIABLES
    built,      \* allowed of a lease built under the lock, not yet published
    toMux, toDrive,     \* the newest lease sample on its way to each
    muxLease,   \* CmdMuxKinematics._lease
    applied,    \* _applied_gen, 0 before the first lease
    permit, follow,     \* _permit, _follow: the generation of who sent them
    driveLease, fresh,  \* DriveNode._lease and whether it is still fresh
    driveCmd,   \* (_cmd, _cmd_gen), on its way or arrived
    granted     \* history: <<generation, class>> of every lease built

netVars == <<built, toMux, toDrive>>
muxVars == <<muxLease, applied, permit, follow>>
driveVars == <<driveLease, fresh, driveCmd>>
vars == <<grantVars, netVars, muxVars, driveVars, granted>>

Generations == 1..MaxGen
\* last: the sample shutdown() built, whose seq is the highest of all.
Lease == [gen : Generations, allowed : Allowed, last : BOOLEAN]
\* by, from: the class and the generation of the source that was selected.
Motion == [by : Classes, from : Generations]
Command == [gen : 0..MaxGen, motion : Motion \cup {None}]

Init ==
    /\ GrantInit
    /\ built = None /\ toMux = None /\ toDrive = None
    /\ muxLease = None /\ applied = 0 /\ permit = 0 /\ follow = 0
    /\ driveLease = None /\ fresh = FALSE /\ driveCmd = None
    /\ granted = {}

-----------------------------------------------------------------------------
(* The supervisor: its loop thread, its services and shutdown().           *)

\* Services and subscriptions change what is allowed at any time.
Regrant ==
    /\ Inhibit \/ \E class \in Classes : Grant(class)
    /\ UNCHANGED <<netVars, muxVars, driveVars, granted>>

\* The loop rotates the generation between two of its own samples.
NewGeneration ==
    /\ built = None
    /\ Rotate
    /\ UNCHANGED <<netVars, muxVars, driveVars, granted>>

\* _publish_lease, under the lock; then without it.
BuildLease ==
    /\ built = None /\ ~over
    /\ built' = allowed
    /\ granted' = granted \cup ({<<generation, allowed>>} \cap (Generations \X Classes))
    /\ UNCHANGED <<grantVars, toMux, toDrive, muxVars, driveVars>>

PublishLease ==
    /\ built # None
    /\ toMux' = [gen |-> generation, allowed |-> built, last |-> FALSE]
    /\ toDrive' = toMux' /\ built' = None
    /\ UNCHANGED <<grantVars, muxVars, driveVars, granted>>

\* shutdown() publishes a last sample itself, unless a wedged loop keeps the
\* state lock; the loop may still hold one it built before.  What the loop
\* builds afterwards is like shutdown's own.
Shutdown ==
    /\ Close
    /\ \/ /\ toMux' = [gen |-> generation, allowed |-> "none", last |-> TRUE]
          /\ toDrive' = toMux'
       \/ UNCHANGED <<toMux, toDrive>>
    /\ UNCHANGED <<built, muxVars, driveVars, granted>>

-----------------------------------------------------------------------------
(* The mux.                                                                *)

\* A sample older than the one held in the same generation is dropped.
Newer(sample, lease) ==
    /\ sample # None
    /\ ~(lease # None /\ lease.gen = sample.gen /\ lease.last /\ ~sample.last)

\* _on_lease; a new generation clears what the old one left (_apply_generation).
MuxOnLease ==
    /\ toMux # None /\ toMux' = None
    /\ IF Newer(toMux, muxLease)
       THEN /\ muxLease' = toMux /\ applied' = toMux.gen
            /\ IF toMux.gen # applied
               THEN permit' = 0 /\ follow' = 0
               ELSE UNCHANGED <<permit, follow>>
       ELSE UNCHANGED muxVars
    /\ UNCHANGED <<grantVars, built, toDrive, driveVars, granted>>

\* _on_permit: the route executor of any generation.
MuxOnPermit ==
    /\ permit' \in 1..generation
    /\ UNCHANGED <<grantVars, netVars, muxLease, applied, follow, driveVars, granted>>

\* Faulty variant: every layer publishes on the same topic.
HearsAny(gen) == TRUE

\* Nav2's commands are heard on the topic of the applied generation only.
Hears(gen) == gen = applied

\* _on_follow, _on_rotate: a controller of any generation.
MuxOnFollow ==
    /\ \E gen \in 1..generation : Hears(gen) /\ follow' = gen
    /\ UNCHANGED <<grantVars, netVars, muxLease, applied, permit, driveVars, granted>>

\* gating.select under AUTO: the autonomous class, a permit of the lease's
\* generation and a command of the permitted source.
Autonomous(lease) == lease.allowed = "autonomous" /\ permit = lease.gen /\ follow # 0

\* What the selector positions and the lease let through.
Selectable(lease) ==
    {m \in Motion :
        \/ m.by = "autonomous" /\ Autonomous(lease) /\ m.from = follow
        \/ m.by = "manual" /\ lease.allowed # "none" /\ m.from = lease.gen}

\* _tick: one selection, stamped with the applied generation, or zero.  Its
\* arrival (_on_cmd) sets nothing else and is not a step of its own.
MuxTick ==
    /\ \/ driveCmd' = [gen |-> applied, motion |-> None]
       \/ /\ muxLease # None
          /\ \E m \in Selectable(muxLease) : driveCmd' = [gen |-> applied, motion |-> m]
    /\ UNCHANGED <<grantVars, netVars, muxVars, driveLease, fresh, granted>>

\* The mux state arrives at the supervisor, which may hear it late.
MuxState ==
    /\ \E gen \in 0..applied : Ack(gen)
    /\ UNCHANGED <<netVars, muxVars, driveVars, granted>>

-----------------------------------------------------------------------------
(* The drive owner.                                                        *)

DriveOnLease ==
    /\ toDrive # None /\ toDrive' = None
    /\ IF Newer(toDrive, driveLease)
       THEN driveLease' = toDrive /\ fresh' = TRUE
       ELSE UNCHANGED <<driveLease, fresh>>
    /\ UNCHANGED <<grantVars, built, toMux, muxVars, driveCmd, granted>>

\* lease_timeout_s without a newer sample.
DriveLeaseExpires ==
    /\ fresh /\ fresh' = FALSE
    /\ UNCHANGED <<grantVars, netVars, muxVars, driveLease, driveCmd, granted>>

\* The command watchdog.
DriveCommandExpires ==
    /\ driveCmd # None /\ driveCmd' = None
    /\ UNCHANGED <<grantVars, netVars, muxVars, driveLease, fresh, granted>>

\* Faulty variant: the command watchdog and the generation, without the lease.
DriveGateStale == driveLease # None /\ driveCmd.gen = driveLease.gen /\ driveLease.allowed # "none"

\* drive_gate: a fresh lease that allows something, of the command's generation.
DriveGate ==
    /\ fresh /\ driveLease.allowed # "none"
    /\ driveCmd.gen = driveLease.gen

\* _target: what a setpoint sent now comes from, None for zero.
Moving == IF driveCmd # None /\ DriveGate THEN driveCmd.motion ELSE None

-----------------------------------------------------------------------------
Next ==
    \/ Regrant
    \/ NewGeneration
    \/ BuildLease
    \/ PublishLease
    \/ Shutdown
    \/ MuxOnLease
    \/ MuxOnPermit
    \/ MuxOnFollow
    \/ MuxTick
    \/ MuxState
    \/ DriveOnLease
    \/ DriveLeaseExpires
    \/ DriveCommandExpires

\* The drive owner's clock runs; nothing is promised of the supervisor, the
\* mux or the network, and a mux that ticks on keeps the watchdog fed.
Spec == Init /\ [][Next]_vars /\ WF_vars(DriveLeaseExpires)

-----------------------------------------------------------------------------
MotionTypeOK ==
    /\ generation \in Generations /\ allowed \in Allowed
    /\ acked \in 0..MaxGen /\ over \in BOOLEAN
    /\ built \in Allowed \cup {None}
    /\ {toMux, toDrive, muxLease, driveLease} \subseteq Lease \cup {None}
    /\ applied = (IF muxLease = None THEN 0 ELSE muxLease.gen)
    /\ permit \in 0..generation /\ follow \in {0, applied}
    /\ driveCmd \in Command \cup {None}
    /\ fresh \in BOOLEAN /\ (fresh => driveLease # None)
    /\ granted \subseteq Generations \X Classes

\* "A controller from a replaced layer keeps publishing on its topic": however
\* late its messages are, the wheels only ever turn on a source whose own
\* generation was granted a class that covers it (gating.nav_topic).
MovesAsGranted ==
    Moving # None =>
        \/ <<Moving.from, Moving.by>> \in granted
        \/ Moving.by = "manual" /\ <<Moving.from, "autonomous">> \in granted

\* While anything is allowed the mux already applies this generation, so it
\* selects nothing of an older one (_step_transaction waits for the mux).
MuxFollowsGrant == allowed # "none" => applied = generation

\* Both ends of the path follow the supervisor: the wheels what it granted, the mux its newest word.
AuthorityIsFollowed == MovesAsGranted /\ MuxFollowsGrant

\* Once the drive owner has heard the last sample of shutdown(), the one the
\* loop thread had built before and publishes after it starts nothing again.
ShutdownIsFinal == [][driveLease # None /\ driveLease.last => Moving' = None]_vars

\* ControlLease.msg: "either gate closes on its own if the supervisor stops
\* making progress", whatever the mux goes on sending.
MotionNeedsLeases ==
    \/ []<><<PublishLease /\ built # "none">>_vars
    \/ <>[](Moving = None)
=============================================================================
