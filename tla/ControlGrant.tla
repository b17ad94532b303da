---------------------------- MODULE ControlGrant -----------------------------
(***************************************************************************)
(* What the supervisor promises about the motion lease                     *)
(* (amr_bringup/supervisor_node.py: _allowed, _step_transaction,           *)
(* shutdown): a new layer gets a new generation, the generation only       *)
(* changes while nothing is allowed, and nothing is allowed under a        *)
(* generation before the mux has been heard to apply it.                   *)
(***************************************************************************)
EXTENDS Integers

CONSTANT MaxGen     \* bound on the generations of one supervisor

ASSUME GrantAssumption == MaxGen \in Nat \ {0}

VARIABLES
    generation, \* Supervisor.generation
    allowed,    \* _allowed(): the class of motion the next lease grants
    acked,      \* Snapshots.mux_gen, 0 before the mux was heard
    over        \* shutdown() ran

grantVars == <<generation, allowed, acked, over>>

\* CLASS_MANUAL, and AUTONOMOUS, which leaves MANUAL allowed.  COMMISSIONING is
\* gated on the generation like the others and left out.
Classes == {"manual", "autonomous"}
Allowed == Classes \cup {"none"}

GrantInit == generation = 1 /\ allowed = "none" /\ acked = 0 /\ over = FALSE

\* A request, an emergency, a fault or a save withdraws every class.
Inhibit == allowed' = "none" /\ UNCHANGED <<generation, acked, over>>

\* The transaction rotates the generation once motion is inhibited.
Rotate ==
    /\ ~over /\ allowed = "none" /\ generation < MaxGen
    /\ generation' = generation + 1
    /\ UNCHANGED <<allowed, acked, over>>

\* A stable mode allows the classes of that mode.
Grant(class) ==
    /\ ~over /\ acked = generation
    /\ allowed' = class /\ UNCHANGED <<generation, acked, over>>

\* The mux reports the generation it applies, perhaps late.
Ack(gen) ==
    /\ gen \in acked..generation
    /\ acked' = gen /\ UNCHANGED <<generation, allowed, over>>

\* shutdown(): nothing is allowed in STOPPING.
Close ==
    /\ ~over /\ over' = TRUE
    /\ allowed' = "none" /\ UNCHANGED <<generation, acked>>

GrantNext ==
    \/ Inhibit
    \/ Rotate
    \/ \E class \in Classes : Grant(class)
    \/ \E gen \in 0..MaxGen : Ack(gen)
    \/ Close

GrantSpec == GrantInit /\ [][GrantNext]_grantVars
=============================================================================
