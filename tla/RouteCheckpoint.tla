--------------------------- MODULE RouteCheckpoint --------------------------
(***************************************************************************)
(* "Continue route from here": where the last run was abandoned, and how   *)
(* it is remembered (amr_mission/route_executor_node.py: _sync_checkpoint, *)
(* _srv_rejoin, _rejoin_gate; run_fsm.py: _record_stop).                   *)
(*                                                                         *)
(* Two threads run _sync_checkpoint: every handler that publishes a state, *)
(* with the executor's lock held, and the 0.5 s timer of _publish_state,   *)
(* which takes no lock.  The function is three steps here: it claims the   *)
(* stop, builds the checkpoint from the stop and from whatever mission is  *)
(* loaded by then, and writes the file.  A restart may come at any moment. *)
(*                                                                         *)
(* A place is a step of a pass, numbered through the whole run.  A mission *)
(* stands for its map, its route and its steps.                            *)
(***************************************************************************)
EXTENDS Integers, FiniteSets

CONSTANTS
    Missions,       \* saved missions, each with a route of its own
    NPlaces,        \* steps of a run, over all passes
    Waits,          \* the places that are wait steps
    MaxStops,       \* bound on the abandoned runs
    MaxRestarts,    \* bound on the restarts
    None

ASSUME CheckpointAssumption ==
    /\ NPlaces \in Nat \ {0} /\ Waits \subseteq 1..(NPlaces - 1)
    /\ None \notin Missions

VARIABLES
    state,      \* RunFsm.state; RUNNING is EXECUTING, PAUSED, BLOCKED or WAITING
    mission,    \* the mission in memory (mission, route, compiled, mission_id)
    place,      \* pass_index and step_index, 0 when there is no run
    startAt,    \* RunFsm.start_at, 0 for the route start
    lastStop,   \* RunFsm.last_stop
    saved,      \* _saved_stop_seq
    cp,         \* self.checkpoint
    file,       \* route_checkpoint.json
    pc, job,    \* per thread: how far _sync_checkpoint is, and on what
    pos,        \* where the vehicle stands along the route, -1 off it
    stops,      \* number of abandoned runs, which numbers the stops
    restarts,
    abandoned,  \* history: <<mission, place>> of every abandoned run
    forgotten,  \* history: the stops up to here were given up for good
    loadedFrom  \* history: the checkpoint the READY mission was loaded from

runVars == <<state, mission, place, startAt, lastStop, loadedFrom>>
syncVars == <<saved, cp, file, pc, job>>
history == <<stops, restarts, abandoned, forgotten>>
vars == <<runVars, syncVars, pos, history>>

Threads == {"handler", "timer"}
Places == 1..NPlaces
Stop == [id : 1..MaxStops, mission : Missions, place : Places]
Checkpoint == [id : 1..MaxStops, mission : Missions, place : Places, route : Missions \cup {None}]

\* Points along the route: a wait has no length, any other step a start, a
\* middle and an end, and ends where the next one starts.
StartOf(k) == 2 * Cardinality((1..(k - 1)) \ Waits)
EndOf(k) == 2 * Cardinality((1..k) \ Waits)
Points == -1..EndOf(NPlaces)

Init ==
    /\ state = "IDLE" /\ mission = None /\ place = 0 /\ startAt = 0
    /\ lastStop = None /\ saved = 0 /\ cp = None /\ file = None
    /\ pc = [t \in Threads |-> "idle"] /\ job = [t \in Threads |-> None]
    /\ pos = 0 /\ stops = 0 /\ restarts = 0
    /\ abandoned = {} /\ forgotten = 0 /\ loadedFrom = None

-----------------------------------------------------------------------------
(* Handlers: each takes the lock, and publishes the state before it gives  *)
(* it back, so its own _sync_checkpoint follows under the same lock.       *)

LockFree == pc["handler"] = "idle"
ThenPublish == pc' = [pc EXCEPT !["handler"] = "sync"] /\ UNCHANGED <<saved, cp, file, job>>

\* /amr/run_mission or a destination button.
Load ==
    /\ LockFree /\ state \in {"IDLE", "READY", "DONE"}
    /\ mission' \in Missions
    /\ state' = "READY" /\ place' = 0 /\ startAt' = 0 /\ loadedFrom' = None
    /\ ThenPublish /\ UNCHANGED <<lastStop, pos, history>>

\* Faulty variant: the mission is loaded without checkpoint_mismatch.
RejoinUnchecked ==
    /\ LockFree /\ cp # None /\ state \in {"IDLE", "READY", "DONE"}
    /\ mission' = cp.mission /\ startAt' = cp.place /\ loadedFrom' = cp
    /\ state' = "READY" /\ place' = 0
    /\ ThenPublish /\ UNCHANGED <<lastStop, pos, history>>

\* /amr/rejoin: the checkpoint's mission, if its map, route and steps are those
\* the checkpoint names, to continue at the checkpoint's place.
Rejoin ==
    /\ LockFree /\ cp # None /\ state \in {"IDLE", "READY", "DONE"}
    /\ cp.route = cp.mission
    /\ mission' = cp.mission /\ startAt' = cp.place /\ loadedFrom' = cp
    /\ state' = "READY" /\ place' = 0
    /\ ThenPublish /\ UNCHANGED <<lastStop, pos, history>>

\* Start at the route start: the remembered stop is given up.
StartFresh ==
    /\ LockFree /\ state = "READY" /\ startAt = 0 /\ pos = 0
    /\ state' = "RUNNING" /\ place' = 1
    /\ cp' = None
    /\ pc' = [pc EXCEPT !["handler"] = IF cp = None THEN "sync" ELSE "save"]
    /\ job' = [job EXCEPT !["handler"] = None]
    /\ forgotten' = stops
    /\ UNCHANGED <<mission, startAt, lastStop, loadedFrom, saved, file, pos, stops, restarts, abandoned>>

\* rejoin_check: on the step, its end excepted; a wait only at its point.
OnStep(k) == pos \in IF k \in Waits THEN {StartOf(k)} ELSE {StartOf(k), StartOf(k) + 1}

\* _rejoin_gate: the step the run stopped at, else the next one.
RejoinPlace ==
    {k \in {startAt, startAt + 1} \cap Places :
        OnStep(k) /\ (k # startAt => ~OnStep(startAt))}

\* Start on a mission loaded to continue; a Start the gate passes but the
\* selector or a prerequisite refuses keeps the place the gate chose.
StartContinued ==
    /\ LockFree /\ state = "READY" /\ startAt # 0
    /\ \E k \in RejoinPlace :
          \/ state' = "RUNNING" /\ place' = k /\ startAt' = 0
          \/ startAt' = k /\ UNCHANGED <<state, place>>
    /\ ThenPublish /\ UNCHANGED <<mission, lastStop, loadedFrom, pos, history>>

\* The vehicle drives into its step.
Drive ==
    /\ LockFree /\ state = "RUNNING" /\ place \notin Waits
    /\ pos' = StartOf(place) + 1
    /\ UNCHANGED <<runVars, syncVars, history>>

\* It reaches the end of the step; the run goes on to the next one, or is DONE.
StepDone ==
    /\ LockFree /\ state = "RUNNING"
    /\ pos' = EndOf(place)
    /\ IF place < NPlaces THEN place' = place + 1 /\ UNCHANGED state
       ELSE state' = "DONE" /\ UNCHANGED place
    /\ ThenPublish /\ UNCHANGED <<mission, startAt, lastStop, loadedFrom, history>>

\* abort() or fault() of a run under way records where it was abandoned.
Abandon ==
    /\ LockFree /\ state = "RUNNING" /\ stops < MaxStops
    /\ lastStop' = [id |-> stops + 1, mission |-> mission, place |-> place]
    /\ stops' = stops + 1
    /\ abandoned' = abandoned \cup {<<mission, place>>}
    /\ \/ state' = "IDLE" /\ place' = 0
       \/ state' = "FAULT" /\ UNCHANGED place
    /\ ThenPublish /\ UNCHANGED <<mission, startAt, loadedFrom, pos, restarts, forgotten>>

Ack ==
    /\ LockFree /\ state = "FAULT"
    /\ state' = "IDLE" /\ place' = 0
    /\ ThenPublish /\ UNCHANGED <<mission, startAt, lastStop, loadedFrom, pos, history>>

\* A READY mission is dropped: a prerequisite lapsed, or it was aborted.
Unready ==
    /\ LockFree /\ state = "READY"
    /\ state' = "IDLE" /\ startAt' = 0
    /\ ThenPublish /\ UNCHANGED <<mission, place, lastStop, loadedFrom, pos, history>>

\* The operator moves the vehicle by hand (external).
Jog ==
    /\ state # "RUNNING"
    /\ pos' \in Points
    /\ UNCHANGED <<runVars, syncVars, history>>

-----------------------------------------------------------------------------
(* _sync_checkpoint, by either thread.                                     *)

Syncing(t) == pc[t] = IF t = "handler" THEN "sync" ELSE "idle"
Unsaved == lastStop # None /\ lastStop.id # saved

Claim(t) ==
    /\ Syncing(t)
    /\ Unsaved
    /\ saved' = lastStop.id
    /\ pc' = [pc EXCEPT ![t] = "build"] /\ job' = [job EXCEPT ![t] = lastStop]
    /\ UNCHANGED <<runVars, cp, file, pos, history>>

\* A finished run gives up the remembered stop.
ClaimDone(t) ==
    /\ Syncing(t)
    /\ ~Unsaved /\ state = "DONE" /\ cp # None
    /\ cp' = None
    /\ pc' = [pc EXCEPT ![t] = "save"] /\ job' = [job EXCEPT ![t] = None]
    /\ forgotten' = stops
    /\ UNCHANGED <<runVars, saved, file, pos, stops, restarts, abandoned>>

NothingToSync ==
    /\ Syncing("handler")
    /\ ~Unsaved /\ ~(state = "DONE" /\ cp # None)
    /\ pc' = [pc EXCEPT !["handler"] = "idle"]
    /\ UNCHANGED <<runVars, saved, cp, file, job, pos, history>>

\* The stop's mission and place, with the map, route and steps now in memory.
Build(t) ==
    /\ pc[t] = "build"
    /\ cp' = [id |-> job[t].id, mission |-> job[t].mission, place |-> job[t].place,
              route |-> mission]
    /\ job' = [job EXCEPT ![t] = cp'] /\ pc' = [pc EXCEPT ![t] = "save"]
    /\ UNCHANGED <<runVars, saved, file, pos, history>>

\* save_checkpoint: the file is replaced whole, or not at all.
Save(t) ==
    /\ pc[t] = "save"
    /\ file' \in {job[t], file}
    /\ pc' = [pc EXCEPT ![t] = "idle"] /\ job' = [job EXCEPT ![t] = None]
    /\ UNCHANGED <<runVars, saved, cp, pos, history>>

\* The node starts again, with what the file holds.
Restart ==
    /\ restarts < MaxRestarts /\ restarts' = restarts + 1
    /\ state' = "IDLE" /\ mission' = None /\ place' = 0 /\ startAt' = 0
    /\ lastStop' = None /\ loadedFrom' = None /\ saved' = 0
    /\ cp' = file
    /\ pc' = [t \in Threads |-> "idle"] /\ job' = [t \in Threads |-> None]
    /\ UNCHANGED <<file, pos, stops, abandoned, forgotten>>

-----------------------------------------------------------------------------
Sync(t) == Claim(t) \/ ClaimDone(t) \/ Build(t) \/ Save(t)

Next ==
    \/ Load
    \/ Rejoin
    \/ StartFresh
    \/ StartContinued
    \/ Drive
    \/ StepDone
    \/ Abandon
    \/ Ack
    \/ Unready
    \/ Jog
    \/ NothingToSync
    \/ \E t \in Threads : Sync(t)
    \/ Restart

\* Both threads get on with what they do: the timer fires every 0.5 s, and a
\* handler that holds the lock waits for nothing.
Spec ==
    /\ Init /\ [][Next]_vars
    /\ WF_vars(NothingToSync) /\ \A t \in Threads : WF_vars(Sync(t))

-----------------------------------------------------------------------------
CheckpointTypeOK ==
    /\ state \in {"IDLE", "READY", "RUNNING", "FAULT", "DONE"}
    /\ mission \in Missions \cup {None}
    /\ place \in 0..NPlaces /\ startAt \in 0..NPlaces
    /\ lastStop \in Stop \cup {None} /\ saved \in 0..MaxStops
    /\ cp \in Checkpoint \cup {None} /\ file \in Checkpoint \cup {None}
    /\ \A t \in Threads :
          /\ pc[t] \in {"idle", "sync", "build", "save"}
          /\ job[t] \in IF pc[t] = "build" THEN Stop ELSE Checkpoint \cup {None}
    /\ pos \in Points

\* Whatever the two threads and a restart do to it, a checkpoint that is
\* offered or kept names a mission and a step a run of it was abandoned at.
CheckpointWasAbandoned ==
    \A c \in {cp, file} \ {None} : <<c.mission, c.place>> \in abandoned

\* A run is only continued on the route it was abandoned on, even though the
\* checkpoint may have been put together from two missions.
ContinuesStoppedRoute ==
    state = "READY" /\ startAt # 0 =>
        /\ loadedFrom.route = mission
        /\ <<mission, loadedFrom.place>> \in abandoned

\* What is kept of a stopped run, and what is continued, is that run.
CheckpointIsTrue == CheckpointWasAbandoned /\ ContinuesStoppedRoute

\* OPERATE_AMR_QR.md 5a: "The stopped route is forgotten when the run finishes
\* (DONE) or when a run is started from the route start".
ForgottenStaysForgotten == cp # None => cp.id > forgotten

\* OPERATE_AMR_QR.md 5a, what Start checks: "wait step: at the wait point, then
\* it waits again".
ContinuedWaitWaits ==
    [][state = "READY" /\ state' = "RUNNING" /\ loadedFrom # None
          => (loadedFrom.place \in Waits => place' = loadedFrom.place)]_vars
=============================================================================
