# Verification of the AMR vehicle software

TLA+ models of this repository (a ROS 2 stack for two driverless vehicles under
`src/amr_ws`, with a small driver library under `src/agv_core`), model-checked with TLC and
partly proved with TLAPS. The models are translated from the Python source; `PROJECT.json`
says for every definition which lines it stands for, which run checks what, and which
theorem is proved.

## 1. The system and its parts

One vehicle, one computer, one process group per layer. The **supervisor** starts a base
layer (drives, command mux, panel, EKF) for as long as it lives, and one swappable layer at
a time: nothing (IDLE), mapping or navigation. What may move the vehicle passes three gates:
the supervisor's lease, the mux, and the drive owner. The differential vehicle has two CAN
drives and an IFM panel, the QR vehicle steers with analog drives and is operated from a
keypad; the vehicle profile says which of the two a machine is.

    panel inputs ──> panel node ── emergency ──┬──> supervisor ── lease (10 Hz) ──┬──> mux ── wheel command ──> drive owner ──> CAN / analog + coils
                                               └──────────> mux                   └──────────────────────────────> drive owner
    operator, browser ──> web server ── jog ──> mux
                     ├──> supervisor (modes, survey)     route executor ── permit ──> mux
                     ├──> route executor (start, pause…)  route executor ── action goals ──> Nav2 ── command (own topic per generation) ──> mux
                     └──> editor ── routes, missions on disk ──> route executor

| Component | State it keeps | Operations | Hard behaviour | What makes it correct |
|---|---|---|---|---|
| goal bookkeeping (`goal_attempts.py`) | current attempt, its handle and result, the outstanding and the unresolved attempts | send, revoke, forget_obsolete, response and result callbacks | late, lost, raising and reordered callbacks; a goal accepted after it was revoked | no goal the server may still drive is forgotten; one at a time; a result belongs to its attempt |
| route executor (`route_executor_node.py`, `run_fsm.py`) | the run (state, pass, step, prepared resume), the phase of the step, the hold, turn progress | load, start, pause, resume, abort, ack, continue; a 0.1 s tick; inputs stored without the lock | every operator edge and fault between any two ticks; automatic resume; unknown causes of a stop | no motion without the warning; progress only over verified boundaries; permit and goals agree |
| checkpoint (same file) | last stop, checkpoint in memory, JSON file | sync (handlers and a timer), rejoin, forget | two threads, one without the lock; restarts | continues the route that was stopped, where it stopped |
| route compiler, validation, editor (`amr_navigation`, `editor.js`, `server.py`) | the drawing, the saved revisions, the compiled steps and the moves made of them | draw, branch, rejoin, rebase, check, save, compile, chain | what is checked is the drawing, what is driven the compiled moves; a branch outlives the route it leaves | everything driven was swept and is free; a move ends at its goal; a branch is its main route elsewhere |
| emergency and panels (`emergency.py`, `panel_io.py`, `panel.py`, `qr_panel.py`, `qr_keypad.py`, `gating.RepressGuard`) | debounced inputs, five emergency states, latches and edges, the repress guard | scan, step, publish; keypad events; mux tick | blind images, deadlines, samples the mux never sees, two inputs that change at once | ends only with a later Reset; one press acts once; a held hand moves nothing |
| command mux (`cmd_mux_kinematics_node.py`, `gating.py`) | lease, permit, one command per source, jog sessions and tombstones | subscriptions, 50 Hz tick | stale and foreign streams | selects only what the lease of its generation covers |
| CAN drive owner (`drive_node.py`, `canopen.py`, `arm_policy.py`) | link state, what was asked, cleanup owed, lease, command | bus thread, requests, watchdogs | blocking bus work, partial arming, lost transfers, late requests | a powered drive is owned or guarded; nothing expired is sent |
| QR drive owner (`qr_base_node.py`, `qr_motor.py`, `dio.py`, `qr_analog.py`) | wheel state, voltage, coil claims, image of the module | 20 ms control thread, DIO scan thread | two threads with an image between them, modules that fail | FWD and REV never on together; a wheel that is not wanted comes to rest |
| supervisor (`supervisor_node.py`, `mode_fsm.py`, `process_supervisor.py`, `readiness.py`) | mode, fault, generation, transaction, survey follow-up, process groups | services, 10 Hz loop, worker, shutdown | groups that half die, calls that never answer, faults during a transaction | one layer at a time, every accepted operation ends, motion inhibited while anything changes |
| operation journal (`operations.py`) | records by id and by request id, JSON lines | submit, finish, replay | torn lines, retries, the 64-record limit | a retried request is executed once |
| uptime marker (`uptime.py`) | a marker file, the boot time | mark, clear, verdict at the start | kills and power cuts between any two steps, a clear that fails, a clock that is set | the verdict is how the last run ended, as far as the file and two times can tell |
| survey (`mapping_session_node.py`, `survey_move*.py`) | session state, SLAM paused or not, draft; the move and its controller | start, returned, save, abort; move, stop, tick | a save that fails half way, a toggle carried out late; two publishers on one topic | a survey that goes on is recorded; a move that ended moves nothing |
| map store (`map_bundle.py`, `store.py`, `deletion.py`, `server.py`) | revisions, routes, missions, trash, the server's cache | derive, save, make, remove, load | crash between two renames, writers whose locks were moved away, stale caches | what is published is never rewritten; a mission runs on what it was made from |
| floor labels (`gls_link.py`, `gls.py`, `gls_node.py`, `label_record.py`, `store.py`) | link, verdict on the camera's settings, image, frames, buffer; label sets | connect, judge, frame, publish, record | a camera that restarts with other settings while its old images are under way | recorded where it lies; no label is lost |
| blind-run commissioning (`commissioning*.py`, `blindrun.py`) | prepared job, segment, lease, evidence | plan, start edge, tick, clear, finalize | lease and emergency during a job | one start per press; every end zeroes the wheels and is recorded once |
| browser jog (`jog.py`, `jogpad.js`, `gating.ManualIntake`) | sessions, tickets, tombstones | press, refresh, release, stop | reordered, repeated, lost refreshes | nothing revives a released jog |
| localization readiness (`readiness.py`, `localization_monitor_node.py`) | evidence and its age, the pose check, grace | monitor tick, streams, initial pose | evidence from before a pose arrives after it | READY was earned by evidence of this pose |
| vehicle profile (`config.py`, `dio.py`, heartbeats) | one document, published whole or refused | load, derive, validate | numbers that each are fine and together are not | alive is heard, dead is noticed |

Everything else in the tree (sensor protocols, filters, odometry, rendering of the web
pages, map image tools, simulation, launch files) is listed in `PROJECT.json` with the
reason it is not modelled.

## 2. The modules

| Module | Models | Run | Distinct states alone |
|---|---|---|---|
| `GoalAttempts` | `goal_attempts.py` and the action server it talks to; proofs in `RouteExecutorProofs` | `drives` | 28,645 |
| `RouteExecutor` (EXTENDS `GoalAttempts`), `MCRouteExecutor` | a run of one route over the goal bookkeeping; proofs in `RouteExecutorProofs` | `motions` | 182,730 |
| `SurveyMove` | the moves of a survey, their topic and the mux's intake; proofs in `SessionsProofs` | `motions` | 279,688 |
| `RouteCheckpoint` | the stop, the checkpoint and its file; two threads; restarts; proofs in `RecordsProofs` | `records` | 782,092 |
| `OperationJournal` | the book of operations and its file; proofs in `RecordsProofs` | `records` | 445,295 |
| `UptimeMarker` | the running marker and the verdict of the next start; proofs in `RecordsProofs` | `records` | 3,997 |
| `VehicleProfile` | the profile, and the periods it decides; proofs in `RecordsProofs` | `records` | 458,775 |
| `QrPanel` | keypad and buttons of the QR vehicle; proofs in `RecordsProofs` | `records` | 292,688 |
| `PanelImage` | selector, pendant, destination keys of the CAN vehicle; proofs in `RecordsProofs` | `records` | 28,251 |
| `MapStore` | bundles, routes, missions, labels on disk, removal, caches; proofs in `MapsProofs` | `maps` | 1,406,431 |
| `RoutePlan` | drawing, validating, saving, compiling and chaining a route; proofs in `RoutePlanProofs` | `maps` | 258,890 |
| `FloorLabels` | the camera link, its readings and the label sets; proofs in `MapsProofs` | `maps` | 690,300 |
| `LocalizationReadiness` | the trust in the pose; proofs in `MapsProofs` | `maps` | 396,560 |
| `ControlGrant` | the abstract promise of the lease: generation, what is allowed, what the mux confirmed | | |
| `Supervisor` (INSTANCE `ControlGrant`) | modes, transaction, survey follow-ups, groups, worker, faults, shutdown; proofs in `SupervisorProofs` | `sessions` | 32,092 |
| `EmergencyStop` | debouncing, `Emergency.step`, `RepressGuard`; proofs in `SessionsProofs` | `sessions` | 27,609 |
| `SurveySession` | the survey and the steps of its save; proofs in `SessionsProofs` | `sessions` | 248 |
| `BrowserJog` | page, requests, server, topic and intake of a held jog button; proofs in `SessionsProofs` | `sessions` | 216,794 |
| `MotionAuthority` (EXTENDS `ControlGrant`) | lease samples on two topics, mux, drive owner, controllers of any generation; proofs in `MotionAuthorityProofs` | `authority` | 897,915 |
| `Commissioning` | the blind run; proofs in `MotionAuthorityProofs` | `authority` | 142,166 |
| `CanDrives` | the owner of the two CAN drives; proofs in `DrivesProofs` | `drives` | 118,752 |
| `QrDrives` | the QR wheel drive, its control and scan threads; proofs in `DrivesProofs` | `drives` | 132,978 |

Composition. `RouteExecutor` contains the variables and actions of `GoalAttempts` and is
shown to implement `GoalSpec`: the executor keeps the discipline (send only when nothing
else is outstanding) that the bookkeeping's theorems assume. `Supervisor` implements
`ControlGrant` under the mapping `allowed <- AllowedClass`, `acked <- muxGen`;
`MotionAuthority` adds the network, the mux and the drive owner to the same `ControlGrant`
actions, so what it shows of the wheels rests on what `Supervisor` is shown to promise.
`BrowserJog` and `SurveyMove` each contain the mux's intake (`ManualIntake`) as their
publisher meets it.

The runs. A module `MC…` puts several machines that share no state into one run of TLC: the
variable `part` is chosen at the start and never changes, the machine it names runs and the
others keep their one initial state, which `McInit` pins for a machine that has several.
Nothing is composed by that, and nothing is lost: the behaviours of the run are those of the
machines, one at a time, and fairness is that of the machine that runs. What really interacts
is composed in the modules above.

### How state and actions correspond to the code

*GoalAttempts.* An `Attempt` is its number. `handle` and `result` belong to the current
attempt. `awaiting[a]` is the callback that rclpy still owes, `server[a]` the server's own
view. Callbacks run whole under the executor's lock and are one action each. The two
`raise` paths (`send_goal_async`, `get_result_async`) are actions.

*RouteExecutor.* `RunFsm`'s fields, `phase`, `hold_cause` and `odom_gap`. A handler is one
action because it holds the lock from its first check to its last assignment; the tick is
the disjunction of the paths through `_tick` and `_execute`. Input callbacks take no lock,
so an input is a parameter of the action that reads it. Durations (grace periods, settle
and cancel timeouts) are choices: a tick may find the bound passed or not. Two are
counted: `warned` is the ticks of the pre-move warning since the run last stopped, or `Exempt`
where a hold resumed by itself, so that a warning cut short or taken over from an earlier start is
visible; `pendingFor` is the ticks of a stop whose cause is unknown, so that one made again and
again is.

*RouteCheckpoint.* `_sync_checkpoint` is three steps (claim, build, write) for each of its
two callers; only the handler holds the lock. Clearing unlinks the file. A restart reloads
it. Places are numbered through the passes; positions are the points along the route at
which `rejoin_check` can tell steps apart.

*RoutePlan.* The editor's route, its copy of the main route, and what was saved. The plane
is a small grid: cells of a metre, quarter turns, speeds in levels. A cell is occupied,
unknown, kept out or in an area declared dynamic. The footprint is the vehicle's own cell
and the one before its nose, so a turn in place sweeps the cells its nose passes. A session
of the editor draws one route of every kind of step, or two revisions of a main route and a
branch off it. Saving runs the compiler, the branch check and the validation as
`_validate_payload` does; what is saved carries its compiled moves, as the executor chains
them. The id of a step is a letter and a number, as in `nextId`: `s` in a main route, `b` in a
branch, `s_2` for what is left of a straight a branch leaves inside of. A route that is driven again
has to end within a metre of its start and in its direction (`IsNear`, the loosest limits a route
may carry), and a pass sets out where the one before left the vehicle (`Outsets`): a `Spin` turns
where the vehicle stands, a path is one of the map's frame and is joined, and the end of each
step stands as `_tick` verifies it (`DrivenPath`, `StandsAfter`). `astray` is a history
variable that no step reads: it says that the draft holds an edit which neither *Rejoin main*
nor *Rebase* takes into account (`Unseen`, see section 3).

*EmergencyStop.* One action per panel tick on a new image, one per tick on the old one, one
per mux tick. Five inputs are chosen at every scan. `resetAge` counts ticks since the
remembered Reset edge, `waited` those since RESETTING.

*QrPanel, PanelImage.* One action per tick or acquisition, with an image that may be trusted
or not; the keypad's reader is a thread of its own whose heartbeat may stop under a held key.
Levels and edges are the fields of `DebouncedLevels`, `ButtonEdges` and the panel frame.

*MotionAuthority.* `built` is the message between `_lease_msg` and `publish`; the topics
keep one sample. A lease is its generation, its class and whether `shutdown` built it, which
is what `seq` decides. `driveCmd` is the command in flight or held. Whatever the mux may do
for reasons outside the model (panel, scanner, timeouts) is the mux selecting nothing, which
is always possible.

*Supervisor.* One action per service handler and per branch of `_tick`. Layer processes are
the generations they were started under (`procs`), so a member that survives its group's
stop is visible. Deadlines make failing always possible; waiting is a stutter.

*CanDrives.* `loopPc` is where the bus thread stands in its loop: it serves the requests,
decides, sends. A blocking sequence (prepare, engage, release, the teardown) is one action
whose outcome is chosen for each drive, so one drive may be done while the other never heard
of it. `stage` and `guarded` are the drives' own state, which the code does not see.
A request waits in `request` while its caller gives up. `tickFresh` is the time stamp taken
before the blocking work, `command` what is true when the outputs are sent.

*QrDrives.* One tick of the control thread is one action. The scan thread reads the inputs,
writes one coil and then the other, and ends its scan, each a step of its own; `readback` and
`imageLow` are what the interlock sees of that, scans later. The module latches `coil` and
`volts`, so what was written stays when a thread or a module is lost.

*BrowserJog.* `net` is the set of requests and answers under way: each is delivered in any
order, repeated by a retry, or lost. Handlers of `server.py` are one action under
`JogSessions`' lock; publishing is another, as the code does it after the lock. The topic
keeps one sample.

*OperationJournal.* The file is what a replay of its whole lines rebuilds, and what stands
on an unfinished last line. A kill loses nothing written, a power cut tears the last line, a
full disk refuses one.

*UptimeMarker.* One action per step at which a kill or a power cut may come: the report of a
boot, a change of the mode, the stop, the last step of the loop. A write or a clear may fail
(`uptime.py` swallows both), a tick that was stuck may write after the clear, `/proc/stat` may be
unreadable for a boot (`bootRead`), and the clock may be set between a marker and the boot it is
compared with (`clock`). That the file itself cannot be read when it is there is left out.

*MapStore.* A request is one worker and its `task` is where it stands: made stamps and locked
directories are those it took when it began. A removal plans its items without a lock and
moves them one by one (`Move`), then empties the cache (`Forget`). A lock is known by the
directory its file lies in (`dirs`), so a directory moved to the trash takes its lock along.
A crash may fall between any two steps.

*SurveySession.* The save is one step per call it makes; each call may answer, fail, or be
given up and carried out later (`late`).

*SurveyMove.* The node's tick with its controller, the browser's samples and the mux's intake.
The queue in front of the mux holds one sample, whoever published it.

*Commissioning.* `Job`'s phase and binding, the `BlindRun` inside it, the lease and the last
wheel sample. The tick takes the lease, the wheels and the panel as parameters.

*LocalizationReadiness.* Ages are ticks of the monitor, counted no further than the code
compares them. A covariance and a comparison may be from before the initial pose (`early`).

*FloorLabels.* The link's thread, the node's tick (`Snapshot`, `PublishReadings`) and the
executor's buffer are separate, so a reading may lie in each of them while the camera
restarts with other settings (`factory`) or the vehicle moves on. A label set names its bundle
(`labelsOf`); `Remake` is a map revision removed and published again under its number, whose old
sets stay on disk and are not added to (`OldLabels`).

*VehicleProfile.* A document is its values that decide something here and, of the others,
the rule it breaks (`flaws`). `Parse`, `Derive` and `Validate` are the functions of the code
with one operator per group of checks. A published profile is then run: an owner's tick
renews its claims, the scan writes them, a drive sends heartbeats, and any of them dies.

## 3. What the runs check

| Run | Machines and bounds | Question |
|---|---|---|
| `motions` | a 4-step route with a chain and a wait, 2 passes, 2 attempts, a warning of 2 ticks, a safety window of 1; 2 survey moves, 1 jog, 4 ticks | Do edges, holds, faults and resumes ever start silently, skip a boundary, drive at a wait or wait for ever? Does a move that ended go on moving? |
| `maps` | 2 requests, 2 map and 2 route revisions, 3 files made, 1 label set, 4 directories; routes of 3 drawn steps, 2 of a branch, 2 main revisions; 2 labels and names, 2 sets; 2 streams, ages of 1 and 2 ticks | Is what is published, driven, recorded or trusted what was made, cleared, seen or measured? |
| `records` | 2 missions, 3 places with one wait, 2 stops, 1 restart; 1 request id, 5 operations, history of 2, 3 starts; 3 boots; 2 loop periods (one too slow for two of the coil holds), 4 coil holds, one period late; 2 debounce scans, hold of 2 ticks | Is what was true earlier (a stop, a request, a boot, a profile, a key) still rightly taken for true? |
| `sessions` | 4 generations, 3 operations; debounce and LOW 2 scans, timeout 2 ticks, mux at most 2 ticks behind; 2 surveys, 1 late toggle; 1 page, 2 presses, 2 generations, 2 messages under way, 1 tombstone | One layer, the lease promise kept, an emergency left only by its Reset, a survey recorded, a jog that follows the hand; and everything begun ends? |
| `authority` | 2 generations of the lease; 2 supervisors with 2 generations, 2 segments of 2 strides, 2 scales | Can the wheels turn on what their generation was not granted, go on without leases, or roll after a run ended? |
| `drives` | 2 CAN drives, 1 stop retry; QR times of 1 to 4 ticks; 3 attempts | Is a power stage ever on that nobody owns, a coil pair high together, an expired command sent, a goal forgotten? |
| `barrier_in_a_run`, `pose_during_hold`, `forgotten_checkpoint`, `skipped_wait`, `uncovered_stop`, `doubled_retry` | one machine each, the bounds above | findings 1 to 6, one violated property each |

Why the bounds are enough. Three attempts make a revoked goal, its replacement and a goal
beside them possible; the theorems remove the bound. The route has every kind of boundary
(chained, turning, wait, last of a pass), two passes the wrap-around. Two generations are an
old and a new layer; a third adds only another old one. Four generations and three
operations allow a layer, its fault, its recovery and one request more. Two requests of the
web server are a writer and a removal, or two writers; two revisions are a parent and what
was derived or removed. Three drawn steps and two of a branch are the least for which a chain
comes by its own goal, two slower steps lie within one braking distance, and a branch leaves
inside a straight and rejoins behind it. Three passes are a first, one that sets out beside the
start, and one that sets out where a pass that did ended. Two ticks of the warning tell one that
has begun from one that is over. Two scans and two ticks are the smallest numbers for
which "first", "last" and "between" differ. One coil hold of `records` is shorter than the
loop, one longer than the limit, so both sides of each check are taken. Five operations over a
history of two are the least for which a request leaves the book, is carried out again, and both
of its records are met at a replay. The two requests of
`maps` are interchangeable and `SYMMETRY` says so; no run with a liveness property uses it.
Deadlock is not checked: at its bounds, after a shutdown or once a process has ended, every
machine may stop.

Properties (each has its comment in its module, and a mutant in `PROJECT.json`: a plausible
bug, kept in the module as a "faulty variant" beside the operator it replaces, under which
TLC finds that property violated):

- goals: `GoalsAreAccounted`, `ReleasedOnlyWhenOver`: the bookkeeping against the server's own
  view.
- executor: `MotionIsPermitted`, `NoSilentRestart`, `ProgressIsVerified`, `MotionsEnd` and the
  refinement `GoalSpec`; survey moves: `EndedMovesNothing`.
- route: `DrivenIsCleared` (three mutants: what is swept, how it closes, where it is driven),
  `GoalIsReachedLast`, `SpeedFitsTheStep`, `MainRunsAsDrawn`; the last
  holds as long as no main revision is removed (*Rebase* then has nothing to compare with) and
  no edit went unseen (below).
- checkpoint: `CheckpointIsTrue`; map store: `NothingRewritten`, `NamesAreTrue`; labels:
  `RecordedWhereItLies`, `NoLabelIsLost`; pose: `ReadyIsEarned`.
- authority: `AuthorityIsFollowed`, `MotionNeedsLeases`; blind run: `RunIsAccounted`, `RunsEnd`.
- drives: `PowerIsAccounted`, `ExpiredNeverSent`, `FaultStops`; `NeverBothOn`, `RestIsReached`.
- emergency and panels: `EmergencyIsHonest`, `OnePressOnce`, `PhantomIsWithheld`.
- supervisor: `PendingIsOwned`, `OneLayerRuns`, `SessionsEnd` and the refinement `GrantSpec`;
  survey: `SurveyIsRecorded`; jog: `JogFollowsHand`.
- `RunsOnce` (journal), `VerdictIsTrue` (marker), `PeriodsFit` (profile).

### Fairness

- `RouteExecutor`: weak fairness of three paths of the 0.1 s timer: that of a pending stop, the
  cancel timeout once it has passed, the pre-move phase. The first and the last count their ticks,
  so that they end is shown and not assumed; of the cancel timeout it is assumed. Nothing is
  assumed of the operator, of Nav2 or of the callbacks.
- `SurveyMove`: the node's executor while it lives (tick, the samples it hears) and the mux's
  tick (it takes samples and looks at their age).
- `EmergencyStop`: the panel node and the mux tick.
- `MotionAuthority`: only the drive owner's clock. The supervisor may stop, the network may
  lose everything, the mux may repeat its last command for ever.
- `Supervisor`: the loop ticks, the deadline of a transaction's step passes, shutdown runs to
  its end. Nothing of the mux, the layer, the coordinator or the worker.
- `SurveySession`: the steps of a save, each of which has a timeout in the code.
- `Commissioning`: the node's timer. Nothing of the lease, the wheels or the panel.
- `BrowserJog`: only the mux's clock, by which a command ages. Nothing of the page, the
  server or the network.
- `CanDrives`: the bus thread goes round, its clock runs, and a drive's own 1016h guard trips
  when it hears nothing. Nothing is assumed of the bus.
- `QrDrives`: the clock, the scan thread's steps, and (strongly, as a module comes and goes)
  that the digital module answers again and again.

### Findings

1. `barrier_in_a_run` — an attempt that becomes unresolved during a run does not bar the next
   goal of that run until the prerequisite grace period has passed, although
   `goal_attempts.py:52-54` calls it "a barrier against new motion".
2. `pose_during_hold` — `/initialpose` during a hold sets `odom_gap`, which bars resuming a
   turn; a hold that is relabelled afterwards clears it again.
3. `forgotten_checkpoint` — the 0.5 s timer runs `_sync_checkpoint` without the lock its
   docstring asks for; a route given up by a fresh start can come back after it.
4. `skipped_wait` — a route stopped at a wait may be continued past it by jogging on to the
   next step, where the operating manual says it waits again.
5. `uncovered_stop` — a release that a drive does not confirm latches a fault without the stop
   supervision of `fault()`: the heartbeat goes on over a wheel that still turns, against
   `drive_node.py:446-447`.
6. `doubled_retry` — the journal appends to a line torn by a power cut; the record is lost at
   the replay and the retry of its request is carried out again, against `operations.py:10-12`.

Each is a run of its own with the one property it refutes, and quotes the line it contradicts.
Eight more disagreements were met while modelling or proving and have no run:

- on the QR vehicle a control loop slower than the coil hold makes a live direction flicker,
  although the check of `config.py:1373-1378` is there so that it does not: it compares the hold
  with the scan and never with `timing.loop_period_s`. `records` runs such profiles too (a loop of
  150 ms with holds of 0.2 and 0.3 s). `PeriodsFit` says of them only that no coil is on that its
  owner does not ask for; that each stands as asked it says where the hold outlives a tick that
  comes one period late (`RenewedInTime`). Without that condition TLC finds the flicker at once.
  The shipped profiles have a loop of 20 ms. On BLV-R the hold is derived from the loop and the
  condition is always met, but a loop slower than 0.1 s makes it longer than half a second;
- `uptime.py:3` says "a clean stop removes a marker file", and `clear()` swallows an `OSError`
  (`uptime.py:102-107`): the marker then stays, and the next start reports a crash or a power cut
  after a clean stop. So it does when a tick that was stuck writes the marker once more after
  `shutdown` cleared it. And the two times `verdict()` compares are of a clock that may be set
  between them: set back, a power cut reads as a crash, set ahead, a crash as a power cut.
  `VerdictIsTrue` names each of these conditions in the clause it belongs to;
- validation clears the pass from the start, and `RUNBOOK.md:315-316` says to repeat only a route
  that "returns to its own start pose"; the compiler takes a route to close when it ends within
  `position_tolerance_m` of it, up to a metre, and within `heading_tolerance_deg`
  (`compiler.py:329-333`, `route.py:166-171`), and nothing looks at the pose between two passes
  (the start gate is asked once a run). The next pass then turns where the last one ended, over
  cells nobody swept, and has up to a metre to come onto its first path, on which the cross-track
  limit is the only check. `DrivenIsCleared` says that the error does not grow from pass to pass
  and that from the first path on the vehicle is over cleared cells only; it excepts what a pass
  that sets out beside the start is over before that. Without the exception TLC finds the turn at
  once. A route that ends with *Home* closes exactly;
- `load()` accepts a QR profile whose `dio.reconnect_period_s` is no longer than
  `IO_FRESH_S + coil_hold_s`. After a write of REV that failed, the module may then be back
  while a claim to go forward, renewed on the old image, is still alive, and FWD is written
  beside REV, against `qr_base_node.py:580-582`. TLC finds it when `Reconnect` of `QrDrives` is
  lowered to that bound (and also when a scan may last longer than the dwell); the shipped
  profile `amr-qr-01` is clear of it (0.3 s + 0.15 s < 0.5 s). The assumptions of `QrDrives`
  name both conditions;
- on the CAN vehicle `panel_io.py:82` withholds an image whose selector and pendant changed in
  one scan; an image that moves on to yet another direction while the first is withheld passes
  at once, before the new image persisted, as `_coincidence` looks at the two changes only when
  nothing is held. `PhantomIsWithheld` is therefore stated of the last change: what passes is
  held for its time, or one of the two changed alone since;
- `_trim` drops the index entry of a request with any record of it that it drops
  (`operations.py:102-108`), also with the older of two. A request that was repeated after its
  first record had left the book has both records in the file; the replay of a restart drops the
  first and forgets the second, and a retry is carried out once more. `RunsOnce` is stated of the
  requests this did not happen to (`unfound`);
- a branch of a main route that was edited since is not reported as differing, although
  `OPERATE_AMR_QR.md:280-282` says so, because `_branch_check` compares with the revision the
  branch names;
- a branch has to end on the pose of the step it goes on after (`OPERATE_AMR_QR.md:277-279`), but
  nothing looks at that again once it is closed. `splitStraight` (`editor.js:173`) has no
  `branchClosed` guard, unlike the tools that add steps, and does not add the id of the tail to
  `branch.steps`: a waypoint put into one of the branch's own straights makes *Rebase*
  (`editor.js:626`) drop the tail, the branch ends short, and `branch_problem` accepts it. The
  start tools (`editor.js:135`, `206`, `283`, `293`) have no guard either: with the start moved
  while the branch is open, it rejoins from the pose it was drawn from and *Rebase* puts the start
  back. (A waypoint in a main straight in front of the branch while it is open makes the rejoin
  miscount too, as it takes the places of the main route; but what comes of that the server
  refuses.) `MainRunsAsDrawn` is stated of drafts without either edit (`~astray`); without that
  TLC finds the first of them in the `maps` run within seconds, the moved start with one more
  drawn step.

## 4. What is proved

TLAPS 1.4.5 proves for every value of the constants what TLC checks for the small ones.

*`RouteExecutorProofs`, the goals.* `GoalIInv` joins the type invariant and the four state properties
with three facts none of them says: the handle held is that of the current attempt from its
acceptance to its result, the current attempt is outstanding while a callback may still
come, and only an accepted goal has its result awaited. Without them the properties are not
inductive: a callback could be owed to an attempt the bookkeeping had dropped. One lemma per
group of actions. `GoalsAreAccountedFor` states the four properties together.

*`RouteExecutorProofs`, the executor.* `ExecIInv` is `GoalIInv` with two halves of the executor's state,
where the run is (`Placed`) and how it is controlled (`Controlled`), with `IsWarned` (past the
pre-move phase the whole warning has run, or none is due), and with `PermitCoversGoal` and
`WaitIsQuiet`. `StepSimulates` maps each executor step to a step of
`GoalAttempts`: it needs `PermitCoversGoal`, which in turn needs what the bookkeeping says of
a result, so both are carried together. Theorems: the invariant, type correctness,
`MotionIsPermitted` and its two halves, `NoSilentRestart`, `ProgressIsVerified`, and that the
executor implements `GoalSpec`, for any route, number of passes and attempts.

*`MotionAuthorityProofs`.* `MovesAsGranted` speaks of the wheels; what makes it hold is said
of the samples under way. `MotionIInv` adds that generations only grow from the supervisor
through the topic to the mux and the drive owner (`GenerationsGrow`), that every sample allows
what was granted to the generation it names (`LeasesAreGranted`), that the command in the
drive owner stands on such a grant (`CommandIsGranted`), and that a sample of `shutdown` ends
its generation (`LastIsLast`). Theorems: the invariant, `AuthorityIsFollowed` and its two
halves, `ShutdownIsFinal`, for any number of generations.

*`SupervisorProofs`.* Most of `SupervisorIInv` is what a step of the transaction relies on
without testing it: the slot is empty once STOP_OLD is passed and holds the target's layer
once it was started (`LayerOfStep`), the mux was heard to apply the generation once
WAIT_MUX_ACK is passed (`Acked`), an answer is only owed to a call that was made
(`AnswerOwed`), and a request finds nothing in flight (`InFlightModes` with
`PendingIsOwned`). `BaseAwaited` and `BaseGone` separate a base that is late from one that is
dead. One lemma per part of the invariant, one step per action in each. Theorems: the
invariant, the types, `PendingIsOwned`, `OneLayerRuns`, that a settled mode owns its layer
(`TheLayerIsTheMode`), `BaseDeadIsFinal`, and that the supervisor implements `GrantSpec`, for
any number of generations and operations.
With `MotionAuthorityProofs` this closes the
chain from the mode to the wheels: the promise proved of the one module is the one whose steps
the other composes.

*`DrivesProofs`, the CAN drives.* What the link knows and what it owes has to follow the power
through sequences that are heard in part. `CanIInv` says that a stage that is on is known to be
on and owed a teardown (`PowerOnBooks`), that a link that is up owes one at all (`LinkIsOwed`),
that an armed link and a supervised fault know of the power (`ArmedIsEnergised`), and that a
drive without its guard lost its power before, after a fault (`GuardedOrOff`). Each sequence of
`canopen.py` has a lemma, in which only its outcome for each drive is unknown. A second round of
lemmas shows that no frame but a setpoint makes a wheel turn. Theorems: the invariant,
`PowerIsAccounted` and `ExpiredNeverSent`, for any number of drives.

*`DrivesProofs`, the QR drives.* A scan writes FWD before REV and never wants both, so all that
has to be excluded is a scan that wants FWD and has read REV on. `RevIsExplained`: REV is on, or
about to be, only while the direction is backwards, or was so less long ago than the scan is old,
or after a write that failed; then the image is as old as a reconnect takes. `ForwardIsFresh`: a
claim to go forward was renewed on an image that was fresh then. `ScanAssumption` makes the
second of the three cases end before the direction may rise again, `ReconnectAssumption` makes
the third incompatible with a live claim. Theorems: the invariant and `NeverBothOn`, for all times
that satisfy the assumptions.

*`MotionAuthorityProofs`, the blind run.* `RunIsAccounted` is said of steps and of states at rest;
between them the invariant says that the lease taken is the newest ever heard (`LeaseIsNewest`),
that a plan that waits for its start has no evidence yet (`PreparedIsFresh`), and that the segment
under way is the one after those measured, whose settling time was quiet (`SegmentIsNext`).
Theorems: the invariant and `RunIsAccounted`, for any plan.

*`SessionsProofs`, the survey.* The pause service is a toggle, so the argument is about what the
session takes slam_toolbox to be: right as long as every call was answered (`PauseIsKnown`), and
before the first map "paused" only inside a save (`PausedWithinSave`). Theorems: the invariant and
`SurveyIsRecorded`, for any number of surveys and calls.

*`SessionsProofs`, the emergency.* Two invariants, the second over the first. `EmergencyIInv` is
the E-stop's own side: a panel that has seen no good image yet is ACTIVE and remembers nothing
(`BlindIsActive`), a debounced LOW is ACTIVE and tripped until a Reset (`LowIsTripped`), a trip had
a LOW (`TripsAreReal`), and a Reset that is remembered was pressed (`ResetIsRemembered`). `HandIInv`
is what the mux sees of it: a hand on the jog has been counted for as long as it was there
(`HandIsCounted`, `HandIsStable`), and while the mux has not seen an emergency it lags behind by
at least the scans the emergency has lasted (`EmergencyIsSeen`); so an emergency no tick of the
mux saw is shorter than what debouncing lets through. Theorems: the invariant, that every trip
ends by a later Reset, and `EmergencyIsHonest`, for all numbers of scans and ticks with
`MaxBehind <= Scans`: the mux ticks at 50 Hz, at least once in the time of a debounced change.

*`SessionsProofs`, the survey move.* `WaitingIsOfTheMove`: a moving sample that waits in front of
the mux is of the move under way, or of the one the node died in, because whatever ends a move
puts a sample of its own in that place. Theorem: `EndedMovesNothing`, for any plan of moves.

*`SessionsProofs`, the jog.* A revocation is published while requests of the session are still
under way, so the argument is about what the server may still publish: a session that is live,
one whose refresh is accepted and not yet published, and one the topic holds a command of have
not been revoked (`LiveIsUnrevoked`). The lock, held from the check to the publication, keeps the
second; that a sample overwrites the one before keeps the third; that a session is numbered past
all that are named anywhere (`JogTypes`) keeps the first when a press is served. Theorem:
`NothingRevives`, the safety half of `JogFollowsHand`, for any number of pages, presses and
requests under way.

*`RoutePlanProofs`, two invariants.* `PlanIInv` has three parts. What is drawn and saved is well formed, its poses
follow from its steps and its moves are what those compile to (`PlanTypes`); what the server
approved of a saved route is still true of it (`SavedHolds`), as the map and a saved route never
change; and an open branch leaves after a step that it and the picked main route both have
(`OpenLeaves`), without which rejoining could take the steps after one that is not there. One lemma
per operation of the editor. Three properties then follow from what the moves are:

- `DrivenIsCleared`: the lines and turns that the validation sweeps include every cell the vehicle
  stands on and every cell its nose comes by (`LineIsSwept`, `StandsInSwept`), step by step on each
  kind of move. On a later pass the vehicle stands before every step where that was compiled to
  begin, or, as long as no path was followed, as far beside it as it set out (`StandsWell`,
  `PassIs`); the first path takes that away, so that a pass ends where the first one did or no
  farther from the start than it set out (`OutsetsAre`, by induction over the passes);
- `GoalIsReachedLast`: the chain that a move is made of ends at the last cut before or at the end of
  its run, and a chain that comes back to its goal is cut there (`RunsAre`, `ChainIsCut`);
- `SpeedFitsTheStep`: the cap of every metre looks ahead to *every* later step of the move, not to
  the next one only (`CapLooksAhead`), so that whichever of the cap and the braking is in force, at
  the first metre of a step the vehicle is no faster than that step allows (`BrakesInTime`).

The recursive functions of the model (poses, chains, metres, speeds) are shown to satisfy their
equations on the range the model uses (`RecursionRuns`, `UpFrom`: by the least place at which
they would not).

`MainRunsAsDrawn` compares the poses of two routes, and needs an invariant of its own over the
first. `BranchIInv` says that ids tell a main route's steps from a branch's (`MainsAreNumbered`),
that what is picked is a main route that is saved (`PickedIsSaved`), and, while every main route
is there and no edit went unseen (`Seen`): an open branch begins with the steps of the main route
picked and goes on with its own (`OpenFits`); a closed one has own steps that lead from the pose
it leaves at to the pose the main route goes on from (`ClosedFits`); and what was saved runs as
drawn (`SavedFits`). `ClosedFits` is said of the own steps alone, not of the draft: between closing
and saving the draft may be edited in ways that the server will refuse, and *Rebase* makes a new
draft of the same own steps. The poses of own steps follow from where they start and not from
where they stand in a route (`AlikeLead`), as none of them is a home leg, whose end depends on the
start of the route. `OwnOf` finds the own steps again in what was put together (`PutInOwn`), a branch to a stop
point comes back to where it left (`OwnStepsLead`: a turn, a straight and their reverse), and a
draft the server approves is the main route with the branch put in (`ApprovedRunsAsDrawn`), so that
every main step before and after it ends where it did (`PutInIsDriven`). One lemma per operation
again. That the invariant could not be proved of own steps in general is how the edits that go
unseen were found.

A waypoint put into a main straight in front of an open branch is followed too, as a second case of
`OpenFits` and `ClosedFits`. The draft then holds one step more than the rejoin counts: the step
the branch leaves after has become one of its own (`IsSplitBefore`), or, where that step was split
itself, the branch begins with its tail (`IsSplitThere`). Closed, it stays what the server refuses
(`IsRefusedOn`): either the leave step is among the branch's steps, or the branch begins with a
straight to where it already stands. Neither an edit nor *Rebase* changes that, so nothing of it
is saved (`RejoinedIsRefused`, `ApprovedIsPutIn`, `RefusedIsNotApproved`).

Theorems: the two invariants and the four properties, for any map, any number and length of routes
and branches and any route speed.

*`MapsProofs`, the map store.* `NamesAreTrue` speaks of a disk that is being written and removed
from at once, so it is proved of the disk *and* of the plan of the removal. While nothing is
removed everything on disk is whole (`Tidy`); while one removal works, all that is not whole is
still on its plan (`Closed`); and as the plan was made of what names what, no name that stays names
what goes. Each kind of plan (a map with its routes, its missions and labels; routes; a mission)
has a lemma that it is closed under that, and each kind of item one that moving it keeps it so. A
mover that was disturbed, by a crash or by a lock taken on a directory that had been moved away,
promises nothing, as in the code. Theorems: `NothingRewritten`, that a mission runs on the bundle it
was made on (`RunsWhatWasMade`), and `NamesAreTrue`, for any number of requests, revisions, routes,
directories and files.

*`MapsProofs`, the floor labels.* Right readings alone leave the link, because a connection
answers for the settings of the camera as long as it lasts (`OnlyRightGetsOut`); what is in the
link after a unit of time was taken where the vehicle stands (`LinkIsHere`); and a newest reading
from elsewhere is older than the vehicle has stood, or stale (`ElsewhereIsOld`). A record keeps the
labels of its own bundle only, so every label of a set is of the bundle the set names. Theorems:
the invariant, `NoLabelIsLost`, and `RecordedWhereItLies` under `StaleAfter < Stationary`: a reading
goes stale before the wheels count as standing. The shipped profiles have 0.5 s and 1.0 s;
`config.py` does not compare the two, and TLC finds a label recorded where it does not lie when
they are equal.

*`MapsProofs`, the localization readiness.* The monitor counts ages of its own, so what has to be
shown is that they are never behind what they are ages of (`ClocksTell`), that nothing in use is
older than the pose (`PoseWasGiven`), and that confirming demands as much as READY
(`ConfirmableIsFed`). Theorems: the invariant and `ReadyIsEarned`, for all thresholds.

*`RecordsProofs`, the checkpoint.* What each of the two threads has in hand is a stop that
happened, and later a checkpoint of one (`InHand`); that is what the unlocked thread preserves,
and no more, which is why finding 3 exists. Theorem: `CheckpointIsTrue`, for any route.

*`RecordsProofs`, the journal.* `FileIInv` and `BookIInv`: operation numbers rise by at least one
from record to record, in the file and in the book; where an operation stands, it stands with its
request; the file has every operation of a request that lost no line; and a book that is up has
all of those younger than the history. That they rise is what makes "the last `HistoryLimit`
records" and "the operations of the last `HistoryLimit` numbers" the same set. Theorems: the
invariant and `RunsOnce`, for any number of requests, operations and starts.

*`RecordsProofs`, the marker.* The verdict reads nothing but the marker and the boot time, so the
invariant says what the marker says of the run under way and of the one before: a run that was
killed or cut after it wrote left its marker (`RunIsMarked`, `EndIsMarked`), one that stopped left
none, and one whose clear failed or whose last tick wrote left one (`LeavingStopped`). Theorems:
the invariant and `VerdictIsTrue`, for any number of boots.

*`RecordsProofs`, the profile.* `PeriodsFit` needs that only an accepted document is ever
published (`PublishedIsAccepted`), what the checks of `load()` leave of its periods and its output
wires (`SoundPeriods`, `SoundWires`), and the running machine: that a live owner's claims are those
it asked for (`ClaimsAreAsked`), that the first scan after a change wrote them, or low where a
claim may lapse between two ticks (`WrittenAsAsked`), and that the first scan after they lapsed
wrote low (`WrittenLow`). Theorem: `PeriodsFit`, for all loop periods and coil holds and without a
condition on them.

*`RecordsProofs`, keys and panels.* A press is a level that was absent in a trusted image before:
the keypad's invariant carries, for each button and key, that what is down and not yet believed
has not acted (`UnseenIsUnspent`, `NewKeyIsUnspent`, `HeldIsUnspent`), the panel's what the guard
withholds and since when (`WithheldIsBelieved`). Theorems: that a press acts once on the keypad
and on both panels (`OnePressOnce`), and `PhantomIsWithheld`, for any number of scans, keys and
destinations.

The assumptions are those the modules name, and TLC evaluates each in a run. Most say that a
bound is a natural number or a set is finite (`MaxAttemptsAssumption`, `GrantAssumption`,
`SupervisorAssumption`, `DrivesAssumption`, `StopRetriesAssumption`, `MarkerAssumption`,
`StoreAssumption`, `JournalAssumption`, `PeriodsAssumption`, `PanelAssumption` and the like) or
that the value that stands for Python's `None` is no other value (`NoneAssumption`). Five are
conditions on the vehicle: `RouteAssumption` (what the route compiler guarantees: at least one
step, none of the last steps a wait, chains only between two segments); `ScanAssumption` (no scan
of the QR module lasts longer than the dwell) and `ReconnectAssumption` (a reconnect takes longer
than an image is fresh and a claim held), which `load()` does not check, see section 3; and the
hypotheses of two theorems, `MaxBehind <= Scans` and `StaleAfter < Stationary`, each justified
above. The runs satisfy all of them.

Only model-checked: all liveness (`FaultStops`, `RestIsReached`, `MotionsEnd`, `SessionsEnd`,
`RunsEnd` and the parts of `JogFollowsHand`, `MotionNeedsLeases` that say something will happen:
fairness and ENABLED are out of the prover's reach). Every state invariant and every action
property that a run checks is proved; of the properties that are both, the safety half is.

## 5. What is left out

*Abstracted everywhere.*

- Geometry over the reals: corridors, arcs, ramps, tolerances and fits. They decide which
  choice a tick takes, not what follows from it. `RoutePlan` replaces the plane by a grid on
  which "free", "swept" and "in front of" mean what they mean in `validate.py`.
- Time as a quantity. A bound that has passed is a choice; where the code compares two ages
  with each other (debouncing, the emergency's deadline, readiness, the coil hold, the
  command's age) the ages are counted in ticks.
- Wording, logs, events, diagnostics and the pages of the web server; anything published
  only to be shown.

*Left out of a modelled part, with the reason.*

- The supervisor's instance: `drive_gate` (`gating.py:554`) compares generations only, while
  `ControlLease.msg` asks for both. A base that outlives its supervisor is excluded by the
  systemd unit, which ends the whole control group before it starts again, so the case is
  not a behaviour of the installed system.
- Admission reads the run or survey state it heard last (`mode_fsm.py:141`). `Supervisor`
  lets every request that is admissible for some state come at any time, so it makes no use of
  the freshness of what was heard, and promises nothing of it.
- A lease sample of the supervisor's loop may overwrite the one of `shutdown` on a topic that
  keeps one sample (`MotionAuthority` has it); the wheels then stop by the timeout and not
  at once, which is why no property asks for the latter.
- The scan of the digital module is taken to be no slower than the cooling time of the
  interlock (`ScanAssumption` of `QrDrives`: `MaxScan <= Dwell`). The code measures the scan and
  reports it but nothing enforces it.
- A QR node that is killed outright leaves the module with its last outputs; what ends the
  motion then is the module's own watchdog, which is hardware. `QrDrives` keeps the outputs
  latched and claims nothing of that state but that a coil pair is never on together.
- The brake coil of the QR vehicle follows the direction claims and has no state of its own here.
- How long the detectors of a lost drive, a stalled SLAM or a silent lidar take is a choice.
- `FloorLabels`: the mean of a label's readings is not formed (the model keeps whose readings
  they are). The settings of the camera are judged at every connection and only there, as in
  the code: the camera is taken to change them only by a restart, which ends the connection.
- Sensor drivers, filters, odometry, map image tools, simulation and launch files: numerical or
  declarative, without control that a model checker would add to (see `PROJECT.json`).
- `flock` and atomic rename are taken for what POSIX says of them.

*Not stated as a property of a run.* The type invariants of the modules are definitions that
the inductive invariants of the proof modules contain and that were model-checked while the
modules were written; the runs spend their properties on what relates several pieces of state.

## 6. What could follow

1. A home leg drawn in a branch, whose end depends on the start of the route: `Inputs` leaves it
   out of branches, and the own steps' poses would have to be followed from that start.
2. `BrowserJog` and `SurveyMove` over `MotionAuthority`, so that the intake's promise and the
   lease's are shown of one mux.
3. The disagreements without a run.
4. The alarm catalogue and its latching, and the health picture of the web server.
