------------------------------- MODULE MapStore -------------------------------
(***************************************************************************)
(* The map store: the bundles, routes, floor labels and missions in files,    *)
(* the threads of the web server and the survey's save that write them, the   *)
(* removal of any of them into the trash, and the executor that loads a       *)
(* mission.                                                                   *)
(*                                                                           *)
(* One map id and one route id, each with numbered revisions.  The bytes of   *)
(* a bundle or of a route file are a stamp: its sha256.  A writer holds the   *)
(* flock of the .lock file in the directory it writes to, and the removal of  *)
(* a whole map or a whole route moves that directory with its lock file away, *)
(* so a lock is known by the directory it lies in (dirs).  A removal takes no *)
(* lock.                                                                      *)
(***************************************************************************)
EXTENDS Integers, Sequences, SequencesExt, FiniteSetsExt

CONSTANTS
  Workers,      \* threads that serve a request: of the web server, of the survey node
  MissionNames,     \* mission names
  MaxRevision,  \* map revisions
  MaxRoute,     \* route revisions
  MaxLabels,    \* label sets
  MaxMade,      \* bundles and routes ever written
  MaxDirs       \* times a directory is moved away

\* A store holds finitely many files.
ASSUME StoreAssumption ==
  /\ IsFiniteSet(MissionNames)
  /\ {MaxRevision, MaxRoute, MaxLabels, MaxMade, MaxDirs} \subseteq Nat

VARIABLES
  bundle,     \* the stamp of each map revision on disk, 0 without one
  route,      \* each route revision on disk: the map it was drawn on and its stamp
  labels,     \* each label set on disk: the map revision it was recorded on and its stamp
  missions,    \* each mission file: the revisions it names and their stamps
  dirs,       \* which directory the map's and the route's path lead to
  cache,      \* the web server's verified bundles (_grids)
  task,        \* what each thread is in the middle of
  made,       \* stamps given out
  active,     \* the bundle the running navigation layer was started with
  loaded,     \* the mission in the executor, with what it read from disk
  disturbed   \* a removal ran while another request was served, or was cut short

storeVars ==
  <<bundle, route, labels, missions, dirs, cache, task, made, active, loaded, disturbed>>

Revisions == 1..MaxRevision
Routes == 1..MaxRoute
LabelSets == 1..MaxLabels
NoLabels == [on |-> 0, of |-> 0]
NoRoute == [on |-> 0, of |-> 0, id |-> 0]
NoMission == [rev |-> 0, of |-> 0, num |-> 0, id |-> 0, lab |-> 0]
NoMap == [rev |-> 0, of |-> 0]
Idle == [at |-> "idle"]
NotLoaded == [name |-> "", mission |-> NoMission, map |-> 0, route |-> NoRoute,
              labels |-> NoLabels]

Bundles == {r \in Revisions : bundle[r] # 0}
Drawn == {n \in Routes : route[n] # NoRoute}
Recorded == {k \in LabelSets : labels[k] # NoLabels}
Made == {m \in MissionNames : missions[m] # NoMission}

\* revs[-1] + 1, or 1: the number after the highest one on disk.
NextOf(used) == Max(used \cup {0}) + 1

StoreInit ==
  /\ bundle = [r \in Revisions |-> IF r = 1 THEN 1 ELSE 0]
  /\ route = [n \in Routes |-> NoRoute]
  /\ labels = [k \in LabelSets |-> NoLabels]
  /\ missions = [m \in MissionNames |-> NoMission]
  /\ dirs = [map |-> 1, route |-> 1, there |-> FALSE]
  /\ cache = [r \in Revisions |-> 0]
  /\ task = [w \in Workers |-> Idle]
  /\ made = 1
  /\ active = NoMap
  /\ loaded = NotLoaded
  /\ disturbed = FALSE

Moving(w) == task[w].at = "moving"
Turn(w, now) == task' = [task EXCEPT ![w] = now]

\* A request is taken by a free thread.
Starts(w) ==
  /\ task[w].at = "idle"
  /\ disturbed' = (disturbed \/ \E v \in Workers : Moving(v))

\* load_manifest: the files of the revision are there, whole, and say they are that revision.
Verified(r) == bundle[r] # 0

\* The flock of the lock file in a directory is held by this thread.
HasLock(w, kind, dir) == task[w].at = "staged" /\ task[w].kind = kind /\ task[w].dir = dir

\* A thread that has opened the lock file gets the flock of that very file.
Locks(w, kind) ==
  /\ task[w].at = "opened"
  /\ task[w].kind = kind
  /\ \A v \in Workers : ~HasLock(v, kind, task[w].dir)

Staged(w, kind) == task[w].at = "staged" /\ task[w].kind = kind

-----------------------------------------------------------------------------
(* Bundles: map_lock, allocation, stage, publication                        *)

\* The lock file of the map is opened, for a new revision from another one or (from = 0) a survey.
OpenMap(w, from) ==
  /\ Starts(w)
  /\ Turn(w, [at |-> "opened", kind |-> "bundle", dir |-> dirs.map, from |-> from])
  /\ UNCHANGED <<bundle, route, labels, missions, dirs, cache, made, active, loaded>>

\* An edit or a rotation: the parent is loaded and the new grid drawn before anything is written.
Edit(w, from) == Verified(from) /\ OpenMap(w, from)
SaveSurvey(w) == OpenMap(w, 0)

\* With the lock: the number after the highest revision, and a stage of its own in the directory.
AllocateMap(w) ==
  /\ Locks(w, "bundle")
  /\ IF task[w].from # 0 /\ ~Verified(task[w].from)
       THEN Turn(w, Idle) /\ UNCHANGED made
       ELSE /\ made < MaxMade
            /\ NextOf(Bundles) <= MaxRevision
            /\ made' = made + 1
            /\ Turn(w, [at |-> "staged", kind |-> "bundle", dir |-> task[w].dir, in |-> dirs.map,
                        num |-> NextOf(Bundles), stamp |-> made'])
  /\ UNCHANGED <<bundle, route, labels, missions, dirs, cache, active, loaded, disturbed>>

\* Faulty variant: the rename replaces what stands at the destination.
PublishOver(w) ==
  /\ Staged(w, "bundle")
  /\ IF task[w].in = dirs.map
       THEN bundle' = [bundle EXCEPT ![task[w].num] = task[w].stamp]
       ELSE UNCHANGED bundle
  /\ Turn(w, Idle)
  /\ UNCHANGED <<route, labels, missions, dirs, cache, made, active, loaded, disturbed>>

\* The verified stage is renamed to the revision, unless that exists or the stage went away with
\* its directory.  The copy of a parent that was removed meanwhile fails (Fail).
Publish(w) ==
  /\ Staged(w, "bundle")
  /\ IF task[w].in = dirs.map /\ bundle[task[w].num] = 0
       THEN bundle' = [bundle EXCEPT ![task[w].num] = task[w].stamp]
       ELSE UNCHANGED bundle
  /\ Turn(w, Idle)
  /\ UNCHANGED <<route, labels, missions, dirs, cache, made, active, loaded, disturbed>>

\* A copy, a hash, a service of SLAM or the disk fails: the stage is discarded or kept as a draft.
Fail(w) ==
  /\ task[w].at = "staged"
  /\ Turn(w, Idle)
  /\ UNCHANGED <<bundle, route, labels, missions, dirs, cache, made, active, loaded, disturbed>>

-----------------------------------------------------------------------------
(* The verified bundle a request works on, from the server's cache           *)

\* Route n = 0 is to be saved, or a mission made of route n, on revision r: the bundle is the cached
\* one or the one on disk.
Look(w, r, n) ==
  /\ Starts(w)
  /\ cache[r] # 0 \/ Verified(r)
  /\ Turn(w, [at |-> IF cache[r] # 0 THEN "checked" ELSE "read", num |-> n, rev |-> r,
              of |-> IF cache[r] # 0 THEN cache[r] ELSE bundle[r]])
  /\ UNCHANGED <<bundle, route, labels, missions, dirs, cache, made, active, loaded>>

\* What was read and verified goes into the cache.
Remember(w) ==
  /\ task[w].at = "read"
  /\ cache' = [cache EXCEPT ![task[w].rev] = task[w].of]
  /\ Turn(w, [task[w] EXCEPT !.at = "checked"])
  /\ UNCHANGED <<bundle, route, labels, missions, dirs, made, active, loaded, disturbed>>

-----------------------------------------------------------------------------
(* Routes: validated on the bundle, then _locked, allocation, no-replace link *)

\* The valid route is to be saved: its directory is made and the lock file in it opened.
OpenRoute(w) ==
  /\ task[w].at = "checked" /\ task[w].num = 0
  /\ dirs' = [dirs EXCEPT !.there = TRUE]
  /\ Turn(w, [at |-> "opened", kind |-> "route", dir |-> dirs.route,
              on |-> task[w].rev, of |-> task[w].of])
  /\ UNCHANGED <<bundle, route, labels, missions, cache, made, active, loaded, disturbed>>

\* With the lock: the number after the highest one listed; the bytes carry it.
AllocateRoute(w) ==
  /\ Locks(w, "route")
  /\ made < MaxMade
  /\ NextOf(Drawn) <= MaxRoute
  /\ made' = made + 1
  /\ Turn(w, [at |-> "staged", kind |-> "route", dir |-> task[w].dir, num |-> NextOf(Drawn),
              route |-> [on |-> task[w].on, of |-> task[w].of, id |-> made']])
  /\ UNCHANGED <<bundle, route, labels, missions, dirs, cache, active, loaded, disturbed>>

\* The temporary file is linked to its name, which fails when the name or the directory is not free.
LinkRoute(w) ==
  /\ Staged(w, "route")
  /\ IF dirs.there /\ route[task[w].num] = NoRoute
       THEN route' = [route EXCEPT ![task[w].num] = task[w].route]
       ELSE UNCHANGED route
  /\ Turn(w, Idle)
  /\ UNCHANGED <<bundle, labels, missions, dirs, cache, made, active, loaded, disturbed>>

-----------------------------------------------------------------------------
(* Missions: one file each, written under the lock of a directory that stays *)

\* A route is valid on the bundle it names by revision and by stamp.
Fits(r, rev, of) == r.on = rev /\ r.of = of

\* The newest label set of the revision, unless it was recorded on another bundle of that number.
BoundLabels(rev, of) ==
  LET newest == Max({k \in Recorded : labels[k].on = rev} \cup {0}) IN
  IF newest # 0 /\ labels[newest].of = of THEN newest ELSE 0

\* The stored route is read and validated on the bundle in hand; a refusal ends the request.
CheckMission(w) ==
  /\ task[w].at = "checked" /\ task[w].num # 0
  /\ LET r == route[task[w].num] IN
       Turn(w, IF Fits(r, task[w].rev, task[w].of)
               THEN [at |-> "valid",
                     refs |-> [rev |-> task[w].rev, of |-> task[w].of, num |-> task[w].num,
                               id |-> r.id, lab |-> BoundLabels(task[w].rev, task[w].of)]]
               ELSE Idle)
  /\ UNCHANGED <<bundle, route, labels, missions, dirs, cache, made, active, loaded, disturbed>>

\* Written once: the same references again change nothing, others are a conflict.
SaveMission(w, m) ==
  /\ task[w].at = "valid"
  /\ IF missions[m] = NoMission
       THEN missions' = [missions EXCEPT ![m] = task[w].refs]
       ELSE UNCHANGED missions
  /\ Turn(w, Idle)
  /\ UNCHANGED <<bundle, route, labels, dirs, cache, made, active, loaded, disturbed>>

-----------------------------------------------------------------------------
(* Removal: a plan that only looks, then one move after another              *)

Item(what, n) == [what |-> what, n |-> n]
MissionItems(ms) == SetToSeq({Item("mission", m) : m \in ms})

\* The files of these route revisions, or the route's directory when they are all it has.
RouteItems(ns) ==
  IF ns = {} THEN <<>>
  ELSE IF ns = Drawn THEN <<Item("routes", 0)>>
  ELSE SetToSeq({Item("route", n) : n \in ns})

\* The missions of a map revision, or of one of these routes.
Using(revs, ns) == {m \in Made : missions[m].rev \in revs \/ missions[m].num \in ns}

\* Faulty variant: the missions of the removed routes are forgotten.
PlanMapOnly(r) ==
  LET drawn == {n \in Drawn : route[n].on = r} IN
  IF Bundles = {r} THEN <<Item("map", 0)>> \o MissionItems(Made)
  ELSE <<Item("rev", r)>> \o RouteItems(drawn) \o MissionItems({})

\* A map revision takes the routes drawn on it and their missions along; the last one is the map.
PlanMap(r) ==
  LET drawn == {n \in Drawn : route[n].on = r} IN
  IF Bundles = {r} THEN <<Item("map", 0)>> \o MissionItems(Made)
  ELSE <<Item("rev", r)>> \o RouteItems(drawn) \o MissionItems(Using({r}, drawn))

PlanRoutes(ns) == RouteItems(ns) \o MissionItems(Using({}, ns))

\* A confirmed removal starts moving; requests under way make it a disturbed one.
Removes(w, plan, revs) ==
  /\ task[w].at = "idle"
  /\ disturbed' = (disturbed \/ \E v \in Workers \ {w} : task[v] # Idle)
  /\ Turn(w, [at |-> "moving", left |-> plan, revs |-> revs])
  /\ UNCHANGED <<bundle, route, labels, missions, dirs, cache, made, active, loaded>>

\* A mission that is loaded in a run is not removed, nor the map the vehicle is localized on.
Free(plan) ==
  \A i \in DOMAIN plan :
    plan[i].what = "mission" => plan[i].n # loaded.name

RemoveMap(w, r) ==
  /\ bundle[r] # 0
  /\ active.rev # r
  /\ Free(PlanMap(r))
  /\ Removes(w, PlanMap(r), {r})

RemoveRoutes(w, ns) ==
  /\ ns # {} /\ ns \subseteq Drawn
  /\ Free(PlanRoutes(ns))
  /\ Removes(w, PlanRoutes(ns), {})

RemoveMission(w, m) ==
  /\ m \in Made
  /\ Free(MissionItems({m}))
  /\ Removes(w, MissionItems({m}), {})

\* One os.replace into the trash; what is gone already is passed over.
Move(w) ==
  /\ Moving(w) /\ task[w].left # <<>>
  /\ LET item == Head(task[w].left)
         all == item.what \in {"map", "routes"}
     IN /\ dirs.map + dirs.route < MaxDirs
        /\ bundle' = [r \in Revisions |->
             IF item.what = "map" \/ (item.what = "rev" /\ item.n = r) THEN 0 ELSE bundle[r]]
        /\ route' = [n \in Routes |->
             IF all \/ (item.what = "route" /\ item.n = n) THEN NoRoute ELSE route[n]]
        /\ labels' = IF item.what = "map" THEN [k \in LabelSets |-> NoLabels] ELSE labels
        /\ missions' = [m \in MissionNames |->
             IF item.what = "mission" /\ item.n = m THEN NoMission ELSE missions[m]]
        /\ dirs' = [map |-> dirs.map + (IF item.what = "map" THEN 1 ELSE 0),
                    route |-> dirs.route + (IF all /\ dirs.there THEN 1 ELSE 0),
                    there |-> dirs.there /\ ~all]
  /\ Turn(w, [task[w] EXCEPT !.left = Tail(@)])
  /\ UNCHANGED <<cache, made, active, loaded, disturbed>>

\* The removed revisions are dropped from the server's cache.
Forget(w) ==
  /\ Moving(w) /\ task[w].left = <<>>
  /\ cache' = [r \in Revisions |-> IF r \in task[w].revs THEN 0 ELSE cache[r]]
  /\ Turn(w, Idle)
  /\ UNCHANGED <<bundle, route, labels, missions, dirs, made, active, loaded, disturbed>>

-----------------------------------------------------------------------------
(* The vehicle: a navigation layer on one bundle, a mission in the executor  *)

\* The supervisor verifies the bundle it starts the layer with.
Activate(r) ==
  /\ active = NoMap /\ Verified(r)
  /\ active' = [rev |-> r, of |-> bundle[r]]
  /\ UNCHANGED <<bundle, route, labels, missions, dirs, cache, task, made, loaded, disturbed>>

\* The next label set of the map: each is one entry more, of the revision it was recorded on.
SavedLabels(on, of) == [labels EXCEPT ![NextOf(Recorded)] = [on |-> on, of |-> of]]

\* "Record label here" on the active map.
RecordLabel ==
  /\ active # NoMap /\ NextOf(Recorded) <= MaxLabels
  /\ labels' = SavedLabels(active.rev, active.of)
  /\ UNCHANGED <<bundle, route, missions, dirs, cache, task, made, active, loaded, disturbed>>

\* The layer stops, and its executor with it.
Deactivate ==
  /\ active # NoMap
  /\ active' = NoMap
  /\ loaded' = NotLoaded
  /\ UNCHANGED <<bundle, route, labels, missions, dirs, cache, task, made, disturbed>>

\* A mission may only load onto the map that AMCL is running.
OfActiveMap(r) == r.rev = active.rev /\ r.of = active.of

\* The route file read back has the stamp that the mission names.
RouteAsMade(r) == route[r.num] # NoRoute /\ route[r.num].id = r.id

\* So does its label set, and that was recorded on the mission's bundle.
LabelsAsMade(r) == r.lab # 0 => labels[r.lab] = [on |-> r.rev, of |-> r.of]

Accepts(r) ==
  /\ OfActiveMap(r)
  /\ bundle[r.rev] = r.of
  /\ RouteAsMade(r) /\ Fits(route[r.num], r.rev, bundle[r.rev])
  /\ LabelsAsMade(r)

\* A destination or Load: everything is read back and validated again.
LoadMission(m) ==
  /\ loaded = NotLoaded /\ m \in Made
  /\ Accepts(missions[m])
  /\ loaded' = [name |-> m, mission |-> missions[m], map |-> bundle[missions[m].rev],
                route |-> route[missions[m].num],
                labels |-> IF missions[m].lab = 0 THEN NoLabels ELSE labels[missions[m].lab]]
  /\ UNCHANGED <<bundle, route, labels, missions, dirs, cache, task, made, active, disturbed>>

\* The web server dies, alone or with the whole vehicle: requests stop where they are.
Crash ==
  /\ \E w \in Workers : task[w] # Idle
  /\ task' = [w \in Workers |-> Idle]
  /\ cache' = [r \in Revisions |-> 0]
  /\ disturbed' = (disturbed \/ \E w \in Workers : Moving(w))
  /\ \/ UNCHANGED <<active, loaded>>
     \/ active' = NoMap /\ loaded' = NotLoaded
  /\ UNCHANGED <<bundle, route, labels, missions, dirs, made>>

Serve(w) ==
  \/ SaveSurvey(w)
  \/ \E r \in Revisions : Edit(w, r)
  \/ AllocateMap(w) \/ Publish(w) \/ Fail(w)
  \/ \E r \in Revisions, n \in {0} \cup Drawn : Look(w, r, n)
  \/ Remember(w)
  \/ OpenRoute(w) \/ AllocateRoute(w) \/ LinkRoute(w)
  \/ CheckMission(w)
  \/ \E m \in MissionNames : SaveMission(w, m)
  \/ \E r \in Revisions : RemoveMap(w, r)
  \/ \E ns \in SUBSET Routes : RemoveRoutes(w, ns)
  \/ \E m \in MissionNames : RemoveMission(w, m)
  \/ Move(w) \/ Forget(w)

StoreNext ==
  \/ \E w \in Workers : Serve(w)
  \/ \E r \in Revisions : Activate(r)
  \/ RecordLabel \/ Deactivate
  \/ \E m \in MissionNames : LoadMission(m)
  \/ Crash

StoreSpec == StoreInit /\ [][StoreNext]_storeVars

-----------------------------------------------------------------------------
(* Properties *)

\* What is published stays as it was published until it is removed: not even two writers whose
\* lock files lie in different directories of the same name replace a bundle, a route or a mission
\* (publish "refuses to overwrite", "no-replace commit").
NothingRewritten ==
  [][/\ \A r \in Revisions : bundle[r] # 0 => bundle'[r] \in {0, bundle[r]}
     /\ \A n \in Routes : route[n] # NoRoute => route'[n] \in {NoRoute, route[n]}
     /\ \A m \in MissionNames : missions[m] # NoMission => missions'[m] \in {NoMission, missions[m]}
    ]_storeVars

\* A removal leaves nothing pointing at something that is gone, as long as no request was served
\* meanwhile and the server did not die in it: routes have the bundle they were drawn on, missions
\* their bundle and their route, byte for byte.
RemovalIsClosed ==
  disturbed \/ (\E w \in Workers : Moving(w))
  \/ /\ \A n \in Drawn : bundle[route[n].on] = route[n].of
     /\ \A m \in Made : /\ bundle[missions[m].rev] = missions[m].of
                        /\ route[missions[m].num].id = missions[m].id

\* Whatever was removed, and whatever number was given out again: a loaded mission drives the very
\* route it was made of, drawn on the very bundle that the vehicle is localized on, and corrects its
\* pose by floor labels of that bundle only.
RunsWhatWasMade ==
  loaded # NotLoaded =>
    /\ loaded.route.id = loaded.mission.id
    /\ loaded.map = active.of
    /\ loaded.route.of = active.of
    /\ loaded.mission.lab # 0 => loaded.labels.of = active.of

\* What is named exists and is what was meant, on disk and in the node that drives it.
NamesAreTrue == RemovalIsClosed /\ RunsWhatWasMade
=============================================================================
