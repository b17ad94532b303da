---------------------------- MODULE MapsProofs ------------------------------
(***************************************************************************)
(* The map store, the labels on the floor and the readiness of the         *)
(* localization. The store: what is on disk is complete while nothing is   *)
(* removed, and during a removal it is complete but for what the plan      *)
(* still has to move away; the plan is made of what names what, so nothing *)
(* that stays names anything that goes. The labels: a reading that is used *)
(* is of the place where the vehicle has stood for as long as readings are *)
(* kept. Readiness: the clocks of the monitor are never behind the         *)
(* feedback of the drives.                                                 *)
(***************************************************************************)
EXTENDS MapStore, FloorLabels, LocalizationReadiness, SequenceTheorems, FiniteSetTheorems, TLAPS

\* What is in two sequences joined.
LEMMA ItemsOfConcat ==
    ASSUME NEW S, NEW s \in Seq(S), NEW t \in Seq(S)
    PROVE  s \o t \in Seq(S) /\ ToSet(s \o t) = ToSet(s) \cup ToSet(t)
<1> DEFINE m == Len(s)
           n == Len(t)
           u == s \o t
<1>1. /\ u \in Seq(S) /\ Len(u) = m + n
      /\ \A i \in 1..(m + n) : u[i] = IF i <= m THEN s[i] ELSE t[i - m]
  BY ConcatProperties
<1>2. /\ m \in Nat /\ n \in Nat
      /\ DOMAIN s = 1..m /\ DOMAIN t = 1..n /\ DOMAIN u = 1..(m + n)
  BY <1>1, LenProperties
<1> HIDE DEF m, n, u
<1>3. ToSet(u) \subseteq ToSet(s) \cup ToSet(t)
  <2>1. ASSUME NEW i \in 1..(m + n) PROVE u[i] \in ToSet(s) \cup ToSet(t)
    <3>1. CASE i <= m
      <4>1. i \in DOMAIN s /\ u[i] = s[i]
        BY <1>1, <1>2, <3>1
      <4> QED
        BY <4>1 DEF ToSet
    <3>2. CASE ~(i <= m)
      <4>1. i - m \in DOMAIN t /\ u[i] = t[i - m]
        BY <1>1, <1>2, <3>2
      <4> QED
        BY <4>1 DEF ToSet
    <3> QED
      BY <3>1, <3>2
  <2> QED
    BY <1>2, <2>1 DEF ToSet
<1>4. ToSet(s) \subseteq ToSet(u)
  <2>1. \A i \in 1..m : i \in 1..(m + n) /\ u[i] = s[i]
    BY <1>1, <1>2
  <2> QED
    BY <1>2, <2>1 DEF ToSet
<1>5. ToSet(t) \subseteq ToSet(u)
  <2>1. \A i \in 1..n : i + m \in 1..(m + n) /\ u[i + m] = t[i]
    BY <1>1, <1>2
  <2> QED
    BY <1>2, <2>1 DEF ToSet
<1> QED
  BY <1>1, <1>3, <1>4, <1>5 DEF u

\* What is in a sequence and not its head is in its tail.
LEMMA ItemsOfTail ==
    ASSUME NEW S, NEW s \in Seq(S), s # <<>>
    PROVE  /\ Tail(s) \in Seq(S) /\ Head(s) \in S
           /\ ToSet(s) = {Head(s)} \cup ToSet(Tail(s))
<1> DEFINE n == Len(s)
           u == Tail(s)
<1>1. /\ Head(s) \in S /\ u \in Seq(S) /\ Len(u) = n - 1
      /\ \A i \in 1 .. Len(u) : u[i] = s[i+1]
  BY HeadTailProperties
<1>2. /\ n \in Nat \ {0} /\ DOMAIN s = 1..n /\ DOMAIN u = 1..(n - 1)
      /\ Head(s) = s[1]
  BY <1>1, LenProperties, EmptySeq
<1> HIDE DEF n, u
<1>3. ASSUME NEW i \in 1..n PROVE s[i] \in {Head(s)} \cup ToSet(u)
  <2>1. CASE i = 1
    BY <1>2, <2>1
  <2>2. CASE i # 1
    <3>1. i - 1 \in 1..(n - 1) /\ u[i - 1] = s[i]
      BY <1>1, <1>2, <2>2
    <3> QED
      BY <1>2, <3>1 DEF ToSet
  <2> QED
    BY <2>1, <2>2
<1>4. ToSet(u) \subseteq ToSet(s)
  <2>1. \A i \in 1..(n - 1) : i + 1 \in 1..n /\ u[i] = s[i + 1]
    BY <1>1, <1>2
  <2> QED
    BY <1>2, <2>1 DEF ToSet
<1>5. Head(s) \in ToSet(s)
  <2>1. 1 \in DOMAIN s
    BY <1>2
  <2> QED
    BY <1>2, <2>1 DEF ToSet
<1>6. ToSet(s) \subseteq {Head(s)} \cup ToSet(u)
  BY <1>2, <1>3 DEF ToSet
<1> QED
  BY <1>1, <1>4, <1>5, <1>6 DEF u

\* A finite set as a sequence.
LEMMA ItemsOfSet ==
    ASSUME NEW S, IsFiniteSet(S)
    PROVE  SetToSeq(S) \in Seq(S) /\ ToSet(SetToSeq(S)) = S
<1> DEFINE n == Cardinality(S)
           f == SetToSeq(S)
<1>1. n \in Nat /\ ExistsBijection(1..n, S)
  BY FS_CardinalityType
<1>2. PICK g : g \in Bijection(1..n, S)
  BY <1>1 DEF ExistsBijection
<1>3. g \in [1..n -> S] /\ IsInjective(g)
  BY <1>2 DEF Bijection, Injection, IsInjective
<1>4. f \in [1..n -> S] /\ IsInjective(f)
  BY <1>3 DEF SetToSeq
<1>5. f \in Injection(1..n, S)
  BY <1>4 DEF Injection, IsInjective
<1>6. IsFiniteSet(1..n) /\ Cardinality(1..n) = n
  <2>1. 1 \in Int /\ n \in Int /\ (IF 1 > n THEN 0 ELSE n - 1 + 1) = n
    BY <1>1
  <2> HIDE DEF n
  <2> QED
    BY <2>1, FS_Interval
<1> HIDE DEF n
<1>7. f \in Surjection(1..n, S)
  BY <1>5, <1>6, FS_Injection DEF n
<1>8. f \in Seq(S)
  BY <1>1, <1>4
<1> HIDE DEF f
<1>9. DOMAIN f = 1..n
  BY <1>4
<1>10. ToSet(f) = S
  BY <1>4, <1>7, <1>9 DEF ToSet, Surjection
<1> QED
  BY <1>8, <1>10 DEF f

\* Nothing is in the empty sequence.
LEMMA NoItems == ToSet(<<>>) = {}
  BY DEF ToSet

Stamps == Nat \ {0}
RoutesOnDisk == [on : Revisions, of : Stamps, id : Stamps]

\* References of a mission, on disk or about to be written.
RefersTo(r) ==
    /\ r.rev \in Revisions /\ r.of \in Stamps /\ r.num \in Routes /\ r.id \in Stamps

\* Items of a removal's plan.
Items ==
    {Item("map", 0), Item("routes", 0)} \cup {Item("rev", r) : r \in Revisions}
    \cup {Item("route", n) : n \in Routes} \cup {Item("mission", m) : m \in MissionNames}

\* What a thread may be in the middle of.
Looking(t) ==
    t \in [at : {"read", "checked"}, num : {0} \cup Routes, rev : Revisions, of : Stamps]
WritesRoute(t) ==
    /\ t.at \in {"opened", "staged"} /\ t.kind = "route"
    /\ t.at = "opened" => t.on \in Revisions /\ t.of \in Stamps
    /\ t.at = "staged" => t.route \in RoutesOnDisk
WritesBundle(t) ==
    /\ t.at \in {"opened", "staged"} /\ t.kind = "bundle"
    /\ t.at = "staged" => t.stamp \in Stamps
WritesMission(t) == t.at = "valid" /\ RefersTo(t.refs)
Removing(t) == t \in [at : {"moving"}, left : Seq(Items), revs : SUBSET Revisions]

TaskOK(t) ==
    t = Idle \/ Looking(t) \/ WritesRoute(t) \/ WritesBundle(t) \/ WritesMission(t) \/ Removing(t)

TasksOK == DOMAIN task = Workers /\ \A w \in Workers : TaskOK(task[w])

DiskTypes ==
    /\ bundle \in [Revisions -> Nat] /\ cache \in [Revisions -> Nat]
    /\ route \in [Routes -> RoutesOnDisk \cup {NoRoute}]
    /\ DOMAIN missions = MissionNames
    /\ \A m \in MissionNames : missions[m] = NoMission \/ RefersTo(missions[m])

StoreTypes == made \in Stamps /\ disturbed \in BOOLEAN /\ DiskTypes /\ TasksOK

-----------------------------------------------------------------------------
\* The bounds of the store, as they are assumed.
LEMMA StoreBounds ==
    /\ MaxRevision \in Nat /\ MaxRoute \in Nat /\ IsFiniteSet(MissionNames)
    /\ Revisions \subseteq Stamps /\ Routes \subseteq Stamps /\ IsFiniteSet(Routes)
<1>1. MaxRevision \in Nat /\ MaxRoute \in Nat /\ IsFiniteSet(MissionNames)
  BY StoreAssumption
<1>2. IsFiniteSet(Routes)
  <2>1. 1 \in Int /\ MaxRoute \in Int
    BY <1>1
  <2> QED
    BY <2>1, FS_Interval DEF Routes
<1> QED
  BY <1>1, <1>2 DEF Revisions, Routes, Stamps

\* Items of one kind as a sequence.
LEMMA ItemsOfKind ==
    ASSUME NEW what, NEW S, IsFiniteSet(S), \A x \in S : Item(what, x) \in Items
    PROVE  LET T == {Item(what, x) : x \in S} IN SetToSeq(T) \in Seq(Items) /\ ToSet(SetToSeq(T)) = T
<1> DEFINE T == {Item(what, x) : x \in S}
           f == [x \in S |-> Item(what, x)]
<1>1. f \in Surjection(S, T)
  BY DEF Surjection
<1>2. IsFiniteSet(T)
  <2> HIDE DEF T, f
  <2> QED
    BY <1>1, FS_Surjection
<1>3. T \subseteq Items
  OBVIOUS
<1> HIDE DEF T
<1>4. SetToSeq(T) \in Seq(T) /\ ToSet(SetToSeq(T)) = T
  BY <1>2, ItemsOfSet
<1>5. SetToSeq(T) \in Seq(Items)
  BY <1>3, <1>4, SeqMonotonic
<1> QED
  BY <1>4, <1>5 DEF T

\* The items of missions, in a plan.
LEMMA MissionPlan ==
    ASSUME NEW ms \in SUBSET MissionNames
    PROVE  /\ MissionItems(ms) \in Seq(Items)
           /\ ToSet(MissionItems(ms)) = {Item("mission", m) : m \in ms}
<1>1. IsFiniteSet(ms)
  BY StoreBounds, FS_Subset
<1>2. \A m \in ms : Item("mission", m) \in Items
  BY DEF Items
<1> QED
  BY <1>1, <1>2, ItemsOfKind DEF MissionItems

\* The items of routes: all of them at once, or each.
LEMMA RemovedRoutes ==
    ASSUME NEW ns \in SUBSET Drawn
    PROVE  /\ RouteItems(ns) \in Seq(Items)
           /\ \A n \in ns : \/ Item("routes", 0) \in ToSet(RouteItems(ns))
                            \/ Item("route", n) \in ToSet(RouteItems(ns))
           /\ \A x \in ToSet(RouteItems(ns)) :
                  \/ x = Item("routes", 0) /\ ns = Drawn
                  \/ \E n \in ns : x = Item("route", n)
<1>1. CASE ns = {}
  <2>1. RouteItems(ns) = <<>> /\ <<>> \in Seq(Items)
    BY <1>1, EmptySeq DEF RouteItems
  <2> QED
    BY <1>1, <2>1, NoItems
<1>2. CASE ns # {} /\ ns = Drawn
  <2> DEFINE x == Item("routes", 0)
  <2>1. RouteItems(ns) = <<x>>
    BY <1>2 DEF RouteItems
  <2>2. x \in Items
    BY DEF Items
  <2> HIDE DEF x
  <2>3. <<x>> \in Seq(Items) /\ ToSet(<<x>>) = {x}
    BY <2>2 DEF ToSet
  <2> QED
    BY <1>2, <2>1, <2>3 DEF x
<1>3. CASE ns # {} /\ ns # Drawn
  <2>1. ns \in SUBSET Routes /\ IsFiniteSet(ns) /\ \A n \in ns : Item("route", n) \in Items
    BY StoreBounds, FS_Subset DEF Drawn, Items
  <2> DEFINE T == {Item("route", n) : n \in ns}
  <2>2. RouteItems(ns) = SetToSeq(T)
    BY <1>3 DEF RouteItems
  <2>3. SetToSeq(T) \in Seq(Items) /\ ToSet(SetToSeq(T)) = T
    BY <2>1, ItemsOfKind
  <2> QED
    BY <2>2, <2>3
<1> QED
  BY <1>1, <1>2, <1>3

\* A plan of one item.
LEMMA SingleItem ==
    ASSUME NEW x \in Items
    PROVE  <<x>> \in Seq(Items) /\ ToSet(<<x>>) = {x}
  BY DEF ToSet

\* The map goes with every mission when this is its only revision.
LEMMA LastMapPlan ==
    ASSUME DiskTypes, NEW r \in Revisions, Bundles = {r}
    PROVE  /\ PlanMap(r) \in Seq(Items)
           /\ ToSet(PlanMap(r)) = {Item("map", 0)} \cup {Item("mission", m) : m \in Made}
<1> DEFINE x == Item("map", 0)
           M == MissionItems(Made)
<1>1. PlanMap(r) = <<x>> \o M
  BY DEF PlanMap
<1>2. x \in Items
  BY DEF Items
<1>3. M \in Seq(Items) /\ ToSet(M) = {Item("mission", m) : m \in Made}
  BY MissionPlan DEF Made
<1> HIDE DEF x, M
<1>4. <<x>> \in Seq(Items) /\ ToSet(<<x>>) = {x}
  BY <1>2, SingleItem
<1>5. <<x>> \o M \in Seq(Items) /\ ToSet(<<x>> \o M) = ToSet(<<x>>) \cup ToSet(M)
  BY <1>3, <1>4, ItemsOfConcat
<1> QED
  BY <1>1, <1>3, <1>4, <1>5 DEF x

\* The plan of one revision among others.
LEMMA MapPlan ==
    ASSUME DiskTypes, NEW r \in Revisions, Bundles # {r}
    PROVE  LET drawn == {n \in Drawn : route[n].on = r} IN
           /\ PlanMap(r) \in Seq(Items)
           /\ ToSet(PlanMap(r)) =
                {Item("rev", r)} \cup ToSet(RouteItems(drawn))
                \cup {Item("mission", m) : m \in Using({r}, drawn)}
<1> DEFINE drawn == {n \in Drawn : route[n].on = r}
           x == Item("rev", r)
           R == RouteItems(drawn)
           M == MissionItems(Using({r}, drawn))
<1>1. PlanMap(r) = <<x>> \o R \o M
  BY DEF PlanMap
<1>2. x \in Items
  BY DEF Items
<1>3. M \in Seq(Items) /\ ToSet(M) = {Item("mission", m) : m \in Using({r}, drawn)}
  BY MissionPlan DEF Made, Using
<1>4. R \in Seq(Items)
  BY RemovedRoutes
<1> HIDE DEF x, R, M
<1> DEFINE s == <<x>>
           u == s \o R
<1>5. s \in Seq(Items) /\ ToSet(s) = {x}
  BY <1>2, SingleItem
<1> HIDE DEF s
<1>6. u \in Seq(Items) /\ ToSet(u) = ToSet(s) \cup ToSet(R)
  BY <1>4, <1>5, ItemsOfConcat
<1>7. PlanMap(r) = u \o M
  BY <1>1 DEF s
<1> HIDE DEF u
<1>8. u \o M \in Seq(Items) /\ ToSet(u \o M) = ToSet(u) \cup ToSet(M)
  <2>1. u \in Seq(Items) /\ M \in Seq(Items)
    BY <1>3, <1>6
  <2> QED
    BY <2>1, ItemsOfConcat, Zenon
<1> QED
  BY <1>3, <1>5, <1>6, <1>7, <1>8 DEF x, R

\* The plan of routes.
LEMMA RoutesPlan ==
    ASSUME DiskTypes, NEW ns \in SUBSET Drawn
    PROVE  /\ PlanRoutes(ns) \in Seq(Items)
           /\ ToSet(PlanRoutes(ns)) =
                ToSet(RouteItems(ns)) \cup {Item("mission", m) : m \in Using({}, ns)}
<1> DEFINE R == RouteItems(ns)
           M == MissionItems(Using({}, ns))
<1>1. PlanRoutes(ns) = R \o M
  BY DEF PlanRoutes
<1>3. M \in Seq(Items) /\ ToSet(M) = {Item("mission", m) : m \in Using({}, ns)}
  BY MissionPlan DEF Made, Using
<1>4. R \in Seq(Items)
  BY RemovedRoutes
<1> HIDE DEF R, M
<1>5. R \o M \in Seq(Items) /\ ToSet(R \o M) = ToSet(R) \cup ToSet(M)
  BY <1>3, <1>4, ItemsOfConcat
<1> QED
  BY <1>1, <1>3, <1>5 DEF R

\* One thread turns to something it may be in the middle of.
LEMMA TurnOK ==
    ASSUME TasksOK, NEW w \in Workers, NEW t, TaskOK(t), Turn(w, t)
    PROVE  TasksOK'
  BY DEF TasksOK, Turn

\* What a thread is in the middle of when it is at some point of its work.
LEMMA AtWork ==
    ASSUME NEW t, TaskOK(t)
    PROVE  /\ t.at \in {"read", "checked"} => Looking(t)
           /\ t.at \in {"opened", "staged"} => WritesRoute(t) \/ WritesBundle(t)
           /\ t.at = "valid" => WritesMission(t)
           /\ t.at = "moving" => Removing(t)
  BY DEF TaskOK, Idle, Looking, WritesRoute, WritesBundle, WritesMission, Removing

\* A thread may be idle.
LEMMA IdleOK == TaskOK(Idle)
  BY DEF TaskOK

\* Taking a request sets disturbed or leaves it.
LEMMA FewDisturb ==
    ASSUME disturbed \in BOOLEAN, NEW w \in Workers
    PROVE  /\ Starts(w) => disturbed' \in BOOLEAN
           /\ \A plan, revs : Removes(w, plan, revs) => disturbed' \in BOOLEAN
  BY DEF Starts, Removes

\* The steps of a bundle keep the types.
LEMMA BundleTypes ==
    ASSUME StoreTypes, NEW w \in Workers,
           \/ SaveSurvey(w) \/ \E r \in Revisions : Edit(w, r)
           \/ AllocateMap(w) \/ Publish(w) \/ Fail(w)
    PROVE  StoreTypes'
<1> USE DEF StoreTypes
<1>1. ASSUME NEW from, OpenMap(w, from) PROVE StoreTypes'
  <2> DEFINE t == [at |-> "opened", kind |-> "bundle", dir |-> dirs.map, from |-> from]
  <2>1. TaskOK(t)
    BY DEF TaskOK, WritesBundle
  <2>2. Turn(w, t) /\ Starts(w) /\ UNCHANGED <<bundle, route, missions, cache, made>>
    BY <1>1 DEF OpenMap
  <2> HIDE DEF t
  <2>3. TasksOK'
    BY <2>1, <2>2, TurnOK
  <2> QED
    BY <2>2, <2>3, FewDisturb DEF DiskTypes
<1>2. CASE AllocateMap(w)
  <2>1. CASE Turn(w, Idle) /\ UNCHANGED made
    <3>1. TasksOK'
      BY <2>1, IdleOK, TurnOK
    <3> QED
      BY <1>2, <2>1, <3>1 DEF AllocateMap, DiskTypes
  <2>2. CASE ~(Turn(w, Idle) /\ UNCHANGED made)
    <3> DEFINE t == [at |-> "staged", kind |-> "bundle", dir |-> task[w].dir, in |-> dirs.map,
                     num |-> NextOf(Bundles), stamp |-> made']
    <3>1. Turn(w, t) /\ made' = made + 1
      BY <1>2, <2>2 DEF AllocateMap
    <3>2. made' \in Stamps
      BY <3>1 DEF Stamps
    <3>3. TaskOK(t)
      BY <3>2 DEF TaskOK, WritesBundle
    <3> HIDE DEF t
    <3>4. TasksOK'
      BY <3>1, <3>3, TurnOK
    <3> QED
      BY <1>2, <3>2, <3>4 DEF AllocateMap, DiskTypes
  <2> QED
    BY <2>1, <2>2
<1>3. CASE Publish(w)
  <2>1. Turn(w, Idle) /\ UNCHANGED <<route, missions, cache, made, disturbed>>
    BY <1>3 DEF Publish
  <2>2. TasksOK'
    BY <2>1, IdleOK, TurnOK
  <2>3. WritesBundle(task[w]) /\ task[w].stamp \in Nat
    BY <1>3, AtWork DEF Publish, Staged, TasksOK, WritesRoute, WritesBundle, Stamps
  <2>4. bundle' \in [Revisions -> Nat]
    BY <1>3, <2>3 DEF Publish, DiskTypes
  <2> QED
    BY <2>1, <2>2, <2>4 DEF DiskTypes
<1>4. CASE Fail(w)
  <2>1. Turn(w, Idle) /\ UNCHANGED <<bundle, route, missions, cache, made, disturbed>>
    BY <1>4 DEF Fail
  <2>2. TasksOK'
    BY <2>1, IdleOK, TurnOK
  <2> QED
    BY <2>1, <2>2 DEF DiskTypes
<1> QED
  BY <1>1, <1>2, <1>3, <1>4 DEF SaveSurvey, Edit

\* So do those that look at a grid and remember it.
LEMMA LookTypes ==
    ASSUME StoreTypes, NEW w \in Workers,
           \/ \E r \in Revisions, n \in {0} \cup Drawn : Look(w, r, n)
           \/ Remember(w)
    PROVE  StoreTypes'
<1> USE DEF StoreTypes
<1>1. ASSUME NEW r \in Revisions, NEW n \in {0} \cup Drawn, Look(w, r, n) PROVE StoreTypes'
  <2> DEFINE at == IF cache[r] # 0 THEN "checked" ELSE "read"
             of == IF cache[r] # 0 THEN cache[r] ELSE bundle[r]
             t == [at |-> at, num |-> n, rev |-> r, of |-> of]
  <2>1. Turn(w, t) /\ Starts(w) /\ UNCHANGED <<bundle, route, missions, cache, made>>
    BY <1>1 DEF Look
  <2>2. of \in Stamps
    BY <1>1 DEF Look, Verified, DiskTypes, Stamps
  <2>3. at \in {"read", "checked"} /\ n \in {0} \cup Routes
    BY DEF Drawn
  <2> HIDE DEF at, of
  <2>4. TaskOK(t)
    BY <2>2, <2>3 DEF TaskOK, Looking
  <2> HIDE DEF t
  <2>5. TasksOK'
    BY <2>1, <2>4, TurnOK
  <2> QED
    BY <2>1, <2>5, FewDisturb DEF DiskTypes
<1>2. CASE Remember(w)
  <2> DEFINE t == [task[w] EXCEPT !.at = "checked"]
  <2>1. /\ Turn(w, t) /\ task[w].at = "read" /\ UNCHANGED <<bundle, route, missions, made, disturbed>>
        /\ cache' = [cache EXCEPT ![task[w].rev] = task[w].of]
    BY <1>2 DEF Remember
  <2>2. Looking(task[w])
    BY <2>1, AtWork DEF TasksOK
  <2>3. TaskOK(t)
    BY <2>2 DEF TaskOK, Looking
  <2>4. cache' \in [Revisions -> Nat]
    BY <2>1, <2>2 DEF DiskTypes, Looking, Stamps
  <2> HIDE DEF t
  <2>5. TasksOK'
    BY <2>1, <2>3, TurnOK
  <2> QED
    BY <2>1, <2>4, <2>5 DEF DiskTypes
<1> QED
  BY <1>1, <1>2

\* So do those of a route.
LEMMA RouteTypes ==
    ASSUME StoreTypes, NEW w \in Workers, OpenRoute(w) \/ AllocateRoute(w) \/ LinkRoute(w)
    PROVE  StoreTypes'
<1> USE DEF StoreTypes
<1>1. CASE OpenRoute(w)
  <2> DEFINE t == [at |-> "opened", kind |-> "route", dir |-> dirs.route,
                   on |-> task[w].rev, of |-> task[w].of]
  <2>1. Turn(w, t) /\ task[w].at = "checked"
        /\ UNCHANGED <<bundle, route, missions, cache, made, disturbed>>
    BY <1>1 DEF OpenRoute
  <2>2. task[w].rev \in Revisions /\ task[w].of \in Stamps
    BY <2>1, AtWork DEF TasksOK, Looking
  <2>3. TaskOK(t)
    BY <2>2 DEF TaskOK, WritesRoute
  <2> HIDE DEF t
  <2>4. TasksOK'
    BY <2>1, <2>3, TurnOK
  <2> QED
    BY <2>1, <2>4 DEF DiskTypes
<1>2. CASE AllocateRoute(w)
  <2> DEFINE q == [on |-> task[w].on, of |-> task[w].of, id |-> made']
             t == [at |-> "staged", kind |-> "route", dir |-> task[w].dir, num |-> NextOf(Drawn),
                   route |-> q]
  <2>1. /\ Turn(w, t) /\ task[w].at = "opened" /\ task[w].kind = "route" /\ made' = made + 1
        /\ UNCHANGED <<bundle, route, missions, cache, disturbed>>
    BY <1>2 DEF AllocateRoute, Locks
  <2>2. WritesRoute(task[w])
    BY <2>1, AtWork DEF TasksOK, WritesRoute, WritesBundle
  <2>3. made' \in Stamps
    BY <2>1 DEF Stamps
  <2>4. q \in RoutesOnDisk
    BY <2>1, <2>2, <2>3 DEF WritesRoute, RoutesOnDisk
  <2> HIDE DEF q
  <2>5. TaskOK(t)
    BY <2>4 DEF TaskOK, WritesRoute
  <2> HIDE DEF t
  <2>6. TasksOK'
    BY <2>1, <2>5, TurnOK
  <2> QED
    BY <2>1, <2>3, <2>6 DEF DiskTypes
<1>3. CASE LinkRoute(w)
  <2>1. /\ Turn(w, Idle) /\ task[w].at = "staged" /\ task[w].kind = "route"
        /\ UNCHANGED <<bundle, missions, cache, made, disturbed>>
    BY <1>3 DEF LinkRoute, Staged
  <2>2. TasksOK'
    BY <2>1, IdleOK, TurnOK
  <2>3. task[w].route \in RoutesOnDisk
    BY <2>1, AtWork DEF TasksOK, WritesRoute, WritesBundle
  <2>4. route' \in [Routes -> RoutesOnDisk \cup {NoRoute}]
    BY <1>3, <2>3 DEF LinkRoute, DiskTypes
  <2> QED
    BY <2>1, <2>2, <2>4 DEF DiskTypes
<1> QED
  BY <1>1, <1>2, <1>3

\* So do those of a mission.
LEMMA MissionTypes ==
    ASSUME StoreTypes, NEW w \in Workers,
           CheckMission(w) \/ \E m \in MissionNames : SaveMission(w, m)
    PROVE  StoreTypes'
<1> USE DEF StoreTypes
<1>1. CASE CheckMission(w)
  <2>1. /\ task[w].at = "checked" /\ task[w].num # 0
        /\ UNCHANGED <<bundle, route, missions, cache, made, disturbed>>
    BY <1>1 DEF CheckMission
  <2> DEFINE r == route[task[w].num]
             refs == [rev |-> task[w].rev, of |-> task[w].of, num |-> task[w].num,
                      id |-> r.id, lab |-> BoundLabels(task[w].rev, task[w].of)]
             t == IF Fits(r, task[w].rev, task[w].of) THEN [at |-> "valid", refs |-> refs] ELSE Idle
  <2>2. Turn(w, t)
    BY <1>1 DEF CheckMission
  <2>3. Looking(task[w])
    BY <2>1, AtWork DEF TasksOK
  <2>4. TaskOK(t)
    <3>1. CASE Fits(r, task[w].rev, task[w].of)
      <4>1. task[w].num \in Routes /\ r.on \in Revisions /\ task[w].rev \in Revisions /\ task[w].of \in Stamps
        BY <2>1, <2>3, <3>1 DEF Looking, Fits
      <4>2. r.id \in Stamps
        <5>1. r \in RoutesOnDisk \/ r = NoRoute
          BY <4>1 DEF DiskTypes
        <5>2. r # NoRoute
          BY <4>1, StoreBounds DEF NoRoute, Stamps
        <5> QED
          BY <5>1, <5>2 DEF RoutesOnDisk
      <4>3. RefersTo(refs)
        BY <4>1, <4>2 DEF RefersTo
      <4>4. t = [at |-> "valid", refs |-> refs]
        BY <3>1
      <4> HIDE DEF refs, t
      <4> QED
        BY <4>3, <4>4 DEF TaskOK, WritesMission
    <3>2. CASE ~Fits(r, task[w].rev, task[w].of)
      BY <3>2, IdleOK
    <3> QED
      BY <3>1, <3>2
  <2> HIDE DEF t
  <2>5. TasksOK'
    BY <2>2, <2>4, TurnOK
  <2> QED
    BY <2>1, <2>5 DEF DiskTypes
<1>2. ASSUME NEW m \in MissionNames, SaveMission(w, m) PROVE StoreTypes'
  <2>1. /\ Turn(w, Idle) /\ task[w].at = "valid"
        /\ UNCHANGED <<bundle, route, cache, made, disturbed>>
    BY <1>2 DEF SaveMission
  <2>2. TasksOK'
    BY <2>1, IdleOK, TurnOK
  <2>3. RefersTo(task[w].refs)
    BY <2>1, AtWork DEF TasksOK, WritesMission
  <2>4. /\ DOMAIN missions' = MissionNames
        /\ \A k \in MissionNames : missions'[k] = missions[k] \/ missions'[k] = task[w].refs
    BY <1>2 DEF SaveMission, DiskTypes
  <2>5. \A k \in MissionNames : missions'[k] = NoMission \/ RefersTo(missions'[k])
    BY <2>3, <2>4 DEF DiskTypes
  <2> QED
    BY <2>1, <2>2, <2>4, <2>5 DEF DiskTypes
<1> QED
  BY <1>1, <1>2

\* So do those of a removal.
LEMMA RemovalTypes ==
    ASSUME StoreTypes, NEW w \in Workers,
           \/ \E r \in Revisions : RemoveMap(w, r)
           \/ \E ns \in SUBSET Routes : RemoveRoutes(w, ns)
           \/ \E m \in MissionNames : RemoveMission(w, m)
           \/ Move(w) \/ Forget(w)
    PROVE  StoreTypes'
<1> USE DEF StoreTypes
<1>1. ASSUME NEW plan \in Seq(Items), NEW revs \in SUBSET Revisions, Removes(w, plan, revs)
      PROVE  StoreTypes'
  <2> DEFINE t == [at |-> "moving", left |-> plan, revs |-> revs]
  <2>1. Turn(w, t) /\ UNCHANGED <<bundle, route, missions, cache, made>>
    BY <1>1 DEF Removes
  <2>2. TaskOK(t)
    BY DEF TaskOK, Removing
  <2> HIDE DEF t
  <2>3. TasksOK'
    BY <2>1, <2>2, TurnOK
  <2>4. disturbed' \in BOOLEAN
    BY <1>1, FewDisturb
  <2> QED
    BY <2>1, <2>3, <2>4 DEF DiskTypes
<1>2. ASSUME NEW r \in Revisions, RemoveMap(w, r) PROVE StoreTypes'
  <2>1. PlanMap(r) \in Seq(Items)
    BY LastMapPlan, MapPlan
  <2> QED
    BY <1>1, <1>2, <2>1 DEF RemoveMap
<1>3. ASSUME NEW ns \in SUBSET Routes, RemoveRoutes(w, ns) PROVE StoreTypes'
  <2>1. ns \in SUBSET Drawn
    BY <1>3 DEF RemoveRoutes
  <2>2. PlanRoutes(ns) \in Seq(Items)
    BY <2>1, RoutesPlan
  <2> QED
    BY <1>1, <1>3, <2>2 DEF RemoveRoutes
<1>4. ASSUME NEW m \in MissionNames, RemoveMission(w, m) PROVE StoreTypes'
  <2>1. MissionItems({m}) \in Seq(Items)
    BY MissionPlan
  <2> QED
    BY <1>1, <1>4, <2>1 DEF RemoveMission
<1>5. CASE Move(w)
  <2> DEFINE t == [task[w] EXCEPT !.left = Tail(@)]
  <2>1. /\ Turn(w, t) /\ task[w].at = "moving" /\ task[w].left # <<>>
        /\ UNCHANGED <<cache, made, disturbed>>
    BY <1>5 DEF Move, Moving
  <2>2. Removing(task[w])
    BY <2>1, AtWork DEF TasksOK
  <2>3. Tail(task[w].left) \in Seq(Items)
    BY <2>1, <2>2, ItemsOfTail DEF Removing
  <2>4. TaskOK(t)
    BY <2>2, <2>3 DEF TaskOK, Removing
  <2> HIDE DEF t
  <2>5. TasksOK'
    BY <2>1, <2>4, TurnOK
  <2> DEFINE item == Head(task[w].left)
             all == item.what \in {"map", "routes"}
  <2>6. /\ bundle' = [r \in Revisions |->
             IF item.what = "map" \/ (item.what = "rev" /\ item.n = r) THEN 0 ELSE bundle[r]]
        /\ route' = [n \in Routes |->
             IF all \/ (item.what = "route" /\ item.n = n) THEN NoRoute ELSE route[n]]
        /\ missions' = [m \in MissionNames |->
             IF item.what = "mission" /\ item.n = m THEN NoMission ELSE missions[m]]
    BY <1>5 DEF Move
  <2> HIDE DEF item
  <2>7. bundle' \in [Revisions -> Nat]
    BY <2>6 DEF DiskTypes
  <2>8. route' \in [Routes -> RoutesOnDisk \cup {NoRoute}]
    BY <2>6 DEF DiskTypes
  <2>9. DOMAIN missions' = MissionNames
        /\ \A m \in MissionNames : missions'[m] = NoMission \/ RefersTo(missions'[m])
    BY <2>6 DEF DiskTypes
  <2> QED
    BY <2>1, <2>5, <2>7, <2>8, <2>9 DEF DiskTypes
<1>6. CASE Forget(w)
  <2>1. /\ Turn(w, Idle) /\ UNCHANGED <<bundle, route, missions, made, disturbed>>
        /\ cache' = [r \in Revisions |-> IF r \in task[w].revs THEN 0 ELSE cache[r]]
    BY <1>6 DEF Forget
  <2>2. TasksOK'
    BY <2>1, IdleOK, TurnOK
  <2>3. cache' \in [Revisions -> Nat]
    BY <2>1 DEF DiskTypes
  <2> QED
    BY <2>1, <2>2, <2>3 DEF DiskTypes
<1> QED
  BY <1>2, <1>3, <1>4, <1>5, <1>6

\* Every reachable state of the store has its types.
LEMMA StoreTypesHold == StoreSpec => []StoreTypes
<1>1. StoreInit => StoreTypes
  <2> SUFFICES ASSUME StoreInit PROVE StoreTypes
    OBVIOUS
  <2>1. TasksOK
    BY IdleOK DEF StoreInit, TasksOK
  <2>2. DiskTypes
    BY DEF StoreInit, DiskTypes
  <2>3. made \in Stamps
    BY DEF StoreInit, Stamps
  <2>4. disturbed \in BOOLEAN
    BY DEF StoreInit
  <2> QED
    BY <2>1, <2>2, <2>3, <2>4 DEF StoreTypes
<1>2. StoreTypes /\ [StoreNext]_storeVars => StoreTypes'
  <2> SUFFICES ASSUME StoreTypes, [StoreNext]_storeVars PROVE StoreTypes'
    OBVIOUS
  <2>1. ASSUME NEW w \in Workers, Serve(w) PROVE StoreTypes'
    BY <2>1, BundleTypes, LookTypes, RouteTypes, MissionTypes, RemovalTypes DEF Serve
  <2>2. CASE UNCHANGED <<bundle, route, missions, cache, task, made, disturbed>>
    BY <2>2 DEF StoreTypes, DiskTypes, TasksOK
  <2>3. CASE Crash
    <3>1. TasksOK'
      BY <2>3, IdleOK DEF Crash, TasksOK
    <3>2. DiskTypes'
      BY <2>3 DEF Crash, StoreTypes, DiskTypes
    <3>3. disturbed' \in BOOLEAN
      BY <2>3 DEF Crash, StoreTypes
    <3> QED
      BY <2>3, <3>1, <3>2, <3>3 DEF Crash, StoreTypes
  <2> QED
    BY <2>1, <2>2, <2>3
    DEF StoreNext, storeVars, Activate, RecordLabel, Deactivate, LoadMission
<1> QED
  BY <1>1, <1>2, PTL DEF StoreSpec

-----------------------------------------------------------------------------
\* Whatever two writers and a removal do in whatever order, what is on disk stays as it was
\* published (publish, allocate, save_route, save_mission) or goes away (move_to_trash).
THEOREM PublishedStays == StoreSpec => NothingRewritten
<1> DEFINE Kept ==
      /\ \A r \in Revisions : bundle[r] # 0 => bundle'[r] \in {0, bundle[r]}
      /\ \A n \in Routes : route[n] # NoRoute => route'[n] \in {NoRoute, route[n]}
      /\ \A m \in MissionNames : missions[m] # NoMission => missions'[m] \in {NoMission, missions[m]}
<1>1. StoreTypes /\ StoreNext => Kept
  <2> SUFFICES ASSUME StoreTypes, StoreNext PROVE Kept
    OBVIOUS
  <2>1. ASSUME NEW w \in Workers, Publish(w) PROVE Kept
    BY <2>1 DEF Publish, StoreTypes, DiskTypes
  <2>2. ASSUME NEW w \in Workers, LinkRoute(w) PROVE Kept
    BY <2>2 DEF LinkRoute, StoreTypes, DiskTypes
  <2>3. ASSUME NEW w \in Workers, NEW m \in MissionNames, SaveMission(w, m) PROVE Kept
    BY <2>3 DEF SaveMission, StoreTypes, DiskTypes
  <2>4. ASSUME NEW w \in Workers, Move(w) PROVE Kept
    BY <2>4 DEF Move
  <2>5. CASE UNCHANGED <<bundle, route, missions>>
    BY <2>5
  <2>6. ASSUME NEW w \in Workers, Serve(w) PROVE Kept
    <3>1. CASE SaveSurvey(w) \/ \E r \in Revisions : Edit(w, r)
      BY <2>5, <3>1 DEF SaveSurvey, Edit, OpenMap
    <3>2. CASE AllocateMap(w) \/ Fail(w)
      BY <2>5, <3>2 DEF AllocateMap, Fail
    <3>3. CASE Remember(w) \/ \E r \in Revisions, n \in {0} \cup Drawn : Look(w, r, n)
      BY <2>5, <3>3 DEF Look, Remember
    <3>4. CASE OpenRoute(w) \/ AllocateRoute(w)
      BY <2>5, <3>4 DEF OpenRoute, AllocateRoute
    <3>5. CASE CheckMission(w) \/ Forget(w)
      BY <2>5, <3>5 DEF CheckMission, Forget
    <3>6. CASE \/ \E r \in Revisions : RemoveMap(w, r)
               \/ \E ns \in SUBSET Routes : RemoveRoutes(w, ns)
               \/ \E m \in MissionNames : RemoveMission(w, m)
      BY <2>5, <3>6 DEF RemoveMap, RemoveRoutes, RemoveMission, Removes
    <3> QED
      BY <2>1, <2>2, <2>3, <2>4, <2>6, <3>1, <3>2, <3>3, <3>4, <3>5, <3>6 DEF Serve
  <2> QED
    BY <2>5, <2>6 DEF StoreNext, Activate, RecordLabel, Deactivate, LoadMission, Crash
<1> QED
  BY <1>1, StoreTypesHold, PTL DEF StoreSpec, NothingRewritten

\* The executor holds a mission only of the layer that runs.
LoadedIsMade == (active = NoMap => loaded = NotLoaded) /\ RunsWhatWasMade

\* However often a map, a route or a mission of the same name and number was removed and made
\* again: what the executor has loaded is what the mission was made of, on the bundle that the
\* vehicle is localized on (load_mission).
THEOREM LoadedAsMade == StoreSpec => []RunsWhatWasMade
<1>1. StoreInit => LoadedIsMade
  BY DEF StoreInit, LoadedIsMade, RunsWhatWasMade
<1>2. StoreTypes /\ LoadedIsMade /\ [StoreNext]_storeVars => LoadedIsMade'
  <2> SUFFICES ASSUME StoreTypes, LoadedIsMade, [StoreNext]_storeVars PROVE LoadedIsMade'
    OBVIOUS
  <2>1. CASE UNCHANGED <<active, loaded>>
    BY <2>1 DEF LoadedIsMade, RunsWhatWasMade
  <2>2. ASSUME NEW w \in Workers, Serve(w) PROVE LoadedIsMade'
    BY <2>1, <2>2
    DEF Serve, SaveSurvey, Edit, OpenMap, AllocateMap, Publish, Fail, Look, Remember, OpenRoute,
        AllocateRoute, LinkRoute, CheckMission, SaveMission, RemoveMap, RemoveRoutes,
        RemoveMission, Removes, Move, Forget
  <2>3. ASSUME NEW r \in Revisions, Activate(r) PROVE LoadedIsMade'
    <3>1. loaded' = NotLoaded
      BY <2>3 DEF Activate, LoadedIsMade
    <3>2. active' # NoMap
      BY <2>3, StoreBounds DEF Activate, NoMap, Stamps
    <3> QED
      BY <3>1, <3>2 DEF LoadedIsMade, RunsWhatWasMade
  <2>4. CASE loaded' = NotLoaded
    BY <2>4 DEF LoadedIsMade, RunsWhatWasMade
  <2>5. ASSUME NEW m \in MissionNames, LoadMission(m) PROVE LoadedIsMade'
    <3> DEFINE r == missions[m]
    <3>1. m \in Made /\ Accepts(r) /\ active' = active
      BY <2>5 DEF LoadMission
    <3>2. RefersTo(r)
      BY <3>1 DEF StoreTypes, DiskTypes, Made
    <3>3. active # NoMap
      BY <3>1, <3>2, StoreBounds DEF Accepts, OfActiveMap, NoMap, RefersTo, Stamps
    <3>4. loaded' = [name |-> m, mission |-> r, map |-> bundle[r.rev], route |-> route[r.num],
                     labels |-> IF r.lab = 0 THEN NoLabels ELSE labels[r.lab]]
      BY <2>5 DEF LoadMission
    <3> HIDE DEF r
    <3>5. loaded'.mission = r /\ loaded'.map = bundle[r.rev] /\ loaded'.route = route[r.num]
          /\ (r.lab # 0 => loaded'.labels = labels[r.lab])
      BY <3>4
    <3>6. RunsWhatWasMade'
      BY <3>1, <3>5
      DEF RunsWhatWasMade, Accepts, OfActiveMap, RouteAsMade, Fits, LabelsAsMade
    <3> QED
      BY <3>1, <3>3, <3>6 DEF LoadedIsMade
  <2> QED
    BY <2>1, <2>2, <2>3, <2>4, <2>5 DEF StoreNext, storeVars, RecordLabel, Deactivate, Crash
<1>3. LoadedIsMade => RunsWhatWasMade
  BY DEF LoadedIsMade
<1> QED
  BY <1>1, <1>2, <1>3, StoreTypesHold, PTL DEF StoreSpec

\* What the removals under way (tk: the tasks of the threads) still have to move away, and the
\* revisions that they forget at their end.
Movers(tk) == {w \in Workers : tk[w].at = "moving"}
DoomedBy(tk) == UNION {ToSet(tk[w].left) : w \in Movers(tk)}
RevsBy(tk) == UNION {tk[w].revs : w \in Movers(tk)}
Doomed == DoomedBy(task)
DoomedRevs == RevsBy(task)
LosesMap(r) == Item("map", 0) \in Doomed \/ Item("rev", r) \in Doomed
LosesRoute(n) ==
    Item("map", 0) \in Doomed \/ Item("routes", 0) \in Doomed \/ Item("route", n) \in Doomed

\* A thread that removes is alone.
OneMover == \A v, w \in Workers : Moving(v) /\ v # w => task[w] = Idle

\* What a route, a mission or a thread names is there, and stays.
BundleIs(r, of) == bundle[r] = of /\ ~LosesMap(r)
RouteIs(n, id) == route[n].id = id /\ ~LosesRoute(n)
RoutesHaveBundles ==
    \A n \in Drawn : LosesRoute(n) \/ BundleIs(route[n].on, route[n].of)
MissionHas(r) == BundleIs(r.rev, r.of) /\ RouteIs(r.num, r.id)
MissionsHaveRoutes ==
    \A m \in Made : Item("mission", m) \in Doomed \/ MissionHas(missions[m])
TaskHas(t) ==
    /\ t.at \in {"read", "checked"} => bundle[t.rev] = t.of
    /\ t.at = "opened" /\ t.kind = "route" => bundle[t.on] = t.of
    /\ t.at = "staged" /\ t.kind = "route" => bundle[t.route.on] = t.route.of
    /\ t.at = "valid" => bundle[t.refs.rev] = t.refs.of /\ route[t.refs.num].id = t.refs.id
TasksHave == \A w \in Workers : TaskHas(task[w])
CacheIsTrue == \A r \in Revisions : cache[r] = 0 \/ cache[r] = bundle[r] \/ r \in DoomedRevs
RevsCover ==
    \A r \in Revisions : LosesMap(r) => bundle[r] = 0 \/ r \in DoomedRevs

Closed ==
    /\ OneMover /\ RoutesHaveBundles /\ MissionsHaveRoutes
    /\ TasksHave /\ CacheIsTrue /\ RevsCover

\* The same while nothing is removed.
NoMover == \A w \in Workers : ~Moving(w)
DiskWhole ==
    /\ \A n \in Drawn : bundle[route[n].on] = route[n].of
    /\ \A m \in Made : /\ bundle[missions[m].rev] = missions[m].of
                       /\ route[missions[m].num].id = missions[m].id
Tidy ==
    /\ NoMover /\ DiskWhole /\ TasksHave
    /\ \A r \in Revisions : cache[r] = 0 \/ cache[r] = bundle[r]

-----------------------------------------------------------------------------
\* Without a removal nothing is left to be moved.
LEMMA NothingDoomed ==
    ASSUME NEW tk, \A w \in Workers : tk[w].at # "moving"
    PROVE  DoomedBy(tk) = {} /\ RevsBy(tk) = {}
  BY DEF DoomedBy, RevsBy, Movers

\* With one, what it has left is all.
LEMMA DoomedByOne ==
    ASSUME NEW tk, NEW w \in Workers, tk[w].at = "moving",
           \A v \in Workers : v # w => tk[v].at # "moving"
    PROVE  DoomedBy(tk) = ToSet(tk[w].left) /\ RevsBy(tk) = tk[w].revs
<1>1. Movers(tk) = {w}
  BY DEF Movers
<1> QED
  BY <1>1 DEF DoomedBy, RevsBy

\* An idle thread names nothing.
LEMMA IdleHas == TaskHas(Idle) /\ Idle.at = "idle"
  BY DEF TaskHas, Idle

\* While nothing is removed, Closed and Tidy say the same.
LEMMA TidyIsClosed == (Tidy => Closed) /\ (Tidy' => Closed')
<1>1. ASSUME Tidy PROVE Closed
  <2>1. Doomed = {} /\ DoomedRevs = {}
    BY <1>1, NothingDoomed DEF Tidy, NoMover, Moving, Doomed, DoomedRevs
  <2> QED
    BY <1>1, <2>1
    DEF Tidy, DiskWhole, NoMover, Closed, OneMover, RoutesHaveBundles, MissionsHaveRoutes, MissionHas,
        BundleIs, RouteIs, LosesMap, LosesRoute, CacheIsTrue, RevsCover
<1>2. ASSUME Tidy' PROVE Closed'
  <2>1. Doomed' = {} /\ DoomedRevs' = {}
    BY <1>2, NothingDoomed DEF Tidy, NoMover, Moving, Doomed, DoomedRevs
  <2> QED
    BY <1>2, <2>1
    DEF Tidy, DiskWhole, NoMover, Closed, OneMover, RoutesHaveBundles, MissionsHaveRoutes, MissionHas,
        BundleIs, RouteIs, LosesMap, LosesRoute, CacheIsTrue, RevsCover
<1> QED
  BY <1>1, <1>2

\* The other way round.
LEMMA ClosedIsTidy == ASSUME NoMover, Closed PROVE Tidy
<1>1. Doomed = {} /\ DoomedRevs = {}
  BY NothingDoomed DEF NoMover, Moving, Doomed, DoomedRevs
<1> QED
  BY <1>1
  DEF Tidy, DiskWhole, NoMover, Closed, OneMover, RoutesHaveBundles, MissionsHaveRoutes, MissionHas,
      BundleIs, RouteIs, LosesMap, LosesRoute, CacheIsTrue, RevsCover

\* A thread that is at work on something else than a removal: nothing is removed.
LEMMA BusyAlone ==
    ASSUME OneMover, NEW w \in Workers, task[w].at # "idle", task[w].at # "moving"
    PROVE  NoMover
<1>1. ASSUME NEW v \in Workers, Moving(v) PROVE FALSE
  <2>1. v # w
    BY <1>1 DEF Moving
  <2>2. task[w] = Idle
    BY <1>1, <2>1 DEF OneMover
  <2> QED
    BY <2>2, IdleHas
<1> QED
  BY <1>1 DEF NoMover

\* A request that is taken while something is removed disturbs it.
LEMMA TakenAlone ==
    ASSUME NEW w \in Workers, Starts(w), disturbed \in BOOLEAN, disturbed' = FALSE
    PROVE  disturbed = FALSE /\ NoMover
  BY DEF Starts, NoMover

\* Nothing on disk changes.
LEMMA SameDisk ==
    ASSUME TasksOK, Tidy, UNCHANGED <<bundle, route, missions>>,
           NEW w \in Workers, NEW t, Turn(w, t), t.at # "moving", TaskHas(t)
    PROVE  NoMover' /\ DiskWhole' /\ TasksHave'
<1>1. NoMover'
  BY DEF NoMover, Moving, Turn, TasksOK, Tidy
<1>3. DiskWhole'
  BY DEF Tidy, DiskWhole, Drawn, Made
<1>4. ASSUME NEW v \in Workers PROVE TaskHas(task[v])'
  <2>1. CASE v = w
    <3>1. task'[v] = t
      BY <2>1 DEF Turn, TasksOK
    <3> QED
      BY <3>1 DEF TaskHas
  <2>2. CASE v # w
    <3>1. task'[v] = task[v] /\ TaskHas(task[v])
      BY <2>2 DEF Turn, TasksOK, Tidy, TasksHave
    <3> QED
      BY <3>1 DEF TaskHas
  <2> QED
    BY <2>1, <2>2
<1> QED
  BY <1>1, <1>3, <1>4 DEF TasksHave

\* A request that changes neither what is on disk nor the cache.
LEMMA TidyTurn ==
    ASSUME StoreTypes, Tidy, UNCHANGED <<bundle, route, missions, cache>>,
           NEW w \in Workers, NEW t, Turn(w, t), t.at # "moving", TaskHas(t)
    PROVE  Tidy'
<1>1. NoMover' /\ DiskWhole' /\ TasksHave'
  BY SameDisk DEF StoreTypes
<1>2. \A r \in Revisions : cache'[r] = 0 \/ cache'[r] = bundle'[r]
  BY DEF Tidy
<1> QED
  BY <1>1, <1>2 DEF Tidy

\* Requests that only look, or only stage, leave the store whole.
LEMMA TidyLooking ==
    ASSUME StoreTypes, Tidy, NEW w \in Workers,
           \/ SaveSurvey(w) \/ \E r \in Revisions : Edit(w, r)
           \/ AllocateMap(w) \/ Fail(w)
           \/ \E r \in Revisions, n \in {0} \cup Drawn : Look(w, r, n)
           \/ OpenRoute(w) \/ AllocateRoute(w) \/ CheckMission(w)
    PROVE  Tidy'
<1>1. TaskHas(task[w])
  BY DEF Tidy, TasksHave
<1>2. ASSUME NEW from, OpenMap(w, from) PROVE Tidy'
  <2> DEFINE t == [at |-> "opened", kind |-> "bundle", dir |-> dirs.map, from |-> from]
  <2>1. Turn(w, t) /\ UNCHANGED <<bundle, route, missions, cache>>
    BY <1>2 DEF OpenMap
  <2>2. t.at # "moving" /\ TaskHas(t)
    BY DEF TaskHas
  <2> HIDE DEF t
  <2> QED
    BY <2>1, <2>2, TidyTurn
<1>3. CASE AllocateMap(w)
  <2> DEFINE t == [at |-> "staged", kind |-> "bundle", dir |-> task[w].dir, in |-> dirs.map,
                   num |-> NextOf(Bundles), stamp |-> made']
  <2>1. (Turn(w, t) \/ Turn(w, Idle)) /\ UNCHANGED <<bundle, route, missions, cache>>
    BY <1>3 DEF AllocateMap
  <2>2. t.at # "moving" /\ TaskHas(t)
    BY DEF TaskHas
  <2> HIDE DEF t
  <2> QED
    BY <2>1, <2>2, TidyTurn, IdleHas
<1>4. CASE Fail(w)
  BY <1>4, TidyTurn, IdleHas DEF Fail
<1>5. ASSUME NEW r \in Revisions, NEW n \in {0} \cup Drawn, Look(w, r, n) PROVE Tidy'
  <2> DEFINE at == IF cache[r] # 0 THEN "checked" ELSE "read"
             of == IF cache[r] # 0 THEN cache[r] ELSE bundle[r]
             t == [at |-> at, num |-> n, rev |-> r, of |-> of]
  <2>1. Turn(w, t) /\ UNCHANGED <<bundle, route, missions, cache>>
    BY <1>5 DEF Look
  <2>2. of = bundle[r]
    BY DEF Tidy
  <2>3. at \in {"read", "checked"}
    OBVIOUS
  <2> HIDE DEF at, of
  <2>4. t.at # "moving" /\ TaskHas(t)
    BY <2>2, <2>3 DEF TaskHas
  <2> HIDE DEF t
  <2> QED
    BY <2>1, <2>4, TidyTurn
<1>6. CASE OpenRoute(w)
  <2> DEFINE t == [at |-> "opened", kind |-> "route", dir |-> dirs.route,
                   on |-> task[w].rev, of |-> task[w].of]
  <2>1. Turn(w, t) /\ task[w].at = "checked" /\ UNCHANGED <<bundle, route, missions, cache>>
    BY <1>6 DEF OpenRoute
  <2>2. t.at # "moving" /\ TaskHas(t)
    BY <1>1, <2>1 DEF TaskHas
  <2> HIDE DEF t
  <2> QED
    BY <2>1, <2>2, TidyTurn
<1>7. CASE AllocateRoute(w)
  <2> DEFINE q == [on |-> task[w].on, of |-> task[w].of, id |-> made']
             t == [at |-> "staged", kind |-> "route", dir |-> task[w].dir, num |-> NextOf(Drawn),
                   route |-> q]
  <2>1. /\ Turn(w, t) /\ task[w].at = "opened" /\ task[w].kind = "route"
        /\ UNCHANGED <<bundle, route, missions, cache>>
    BY <1>7 DEF AllocateRoute, Locks
  <2>2. q.on = task[w].on /\ q.of = task[w].of
    OBVIOUS
  <2> HIDE DEF q
  <2>3. t.at # "moving" /\ TaskHas(t)
    BY <1>1, <2>1, <2>2 DEF TaskHas
  <2> HIDE DEF t
  <2> QED
    BY <2>1, <2>3, TidyTurn
<1>8. CASE CheckMission(w)
  <2> DEFINE r == route[task[w].num]
             refs == [rev |-> task[w].rev, of |-> task[w].of, num |-> task[w].num,
                      id |-> r.id, lab |-> BoundLabels(task[w].rev, task[w].of)]
             t == [at |-> "valid", refs |-> refs]
  <2>1. /\ Turn(w, t) \/ Turn(w, Idle)
        /\ task[w].at = "checked" /\ UNCHANGED <<bundle, route, missions, cache>>
    BY <1>8 DEF CheckMission
  <2>2. /\ refs.rev = task[w].rev /\ refs.of = task[w].of
        /\ refs.num = task[w].num /\ refs.id = route[task[w].num].id
    OBVIOUS
  <2> HIDE DEF refs
  <2>3. t.at # "moving" /\ TaskHas(t)
    BY <1>1, <2>1, <2>2 DEF TaskHas
  <2> HIDE DEF t
  <2> QED
    BY <2>1, <2>3, TidyTurn, IdleHas
<1> QED
  BY <1>2, <1>3, <1>4, <1>5, <1>6, <1>7, <1>8 DEF SaveSurvey, Edit

\* A grid is remembered as it is.
LEMMA TidyRemember ==
    ASSUME StoreTypes, Tidy, NEW w \in Workers, Remember(w)
    PROVE  Tidy'
<1> DEFINE t == [task[w] EXCEPT !.at = "checked"]
<1>1. /\ Turn(w, t) /\ task[w].at = "read" /\ UNCHANGED <<bundle, route, missions>>
      /\ cache' = [cache EXCEPT ![task[w].rev] = task[w].of]
  BY DEF Remember
<1>2. Looking(task[w]) /\ TaskHas(task[w])
  BY <1>1, AtWork DEF StoreTypes, TasksOK, Tidy, TasksHave
<1>3. t.at # "moving" /\ TaskHas(t)
  BY <1>1, <1>2 DEF TaskHas, Looking
<1> HIDE DEF t
<1>4. NoMover' /\ DiskWhole' /\ TasksHave'
  BY <1>1, <1>3, SameDisk DEF StoreTypes
<1>5. bundle[task[w].rev] = task[w].of
  BY <1>1, <1>2 DEF TaskHas
<1>6. \A r \in Revisions : cache'[r] = 0 \/ cache'[r] = bundle'[r]
  BY <1>1, <1>5 DEF Tidy, StoreTypes, DiskTypes
<1> QED
  BY <1>4, <1>6 DEF Tidy

\* A bundle or a route is only put where there was none: what was named stays.
LEMMA OnlyAdded ==
    ASSUME StoreTypes, Tidy, NEW w \in Workers, Turn(w, Idle),
           \A r \in Revisions : bundle[r] # 0 => bundle'[r] = bundle[r],
           \A n \in Routes : route[n] # NoRoute => route'[n] = route[n],
           \A n \in Routes : route'[n] = route[n] \/ bundle[route'[n].on] = route'[n].of,
           \A n \in Routes : route'[n] = route[n] \/ route'[n] \in RoutesOnDisk,
           \A m \in MissionNames : \/ missions'[m] = missions[m]
                                   \/ /\ RefersTo(missions'[m])
                                      /\ bundle[missions'[m].rev] = missions'[m].of
                                      /\ route[missions'[m].num].id = missions'[m].id,
           UNCHANGED cache
    PROVE  Tidy'
<1>1. NoMover'
  BY IdleHas DEF NoMover, Moving, Turn, StoreTypes, TasksOK, Tidy
<1>2. \A r \in Revisions : \A of \in Stamps : bundle[r] = of => bundle'[r] = of
  BY DEF Stamps
<1>3. \A n \in Routes : \A id \in Stamps : route[n].id = id => route'[n].id = id
  BY DEF Stamps, NoRoute
<1>4. ASSUME NEW n \in Drawn' PROVE bundle'[route'[n].on] = route'[n].of
  <2>1. n \in Routes /\ route'[n] # NoRoute
    BY DEF Drawn
  <2>2. route'[n] \in RoutesOnDisk /\ bundle[route'[n].on] = route'[n].of
    <3>1. CASE route'[n] = route[n]
      BY <2>1, <3>1 DEF StoreTypes, DiskTypes, Tidy, DiskWhole, Drawn
    <3>2. CASE route'[n] # route[n]
      BY <2>1, <3>2
    <3> QED
      BY <3>1, <3>2
  <2>3. route'[n].on \in Revisions /\ route'[n].of \in Stamps
    BY <2>2 DEF RoutesOnDisk
  <2> QED
    BY <1>2, <2>2, <2>3
<1>5. ASSUME NEW m \in Made' PROVE /\ bundle'[missions'[m].rev] = missions'[m].of
                                   /\ route'[missions'[m].num].id = missions'[m].id
  <2> DEFINE r == missions'[m]
  <2>1. m \in MissionNames /\ r # NoMission
    BY DEF Made
  <2>2. RefersTo(r) /\ bundle[r.rev] = r.of /\ route[r.num].id = r.id
    <3>1. CASE r = missions[m]
      BY <2>1, <3>1 DEF StoreTypes, DiskTypes, Tidy, DiskWhole, Made
    <3>2. CASE r # missions[m]
      BY <2>1, <3>2
    <3> QED
      BY <3>1, <3>2
  <2> HIDE DEF r
  <2>3. bundle'[r.rev] = r.of /\ route'[r.num].id = r.id
    BY <1>2, <1>3, <2>2 DEF RefersTo
  <2> QED
    BY <2>3 DEF r
<1>6. ASSUME NEW v \in Workers PROVE TaskHas(task[v])'
  <2>1. CASE v = w
    <3>1. task'[v] = Idle
      BY <2>1 DEF Turn, StoreTypes, TasksOK
    <3> QED
      BY <3>1 DEF TaskHas, Idle
  <2>2. CASE v # w
    <3> DEFINE t == task[v]
    <3>1. task'[v] = t /\ TaskHas(t) /\ TaskOK(t)
      BY <2>2 DEF Turn, StoreTypes, TasksOK, Tidy, TasksHave
    <3> HIDE DEF t
    <3>2. t.at \in {"read", "checked"} => bundle'[t.rev] = t.of
      BY <1>2, <3>1, AtWork DEF TaskHas, Looking
    <3>3. t.at = "opened" /\ t.kind = "route" => bundle'[t.on] = t.of
      BY <1>2, <3>1, AtWork DEF TaskHas, WritesRoute, WritesBundle
    <3>4. t.at = "staged" /\ t.kind = "route" => bundle'[t.route.on] = t.route.of
      <4> SUFFICES ASSUME t.at = "staged", t.kind = "route" PROVE bundle'[t.route.on] = t.route.of
        OBVIOUS
      <4>1. t.route \in RoutesOnDisk
        BY <3>1, AtWork DEF WritesRoute, WritesBundle
      <4>2. t.route.on \in Revisions /\ t.route.of \in Stamps
        BY <4>1 DEF RoutesOnDisk
      <4> QED
        BY <1>2, <3>1, <4>2 DEF TaskHas
    <3>5. t.at = "valid" => bundle'[t.refs.rev] = t.refs.of /\ route'[t.refs.num].id = t.refs.id
      BY <1>2, <1>3, <3>1, AtWork DEF TaskHas, WritesMission, RefersTo
    <3> QED
      BY <3>1, <3>2, <3>3, <3>4, <3>5 DEF TaskHas
  <2> QED
    BY <2>1, <2>2
<1>7. \A r \in Revisions : cache'[r] = 0 \/ cache'[r] = bundle'[r]
  BY DEF Tidy, StoreTypes, DiskTypes
<1> QED
  BY <1>1, <1>4, <1>5, <1>6, <1>7 DEF Tidy, DiskWhole, TasksHave

\* What is published, linked or saved leaves the store whole.
LEMMA TidyWriting ==
    ASSUME StoreTypes, Tidy, NEW w \in Workers,
           Publish(w) \/ LinkRoute(w) \/ \E m \in MissionNames : SaveMission(w, m)
    PROVE  Tidy'
<1> USE DEF StoreTypes
<1>1. CASE Publish(w)
  <2>1. Turn(w, Idle) /\ UNCHANGED <<route, missions, cache>>
    BY <1>1 DEF Publish
  <2>2. \A r \in Revisions : bundle[r] # 0 => bundle'[r] = bundle[r]
    BY <1>1 DEF Publish, DiskTypes
  <2> QED
    BY <2>1, <2>2, OnlyAdded
<1>2. CASE LinkRoute(w)
  <2>1. Turn(w, Idle) /\ UNCHANGED <<bundle, missions, cache>>
    BY <1>2 DEF LinkRoute
  <2>2. \A n \in Routes : route[n] # NoRoute => route'[n] = route[n]
    BY <1>2 DEF LinkRoute, DiskTypes
  <2>3. task[w].route \in RoutesOnDisk /\ bundle[task[w].route.on] = task[w].route.of
    BY <1>2, AtWork DEF LinkRoute, Staged, TasksOK, WritesRoute, WritesBundle, Tidy, TasksHave, TaskHas
  <2>4. \A n \in Routes : route'[n] = route[n] \/ route'[n] = task[w].route
    BY <1>2 DEF LinkRoute, DiskTypes
  <2>5. \A n \in Routes : route'[n] = route[n] \/ bundle[route'[n].on] = route'[n].of
    BY <2>3, <2>4
  <2>6. \A n \in Routes : route'[n] = route[n] \/ route'[n] \in RoutesOnDisk
    BY <2>3, <2>4
  <2> QED
    BY <2>1, <2>2, <2>5, <2>6, OnlyAdded
<1>3. ASSUME NEW k \in MissionNames, SaveMission(w, k) PROVE Tidy'
  <2>1. Turn(w, Idle) /\ UNCHANGED <<bundle, route, cache>> /\ task[w].at = "valid"
    BY <1>3 DEF SaveMission
  <2>2. RefersTo(task[w].refs) /\ TaskHas(task[w])
    BY <2>1, AtWork DEF TasksOK, WritesMission, Tidy, TasksHave
  <2>3. \A m \in MissionNames : missions'[m] = missions[m] \/ missions'[m] = task[w].refs
    BY <1>3 DEF SaveMission, DiskTypes
  <2>4. \A m \in MissionNames : \/ missions'[m] = missions[m]
                                \/ /\ RefersTo(missions'[m])
                                   /\ bundle[missions'[m].rev] = missions'[m].of
                                   /\ route[missions'[m].num].id = missions'[m].id
    BY <2>1, <2>2, <2>3 DEF TaskHas
  <2> QED
    BY <2>1, <2>4, OnlyAdded
<1> QED
  BY <1>1, <1>2, <1>3

\* A confirmed removal begins, with every other thread idle.
LEMMA RemovalBegins ==
    ASSUME StoreTypes, Tidy, NEW w \in Workers, NEW plan, NEW revs, Removes(w, plan, revs),
           disturbed' = FALSE
    PROVE  /\ Doomed' = ToSet(plan) /\ DoomedRevs' = revs
           /\ OneMover' /\ TasksHave'
           /\ UNCHANGED <<bundle, route, missions, cache>>
<1> DEFINE t == [at |-> "moving", left |-> plan, revs |-> revs]
<1>1. Turn(w, t) /\ UNCHANGED <<bundle, route, missions, cache>>
  BY DEF Removes
<1>2. \A v \in Workers : v # w => task[v] = Idle
  BY DEF Removes
<1>3. t.at = "moving" /\ t.left = plan /\ t.revs = revs
  OBVIOUS
<1> HIDE DEF t
<1>4. task'[w] = t /\ \A v \in Workers : v # w => task'[v] = Idle
  BY <1>1, <1>2 DEF Turn, StoreTypes, TasksOK
<1>5. task'[w].at = "moving" /\ \A v \in Workers : v # w => task'[v].at # "moving"
  BY <1>3, <1>4, IdleHas
<1>6. DoomedBy(task') = ToSet(task'[w].left) /\ RevsBy(task') = task'[w].revs
  BY <1>5, DoomedByOne
<1>7. Doomed' = ToSet(plan) /\ DoomedRevs' = revs
  BY <1>3, <1>4, <1>6 DEF Doomed, DoomedRevs
<1>8. OneMover'
  BY <1>4, <1>5 DEF OneMover, Moving
<1>9. TasksHave'
  <2>1. ASSUME NEW v \in Workers PROVE TaskHas(task[v])'
    <3>1. task'[v].at \in {"moving", "idle"}
      BY <1>4, <1>5, IdleHas
    <3> QED
      BY <3>1 DEF TaskHas
  <2> QED
    BY <2>1 DEF TasksHave
<1> QED
  BY <1>1, <1>7, <1>8, <1>9

\* Items of different kinds differ, and so do items of one kind.
LEMMA ItemsDiffer ==
    /\ \A x, y : Item("map", x) # Item("rev", y) /\ Item("map", x) # Item("routes", y)
                 /\ Item("map", x) # Item("route", y) /\ Item("map", x) # Item("mission", y)
                 /\ Item("rev", x) # Item("routes", y) /\ Item("rev", x) # Item("route", y)
                 /\ Item("rev", x) # Item("mission", y) /\ Item("routes", x) # Item("route", y)
                 /\ Item("routes", x) # Item("mission", y)
                 /\ Item("route", x) # Item("mission", y)
    /\ \A k, x, y : Item(k, x) = Item(k, y) => x = y
  BY DEF Item

\* What the plan of a map's removal leaves is complete.
LEMMA ClosedMapPlan ==
    ASSUME StoreTypes, Tidy, NEW w \in Workers, NEW r \in Revisions, RemoveMap(w, r),
           disturbed' = FALSE
    PROVE  Closed'
<1> DEFINE plan == PlanMap(r)
           drawn == {n \in Drawn : route[n].on = r}
<1>1. Removes(w, plan, {r})
  BY DEF RemoveMap
<1> HIDE DEF plan
<1>2. /\ Doomed' = ToSet(plan) /\ DoomedRevs' = {r}
      /\ OneMover' /\ TasksHave'
      /\ UNCHANGED <<bundle, route, missions, cache>>
  BY <1>1, RemovalBegins
<1>3. DiskTypes
  BY DEF StoreTypes
<1>4. CacheIsTrue'
  BY <1>2 DEF CacheIsTrue, Tidy
<1>5. \A n \in Drawn : /\ route[n] \in RoutesOnDisk
                       /\ bundle[route[n].on] = route[n].of
                       /\ route[n].on \in Revisions /\ route[n].of \in Stamps
  BY <1>3 DEF Drawn, DiskTypes, Tidy, DiskWhole, RoutesOnDisk
<1>6. \A m \in Made : /\ RefersTo(missions[m])
                      /\ bundle[missions[m].rev] = missions[m].of
                      /\ route[missions[m].num].id = missions[m].id
  BY <1>3 DEF Made, DiskTypes, Tidy, DiskWhole
<1>7. ASSUME Bundles = {r} PROVE RoutesHaveBundles' /\ MissionsHaveRoutes' /\ RevsCover'
  <2>1. Item("map", 0) \in ToSet(plan) /\ \A m \in Made : Item("mission", m) \in ToSet(plan)
    BY <1>3, <1>7, LastMapPlan DEF plan
  <2>2. RoutesHaveBundles'
    BY <1>2, <2>1 DEF RoutesHaveBundles, LosesRoute
  <2>3. MissionsHaveRoutes'
    BY <1>2, <2>1 DEF MissionsHaveRoutes, Made
  <2>4. RevsCover'
    BY <1>2, <1>7 DEF RevsCover, Bundles
  <2> QED
    BY <2>2, <2>3, <2>4
<1>8. ASSUME Bundles # {r} PROVE RoutesHaveBundles' /\ MissionsHaveRoutes' /\ RevsCover'
  <2> DEFINE R == ToSet(RouteItems(drawn))
             M == {Item("mission", m) : m \in Using({r}, drawn)}
  <2>1. ToSet(plan) = {Item("rev", r)} \cup R \cup M
    BY <1>3, <1>8, MapPlan DEF plan
  <2>2. drawn \in SUBSET Drawn
    OBVIOUS
  <2> HIDE DEF R, M
  <2>3. /\ \A n \in drawn : Item("routes", 0) \in R \/ Item("route", n) \in R
        /\ \A x \in R : \/ x = Item("routes", 0) /\ drawn = Drawn
                        \/ \E n \in drawn : x = Item("route", n)
    <3> HIDE DEF drawn
    <3> QED
      BY <2>2, RemovedRoutes DEF R
  <2>12. \A q : /\ Item("map", q) \notin M /\ Item("rev", q) \notin M
                /\ Item("routes", q) \notin M /\ Item("route", q) \notin M
    BY ItemsDiffer, Zenon DEF M
  <2>13. \A q : Item("map", q) \notin R /\ Item("rev", q) \notin R
    <3> HIDE DEF drawn
    <3>1. \A x \in R : (\E n : x = Item("route", n)) \/ x = Item("routes", 0)
      BY <2>3
    <3> QED
      BY ONLY <3>1, ItemsDiffer, ZenonT(60)
  <2>4. \A q : Item("map", q) \notin ToSet(plan)
    BY <2>1, <2>12, <2>13, ItemsDiffer, Zenon
  <2>5. \A q : Item("rev", q) \in ToSet(plan) <=> q = r
    BY <2>1, <2>12, <2>13, ItemsDiffer, Zenon
  <2>6. \A q \in Revisions : LosesMap(q)' <=> q = r
    BY <1>2, <2>4, <2>5 DEF LosesMap
  <2>7. \A n \in Drawn \ drawn : ~LosesRoute(n)'
    <3>1. ASSUME NEW n \in Drawn \ drawn, Item("routes", 0) \in ToSet(plan) PROVE FALSE
      <4>1. Item("routes", 0) \in R
        BY <2>1, <2>12, <3>1, ItemsDiffer, Zenon
      <4>2. drawn = Drawn
        <5> HIDE DEF drawn
        <5> QED
          BY <2>3, <4>1, ItemsDiffer
      <4> QED
        BY <3>1, <4>2
    <3>2. ASSUME NEW n \in Drawn \ drawn, Item("route", n) \in ToSet(plan) PROVE FALSE
      <4>1. Item("route", n) \in R
        BY <2>1, <2>12, <3>2, ItemsDiffer, Zenon
      <4>2. n \in drawn
        <5> HIDE DEF drawn
        <5> QED
          BY <2>3, <4>1, ItemsDiffer
      <4> QED
        BY <3>2, <4>2
    <3> QED
      BY <1>2, <2>4, <3>1, <3>2 DEF LosesRoute
  <2>8. \A n \in drawn : LosesRoute(n)'
    <3>1. \A n \in drawn : Item("routes", 0) \in ToSet(plan) \/ Item("route", n) \in ToSet(plan)
      BY <2>1, <2>3
    <3> QED
      BY <1>2, <3>1 DEF LosesRoute
  <2>9. RoutesHaveBundles'
    <3> SUFFICES ASSUME NEW n \in Drawn', ~LosesRoute(n)'
                 PROVE  BundleIs(route[n].on, route[n].of)'
      BY DEF RoutesHaveBundles
    <3>1. n \in Drawn
      BY <1>2 DEF Drawn
    <3>2. route[n].on # r
      BY <2>8, <3>1
    <3>3. ~LosesMap(route[n].on)'
      BY <1>2, <1>5, <2>4, <2>5, <3>1, <3>2 DEF LosesMap
    <3> QED
      BY <1>2, <1>5, <3>1, <3>3 DEF BundleIs
  <2>10. MissionsHaveRoutes'
    <3> SUFFICES ASSUME NEW m \in Made', (Item("mission", m) \notin Doomed)'
                 PROVE  MissionHas(missions[m])'
      BY DEF MissionsHaveRoutes
    <3>1. m \in Made /\ m \notin Using({r}, drawn)
      <4>1. m \in Made
        BY <1>2 DEF Made
      <4>2. Item("mission", m) \notin ToSet(plan)
        BY <1>2
      <4> QED
        BY <2>1, <4>1, <4>2 DEF M
    <3>2. PICK q : q = missions[m]
      OBVIOUS
    <3>3. q.rev # r /\ q.num \notin drawn
      BY <3>1, <3>2 DEF Using
    <3>4. RefersTo(q) /\ bundle[q.rev] = q.of /\ route[q.num].id = q.id /\ q = missions'[m]
      BY <1>2, <1>6, <3>1, <3>2
    <3>5. q.num \in Drawn
      BY <3>4 DEF RefersTo, Drawn, NoRoute, Stamps
    <3>6. ~LosesMap(q.rev)'
      <4>1. Item("rev", q.rev) \notin ToSet(plan) /\ Item("map", 0) \notin ToSet(plan)
        BY <2>4, <2>5, <3>3
      <4> QED
        BY <1>2, <4>1 DEF LosesMap
    <3>7. ~LosesRoute(q.num)'
      BY <2>7, <3>3, <3>5
    <3>8. MissionHas(q)'
      BY <1>2, <3>4, <3>6, <3>7 DEF MissionHas, BundleIs, RouteIs
    <3> QED
      BY <3>4, <3>8 DEF MissionHas, BundleIs, RouteIs, LosesMap, LosesRoute
  <2>11. RevsCover'
    BY <1>2, <2>6 DEF RevsCover
  <2> QED
    BY <2>9, <2>10, <2>11
<1> QED
  BY <1>2, <1>4, <1>7, <1>8 DEF Closed

\* Nor does the plan of a removal of routes or of a mission leave anything behind.
LEMMA ClosedRoutesPlan ==
    ASSUME StoreTypes, Tidy, NEW w \in Workers, NEW ns, RemoveRoutes(w, ns), disturbed' = FALSE
    PROVE  Closed'
<1> DEFINE plan == PlanRoutes(ns)
           R == ToSet(RouteItems(ns))
           M == {Item("mission", m) : m \in Using({}, ns)}
<1>1. Removes(w, plan, {}) /\ ns \in SUBSET Drawn
  BY DEF RemoveRoutes
<1> HIDE DEF plan
<1>2. /\ Doomed' = ToSet(plan) /\ DoomedRevs' = {}
      /\ OneMover' /\ TasksHave'
      /\ UNCHANGED <<bundle, route, missions, cache>>
  BY <1>1, RemovalBegins
<1>3. ToSet(plan) = R \cup M
  BY <1>1, RoutesPlan DEF plan, StoreTypes
<1> HIDE DEF R
<1>4. /\ \A x \in R : \/ x = Item("routes", 0) /\ ns = Drawn
                      \/ \E n \in ns : x = Item("route", n)
  BY <1>1, RemovedRoutes DEF R
<1>5. \A q : /\ Item("map", q) \notin M /\ Item("rev", q) \notin M
             /\ Item("routes", q) \notin M /\ Item("route", q) \notin M
  BY ItemsDiffer, Zenon
<1> HIDE DEF M
<1>6. \A q : Item("map", q) \notin R /\ Item("rev", q) \notin R
  BY <1>4, ItemsDiffer, Zenon
<1>7. \A q : ~LosesMap(q)'
  BY <1>2, <1>3, <1>5, <1>6, Zenon DEF LosesMap
<1>8. ASSUME NEW n \in Drawn, LosesRoute(n)' PROVE n \in ns
  <2>1. Item("routes", 0) \in R \/ Item("route", n) \in R
    BY <1>2, <1>3, <1>5, <1>6, <1>8, Zenon DEF LosesRoute
  <2>2. CASE Item("routes", 0) \in R
    <3>1. ns = Drawn
      BY <1>4, <2>2, ItemsDiffer, Zenon
    <3> QED
      BY <3>1
  <2>3. CASE Item("route", n) \in R
    <3>1. \E k \in ns : Item("route", n) = Item("route", k)
      <4>1. Item("routes", 0) # Item("route", n)
        BY ONLY ItemsDiffer
      <4> QED
        BY <1>4, <2>3, <4>1, ZenonT(60)
    <3> QED
      BY ONLY <3>1, ItemsDiffer, ZenonT(60)
  <2> QED
    BY <2>1, <2>2, <2>3
<1>9. RoutesHaveBundles'
  <2>1. \A n \in Drawn' : (bundle[route[n].on] = route[n].of)'
    BY <1>2 DEF Tidy, DiskWhole, Drawn
  <2> QED
    BY <1>7, <2>1 DEF RoutesHaveBundles, BundleIs
<1>10. MissionsHaveRoutes'
  <2> SUFFICES ASSUME NEW m \in Made', (Item("mission", m) \notin Doomed)'
               PROVE  MissionHas(missions[m])'
    BY DEF MissionsHaveRoutes
  <2>1. PICK q : q = missions[m]
    OBVIOUS
  <2>2. m \in Made /\ q = missions'[m]
    BY <1>2, <2>1 DEF Made
  <2>3. RefersTo(q) /\ bundle[q.rev] = q.of /\ route[q.num].id = q.id
    BY <2>1, <2>2 DEF StoreTypes, DiskTypes, Tidy, DiskWhole, Made
  <2>4. q.num \in Drawn
    BY <2>3 DEF RefersTo, Drawn, NoRoute, Stamps
  <2>5. m \notin Using({}, ns)
    BY <1>2, <1>3 DEF M
  <2>6. q.num \notin ns
    BY <2>1, <2>2, <2>5 DEF Using
  <2>7. ~LosesRoute(q.num)'
    BY <1>8, <2>4, <2>6
  <2>8. MissionHas(q)'
    BY <1>2, <1>7, <2>3, <2>7 DEF MissionHas, BundleIs, RouteIs
  <2> QED
    BY <2>2, <2>8 DEF MissionHas, BundleIs, RouteIs, LosesMap, LosesRoute
<1>11. CacheIsTrue' /\ RevsCover'
  BY <1>2, <1>7 DEF CacheIsTrue, RevsCover, Tidy
<1> QED
  BY <1>2, <1>9, <1>10, <1>11 DEF Closed

\* A mission is named by nothing on disk.
LEMMA ClosedMissionPlan ==
    ASSUME StoreTypes, Tidy, NEW w \in Workers, NEW k \in MissionNames, RemoveMission(w, k),
           disturbed' = FALSE
    PROVE  Closed'
<1> DEFINE plan == MissionItems({k})
<1>1. Removes(w, plan, {})
  BY DEF RemoveMission
<1> HIDE DEF plan
<1>2. /\ Doomed' = ToSet(plan) /\ DoomedRevs' = {}
      /\ OneMover' /\ TasksHave'
      /\ UNCHANGED <<bundle, route, missions, cache>>
  BY <1>1, RemovalBegins
<1>3. ToSet(plan) = {Item("mission", m) : m \in {k}}
  BY MissionPlan DEF plan
<1>4. \A q : /\ Item("map", q) \notin Doomed' /\ Item("rev", q) \notin Doomed'
             /\ Item("routes", q) \notin Doomed' /\ Item("route", q) \notin Doomed'
  BY <1>2, <1>3, ItemsDiffer, Zenon
<1>5. \A q : ~LosesMap(q)' /\ ~LosesRoute(q)'
  BY <1>4, Zenon DEF LosesMap, LosesRoute
<1>6. RoutesHaveBundles'
  <2>1. \A n \in Drawn' : (bundle[route[n].on] = route[n].of)'
    BY <1>2 DEF Tidy, DiskWhole, Drawn
  <2> QED
    BY <1>5, <2>1 DEF RoutesHaveBundles, BundleIs
<1>7. MissionsHaveRoutes'
  <2>1. \A m \in Made' : /\ (bundle[missions[m].rev] = missions[m].of)'
                         /\ (route[missions[m].num].id = missions[m].id)'
    BY <1>2 DEF Tidy, DiskWhole, Made
  <2> QED
    BY <1>5, <2>1 DEF MissionsHaveRoutes, MissionHas, BundleIs, RouteIs
<1>8. CacheIsTrue' /\ RevsCover'
  BY <1>2, <1>5 DEF CacheIsTrue, RevsCover, Tidy
<1> QED
  BY <1>2, <1>6, <1>7, <1>8 DEF Closed

\* One move after another: what is left to move shrinks by just what was moved.
LEMMA ClosedMove ==
    ASSUME StoreTypes, Closed, NEW w \in Workers, Move(w)
    PROVE  Closed'
<1> DEFINE t == [task[w] EXCEPT !.left = Tail(@)]
           left == task[w].left
           revs == task[w].revs
           item == Head(left)
           all == item.what \in {"map", "routes"}
<1>1. /\ Turn(w, t) /\ task[w].at = "moving" /\ left # <<>> /\ UNCHANGED cache
      /\ bundle' = [r \in Revisions |->
             IF item.what = "map" \/ (item.what = "rev" /\ item.n = r) THEN 0 ELSE bundle[r]]
      /\ route' = [n \in Routes |->
             IF all \/ (item.what = "route" /\ item.n = n) THEN NoRoute ELSE route[n]]
      /\ missions' = [m \in MissionNames |->
             IF item.what = "mission" /\ item.n = m THEN NoMission ELSE missions[m]]
  BY DEF Move, Moving
<1>2. \A v \in Workers : v # w => task[v] = Idle
  BY <1>1 DEF Closed, OneMover, Moving
<1>3. Removing(task[w])
  BY <1>1, AtWork DEF StoreTypes, TasksOK
<1>4. t.at = "moving" /\ t.left = Tail(left) /\ t.revs = revs
  BY <1>3 DEF Removing
<1> HIDE DEF t
<1>5. task'[w] = t /\ \A v \in Workers : v # w => task'[v] = Idle
  BY <1>1, <1>2 DEF Turn, StoreTypes, TasksOK
<1>6. OneMover' /\ TasksHave'
  <2>1. \A v \in Workers : v # w => task'[v].at # "moving"
    BY <1>5, IdleHas
  <2>2. OneMover'
    BY <1>5, <2>1 DEF OneMover, Moving
  <2>3. ASSUME NEW v \in Workers PROVE TaskHas(task[v])'
    <3>1. task'[v].at \in {"moving", "idle"}
      BY <1>4, <1>5, IdleHas
    <3> QED
      BY <3>1 DEF TaskHas
  <2> QED
    BY <2>2, <2>3 DEF TasksHave
<1>7. Doomed = ToSet(left) /\ DoomedRevs = revs
  <2>1. \A v \in Workers : v # w => task[v].at # "moving"
    BY <1>2, IdleHas
  <2> QED
    BY <1>1, <2>1, DoomedByOne DEF Doomed, DoomedRevs
<1>8. Doomed' = ToSet(Tail(left)) /\ DoomedRevs' = revs
  <2>1. task'[w].at = "moving" /\ \A v \in Workers : v # w => task'[v].at # "moving"
    BY <1>4, <1>5, IdleHas
  <2>2. DoomedBy(task') = ToSet(task'[w].left) /\ RevsBy(task') = task'[w].revs
    BY <2>1, DoomedByOne
  <2> QED
    BY <1>4, <1>5, <2>2 DEF Doomed, DoomedRevs
<1>9. item \in Items /\ Doomed = {item} \cup Doomed'
  BY <1>1, <1>3, <1>7, <1>8, ItemsOfTail DEF Removing
<1> HIDE DEF item, left, revs
<1>10. /\ item.what = "map" => item = Item("map", 0)
       /\ item.what = "routes" => item = Item("routes", 0)
       /\ \A x : item.what = "rev" /\ item.n = x <=> item = Item("rev", x)
       /\ \A x : item.what = "route" /\ item.n = x <=> item = Item("route", x)
       /\ \A x : item.what = "mission" /\ item.n = x <=> item = Item("mission", x)
       /\ item = Item("map", 0) => item.what = "map"
       /\ item = Item("routes", 0) => item.what = "routes"
  BY <1>9 DEF Items, Item
\* The item moved is the one that is no longer to be moved.
<1>11. \A r \in Revisions : LosesMap(r) => LosesMap(r)' \/ bundle'[r] = 0
  BY <1>1, <1>9, <1>10 DEF LosesMap
<1>12. \A n \in Routes : LosesRoute(n) => LosesRoute(n)' \/ route'[n] = NoRoute
  BY <1>1, <1>9, <1>10 DEF LosesRoute
<1>13. /\ \A r : LosesMap(r)' => LosesMap(r)
       /\ \A n : LosesRoute(n)' => LosesRoute(n)
  BY <1>9 DEF LosesMap, LosesRoute
<1>14. \A r \in Revisions : bundle'[r] = bundle[r] \/ (bundle'[r] = 0 /\ LosesMap(r))
  BY <1>1, <1>9, <1>10 DEF LosesMap
<1>15. \A n \in Routes : route'[n] = route[n] \/ (route'[n] = NoRoute /\ LosesRoute(n))
  BY <1>1, <1>9, <1>10 DEF LosesRoute
<1>16. \A m \in MissionNames :
          \/ missions'[m] = missions[m] /\ (Item("mission", m) \in Doomed => Item("mission", m) \in Doomed')
          \/ missions'[m] = NoMission
  BY <1>1, <1>9, <1>10
<1>17. \A r \in Revisions, of \in Stamps : BundleIs(r, of) => BundleIs(r, of)'
  BY <1>13, <1>14 DEF BundleIs
<1>18. \A n \in Routes, id \in Stamps : RouteIs(n, id) => RouteIs(n, id)'
  BY <1>13, <1>15 DEF RouteIs
<1>19. RoutesHaveBundles'
  <2> SUFFICES ASSUME NEW n \in Drawn', ~LosesRoute(n)'
               PROVE  BundleIs(route[n].on, route[n].of)'
    BY DEF RoutesHaveBundles
  <2>1. n \in Routes /\ route'[n] # NoRoute
    BY DEF Drawn
  <2>2. PICK q : q = route[n]
    OBVIOUS
  <2>3. q = route'[n] /\ n \in Drawn /\ q \in RoutesOnDisk
    BY <1>15, <2>1, <2>2 DEF StoreTypes, DiskTypes, Drawn
  <2>4. ~LosesRoute(n)
    BY <1>12, <2>1
  <2>5. BundleIs(q.on, q.of)
    BY <2>2, <2>3, <2>4 DEF Closed, RoutesHaveBundles
  <2>6. q.on \in Revisions /\ q.of \in Stamps
    BY <2>3 DEF RoutesOnDisk
  <2>7. BundleIs(q.on, q.of)'
    BY <1>17, <2>5, <2>6
  <2> QED
    BY <2>3, <2>7 DEF BundleIs, LosesMap
<1>20. MissionsHaveRoutes'
  <2> SUFFICES ASSUME NEW m \in Made', (Item("mission", m) \notin Doomed)'
               PROVE  MissionHas(missions[m])'
    BY DEF MissionsHaveRoutes
  <2>1. m \in MissionNames /\ missions'[m] # NoMission
    BY DEF Made
  <2>2. PICK q : q = missions[m]
    OBVIOUS
  <2>3. q = missions'[m] /\ m \in Made /\ Item("mission", m) \notin Doomed
    BY <1>16, <2>1, <2>2 DEF Made
  <2>4. MissionHas(q) /\ RefersTo(q)
    BY <2>2, <2>3 DEF Closed, MissionsHaveRoutes, StoreTypes, DiskTypes, Made
  <2>5. MissionHas(q)'
    BY <1>17, <1>18, <2>4 DEF MissionHas, RefersTo
  <2> QED
    BY <2>3, <2>5 DEF MissionHas, BundleIs, RouteIs, LosesMap, LosesRoute
<1>21. RevsCover'
  <2> SUFFICES ASSUME NEW r \in Revisions, LosesMap(r)' PROVE bundle'[r] = 0 \/ r \in DoomedRevs'
    BY DEF RevsCover
  <2>1. bundle[r] = 0 \/ r \in DoomedRevs
    BY <1>13 DEF Closed, RevsCover
  <2> QED
    BY <1>7, <1>8, <1>14, <2>1
<1>22. CacheIsTrue'
  <2> SUFFICES ASSUME NEW r \in Revisions
               PROVE  cache'[r] = 0 \/ cache'[r] = bundle'[r] \/ r \in DoomedRevs'
    BY DEF CacheIsTrue
  <2>1. cache[r] = 0 \/ cache[r] = bundle[r] \/ r \in DoomedRevs
    BY DEF Closed, CacheIsTrue
  <2>2. LosesMap(r) => bundle[r] = 0 \/ r \in DoomedRevs
    BY DEF Closed, RevsCover
  <2> QED
    BY <1>1, <1>7, <1>8, <1>14, <2>1, <2>2
<1> QED
  BY <1>6, <1>19, <1>20, <1>21, <1>22 DEF Closed

\* At its end the server forgets the removed revisions: what is left is whole again.
LEMMA TidyForget ==
    ASSUME StoreTypes, Closed, NEW w \in Workers, Forget(w)
    PROVE  Tidy'
<1>1. /\ Turn(w, Idle) /\ task[w].at = "moving" /\ task[w].left = <<>>
      /\ UNCHANGED <<bundle, route, missions>>
      /\ cache' = [r \in Revisions |-> IF r \in task[w].revs THEN 0 ELSE cache[r]]
  BY DEF Forget, Moving
<1>2. \A v \in Workers : v # w => task[v] = Idle
  BY <1>1 DEF Closed, OneMover, Moving
<1>3. \A v \in Workers : task'[v] = Idle
  BY <1>1, <1>2 DEF Turn, StoreTypes, TasksOK
<1>4. Doomed = {} /\ DoomedRevs = task[w].revs
  <2>1. \A v \in Workers : v # w => task[v].at # "moving"
    BY <1>2, IdleHas
  <2> QED
    BY <1>1, <2>1, DoomedByOne, NoItems DEF Doomed, DoomedRevs
<1>5. NoMover'
  BY <1>3, IdleHas DEF NoMover, Moving
<1>6. DiskWhole
  BY <1>4 DEF Closed, DiskWhole, RoutesHaveBundles, MissionsHaveRoutes, MissionHas, BundleIs, RouteIs,
      LosesRoute
<1>7. DiskWhole'
  BY <1>1, <1>6 DEF DiskWhole, Drawn, Made
<1>8. TasksHave'
  <2>1. ASSUME NEW v \in Workers PROVE TaskHas(task[v])'
    <3>1. task'[v].at = "idle"
      BY <1>3, IdleHas
    <3> QED
      BY <3>1 DEF TaskHas
  <2> QED
    BY <2>1 DEF TasksHave
<1>9. \A r \in Revisions : cache'[r] = 0 \/ cache'[r] = bundle'[r]
  BY <1>1, <1>4 DEF Closed, CacheIsTrue
<1> QED
  BY <1>5, <1>7, <1>8, <1>9 DEF Tidy

ClosedUndisturbed == disturbed = FALSE => Closed

\* A removal leaves nothing pointing at something that is gone, unless requests were served while
\* it ran or it was cut short (plan_map, plan_routes, move_to_trash, load_grid's cache).
LEMMA RemovalsAreClosed == StoreSpec => []ClosedUndisturbed
<1>1. StoreInit => ClosedUndisturbed
  <2> SUFFICES ASSUME StoreInit PROVE Closed
    BY DEF ClosedUndisturbed
  <2>1. \A w \in Workers : task[w] = Idle
    BY DEF StoreInit
  <2>2. NoMover
    BY <2>1, IdleHas DEF NoMover, Moving
  <2>3. TasksHave
    BY <2>1, IdleHas DEF TasksHave
  <2>4. Drawn = {} /\ Made = {}
    BY DEF StoreInit, Drawn, Made
  <2>5. Tidy
    BY <2>2, <2>3, <2>4 DEF Tidy, DiskWhole, StoreInit
  <2> QED
    BY <2>5, TidyIsClosed
<1>2. StoreTypes /\ ClosedUndisturbed /\ [StoreNext]_storeVars => ClosedUndisturbed'
  <2> SUFFICES ASSUME StoreTypes, ClosedUndisturbed, [StoreNext]_storeVars, disturbed' = FALSE
               PROVE  Closed'
    BY DEF ClosedUndisturbed
  <2> USE TidyIsClosed, ClosedIsTidy
  <2>1. disturbed \in BOOLEAN
    BY DEF StoreTypes
  <2>2. ASSUME NEW w \in Workers,
               \/ SaveSurvey(w) \/ \E r \in Revisions : Edit(w, r)
               \/ \E r \in Revisions, n \in {0} \cup Drawn : Look(w, r, n)
        PROVE  Closed'
    <3>1. Starts(w)
      BY <2>2 DEF SaveSurvey, Edit, OpenMap, Look
    <3>2. disturbed = FALSE /\ NoMover
      BY <2>1, <3>1, TakenAlone
    <3>3. Tidy
      BY <3>2 DEF ClosedUndisturbed
    <3> QED
      BY <2>2, <3>3, TidyLooking
  <2>3. ASSUME NEW w \in Workers,
               \/ AllocateMap(w) \/ Fail(w) \/ OpenRoute(w) \/ AllocateRoute(w) \/ CheckMission(w)
               \/ Publish(w) \/ LinkRoute(w) \/ \E m \in MissionNames : SaveMission(w, m)
               \/ Remember(w)
        PROVE  Closed'
    <3>1. /\ UNCHANGED disturbed
          /\ task[w].at \in {"opened", "staged", "checked", "valid", "read"}
      BY <2>3 DEF AllocateMap, Fail, OpenRoute, AllocateRoute, CheckMission, Publish, LinkRoute,
                  SaveMission, Remember, Locks, Staged
    <3>2. Closed
      BY <3>1 DEF ClosedUndisturbed
    <3>3. Tidy
      BY <3>1, <3>2, BusyAlone DEF Closed
    <3>4. CASE AllocateMap(w) \/ Fail(w) \/ OpenRoute(w) \/ AllocateRoute(w) \/ CheckMission(w)
      BY <3>3, <3>4, TidyLooking
    <3>5. CASE Publish(w) \/ LinkRoute(w) \/ \E m \in MissionNames : SaveMission(w, m)
      BY <3>3, <3>5, TidyWriting
    <3>6. CASE Remember(w)
      BY <3>3, <3>6, TidyRemember
    <3> QED
      BY <2>3, <3>4, <3>5, <3>6
  <2>4. ASSUME NEW w \in Workers,
               \/ \E r \in Revisions : RemoveMap(w, r)
               \/ \E ns \in SUBSET Routes : RemoveRoutes(w, ns)
               \/ \E m \in MissionNames : RemoveMission(w, m)
        PROVE  Closed'
    <3>1. PICK plan, revs : Removes(w, plan, revs)
      BY <2>4 DEF RemoveMap, RemoveRoutes, RemoveMission
    <3>2. disturbed = FALSE /\ \A v \in Workers : task[v] = Idle \/ v = w
      BY <2>1, <3>1 DEF Removes
    <3>3. NoMover
      BY <3>1, <3>2, IdleHas DEF NoMover, Moving, Removes
    <3>4. Tidy
      BY <3>2, <3>3 DEF ClosedUndisturbed
    <3> QED
      BY <2>4, <3>4, ClosedMapPlan, ClosedRoutesPlan, ClosedMissionPlan
  <2>5. ASSUME NEW w \in Workers, Move(w) \/ Forget(w) PROVE Closed'
    <3>1. Closed
      BY <2>5 DEF Move, Forget, ClosedUndisturbed
    <3> QED
      BY <2>5, <3>1, ClosedMove, TidyForget
  <2>6. CASE UNCHANGED <<bundle, route, missions, cache, task, disturbed>>
    <3>1. Closed
      BY <2>6 DEF ClosedUndisturbed
    <3> QED
      BY <2>6, <3>1
      DEF Closed, OneMover, RoutesHaveBundles, MissionsHaveRoutes, TasksHave, CacheIsTrue, RevsCover,
          Moving, Drawn, Made, LosesRoute, LosesMap, BundleIs, RouteIs, MissionHas, TaskHas,
          Doomed, DoomedRevs
  <2>7. CASE Crash
    <3>1. disturbed = FALSE /\ NoMover
      BY <2>1, <2>7 DEF Crash, NoMover
    <3>2. Tidy
      BY <3>1 DEF ClosedUndisturbed
    <3>3. \A w \in Workers : task'[w] = Idle
      BY <2>7 DEF Crash
    <3>4. NoMover' /\ TasksHave'
      <4>1. \A w \in Workers : task'[w].at = "idle"
        BY <3>3, IdleHas
      <4> QED
        BY <4>1 DEF NoMover, Moving, TasksHave, TaskHas
    <3>5. DiskWhole' /\ \A r \in Revisions : cache'[r] = 0
      BY <2>7, <3>2 DEF Crash, Tidy, DiskWhole, Drawn, Made
    <3>6. Tidy'
      BY <3>4, <3>5 DEF Tidy
    <3> QED
      BY <3>6
  <2> QED
    BY <2>2, <2>3, <2>4, <2>5, <2>6, <2>7
    DEF StoreNext, Serve, storeVars, Activate, RecordLabel, Deactivate, LoadMission
<1> QED
  BY <1>1, <1>2, StoreTypesHold, PTL DEF StoreSpec

\* Every name in the store and in the executor names what it was meant to name.
THEOREM NamesHold == StoreSpec => []NamesAreTrue
<1>1. StoreTypes /\ ClosedUndisturbed => RemovalIsClosed
  <2> SUFFICES ASSUME StoreTypes, ClosedUndisturbed, disturbed # TRUE, \A w \in Workers : ~Moving(w)
               PROVE  DiskWhole
    BY DEF RemovalIsClosed, DiskWhole
  <2>1. disturbed = FALSE
    BY DEF StoreTypes
  <2> QED
    BY <2>1, ClosedIsTidy DEF ClosedUndisturbed, NoMover, Tidy
<1> QED
  BY <1>1, StoreTypesHold, RemovalsAreClosed, LoadedAsMade, PTL DEF NamesAreTrue

-----------------------------------------------------------------------------
(***************************************************************************)
(* Labels on the floor.                                                    *)
(***************************************************************************)

\* Readings of a camera whose settings were the expected ones.
RightReadings == [label : LabelIds, right : {TRUE}]
\* Readings of the label the vehicle stands over.
ReadingsHere == {r \in [label : LabelIds, right : BOOLEAN] : r.label = spot}

LabelTypes ==
    /\ factory \in BOOLEAN /\ connected \in BOOLEAN /\ spot \in LabelIds
    /\ image \in Seq([label : LabelIds, right : BOOLEAN]) /\ Len(image) <= 1
    /\ still \in Nat \cup {VehicleMoves} /\ sampleAge \in Nat

\* A connection answers for the settings the camera has while it lasts, and an
\* image begun is of that connection: only right images get out of the link.
OnlyRightGetsOut ==
    /\ \A s \in Settings : connected = TRUE /\ answered[s] = "expected" => factory = FALSE
    /\ connected = TRUE /\ verdict = "verified" => factory = FALSE
    /\ image # <<>> => connected = TRUE /\ (factory = FALSE => image \in Seq(RightReadings))
    /\ frames \in Seq(RightReadings)
    /\ samples \in Seq(RightReadings)

\* A unit of time empties the link: what is in it later was taken here.
LinkIsHere == still \notin {VehicleMoves, 0} => image \in Seq(ReadingsHere) /\ frames \in Seq(ReadingsHere)

\* A newest reading that was taken somewhere else is as old as the rest.
ElsewhereIsOld ==
    /\ still = VehicleMoves => samples = <<>>
    /\ samples # <<>> /\ Last(samples).label # spot =>
           sampleAge >= still \/ sampleAge > StaleAfter

LabelsIInv ==
    LabelTypes /\ OnlyRightGetsOut /\ LinkIsHere /\ ElsewhereIsOld

-----------------------------------------------------------------------------
\* The newest n of a sequence.
LEMMA NewestOf ==
    ASSUME NEW S, NEW seq \in Seq(S), NEW m \in Nat, 1 <= m, m <= Len(seq)
    PROVE  /\ SubSeq(seq, m, Len(seq)) \in Seq(S)
           /\ SubSeq(seq, m, Len(seq)) # <<>>
           /\ Last(SubSeq(seq, m, Len(seq))) = Last(seq)
<1>1. Len(seq) \in Nat /\ seq \in [1..Len(seq) -> S]
  BY LenProperties
<1>2. \A i \in m..Len(seq) : seq[i] \in S
  BY <1>1
<1> DEFINE n == Len(seq)
           t == SubSeq(seq, m, n)
<1>3. /\ t \in Seq(S) /\ Len(t) = IF m <= n THEN n - m + 1 ELSE 0
      /\ \A i \in 1 .. n - m + 1 : t[i] = seq[m + i - 1]
  BY <1>1, <1>2, SubSeqProperties
<1>4. Len(t) = n - m + 1 /\ Len(t) \in 1..(n - m + 1)
  BY <1>1, <1>3
<1>5. t[Len(t)] = seq[n]
  <2>1. t[Len(t)] = seq[m + Len(t) - 1]
    BY <1>3, <1>4
  <2>2. m + Len(t) - 1 = n
    BY <1>1, <1>4
  <2> QED
    BY <2>1, <2>2
<1>6. t # <<>>
  <2>1. Len(t) # 0
    BY <1>4
  <2> HIDE DEF t
  <2> QED
    BY <2>1, EmptySeq
<1> QED
  BY <1>3, <1>5, <1>6 DEF Last

\* The last of two sequences joined.
LEMMA LastOfConcat ==
    ASSUME NEW S, NEW s \in Seq(S), NEW t \in Seq(S)
    PROVE  /\ s \o t \in Seq(S)
           /\ t # <<>> => s \o t # <<>> /\ Last(s \o t) = Last(t) /\ Last(t) \in S
           /\ t = <<>> => s \o t = s
<1>1. s \o t \in Seq(S) /\ Len(s \o t) = Len(s) + Len(t)
  BY ConcatProperties
<1>2. t = <<>> => s \o t = s
  BY ConcatEmptySeq
<1>3. ASSUME t # <<>> PROVE s \o t # <<>> /\ Last(s \o t) = Last(t) /\ Last(t) \in S
  <2>1. Len(t) \in Nat \ {0} /\ Len(s) \in Nat
    BY <1>3, EmptySeq, LenProperties
  <2>2. (s \o t)[Len(s) + Len(t)] = t[Len(s) + Len(t) - Len(s)]
    <3>1. Len(s) + Len(t) \in 1 .. Len(s) + Len(t) /\ ~(Len(s) + Len(t) <= Len(s))
      BY <2>1
    <3> QED
      BY <3>1, ConcatProperties
  <2>3. Len(s) + Len(t) - Len(s) = Len(t)
    BY <2>1
  <2>4. t[Len(t)] \in S
    BY <2>1, ElementOfSeq
  <2>5. s \o t # <<>>
    BY <1>1, <2>1, EmptySeq
  <2> QED
    BY <1>1, <2>2, <2>3, <2>4, <2>5 DEF Last
<1> QED
  BY <1>1, <1>2, <1>3

\* What the link keeps when an image is complete is of what was in it.
LEMMA DeliveredIs ==
    ASSUME NEW S, frames \in Seq(S), image # <<>>, image \in Seq(S)
    PROVE  Delivered \in Seq(S)
<1> DEFINE all == frames \o image
<1>1. all \in Seq(S) /\ all # <<>>
  BY LastOfConcat
<1>2. Len(all) \in Nat \ {0}
  BY <1>1, EmptySeq
<1>3. Len(all) - MaxFrames + 1 = Len(all)
  BY <1>2 DEF MaxFrames
<1>4. SubSeq(all, Len(all), Len(all)) \in Seq(S)
  <2>1. Len(all) \in Nat /\ 1 <= Len(all) /\ Len(all) <= Len(all)
    BY <1>2
  <2> HIDE DEF all
  <2> QED
    BY <1>1, <2>1, NewestOf
<1> QED
  BY <1>3, <1>4 DEF Delivered

\* An image that is begun, completed or dropped keeps the invariant.
LEMMA ImageKeeps ==
    ASSUME LabelsIInv, connected,
           frames' = frames \/ (image # <<>> /\ frames' = Delivered),
           image' = <<>> \/ image' = <<[label |-> spot, right |-> ~factory]>>,
           UNCHANGED <<factory, connected, verdict, answered, believed, bufferVars, setVars>>
    PROVE  LabelsIInv'
<1>1. LabelTypes /\ OnlyRightGetsOut /\ LinkIsHere /\ ElsewhereIsOld
  BY DEF LabelsIInv
<1>2. frames' \in Seq(RightReadings)
  <2>1. frames' = Delivered => frames' = frames \/ verdict = "verified"
    BY DEF Delivered
  <2>2. image # <<>> /\ verdict = "verified" => image \in Seq(RightReadings)
    BY <1>1 DEF OnlyRightGetsOut, LabelTypes
  <2> QED
    BY <1>1, <2>1, <2>2, DeliveredIs DEF OnlyRightGetsOut
<1>3. still \notin {VehicleMoves, 0} => frames' \in Seq(ReadingsHere)
  BY <1>1, DeliveredIs DEF LinkIsHere
<1> DEFINE new == [label |-> spot, right |-> ~factory]
<1>4. /\ new \in [label : LabelIds, right : BOOLEAN]
      /\ new \in ReadingsHere
      /\ factory = FALSE => new \in RightReadings
  BY <1>1 DEF LabelTypes, ReadingsHere, RightReadings
<1>5. /\ image' \in Seq([label : LabelIds, right : BOOLEAN]) /\ Len(image') <= 1
      /\ image' \in Seq(ReadingsHere)
      /\ factory = FALSE => image' \in Seq(RightReadings)
  <2> HIDE DEF new
  <2>1. CASE image' = <<>>
    BY <2>1
  <2>2. CASE image' = <<new>>
    BY <1>4, <2>2
  <2> QED
    BY <2>1, <2>2 DEF new
<1>6. ReadingsHere' = ReadingsHere
  BY DEF bufferVars, ReadingsHere
<1> QED
  BY <1>1, <1>2, <1>3, <1>5, <1>6
     DEF LabelsIInv, LabelTypes, OnlyRightGetsOut, LinkIsHere, ElsewhereIsOld, bufferVars, setVars

\* So does a reading that is published.
LEMMA PublishKeeps ==
    ASSUME LabelsIInv, PublishReadings
    PROVE  LabelsIInv'
<1>1. LabelTypes /\ OnlyRightGetsOut /\ LinkIsHere /\ ElsewhereIsOld
  BY DEF LabelsIInv
<1> DEFINE valid == IF believed = "verified" THEN frames ELSE <<>>
           all == samples \o valid
           from == IF Len(all) > MaxSamples THEN Len(all) - MaxSamples + 1 ELSE 1
<1>2. /\ samples' = IF still = VehicleMoves THEN <<>> ELSE SubSeq(all, from, Len(all))
      /\ sampleAge' = IF valid = <<>> THEN sampleAge ELSE 0
      /\ frames' = <<>>
      /\ UNCHANGED <<factory, connected, verdict, answered, image, spot, still>>
  BY DEF PublishReadings
<1>3. samples \in Seq(RightReadings) /\ valid \in Seq(RightReadings)
  BY <1>1 DEF OnlyRightGetsOut
<1>4. /\ all \in Seq(RightReadings)
      /\ valid # <<>> => all # <<>> /\ Last(all) = Last(valid)
      /\ valid = <<>> => all = samples
  <2> HIDE DEF valid
  <2> QED
    BY <1>3, LastOfConcat
<1>5. /\ SubSeq(all, from, Len(all)) \in Seq(RightReadings)
      /\ all # <<>> => Last(SubSeq(all, from, Len(all))) = Last(all)
      /\ all = <<>> => SubSeq(all, from, Len(all)) = <<>>
  <2> HIDE DEF all
  <2>1. CASE all = <<>>
    <3>1. Len(all) = 0 /\ from = 1
      BY <2>1, LabelsAssumption DEF MaxSamples
    <3>2. SubSeq(all, from, Len(all)) = <<>>
      BY <3>1, SubSeqEmpty
    <3> QED
      BY <2>1, <3>2, EmptySeq
  <2>2. CASE all # <<>>
    <3>1. Len(all) \in Nat \ {0} /\ MaxSamples \in Nat \ {0}
      BY <1>4, <2>2, EmptySeq, LabelsAssumption DEF MaxSamples
    <3>2. from \in Nat /\ 1 <= from /\ from <= Len(all)
      BY <3>1
    <3> HIDE DEF from
    <3> QED
      BY <1>4, <2>2, <3>2, NewestOf
  <2> QED
    BY <2>1, <2>2
<1>6. samples' \in Seq(RightReadings)
  BY <1>2, <1>5, EmptySeq
<1>7. ElsewhereIsOld'
  <2>1. CASE still = VehicleMoves
    BY <1>2, <2>1 DEF ElsewhereIsOld
  <2>2. CASE still # VehicleMoves /\ valid = <<>>
    <3>1. samples' # <<>> => samples # <<>> /\ Last(samples') = Last(samples)
      BY <1>2, <1>4, <1>5, <2>2
    <3> QED
      BY <1>1, <1>2, <2>2, <3>1 DEF ElsewhereIsOld
  <2>3. CASE still # VehicleMoves /\ valid # <<>>
    <3>1. sampleAge' = 0 /\ Last(samples') = Last(valid) /\ still' = still /\ spot' = spot
      BY <1>2, <1>4, <1>5, <2>3
    <3>2. CASE still = 0
      BY <2>3, <3>1, <3>2 DEF ElsewhereIsOld
    <3>3. CASE still # 0
      <4>1. valid \in Seq(ReadingsHere)
        BY <1>1, <2>3, <3>3 DEF LinkIsHere
      <4>2. Last(valid).label = spot
        <5> HIDE DEF valid
        <5>1. Last(valid) \in ReadingsHere
          BY <2>3, <4>1, LastOfConcat
        <5> QED
          BY <5>1 DEF ReadingsHere
      <4> QED
        BY <2>3, <3>1, <4>2 DEF ElsewhereIsOld
    <3> QED
      BY <3>2, <3>3
  <2> QED
    BY <2>1, <2>2, <2>3
<1>8. LinkIsHere' /\ LabelTypes'
  <2>1. <<>> \in Seq(ReadingsHere') /\ ReadingsHere' = ReadingsHere
    BY <1>2, EmptySeq DEF ReadingsHere
  <2> QED
    BY <1>1, <1>2, <2>1 DEF LinkIsHere, LabelTypes
<1>9. OnlyRightGetsOut'
  BY <1>1, <1>2, <1>6, EmptySeq DEF OnlyRightGetsOut
<1> QED
  BY <1>7, <1>8, <1>9 DEF LabelsIInv

\* Every step keeps it.
LEMMA LabelStepKeeps ==
    ASSUME LabelsIInv, [LabelsNext]_labelVars
    PROVE  LabelsIInv'
<1>1. LabelTypes /\ OnlyRightGetsOut /\ LinkIsHere /\ ElsewhereIsOld
  BY DEF LabelsIInv
<1> USE DEF LabelsIInv
<1>2. CASE Connect
  BY <1>1, <1>2 DEF Connect, LabelTypes, OnlyRightGetsOut, LinkIsHere, ElsewhereIsOld, ReadingsHere,
     bufferVars, Unverified, Unknown
<1>3. CASE Drop
  <2>1. image' = <<>> /\ Len(<<>>) = 0 /\ <<>> \in Seq(ReadingsHere)
        /\ <<>> \in Seq([label : LabelIds, right : BOOLEAN])
    BY <1>3, EmptySeq DEF Drop
  <2>2. /\ connected' = FALSE /\ factory' \in BOOLEAN
        /\ UNCHANGED <<frames, samples, sampleAge, spot, still>>
    BY <1>3 DEF Drop, bufferVars
  <2>3. LabelTypes'
    <3>1. image' \in Seq([label : LabelIds, right : BOOLEAN]) /\ Len(image') <= 1
      BY <2>1
    <3>2. connected' \in BOOLEAN /\ spot' \in LabelIds
      BY <1>1, <2>2 DEF LabelTypes
    <3> QED
      BY <1>1, <2>2, <3>1, <3>2 DEF LabelTypes
  <2>4. OnlyRightGetsOut'
    BY <1>1, <2>1, <2>2 DEF OnlyRightGetsOut
  <2>5. LinkIsHere' /\ ElsewhereIsOld'
    BY <1>1, <2>1, <2>2 DEF LinkIsHere, ElsewhereIsOld, ReadingsHere
  <2> QED
    BY <2>3, <2>4, <2>5
<1>4. CASE Reply
  <2>1. PICK s \in Settings : answered' = [answered EXCEPT ![s] = IF factory THEN "other" ELSE "expected"]
    BY <1>4 DEF Reply
  <2>2. /\ connected /\ verdict = Unknown
        /\ UNCHANGED <<factory, connected, verdict, image, frames, bufferVars>>
    BY <1>4 DEF Reply
  <2>3. \A q \in Settings : connected = TRUE /\ answered'[q] = "expected" => factory = FALSE
    BY <1>1, <2>1 DEF OnlyRightGetsOut, LabelTypes
  <2> QED
    BY <1>1, <2>2, <2>3
       DEF LabelTypes, OnlyRightGetsOut, LinkIsHere, ElsewhereIsOld, ReadingsHere, bufferVars
<1>5. CASE Judge
  <2>1. /\ UNCHANGED <<factory, connected, answered, image, frames, bufferVars>>
        /\ verdict' = "verified" => answered["template"] = "expected"
    BY <1>5 DEF Judge, Settings
  <2> QED
    BY <1>1, <2>1
       DEF LabelTypes, OnlyRightGetsOut, LinkIsHere, ElsewhereIsOld, ReadingsHere, bufferVars, Settings
<1>6. CASE Image \/ Flush
  BY <1>6, ImageKeeps DEF Image, Flush
<1>7. CASE Snapshot
  BY <1>1, <1>7 DEF Snapshot, LabelTypes, OnlyRightGetsOut, LinkIsHere, ElsewhereIsOld, ReadingsHere,
     bufferVars
<1>8. CASE PublishReadings
  BY <1>8, PublishKeeps
<1>9. CASE DriveOff
  <2>1. /\ still' = VehicleMoves /\ samples' = <<>> /\ spot' \in LabelIds
        /\ UNCHANGED <<factory, connected, verdict, answered, image, frames, sampleAge>>
    BY <1>9 DEF DriveOff, linkVars
  <2> QED
    BY <1>1, <2>1, EmptySeq DEF LabelTypes, OnlyRightGetsOut, LinkIsHere, ElsewhereIsOld
<1>10. CASE Rest
  <2>1. /\ still = VehicleMoves /\ still' = 0
        /\ UNCHANGED <<factory, connected, verdict, answered, image, frames, samples, sampleAge, spot>>
    BY <1>10 DEF Rest, linkVars
  <2> QED
    BY <1>1, <2>1 DEF LabelTypes, OnlyRightGetsOut, LinkIsHere, ElsewhereIsOld, VehicleMoves
<1>11. CASE Elapse
  <2>1. /\ image = <<>> /\ frames = <<>>
        /\ still' = IF still \in 0..(Stationary - 1) THEN still + 1 ELSE still
        /\ sampleAge' = IF sampleAge <= StaleAfter THEN sampleAge + 1 ELSE sampleAge
        /\ UNCHANGED <<factory, connected, verdict, answered, image, frames, samples, spot>>
    BY <1>11 DEF Elapse, linkVars
  <2>2. /\ still' \in Nat \cup {VehicleMoves} /\ sampleAge' \in Nat
        /\ still = VehicleMoves <=> still' = VehicleMoves
        /\ still' <= still + 1
        /\ sampleAge' = sampleAge + 1 \/ (sampleAge' = sampleAge /\ sampleAge > StaleAfter)
    BY <1>1, <2>1, LabelsAssumption DEF LabelTypes, VehicleMoves
  <2>3. ElsewhereIsOld'
    <3>1. still' = VehicleMoves => samples' = <<>>
      BY <1>1, <2>1, <2>2 DEF ElsewhereIsOld
    <3>2. ASSUME samples' # <<>>, Last(samples').label # spot'
          PROVE  sampleAge' >= still' \/ sampleAge' > StaleAfter
      <4>1. sampleAge >= still \/ sampleAge > StaleAfter
        BY <1>1, <2>1, <3>2 DEF ElsewhereIsOld
      <4>2. still \in Int /\ still' \in Int /\ sampleAge \in Nat
        BY <1>1, <2>2 DEF LabelTypes, VehicleMoves
      <4> QED
        BY <2>2, <4>1, <4>2, LabelsAssumption
    <3> QED
      BY <3>1, <3>2 DEF ElsewhereIsOld
  <2> QED
    BY <1>1, <2>1, <2>2, <2>3, EmptySeq DEF LabelTypes, OnlyRightGetsOut, LinkIsHere
<1>12. CASE Record
  BY <1>1, <1>12 DEF Record, LabelTypes, OnlyRightGetsOut, LinkIsHere, ElsewhereIsOld, ReadingsHere,
     linkVars, bufferVars
<1>13. CASE Remake
  <2>1. /\ still' = VehicleMoves /\ samples' = <<>> /\ sampleAge' = StaleAfter + 1
        /\ UNCHANGED <<factory, connected, verdict, answered, image, frames, spot>>
    BY <1>13 DEF Remake, linkVars
  <2>2. sampleAge' \in Nat
    BY <2>1, LabelsAssumption
  <2> QED
    BY <1>1, <2>1, <2>2, EmptySeq DEF LabelTypes, OnlyRightGetsOut, LinkIsHere, ElsewhereIsOld
<1>14. CASE UNCHANGED labelVars
  BY <1>1, <1>14 DEF labelVars, LabelTypes, OnlyRightGetsOut, LinkIsHere, ElsewhereIsOld, ReadingsHere,
     linkVars, bufferVars
<1> QED
  BY <1>2, <1>3, <1>4, <1>5, <1>6, <1>7, <1>8, <1>9, <1>10, <1>11, <1>12, <1>13, <1>14
  DEF LabelsNext

\* It holds when the camera starts.
LEMMA LabelsStart == LabelsInit => LabelsIInv
<1> SUFFICES ASSUME LabelsInit PROVE LabelsIInv
  OBVIOUS
<1>1. /\ factory \in BOOLEAN /\ connected = FALSE /\ verdict = Unknown
      /\ image = <<>> /\ frames = <<>> /\ samples = <<>>
      /\ sampleAge = StaleAfter + 1 /\ spot \in LabelIds /\ still = VehicleMoves
  BY DEF LabelsInit
<1>2. LabelTypes
  <2>1. image \in Seq([label : LabelIds, right : BOOLEAN]) /\ Len(image) <= 1
    <3>1. <<>> \in Seq([label : LabelIds, right : BOOLEAN]) /\ Len(<<>>) = 0
      BY EmptySeq
    <3> QED
      BY <1>1, <3>1
  <2>2. sampleAge \in Nat
    BY <1>1, LabelsAssumption
  <2>3. connected \in BOOLEAN
    BY <1>1
  <2> QED
    BY <1>1, <2>1, <2>2, <2>3 DEF LabelTypes
<1> QED
  BY <1>1, <1>2 DEF LabelsIInv, OnlyRightGetsOut, LinkIsHere, ElsewhereIsOld

\* What a record adds is the label under the vehicle, seen right.
LEMMA RecordIsHere ==
    ASSUME LabelsIInv, StaleAfter < Stationary, RecordedWhereItLies, [LabelsNext]_labelVars
    PROVE  RecordedWhereItLies'
<1>1. CASE Record
  <2>1. PICK name \in LabelNames, role \in {"home", "dest"} :
          /\ Observe
          /\ SaveLabels(WithLabel(OldLabels,
               [id |-> Last(samples).label, name |-> name, role |-> role, over |-> spot,
                on |-> mapStamp, right |-> \A i \in DOMAIN samples : samples[i].right]))
    BY <1>1 DEF Record
  <2> DEFINE entry == [id |-> Last(samples).label, name |-> name, role |-> role, over |-> spot,
                       on |-> mapStamp, right |-> \A i \in DOMAIN samples : samples[i].right]
  <2>2. samples \in Seq(RightReadings) /\ samples # <<>>
    <3>1. Len(samples) >= FixFrames /\ FixFrames \in Nat /\ FixFrames > 0
      BY <2>1, LabelsAssumption DEF Observe
    <3>2. samples \in Seq(RightReadings)
      BY DEF LabelsIInv, OnlyRightGetsOut
    <3> QED
      BY <3>1, <3>2, EmptySeq
  <2>3. Last(samples).label = spot
    <3>1. sampleAge < still /\ sampleAge <= StaleAfter
      BY <2>1, LabelsAssumption DEF Observe, LabelsIInv, LabelTypes, VehicleMoves
    <3>2. sampleAge \in Nat /\ still \in Int /\ StaleAfter \in Nat
      BY LabelsAssumption DEF LabelsIInv, LabelTypes, VehicleMoves
    <3>3. ~(sampleAge >= still \/ sampleAge > StaleAfter)
      BY <3>1, <3>2
    <3> QED
      BY <2>2, <3>3 DEF LabelsIInv, ElsewhereIsOld
  <2>4. \A i \in DOMAIN samples : samples[i].right = TRUE
    <3>1. \A i \in DOMAIN samples : samples[i] \in RightReadings
      BY <2>2, LenProperties, ElementOfSeq
    <3> QED
      BY <3>1 DEF RightReadings
  <2>5. entry.id = entry.over /\ entry.right /\ entry.on = mapStamp
    BY <2>3, <2>4
  <2> HIDE DEF entry
  <2>6. CASE UNCHANGED setVars
    BY <2>6 DEF setVars, RecordedWhereItLies
  <2>7. CASE floorLabels' = WithLabel(OldLabels, entry) /\ labelsOf' = mapStamp
    <3>1. \A e \in OldLabels : e \in floorLabels /\ labelsOf = mapStamp
      BY DEF OldLabels
    <3>2. \A e \in floorLabels' : e = entry \/ e \in OldLabels
      BY <2>7 DEF WithLabel
    <3> QED
      BY <2>5, <2>7, <3>1, <3>2 DEF RecordedWhereItLies
  <2> QED
    BY <2>1, <2>6, <2>7, Zenon DEF entry, SaveLabels
<1>2. CASE ~Record
  <2>1. UNCHANGED <<floorLabels, labelsOf>>
    BY <1>2 DEF LabelsNext, labelVars, setVars, Connect, Drop, Reply, Judge, Image, Flush, Remake,
       Snapshot, PublishReadings, DriveOff, Rest, Elapse
  <2> QED
    BY <2>1 DEF RecordedWhereItLies
<1> QED
  BY <1>1, <1>2

-----------------------------------------------------------------------------
\* The set on disk is one that check_labels lets through, or none.
SetIsValid ==
    /\ \A a, b \in floorLabels : a # b => a.id # b.id /\ a.name # b.name
    /\ \A a, b \in floorLabels : a.role = "home" /\ b.role = "home" => a = b

\* A valid set with any entry is valid: with_label never makes a set that is refused.
LEMMA WithLabelIsValid ==
    ASSUME SetIsValid, NEW entry
    PROVE  CheckLabels(WithLabel(OldLabels, entry))
<1> DEFINE set == WithLabel(OldLabels, entry)
           homes == {e \in set : e.role = "home"}
<1>1. \A e \in set : e = entry \/ (/\ e \in floorLabels /\ e.id # entry.id /\ e.name # entry.name
                                  /\ ~(entry.role = "home" /\ e.role = "home"))
  BY DEF WithLabel, OldLabels
<1>2. set # {} /\ \A a, b \in set : a # b => a.id # b.id /\ a.name # b.name
  <2>1. entry \in set
    BY DEF WithLabel
  <2> HIDE DEF set
  <2> QED
    BY <1>1, <2>1 DEF SetIsValid
<1>3. \A a, b \in homes : a = b
  <2> HIDE DEF set
  <2> QED
    BY <1>1 DEF SetIsValid
<1>4. Cardinality(homes) <= 1
  <2> HIDE DEF homes
  <2>1. CASE homes = {}
    <3>1. Cardinality(homes) = 0
      BY <2>1, FS_EmptySet
    <3> QED
      BY <3>1
  <2>2. CASE homes # {}
    <3>1. PICK h \in homes : homes = {h}
      BY <1>3, <2>2
    <3>2. Cardinality(homes) = 1
      BY <3>1, FS_Singleton
    <3> QED
      BY <3>2
  <2> QED
    BY <2>1, <2>2
<1> QED
  BY <1>2, <1>4 DEF CheckLabels

\* A valid set has one place for a label.
LEMMA ValidHasOneHome ==
    ASSUME SetIsValid, NEW entry
    PROVE  \A a, b \in WithLabel(OldLabels, entry) :
             /\ a # b => a.id # b.id /\ a.name # b.name
             /\ a.role = "home" /\ b.role = "home" => a = b
BY DEF SetIsValid, WithLabel, OldLabels

\* Recording keeps a set valid.
LEMMA SetStaysValid ==
    ASSUME SetIsValid, [LabelsNext]_labelVars
    PROVE  /\ SetIsValid'
           /\ revision' # revision /\ labelsOf = mapStamp =>
                \E new \in floorLabels' : \A e \in floorLabels :
                  e \in floorLabels' \/ e.id = new.id \/ e.name = new.name
                                \/ (e.role = "home" /\ new.role = "home")
<1>1. CASE Record
  <2>1. PICK entry : SaveLabels(WithLabel(OldLabels, entry))
    BY <1>1 DEF Record
  <2>2. CASE UNCHANGED setVars
    BY <2>2 DEF setVars, SetIsValid
  <2>3. CASE floorLabels' = WithLabel(OldLabels, entry)
    <3>1. SetIsValid'
      BY <2>3, ValidHasOneHome DEF SetIsValid
    <3>2. entry \in floorLabels'
      BY <2>3 DEF WithLabel
    <3>3. \A e \in OldLabels : e \in floorLabels' \/ e.id = entry.id \/ e.name = entry.name
                                \/ (e.role = "home" /\ entry.role = "home")
      BY <2>3 DEF WithLabel
    <3>4. labelsOf = mapStamp => OldLabels = floorLabels
      BY DEF OldLabels
    <3> QED
      BY <3>1, <3>2, <3>3, <3>4
  <2> QED
    BY <2>1, <2>2, <2>3 DEF SaveLabels
<1>2. CASE ~Record
  <2>1. UNCHANGED <<floorLabels, revision>>
    BY <1>2 DEF LabelsNext, labelVars, setVars, Connect, Drop, Reply, Judge, Image, Flush, Remake,
       Snapshot, PublishReadings, DriveOff, Rest, Elapse
  <2> QED
    BY <2>1 DEF SetIsValid
<1> QED
  BY <1>1, <1>2

\* Only right images get out of the link, and a newest reading taken somewhere
\* else is as old as the rest of the wheels: in every reachable state, whenever
\* the camera restarts and whatever was in the link.
THEOREM LabelsInvariance == LabelsSpec => []LabelsIInv
<1>1. LabelsIInv /\ [LabelsNext]_labelVars => LabelsIInv'
  BY LabelStepKeeps
<1> QED
  BY <1>1, LabelsStart, PTL DEF LabelsSpec

\* A label is recorded where it lies (label_record.record), if a reading goes
\* stale in a shorter time than the wheels have to rest: stale_s 0.5 and
\* stationary_s 1.0 in the profiles shipped, and not checked by the configuration.
THEOREM LabelsAreRecordedHere ==
    ASSUME StaleAfter < Stationary
    PROVE  LabelsSpec => []RecordedWhereItLies
<1>1. LabelsInit => RecordedWhereItLies
  BY DEF LabelsInit, RecordedWhereItLies
<1>2. LabelsIInv /\ RecordedWhereItLies /\ [LabelsNext]_labelVars => RecordedWhereItLies'
  BY RecordIsHere
<1> QED
  BY <1>1, <1>2, LabelsInvariance, PTL DEF LabelsSpec

\* No record loses another label, and none is refused for the set it would make
\* (store.with_label, check_labels).
THEOREM LabelsAreKept == LabelsSpec => NoLabelIsLost
<1>1. LabelsInit => SetIsValid
  BY DEF LabelsInit, SetIsValid
<1>2. SetIsValid /\ [LabelsNext]_labelVars => SetIsValid'
  BY SetStaysValid
<1>3. SetIsValid /\ [LabelsNext]_labelVars =>
        [ /\ \A id \in LabelIds, name \in LabelNames, role \in {"home", "dest"} :
               CheckLabels(WithLabel(OldLabels, [id |-> id, name |-> name, role |-> role,
                                              over |-> id, on |-> mapStamp, right |-> TRUE]))
          /\ revision' # revision /\ labelsOf = mapStamp =>
               \E new \in floorLabels' : \A e \in floorLabels :
                 e \in floorLabels' \/ e.id = new.id \/ e.name = new.name
                               \/ (e.role = "home" /\ new.role = "home") ]_labelVars
  BY WithLabelIsValid, SetStaysValid
<1> QED
  BY <1>1, <1>2, <1>3, PTL DEF LabelsSpec, NoLabelIsLost

-----------------------------------------------------------------------------
(***************************************************************************)
(* Readiness of the localization.                                          *)
(***************************************************************************)

LongestUnfed == IF DrivesAge + 1 > AgeLimit + Grace THEN DrivesAge + 1 ELSE AgeLimit + Grace

\* The types of what the invariant counts with.
ReadinessTypes ==
    /\ fix \in {"UNLOCALIZED", "CHECKING", "READY", "LOST"} /\ canConfirm \in BOOLEAN
    /\ sincePose \in Nat \cup {Never} /\ torqueOff \in Nat \cup {Never}
    /\ age \in [Streams -> Nat] /\ torque \in BOOLEAN /\ unfed \in Nat

\* A pose that is checked or trusted was given, and no evidence in use is older.
PoseWasGiven == fix \in {"CHECKING", "READY"} => stale = {} /\ sincePose # Never

\* The monitor's clocks run no slower than the drives are without feedback.
ClocksTell ==
    /\ torque = FALSE => unfed = 0
    /\ unfed <= age["wheels"] \/ age["wheels"] > AgeLimit + Grace
    /\ torqueOff # Never => unfed <= torqueOff \/ torqueOff > DrivesAge

\* What READY demands also holds while the operator may confirm.
ConfirmableIsFed == fix = "READY" \/ canConfirm = TRUE => unfed <= LongestUnfed

ReadinessIInv == ReadinessTypes /\ PoseWasGiven /\ ClocksTell /\ ConfirmableIsFed

-----------------------------------------------------------------------------
\* A clock of the monitor: Never stays Never, and any other goes on or is past its bound.
LEMMA OlderIs ==
    ASSUME NEW n \in Nat \cup {Never}, NEW bound \in Nat
    PROVE  /\ Older(n, bound) \in Nat \cup {Never}
           /\ Older(n, bound) = Never <=> n = Never
           /\ n # Never => Older(n, bound) = n + 1 \/ (Older(n, bound) = n /\ n > bound)
BY DEF Older, Never

\* The limits, as they are assumed.
LEMMA LimitsAreNat ==
    /\ AgeLimit \in Nat /\ Grace \in Nat /\ AgeLimit + Grace \in Nat /\ DrivesAge \in Nat
    /\ Snap \in Nat /\ LongSilent \in Nat /\ LongestUnfed \in Nat
    /\ LongestUnfed >= AgeLimit + Grace /\ LongestUnfed >= DrivesAge
    /\ "wheels" \in Streams
BY ReadinessAssumption DEF LongSilent, LongestUnfed

\* What the tick does to the clocks of the invariant.
LEMMA TickTells ==
    ASSUME ReadinessTypes, ClocksTell, NEW frame, Tick(frame)
    PROVE  /\ sincePose' \in Nat \cup {Never} /\ torqueOff' \in Nat \cup {Never}
           /\ age' \in [Streams -> Nat] /\ unfed' \in Nat
           /\ sincePose # Never => sincePose' # Never
           /\ ClocksTell'
<1> USE LimitsAreNat
<1>1. /\ sincePose' = Older(sincePose, Snap)
      /\ torqueOff' = Older(torqueOff, DrivesAge)
      /\ age' = [s \in Streams |-> IF s = "tf" /\ frame \in {"new", "corrected"} THEN 0
                                   ELSE Older(age[s], AgeLimit + Grace)]
      /\ unfed' = IF torque THEN Older(unfed, DrivesAge + LongSilent) ELSE 0
      /\ torque' = torque
  BY DEF Tick
<1>2. /\ sincePose' \in Nat \cup {Never} /\ (sincePose # Never => sincePose' # Never)
  BY <1>1, OlderIs DEF ReadinessTypes
<1>3. /\ torqueOff' \in Nat \cup {Never}
      /\ torqueOff = Never => torqueOff' = Never
      /\ torqueOff # Never => torqueOff' = torqueOff + 1
                              \/ (torqueOff' = torqueOff /\ torqueOff > DrivesAge)
  BY <1>1, OlderIs DEF ReadinessTypes
<1>4. age' \in [Streams -> Nat]
  <2>1. \A s \in Streams : Older(age[s], AgeLimit + Grace) \in Nat
    <3> TAKE s \in Streams
    <3>1. age[s] \in Nat
      BY DEF ReadinessTypes
    <3> QED
      BY <3>1 DEF Older
  <2> QED
    BY <1>1, <2>1
<1>5. age'["wheels"] = age["wheels"] + 1
        \/ (age'["wheels"] = age["wheels"] /\ age["wheels"] > AgeLimit + Grace)
  <2>1. age'["wheels"] = Older(age["wheels"], AgeLimit + Grace)
    BY <1>1
  <2>2. age["wheels"] \in Nat
    BY DEF ReadinessTypes
  <2> QED
    BY <2>1, <2>2 DEF Older, Never
<1>6. unfed' \in Nat /\ unfed' <= unfed + 1 /\ (torque = FALSE => unfed' = 0)
  <2>1. unfed \in Nat /\ torque \in BOOLEAN
    BY DEF ReadinessTypes
  <2>2. CASE torque = TRUE
    BY <1>1, <2>1, <2>2 DEF Older
  <2>3. CASE torque = FALSE
    BY <1>1, <2>1, <2>3
  <2> QED
    BY <2>1, <2>2, <2>3
<1>7. ClocksTell'
  <2>1. unfed \in Nat /\ age["wheels"] \in Nat /\ torqueOff \in Nat \cup {Never}
    BY DEF ReadinessTypes
  <2>2. torque' = FALSE => unfed' = 0
    BY <1>1, <1>6
  <2>3. unfed' <= age'["wheels"] \/ age'["wheels"] > AgeLimit + Grace
    BY <1>5, <1>6, <2>1 DEF ClocksTell
  <2>4. torqueOff' # Never => unfed' <= torqueOff' \/ torqueOff' > DrivesAge
    BY <1>3, <1>6, <2>1 DEF ClocksTell, Never
  <2> QED
    BY <2>2, <2>3, <2>4 DEF ClocksTell
<1> QED
  BY <1>2, <1>3, <1>4, <1>6, <1>7

\* No stream but an excused one is silent for longer than READY waits.
LEMMA FedIsBounded ==
    ASSUME unfed' \in Nat, age' \in [Streams -> Nat], torqueOff' \in Nat \cup {Never},
           ClocksTell', SilentTooLong = {}
    PROVE  unfed' <= LongestUnfed
<1> USE LimitsAreNat
<1>1. CASE "wheels" \in Excused
  BY <1>1 DEF Excused, ClocksTell, Never
<1>2. CASE "wheels" \notin Excused
  <2>1. ~(age'["wheels"] > AgeLimit + Grace)
    <3>1. SUFFICES ASSUME age'["wheels"] > AgeLimit + Grace PROVE FALSE
      OBVIOUS
    <3>2. age'["wheels"] \in Nat
      OBVIOUS
    <3>3. "wheels" \in Silent
      BY <1>2, <3>1, <3>2 DEF Silent
    <3>4. "wheels" \in SilentTooLong
      BY <3>1, <3>3 DEF SilentTooLong
    <3> QED
      BY <3>4
  <2>2. age'["wheels"] \in Nat
    OBVIOUS
  <2> QED
    BY <2>1, <2>2 DEF ClocksTell
<1> QED
  BY <1>1, <1>2

\* A tick of the monitor keeps the invariant.
LEMMA TickKeepsReadiness ==
    ASSUME ReadinessIInv, NEW frame, Tick(frame)
    PROVE  ReadinessIInv'
<1>1. /\ ReadinessTypes /\ PoseWasGiven /\ ClocksTell /\ ConfirmableIsFed
  BY DEF ReadinessIInv
<1>2. /\ sincePose' \in Nat \cup {Never} /\ torqueOff' \in Nat \cup {Never}
      /\ age' \in [Streams -> Nat] /\ unfed' \in Nat
      /\ sincePose # Never => sincePose' # Never
      /\ ClocksTell'
  BY <1>1, TickTells
<1>3. stale' = stale /\ torque' = torque
  BY DEF Tick
<1>4. CASE fix = "READY" /\ Jumps(frame)
  <2>1. Lost
    BY <1>4 DEF Tick
  <2> QED
    BY <1>1, <1>2, <1>3, <2>1
       DEF Lost, ReadinessIInv, ReadinessTypes, PoseWasGiven, ConfirmableIsFed
<1>5. CASE fix = "READY" /\ ~Jumps(frame)
  <2>1. EvaluateReady
    BY <1>5 DEF Tick
  <2>2. CASE Lost
    BY <1>1, <1>2, <1>3, <2>2
       DEF Lost, ReadinessIInv, ReadinessTypes, PoseWasGiven, ConfirmableIsFed
  <2>3. CASE SilentTooLong = {} /\ UNCHANGED <<fix, canConfirm>>
    <3>1. unfed' <= LongestUnfed
      BY <1>2, <2>3, FedIsBounded
    <3> QED
      BY <1>1, <1>2, <1>3, <2>3, <3>1
         DEF ReadinessIInv, ReadinessTypes, PoseWasGiven, ConfirmableIsFed
  <2> QED
    BY <2>1, <2>2, <2>3 DEF EvaluateReady
<1>6. CASE fix = "CHECKING"
  <2>1. canConfirm' = (InOrder /\ steady' >= Settle) /\ fix' = fix
    BY <1>6 DEF Tick, EvaluateChecking
  <2>2. canConfirm' \in BOOLEAN
    BY <2>1, Zenon
  <2>3. canConfirm' = TRUE => unfed' <= LongestUnfed
    <3>1. canConfirm' = TRUE => Silent = {}
      BY <2>1, Zenon DEF InOrder
    <3>2. Silent = {} => SilentTooLong = {}
      BY DEF SilentTooLong
    <3> QED
      BY <1>2, <3>1, <3>2, FedIsBounded
  <2> QED
    BY <1>1, <1>2, <1>3, <1>6, <2>1, <2>2, <2>3
       DEF ReadinessIInv, ReadinessTypes, PoseWasGiven, ConfirmableIsFed
<1>7. CASE fix \in {"UNLOCALIZED", "LOST"}
  <2>1. canConfirm' = FALSE /\ fix' = fix
    BY <1>7 DEF Tick
  <2> QED
    BY <1>1, <1>2, <1>3, <1>7, <2>1
       DEF ReadinessIInv, ReadinessTypes, PoseWasGiven, ConfirmableIsFed
<1> QED
  BY <1>1, <1>4, <1>5, <1>6, <1>7 DEF ReadinessTypes

\* Every step keeps it.
LEMMA ReadinessStep ==
    ASSUME ReadinessIInv, [ReadinessNext]_readinessVars
    PROVE  ReadinessIInv'
<1> USE DEF ReadinessIInv
<1>1. CASE InitialPose
  <2>1. /\ fix' = "CHECKING" /\ canConfirm' = FALSE /\ stale' = {} /\ sincePose' = 0
        /\ UNCHANGED feedVars
    BY <1>1 DEF InitialPose, ClearEvidence
  <2>2. ClocksTell' /\ PoseWasGiven' /\ ConfirmableIsFed'
    BY <2>1 DEF feedVars, PoseWasGiven, ClocksTell, ConfirmableIsFed, Never
  <2>3. ReadinessTypes'
    BY <2>1 DEF feedVars, ReadinessTypes
  <2> QED
    BY <2>2, <2>3
<1>2. CASE Reset
  BY <1>2 DEF Reset, ClearEvidence, feedVars, ReadinessTypes, PoseWasGiven, ClocksTell,
              ConfirmableIsFed, Never
<1>3. CASE Confirm
  <2>1. /\ fix = "CHECKING" /\ canConfirm /\ fix' = "READY"
        /\ UNCHANGED <<canConfirm, sincePose, feedVars, stale>>
    BY <1>3 DEF Confirm
  <2>2. unfed <= LongestUnfed
    BY <2>1 DEF ConfirmableIsFed, ReadinessTypes
  <2> QED
    BY <2>1, <2>2 DEF feedVars, ReadinessTypes, PoseWasGiven, ClocksTell, ConfirmableIsFed
\* Evidence that comes too early is not taken while a pose is checked or trusted.
<1>4. ASSUME NEW what, NEW early \in BOOLEAN, Taken(early),
             stale' = stale \ {what} \/ stale' = Stamped(what, early),
             fix \in {"CHECKING", "READY"}
      PROVE  stale' = {}
  <2>1. sincePose # Never /\ stale = {}
    BY <1>4 DEF PoseWasGiven
  <2>2. ~early
    BY <1>4, <2>1 DEF Taken
  <2> QED
    BY <1>4, <2>1, <2>2 DEF Stamped
<1>5. ASSUME NEW value, NEW early \in BOOLEAN, AmclPose(value, early)
      PROVE  ReadinessIInv'
  <2>1. /\ Taken(early) /\ UNCHANGED <<attemptVars, feedVars>>
        /\ stale' = stale \ {"cov"} \/ stale' = Stamped("cov", early)
    BY <1>5 DEF AmclPose
  <2>2. PoseWasGiven'
    BY <1>4, <2>1 DEF PoseWasGiven, attemptVars
  <2> QED
    BY <2>1, <2>2 DEF attemptVars, feedVars, ReadinessTypes, ClocksTell, ConfirmableIsFed
<1>6. ASSUME NEW value, NEW early \in BOOLEAN, ScanMatch(value, early)
      PROVE  ReadinessIInv'
  <2>1. /\ Taken(early) /\ UNCHANGED <<sincePose, feedVars>>
        /\ stale' = stale \ {"match"} \/ stale' = Stamped("match", early)
        /\ Lost \/ UNCHANGED <<fix, canConfirm>>
    BY <1>6 DEF ScanMatch
  <2>2. PoseWasGiven'
    BY <1>4, <2>1 DEF PoseWasGiven, Lost
  <2> QED
    BY <2>1, <2>2 DEF Lost, feedVars, ReadinessTypes, ClocksTell, ConfirmableIsFed
<1>7. ASSUME NEW s \in Streams, Hear(s) PROVE ReadinessIInv'
  <2>1. /\ age' = [age EXCEPT ![s] = 0]
        /\ unfed' = IF s = "wheels" THEN 0 ELSE unfed
        /\ UNCHANGED <<attemptVars, torqueOff, torque, stale>>
    BY <1>7 DEF Hear
  <2>2. age' \in [Streams -> Nat] /\ unfed' \in Nat /\ unfed' <= unfed
    BY <2>1 DEF ReadinessTypes
  <2>3. ClocksTell'
    <3>1. torque' = FALSE => unfed' = 0
      BY <2>1 DEF ClocksTell
    <3>2. unfed' <= age'["wheels"] \/ age'["wheels"] > AgeLimit + Grace
      BY <2>1, LimitsAreNat DEF ClocksTell, ReadinessTypes
    <3>3. torqueOff' # Never => unfed' <= torqueOff' \/ torqueOff' > DrivesAge
      BY <2>1, <2>2, LimitsAreNat DEF ClocksTell, ReadinessTypes, Never
    <3> QED
      BY <3>1, <3>2, <3>3 DEF ClocksTell
  <2>4. ConfirmableIsFed'
    BY <2>1, <2>2, LimitsAreNat DEF ConfirmableIsFed, ReadinessTypes, attemptVars
  <2> QED
    BY <2>1, <2>2, <2>3, <2>4 DEF ReadinessTypes, PoseWasGiven, attemptVars
<1>8. CASE TorqueChanges
  <2>1. /\ torque' \in BOOLEAN /\ unfed' = 0
        /\ UNCHANGED <<attemptVars, age, torqueOff, stale>>
    BY <1>8, Zenon DEF TorqueChanges, ReadinessTypes
  <2> QED
    BY <2>1, LimitsAreNat
       DEF ReadinessTypes, PoseWasGiven, ClocksTell, ConfirmableIsFed, attemptVars, Never
<1>9. CASE DriveStatus
  <2>1. /\ torqueOff' = IF torque THEN Never ELSE 0
        /\ UNCHANGED <<attemptVars, age, torque, unfed, stale>>
    BY <1>9 DEF DriveStatus
  <2>2. torqueOff' # Never => torqueOff' = 0 /\ torque = FALSE
    BY <2>1 DEF ReadinessTypes
  <2> QED
    BY <2>1, <2>2 DEF ReadinessTypes, PoseWasGiven, ClocksTell, ConfirmableIsFed, attemptVars
<1>10. CASE UNCHANGED readinessVars
  BY <1>10 DEF ReadinessTypes, PoseWasGiven, ClocksTell, ConfirmableIsFed,
               readinessVars, estimateVars, attemptVars, feedVars
<1> QED
  BY <1>1, <1>2, <1>3, <1>5, <1>6, <1>7, <1>8, <1>9, <1>10, TickKeepsReadiness DEF ReadinessNext

\* A pose that is checked or trusted was given, its evidence is of it, and the
\* monitor's clocks cover every tick the drives go without feedback.
THEOREM ReadinessInvariance == ReadinessSpec => []ReadinessIInv
<1>1. ReadinessInit => ReadinessIInv
  <2> SUFFICES ASSUME ReadinessInit PROVE ReadinessIInv
    OBVIOUS
  <2>1. ReadinessTypes
    BY LimitsAreNat DEF ReadinessInit, ReadinessTypes
  <2>2. PoseWasGiven
    BY DEF ReadinessInit, PoseWasGiven
  <2>3. unfed = 0 /\ torqueOff = Never /\ age["wheels"] > AgeLimit + Grace
    BY LimitsAreNat DEF ReadinessInit, LongSilent
  <2>4. ClocksTell
    BY <2>3 DEF ClocksTell
  <2>5. unfed <= LongestUnfed
    BY <2>3, LimitsAreNat
  <2> QED
    BY <2>1, <2>2, <2>4, <2>5 DEF ReadinessIInv, ConfirmableIsFed
<1>2. ReadinessIInv /\ [ReadinessNext]_readinessVars => ReadinessIInv'
  BY ReadinessStep
<1> QED
  BY <1>1, <1>2, PTL DEF ReadinessSpec

\* READY is earned by evidence of this pose and lost with the wheels
\* (readiness.Readiness), for every set of streams and every limit.
THEOREM EarnedReady == ReadinessSpec => []ReadyIsEarned
<1>1. ReadinessIInv => ReadyIsEarned
  BY DEF ReadinessIInv, PoseWasGiven, ConfirmableIsFed, LongestUnfed, ReadyIsEarned,
         EvidenceIsOfThisPose, ReadyFollowsWheels
<1> QED
  BY <1>1, ReadinessInvariance, PTL
=============================================================================
