-------------------------- MODULE RoutePlanProofs --------------------------
(***************************************************************************)
(* RoutePlan, proved for every map, route, number of routes and speed.     *)
(*                                                                         *)
(* The invariant ties what is saved to what it was saved from: a saved     *)
(* route is well formed, its poses follow from its steps, its moves are    *)
(* what those compile to, and what the server approved of it holds.  Three *)
(* properties follow from it by what the moves are: the cells swept        *)
(* include those stood on, a chain is cut where it comes by its goal, and  *)
(* the cap of every metre looks ahead to every step of the move.           *)
(*                                                                         *)
(* A second invariant, BranchIInv, ties the branch that is drawn to the    *)
(* main route it is drawn on: while it is open the draft begins with that  *)
(* route's steps, once it is closed its own steps lead from where it       *)
(* leaves to where the main route goes on.  That a branch runs as drawn    *)
(* follows: the same steps from the same pose end where they did.          *)
(***************************************************************************)
EXTENDS RoutePlan, SequenceTheorems, FiniteSetTheorems, WellFoundedInduction, TLAPS

\* What a route, a step and a move are; a map and a saved route never change.
Points == Int \X Int
Headings == {<<1, 0>>, <<0, 1>>, <<-1, 0>>, <<0, -1>>}
PoseType == [at : Points, d : Headings]
Kinds == {"straight", "rotate", "arc", "reverse", "wait", "home"}

\* The ids of steps, s for a main route's, b for a branch's, s_2 for what a branch leaves over.
StepIds == {"s", "b", "s_2"} \X Nat

StepType ==
    {s \in [kind : Kinds, id : StepIds, to : Points, turn : {-2, -1, 0, 1, 2}, v : 1..RouteSpeed] :
        s.kind = "arc" => s.turn \in {1, 2}}

BranchType ==
    {b \in [of : Nat, leave : StepIds \cup {NoId}, rejoin : StepIds \cup {NoId},
            own : Seq(StepIds), at : Points \cup {<<>>}, split : StepIds \cup {NoId}] :
        /\ b.of = 0 => b = NoBranch
        /\ b.at # <<>> => b.split # NoId}

RouteType ==
    {r \in [start : PoseType, steps : Seq(StepType), repeat : {1, 3}, branch : BranchType,
            poses : Seq(PoseType)] : r.poses = Poses(r.start, r.steps)}

MoveType ==
    [kind : Kinds, start : PoseType, end : PoseType, curved : BOOLEAN, path : Seq(PoseType),
     v : 1..RouteSpeed]

SavedType ==
    {e \in [route : RouteType, moves : Seq(MoveType), gone : BOOLEAN] : e.moves = Compiled(e.route)}

\* What the server approved of a route, and nothing changes later.
Holds(r) == Compiles(r) /\ Cleared(r) /\ (r.repeat > 1 => Closes(r))

PlanTypes ==
    /\ draft \in RouteType /\ picked \in [of : Nat, route : RouteType]
    /\ mains \in Seq(SavedType) /\ poss \in Seq(SavedType)

SavedHolds == \A e \in Saved : Holds(e.route)

\* A branch that is open leaves after a step of the main route picked.
OpenLeaves ==
    IsOpen(draft) /\ picked.of = draft.branch.of =>
        draft.branch.leave \in Ids(picked.route.steps)

PlanIInv == PlanTypes /\ SavedHolds /\ OpenLeaves

-----------------------------------------------------------------------------
\* A set of integers between two bounds has a least and a greatest element.
LEMMA LeastOf ==
    ASSUME NEW a \in Int, NEW b \in Int, NEW S \in SUBSET (a..b), S # {}
    PROVE  Smallest(S) \in S /\ \A m \in S : Smallest(S) <= m
<1> DEFINE U == {s - a : s \in S}
<1>1. U \in SUBSET Nat /\ U # {}
  <2>1. \A s \in S : s - a \in Nat
    OBVIOUS
  <2>2. PICK s \in S : TRUE
    OBVIOUS
  <2> QED
    BY <2>1, <2>2
<1>2. PICK u \in U : \A v \in U : ~(<<v, u>> \in OpToRel(<, Nat))
  <2> HIDE DEF U
  <2> QED
    BY <1>1, WFMin, NatLessThanWellFounded, Zenon
<1>3. PICK s \in S : u = s - a
  BY <1>2
<1>4. ASSUME NEW m \in S PROVE s <= m
  <2>1. m - a \in U /\ m - a \in Nat /\ u \in Nat
    BY <1>1, <1>2
  <2>2. \A i, j \in Nat : i < j => <<i, j>> \in OpToRel(<, Nat)
    BY DEF OpToRel
  <2>3. ~(m - a < u)
    <3> HIDE DEF U
    <3> QED
      BY <1>2, <2>1, <2>2, Zenon
  <2> QED
    BY <1>3, <2>1, <2>3
<1> QED
  BY <1>3, <1>4 DEF Smallest

\* ... and a greatest one.
LEMMA GreatestOf ==
    ASSUME NEW a \in Int, NEW b \in Int, NEW S \in SUBSET (a..b), S # {}
    PROVE  Greatest(S) \in S /\ \A m \in S : Greatest(S) >= m
<1> DEFINE U == {b - s : s \in S}
<1>1. U \in SUBSET Nat /\ U # {}
  <2>1. \A s \in S : b - s \in Nat
    OBVIOUS
  <2>2. PICK s \in S : TRUE
    OBVIOUS
  <2> QED
    BY <2>1, <2>2
<1>2. PICK u \in U : \A v \in U : ~(<<v, u>> \in OpToRel(<, Nat))
  <2> HIDE DEF U
  <2> QED
    BY <1>1, WFMin, NatLessThanWellFounded, Zenon
<1>3. PICK s \in S : u = b - s
  BY <1>2
<1>4. ASSUME NEW m \in S PROVE s >= m
  <2>1. b - m \in U /\ b - m \in Nat /\ u \in Nat
    BY <1>1, <1>2
  <2>2. \A i, j \in Nat : i < j => <<i, j>> \in OpToRel(<, Nat)
    BY DEF OpToRel
  <2>3. ~(b - m < u)
    <3> HIDE DEF U
    <3> QED
      BY <1>2, <2>1, <2>2, Zenon
  <2> QED
    BY <1>3, <2>1, <2>3
<1> QED
  BY <1>3, <1>4 DEF Greatest

-----------------------------------------------------------------------------
(* The plane.                                                              *)

\* Turns and moves lead from pose to pose.
LEMMA TurnsArePoses ==
    ASSUME NEW p \in PoseType, NEW t \in {-2, -1, 0, 1, 2}
    PROVE  /\ Rot(p.d, t) \in Headings /\ Turned(p, t) \in PoseType /\ ArcQuarter(p, t) \in PoseType
           /\ Turned(p, t).at = p.at
<1>1. Rot(p.d, t) \in Headings
  BY DEF PoseType, Headings, Rot
<1>2. /\ p.at[1] \in Int /\ p.at[2] \in Int
      /\ p.d[1] \in Int /\ p.d[2] \in Int /\ Rot(p.d, t)[1] \in Int /\ Rot(p.d, t)[2] \in Int
  BY <1>1 DEF PoseType, Points, Headings
<1>3. Turned(p, t) = [at |-> p.at, d |-> Rot(p.d, t)]
  BY DEF Turned, PoseType
<1>4. ArcQuarter(p, t) \in PoseType
  BY <1>1, <1>2 DEF ArcQuarter, Pose, PoseType, Points
<1> QED
  BY <1>1, <1>3, <1>4 DEF PoseType

\* Metres ahead, or behind, leads to a pose of the same heading.
LEMMA AheadIsPose ==
    ASSUME NEW p \in PoseType, NEW k \in Int
    PROVE  /\ Ahead(p, k) \in PoseType
           /\ Ahead(p, k) = [at |-> <<p.at[1] + k * p.d[1], p.at[2] + k * p.d[2]>>, d |-> p.d]
<1>1. /\ p.at[1] \in Int /\ p.at[2] \in Int /\ p.d[1] \in Int /\ p.d[2] \in Int
  BY DEF PoseType, Points, Headings
<1>2. k * p.d[1] \in Int /\ k * p.d[2] \in Int
  BY <1>1
<1>3. Ahead(p, k) = [at |-> <<p.at[1] + k * p.d[1], p.at[2] + k * p.d[2]>>, d |-> p.d]
  BY DEF Ahead, PoseType
<1> QED
  BY <1>1, <1>2, <1>3 DEF PoseType, Points

\* How far ahead and to the left a point lies is a number.
LEMMA OffsetsAreInt ==
    ASSUME NEW p \in PoseType, NEW c \in Points
    PROVE  Along(p, c) \in Int /\ Lateral(p, c) \in Int
<1>1. /\ p.at[1] \in Int /\ p.at[2] \in Int /\ p.d[1] \in Int /\ p.d[2] \in Int
      /\ c[1] \in Int /\ c[2] \in Int
  BY DEF PoseType, Points, Headings
<1> QED
  BY <1>1 DEF Along, Lateral

\* Where a step ends is a pose.
LEMMA EndsArePoses ==
    ASSUME NEW home \in PoseType, NEW p \in PoseType, NEW s \in StepType
    PROVE  EndOfStep(home, p, s) \in PoseType
<1>1. s.to \in Points /\ s.turn \in {-2, -1, 0, 1, 2} /\ s.kind \in Kinds
  BY DEF StepType
<1>2. [p EXCEPT !.at = s.to] \in PoseType
  BY <1>1 DEF PoseType
<1>3. Ahead(p, -1) \in PoseType
  BY AheadIsPose
<1>4. ArcQuarter(p, 1) \in PoseType /\ ArcQuarter(p, s.turn) \in PoseType /\ Turned(p, s.turn) \in PoseType
  BY <1>1, TurnsArePoses
<1>5. ArcQuarter(ArcQuarter(p, 1), 1) \in PoseType
  BY <1>4, TurnsArePoses
<1> QED
  BY <1>2, <1>3, <1>4, <1>5 DEF EndOfStep

\* What holds of a, and of a number when it holds of the one before, holds from a on.
LEMMA UpFrom ==
    ASSUME NEW T, NEW a \in Int, NEW b \in Int, a \in T, \A i \in (a + 1)..b : i - 1 \in T => i \in T
    PROVE  \A i \in a..b : i \in T
<1> DEFINE Bad == {m \in a..b : m \notin T}
<1> SUFFICES ASSUME Bad # {} PROVE FALSE
  OBVIOUS
<1>1. PICK m \in Bad : \A k \in Bad : m <= k
  <2>1. Bad \in SUBSET (a..b)
    OBVIOUS
  <2> HIDE DEF Bad
  <2> QED
    BY <2>1, LeastOf
<1>2. m \in a..b /\ m \notin T /\ m # a
  BY <1>1
<1>3. m \in (a + 1)..b /\ m - 1 \in a..b /\ ~(m <= m - 1)
  BY <1>2
<1>4. m - 1 \notin Bad
  <2> HIDE DEF Bad
  <2> QED
    BY <1>1, <1>3
<1> QED
  BY <1>2, <1>3, <1>4

\* From a to b, f takes the value x and then the one F makes of the value before.
Recurs(S, x, a, b, F, f) ==
    f \in [a..b -> S] /\ \A i \in a..b : f[i] = IF i = a THEN x ELSE F[i][f[i - 1]]

\* A function defined from the value before exists.
LEMMA RecursionRuns ==
    ASSUME NEW S, NEW x \in S, NEW a \in Int, NEW b \in Int, NEW F \in [(a + 1)..b -> [S -> S]]
    PROVE  \E f : Recurs(S, x, a, b, F, f)
<1> DEFINE Runs(f, m) == Recurs(S, x, a, m, F, f)
           T == {m \in a..b : \E f : Runs(f, m)}
<1>1. CASE b < a
  <2> DEFINE f == [i \in a..b |-> x]
  <2>1. f \in [a..b -> S] /\ \A i \in a..b : FALSE
    BY <1>1
  <2>2. Recurs(S, x, a, b, F, f)
    <3> HIDE DEF f
    <3> QED
      BY <2>1 DEF Recurs
  <2> QED
    BY <2>2
<1>2. CASE a <= b
  <2>1. a \in T
    <3> DEFINE f == [i \in a..a |-> x]
    <3>1. \A i \in a..a : i = a
      OBVIOUS
    <3>2. Runs(f, a) /\ a \in a..b
      BY <1>2, <3>1 DEF Recurs
    <3> QED
      BY <3>2
  <2>2. ASSUME NEW m \in (a + 1)..b, m - 1 \in T PROVE m \in T
    <3>1. PICK g : Runs(g, m - 1)
      BY <2>2
    <3> DEFINE new == F[m][g[m - 1]]
               h == [i \in a..m |-> IF i = m THEN new ELSE g[i]]
    <3>2. m - 1 \in a..(m - 1) /\ g[m - 1] \in S /\ new \in S
      <4>1. m - 1 \in a..(m - 1)
        BY <2>2
      <4>2. g[m - 1] \in S
        BY <3>1, <4>1 DEF Recurs
      <4> QED
        BY <4>1, <4>2
    <3> HIDE DEF new
    <3>3. m # a /\ m \in a..b /\ \A i \in a..m : i # m => i \in a..(m - 1)
      BY <2>2
    <3>4. h \in [a..m -> S]
      BY <3>1, <3>2, <3>3 DEF Recurs
    <3>5. ASSUME NEW i \in a..m PROVE h[i] = IF i = a THEN x ELSE F[i][h[i - 1]]
      <4>1. i # a => i - 1 \in a..m /\ i - 1 # m
        BY <2>2
      <4>2. i # a => h[i - 1] = g[i - 1]
        BY <4>1
      <4>3. CASE i = m
        <5>1. h[i] = new
          BY <4>3
        <5> HIDE DEF h
        <5> QED
          BY <3>3, <4>2, <4>3, <5>1 DEF new
      <4>4. CASE i # m
        <5>1. h[i] = g[i] /\ i \in a..(m - 1)
          BY <3>3, <4>4
        <5> HIDE DEF h
        <5> QED
          BY <3>1, <4>2, <5>1 DEF Recurs
      <4> QED
        BY <4>3, <4>4
    <3>6. Runs(h, m)
      <4> HIDE DEF h
      <4> QED
        BY <3>4, <3>5 DEF Recurs
    <3> QED
      BY <3>3, <3>6
  <2>3. b \in T
    <3>1. \A i \in (a + 1)..b : i - 1 \in T => i \in T
      BY <2>2
    <3>2. b \in a..b
      BY <1>2
    <3> HIDE DEF T
    <3> QED
      BY <2>1, <3>1, <3>2, UpFrom
  <2>4. PICK f : Runs(f, b)
    BY <2>3
  <2> QED
    BY <2>4
<1> QED
  BY <1>1, <1>2

-----------------------------------------------------------------------------
(* The poses of a route.                                                   *)

\* The value that TLC evaluates once.
LEMMA TheOnlyOne == ASSUME NEW x PROVE (CHOOSE q \in {x} : TRUE) = x
  OBVIOUS

\* The poses a route has: its start, and after each step where that ends.
LEMMA PosesFollow ==
    ASSUME NEW start \in PoseType, NEW steps \in Seq(StepType)
    PROVE  /\ Poses(start, steps) \in [1..(Len(steps) + 1) -> PoseType]
           /\ Poses(start, steps)[1] = start
           /\ \A i \in 1..Len(steps) :
                 Poses(start, steps)[i + 1] = EndOfStep(start, Poses(start, steps)[i], steps[i])
<1> DEFINE n == Len(steps)
           Next1(x, i) == CHOOSE q \in {EndOfStep(start, p, steps[i]) : p \in {x}} : TRUE
           F == [i \in 2..(n + 1) |-> [p \in PoseType |-> EndOfStep(start, p, steps[i - 1])]]
           Rec(g) == g = [i \in 1..(n + 1) |-> IF i = 1 THEN start ELSE Next1(g[i - 1], i - 1)]
<1>1. n \in Nat /\ \A i \in 1..n : steps[i] \in StepType
  BY LenProperties, ElementOfSeq
<1>2. \A x, i : Next1(x, i) = EndOfStep(start, x, steps[i])
  BY Zenon, TheOnlyOne
<1>3. \A p \in PoseType, i \in 1..n : EndOfStep(start, p, steps[i]) \in PoseType
  BY <1>1, EndsArePoses
<1>4. /\ F \in [2..(n + 1) -> [PoseType -> PoseType]]
      /\ \A i \in 2..(n + 1), p \in PoseType : F[i][p] = EndOfStep(start, p, steps[i - 1])
  <2>1. \A i \in 2..(n + 1) : i - 1 \in 1..n
    BY <1>1
  <2> QED
    BY <1>3, <2>1
<1> HIDE DEF F, n
<1>5. PICK g \in [1..(n + 1) -> PoseType] :
          \A i \in 1..(n + 1) : g[i] = IF i = 1 THEN start ELSE F[i][g[i - 1]]
  <2> DEFINE a == 1
             b == n + 1
  <2>1. a \in Int /\ b \in Int /\ F \in [(a + 1)..b -> [PoseType -> PoseType]]
    BY <1>1, <1>4
  <2> HIDE DEF a, b
  <2>2. \E g : Recurs(PoseType, start, a, b, F, g)
    BY <2>1, RecursionRuns, Zenon
  <2> QED
    BY <2>2 DEF a, b, Recurs
<1>6. Rec(g)
  <2>1. ASSUME NEW i \in 1..(n + 1), i # 1 PROVE g[i] = Next1(g[i - 1], i - 1)
    <3>1. i \in 2..(n + 1) /\ i - 1 \in 1..(n + 1)
      BY <1>1, <2>1
    <3>2. g[i] = EndOfStep(start, g[i - 1], steps[i - 1])
      BY <1>4, <1>5, <2>1, <3>1
    <3> QED
      BY <1>2, <3>2, Zenon
  <2> HIDE DEF Next1
  <2> QED
    BY <1>5, <2>1
<1>7. Rec(Poses(start, steps))
  <2>1. Poses(start, steps) = CHOOSE f : Rec(f)
    BY DEF Poses, n
  <2> HIDE DEF Rec
  <2> QED
    BY <1>6, <2>1, Zenon
<1> DEFINE f == Poses(start, steps)
<1>8. /\ DOMAIN f = 1..(n + 1) /\ f = [i \in DOMAIN f |-> f[i]]
      /\ \A i \in 1..(n + 1) : f[i] = IF i = 1 THEN start ELSE EndOfStep(start, f[i - 1], steps[i - 1])
  <2> HIDE DEF Next1, f
  <2>1. f = [i \in 1..(n + 1) |-> IF i = 1 THEN start ELSE Next1(f[i - 1], i - 1)]
    BY <1>7 DEF f
  <2>2. DOMAIN f = 1..(n + 1) /\ f = [i \in DOMAIN f |-> f[i]]
    BY <2>1
  <2>3. \A i \in 1..(n + 1) : f[i] = IF i = 1 THEN start ELSE Next1(f[i - 1], i - 1)
    BY <2>1
  <2> QED
    BY <1>2, <2>2, <2>3, Zenon
<1> HIDE DEF f
<1>9. f[1] = start /\ \A i \in 1..n : f[i + 1] = EndOfStep(start, f[i], steps[i])
  <2>1. 1 \in 1..(n + 1)
    BY <1>1
  <2>2. ASSUME NEW i \in 1..n PROVE f[i + 1] = EndOfStep(start, f[i], steps[i])
    <3>1. i + 1 \in 1..(n + 1) /\ i + 1 # 1 /\ (i + 1) - 1 = i
      BY <1>1
    <3> QED
      BY <1>8, <3>1
  <2> QED
    BY <1>8, <2>1, <2>2
<1>10. \A i \in 1..(n + 1) : f[i] \in PoseType
  <2> DEFINE T == {i \in 1..(n + 1) : f[i] \in PoseType}
  <2>1. 1 \in T /\ 1 \in Int /\ n + 1 \in Int
    BY <1>1, <1>9
  <2>2. ASSUME NEW i \in (1 + 1)..(n + 1), i - 1 \in T PROVE i \in T
    <3>1. i - 1 \in 1..n /\ (i - 1) + 1 = i /\ i \in 1..(n + 1)
      BY <1>1
    <3> QED
      BY <1>3, <1>9, <2>2, <3>1
  <2>3. \A i \in 1..(n + 1) : i \in T
    <3> HIDE DEF T
    <3> QED
      BY <2>1, <2>2, UpFrom
  <2> QED
    BY <2>3
<1> QED
  BY <1>8, <1>9, <1>10 DEF f, n

\* What a route of the right type consists of.
LEMMA RouteHas ==
    ASSUME NEW r \in RouteType
    PROVE  /\ r.start \in PoseType /\ r.steps \in Seq(StepType) /\ r.branch \in BranchType
           /\ r.repeat \in {1, 3}
           /\ Len(r.steps) \in Nat /\ DOMAIN r.steps = 1..Len(r.steps)
           /\ \A i \in 1..Len(r.steps) : r.steps[i] \in StepType
           /\ r.poses = Poses(r.start, r.steps)
           /\ \A i \in 0..Len(r.steps) : PoseAfter(r, i) \in PoseType
           /\ PoseAfter(r, 0) = r.start /\ EndPose(r) = PoseAfter(r, Len(r.steps))
           /\ \A i \in 1..Len(r.steps) :
                 PoseAfter(r, i) = EndOfStep(r.start, PoseAfter(r, i - 1), r.steps[i])
<1>1. /\ r.start \in PoseType /\ r.steps \in Seq(StepType) /\ r.branch \in BranchType
      /\ r.repeat \in {1, 3} /\ r.poses = Poses(r.start, r.steps) /\ r.poses \in Seq(PoseType)
  BY DEF RouteType
<1>2. /\ Len(r.steps) \in Nat /\ DOMAIN r.steps = 1..Len(r.steps)
      /\ \A i \in 1..Len(r.steps) : r.steps[i] \in StepType
  BY <1>1, LenProperties, ElementOfSeq
<1>3. /\ r.poses \in [1..(Len(r.steps) + 1) -> PoseType] /\ r.poses[1] = r.start
      /\ \A i \in 1..Len(r.steps) :
            r.poses[i + 1] = EndOfStep(r.start, r.poses[i], r.steps[i])
  BY <1>1, PosesFollow
<1>4. Len(r.poses) = Len(r.steps) + 1
  BY <1>1, <1>2, <1>3, LenProperties
<1>5. \A i \in 0..Len(r.steps) : i + 1 \in 1..(Len(r.steps) + 1)
  BY <1>2
<1>6. \A i \in 1..Len(r.steps) : (i - 1) + 1 = i
  BY <1>2
<1>7. 0 + 1 = 1
  OBVIOUS
<1> QED
  BY <1>1, <1>2, <1>3, <1>4, <1>5, <1>6, <1>7 DEF PoseAfter, EndPose

\* A route that is put together is one.
LEMMA RouteIs ==
    ASSUME NEW start \in PoseType, NEW steps \in Seq(StepType), NEW repeat \in {1, 3},
           NEW b \in BranchType
    PROVE  /\ Route(start, steps, repeat, b) \in RouteType
           /\ Route(start, steps, repeat, b).steps = steps
           /\ Route(start, steps, repeat, b).branch = b
<1> DEFINE q == Poses(start, steps)
<1>1. Len(steps) \in Nat
  BY LenProperties
<1>2. q \in [1..(Len(steps) + 1) -> PoseType]
  BY PosesFollow
<1>3. q \in Seq(PoseType)
  <2>1. Len(steps) + 1 \in Nat
    BY <1>1
  <2> HIDE DEF q
  <2> QED
    BY <1>2, <2>1, IsASeq
<1> HIDE DEF q
<1>4. Route(start, steps, repeat, b) =
          [start |-> start, steps |-> steps, repeat |-> repeat, branch |-> b, poses |-> q]
  BY DEF Route, q
<1> QED
  BY <1>3, <1>4 DEF RouteType, q

\* The id of no branch is the id of no step.
LEMMA NoIdIs == NoId \notin StepIds
  BY DEF NoId, StepIds

\* No step has the id the editor takes for the next one.
LEMMA NextIdIsFree ==
    ASSUME draft \in RouteType
    PROVE  /\ NextId \in StepIds /\ NextId \notin Ids(draft.steps)
           /\ NextId \in {IF IsBranch(draft) THEN "b" ELSE "s"} \X Nat
<1> DEFINE n == Len(draft.steps)
           letter == IF IsBranch(draft) THEN "b" ELSE "s"
           first == IF IsBranch(draft) THEN 1 ELSE n + 1
           R == first..(first + n)
           T == {k \in R : <<letter, k>> \notin Ids(draft.steps)}
<1>1. /\ n \in Nat /\ DOMAIN draft.steps = 1..n /\ first \in Nat \ {0}
      /\ \A i \in 1..n : draft.steps[i] \in StepType
  BY RouteHas
<1>2. NextId = <<letter, Smallest(T)>> /\ letter \in {"s", "b", "s_2"}
  BY DEF NextId
<1> HIDE DEF letter, first, n
<1>4. IsFiniteSet(R) /\ Cardinality(R) = n + 1
  <2>1. first \in Int /\ first + n \in Int /\ ~(first > first + n) /\ (first + n) - first + 1 = n + 1
    BY <1>1
  <2> QED
    BY <2>1, FS_Interval
<1>5. IsFiniteSet(Ids(draft.steps)) /\ Cardinality(Ids(draft.steps)) <= n
  <2> DEFINE f == [i \in 1..n |-> draft.steps[i].id]
  <2>1. f \in Surjection(1..n, Ids(draft.steps))
    BY <1>1 DEF Surjection, Ids
  <2>2. IsFiniteSet(1..n) /\ Cardinality(1..n) = n
    <3>1. 1 \in Int /\ n \in Int /\ (IF 1 > n THEN 0 ELSE n - 1 + 1) = n
      BY <1>1
    <3> QED
      BY <3>1, FS_Interval
  <2> HIDE DEF f
  <2> QED
    BY <2>1, <2>2, FS_Surjection
<1>6. T # {}
  <2> SUFFICES ASSUME T = {} PROVE FALSE
    OBVIOUS
  <2> DEFINE f == [k \in R |-> <<letter, k>>]
  <2>1. f \in [R -> Ids(draft.steps)]
    OBVIOUS
  <2>2. \A x, y \in R : f[x] = f[y] => x = y
    OBVIOUS
  <2>3. Cardinality(Ids(draft.steps)) \in Nat
    BY <1>5, FS_CardinalityType
  <2>4. Cardinality(Ids(draft.steps)) < Cardinality(R)
    BY <1>1, <1>4, <1>5, <2>3
  <2> HIDE DEF f, R
  <2> QED
    BY <1>4, <1>5, <2>1, <2>2, <2>4, FS_PigeonHole
<1>7. T \in SUBSET (first..(first + n))
  OBVIOUS
<1>8. Smallest(T) \in T
  <2>1. first \in Int /\ first + n \in Int
    BY <1>1
  <2> HIDE DEF T
  <2> QED
    BY <1>6, <1>7, <2>1, LeastOf
<1>9. Smallest(T) \in Nat /\ <<letter, Smallest(T)>> \notin Ids(draft.steps)
  <2>1. \A k \in T : k \in Nat /\ <<letter, k>> \notin Ids(draft.steps)
    BY <1>1
  <2> HIDE DEF T
  <2> QED
    BY <1>8, <2>1
<1> HIDE DEF T
<1>10. NextId \in {letter} \X Nat /\ NextId \in StepIds
  BY <1>2, <1>9 DEF StepIds
<1> QED
  BY <1>2, <1>9, <1>10 DEF letter

\* The steps the editor makes.
LEMMA StepsAreMade ==
    ASSUME NEW id \in StepIds
    PROVE  /\ \A c \in Points, v \in 1..RouteSpeed : Straight(id, c, v) \in StepType
           /\ \A t \in {-2, -1, 1, 2} : Rotate(id, t) \in StepType
           /\ \A t \in {1, 2} : Arc(id, t) \in StepType
           /\ BackUp(id) \in StepType /\ Wait(id) \in StepType /\ Home(id) \in StepType
<1>1. <<0, 0>> \in Points /\ RouteSpeed \in 1..RouteSpeed
  BY DEF Points, RouteSpeed
<1>2. ASSUME NEW c \in Points, NEW v \in 1..RouteSpeed PROVE Straight(id, c, v) \in StepType
  <2>1. Straight(id, c, v) \in [kind : {"straight"}, id : StepIds, to : Points, turn : {0},
                                v : 1..RouteSpeed]
    BY <1>1 DEF Straight, Step
  <2> QED
    BY <2>1 DEF StepType, Kinds
<1>3. ASSUME NEW t \in {-2, -1, 1, 2} PROVE Rotate(id, t) \in StepType
  <2>1. Rotate(id, t) = [kind |-> "rotate", id |-> id, to |-> <<0, 0>>, turn |-> t, v |-> RouteSpeed]
    BY DEF Rotate, Step
  <2> QED
    BY <1>1, <2>1 DEF StepType, Kinds
<1>4. ASSUME NEW t \in {1, 2} PROVE Arc(id, t) \in StepType
  <2>1. Arc(id, t) = [kind |-> "arc", id |-> id, to |-> <<0, 0>>, turn |-> t, v |-> RouteSpeed]
    BY DEF Arc, Step
  <2> QED
    BY <1>1, <2>1 DEF StepType, Kinds
<1>5. BackUp(id) \in StepType /\ Wait(id) \in StepType /\ Home(id) \in StepType
  BY <1>1 DEF BackUp, Wait, Home, Step, StepType, Kinds
<1> QED
  BY <1>2, <1>3, <1>4, <1>5

\* Every step the operator may draw at the end of the draft is a step.
LEMMA InputsAreSteps ==
    ASSUME draft \in RouteType
    PROVE  Inputs \subseteq StepType
<1>1. NextId \in StepIds
  BY NextIdIsFree
<1>2. End \in PoseType
  <2>1. Len(draft.steps) \in 0..Len(draft.steps)
    BY RouteHas
  <2> QED
    BY <2>1, RouteHas DEF End
<1>3. ASSUME NEW k \in {1, 2}, NEW v \in {1, 3, 4} PROVE StraightOf(k, v) \in StepType
  <2>1. Ahead(End, k) \in PoseType
    BY <1>2, AheadIsPose
  <2>2. Ahead(End, k).at \in Points /\ v \in 1..RouteSpeed
    BY <2>1 DEF PoseType, RouteSpeed
  <2> QED
    BY <1>1, <2>2, StepsAreMade DEF StraightOf
<1>4. /\ \A t \in {-2, -1, 1, 2} : Rotate(NextId, t) \in StepType
      /\ \A t \in {1, 2} : Arc(NextId, t) \in StepType
      /\ BackUp(NextId) \in StepType /\ Wait(NextId) \in StepType /\ Home(NextId) \in StepType
  BY <1>1, StepsAreMade
<1> QED
  BY <1>3, <1>4 DEF Inputs

-----------------------------------------------------------------------------
(* The steps of the editor.                                                *)

\* The place of an id that occurs is the place of a step with that id.
LEMMA IndexIs ==
    ASSUME NEW steps \in Seq(StepType), NEW id \in Ids(steps)
    PROVE  IndexOf(steps, id) \in 1..Len(steps) /\ steps[IndexOf(steps, id)].id = id
<1>1. \E i \in DOMAIN steps : steps[i].id = id
  BY DEF Ids
<1>2. DOMAIN steps = 1..Len(steps)
  BY LenProperties
<1> QED
  BY <1>1, <1>2 DEF IndexOf

\* A part of the steps, and one part after another.
LEMMA PartsAreSteps ==
    ASSUME NEW steps \in Seq(StepType), NEW m \in Nat \ {0}, NEW n \in Int, n <= Len(steps)
    PROVE  SubSeq(steps, m, n) \in Seq(StepType)
<1>1. Len(steps) \in Nat /\ \A i \in 1..Len(steps) : steps[i] \in StepType
  BY LenProperties, ElementOfSeq
<1>2. m \in Int /\ \A i \in m..n : steps[i] \in StepType
  BY <1>1
<1> QED
  BY <1>2, SubSeqProperties

\* Steps joined are steps.
LEMMA JoinedAreSteps ==
    ASSUME NEW s \in Seq(StepType), NEW t \in Seq(StepType)
    PROVE  s \o t \in Seq(StepType)
  BY ConcatProperties

\* The own steps of a branch are collected one step of the route after the other.
LEMMA OwnRuns ==
    ASSUME NEW r \in RouteType
    PROVE  \E f : /\ f[0] = <<>> /\ OwnOf(r) = f[Len(r.steps)]
                  /\ \A i \in 0..Len(r.steps) : f[i] \in Seq(StepType)
                  /\ \A i \in 1..Len(r.steps) :
                        f[i] = IF r.steps[i].id \in Range(r.branch.own)
                               THEN Append(f[i - 1], r.steps[i]) ELSE f[i - 1]
<1> DEFINE n == Len(r.steps)
           Own1(x, i) == IF r.steps[i].id \in Range(r.branch.own) THEN Append(x, r.steps[i]) ELSE x
           F == [i \in 1..n |-> [x \in Seq(StepType) |-> Own1(x, i)]]
           Rec(g) == g = [i \in 0..n |->
                            IF i = 0 THEN <<>>
                            ELSE IF r.steps[i].id \in Range(r.branch.own)
                                 THEN Append(g[i - 1], r.steps[i]) ELSE g[i - 1]]
<1>1. n \in Nat /\ \A i \in 1..n : r.steps[i] \in StepType
  BY RouteHas
<1>2. \A x \in Seq(StepType), i \in 1..n : Own1(x, i) \in Seq(StepType)
  BY <1>1, AppendProperties
<1>3. /\ F \in [1..n -> [Seq(StepType) -> Seq(StepType)]]
      /\ \A i \in 1..n, x \in Seq(StepType) : F[i][x] = Own1(x, i)
  <2> HIDE DEF Own1
  <2> QED
    BY <1>2
<1> HIDE DEF F, n
<1>4. PICK g \in [0..n -> Seq(StepType)] :
          \A i \in 0..n : g[i] = IF i = 0 THEN <<>> ELSE F[i][g[i - 1]]
  <2> DEFINE none == <<>>
             a == 0
             S == Seq(StepType)
  <2>1. a \in Int /\ n \in Int /\ none \in S /\ F \in [(a + 1)..n -> [S -> S]]
    BY <1>1, <1>3, EmptySeq
  <2> HIDE DEF none, a, S
  <2>2. \E g : Recurs(S, none, a, n, F, g)
    BY <2>1, RecursionRuns, Zenon
  <2> QED
    BY <2>2 DEF none, a, S, Recurs
<1>5. Rec(g)
  <2>1. ASSUME NEW i \in 0..n, i # 0
        PROVE  g[i] = IF r.steps[i].id \in Range(r.branch.own)
                      THEN Append(g[i - 1], r.steps[i]) ELSE g[i - 1]
    <3>1. i \in 1..n /\ i - 1 \in 0..n
      BY <1>1, <2>1
    <3>2. g[i] = Own1(g[i - 1], i)
      <4> HIDE DEF Own1
      <4> QED
        BY <1>3, <1>4, <2>1, <3>1
    <3> QED
      BY <3>2, Zenon
  <2>2. 0 \in 0..n
    BY <1>1
  <2> QED
    BY <1>4, <2>1, <2>2
<1> DEFINE f == CHOOSE h : Rec(h)
<1>6. Rec(f)
  <2> HIDE DEF Rec
  <2> QED
    BY <1>5, Zenon
<1>7. OwnOf(r) = f[n]
  BY DEF OwnOf, n
<1> HIDE DEF f
<1>8. /\ f[0] = <<>>
      /\ \A i \in 1..n : f[i] = Own1(f[i - 1], i)
  <2>1. 0 \in 0..n /\ \A i \in 1..n : i \in 0..n /\ i # 0
    BY <1>1
  <2> QED
    BY <1>6, <2>1
<1> HIDE DEF Own1, Rec
<1>9. \A i \in 0..n : f[i] \in Seq(StepType)
  <2> DEFINE T == {i \in 0..n : f[i] \in Seq(StepType)}
  <2>1. 0 \in T /\ 0 \in Int /\ n \in Int
    <3>1. f[0] \in Seq(StepType)
      BY <1>8, EmptySeq
    <3>2. 0 \in 0..n
      BY <1>1
    <3> QED
      BY <1>1, <3>1, <3>2
  <2>2. ASSUME NEW i \in (0 + 1)..n, i - 1 \in T PROVE i \in T
    <3>1. i \in 1..n /\ i \in 0..n
      BY <1>1
    <3> QED
      BY <1>2, <1>8, <2>2, <3>1
  <2>3. \A i \in 0..n : i \in T
    <3> HIDE DEF T
    <3> QED
      BY <2>1, <2>2, UpFrom
  <2> QED
    BY <2>3
<1>10. \A i \in 1..n : f[i] = IF r.steps[i].id \in Range(r.branch.own)
                             THEN Append(f[i - 1], r.steps[i]) ELSE f[i - 1]
  BY <1>8 DEF Own1
<1> QED
  BY <1>7, <1>8, <1>9, <1>10 DEF n

\* The steps of a branch that are its own are steps.
LEMMA OwnAreSteps ==
    ASSUME NEW r \in RouteType
    PROVE  OwnOf(r) \in Seq(StepType)
<1>1. Len(r.steps) \in 0..Len(r.steps)
  BY RouteHas
<1> QED
  BY <1>1, OwnRuns

\* A main route with a branch put in.
LEMMA ComposedAreSteps ==
    ASSUME NEW main \in RouteType, NEW b \in BranchType, NEW own \in Seq(StepType),
           b.leave \in Ids(main.steps), b.rejoin \in Ids(main.steps)
    PROVE  Composed(main, b, own) \in Seq(StepType)
<1> DEFINE steps == main.steps
           li == IndexOf(steps, b.leave)
           ri == IndexOf(steps, b.rejoin)
<1>1. /\ steps \in Seq(StepType) /\ Len(steps) \in Nat
      /\ \A i \in 1..Len(steps) : steps[i] \in StepType
  BY RouteHas
<1>2. li \in 1..Len(steps) /\ ri \in 1..Len(steps)
  BY <1>1, IndexIs
<1>3. /\ steps[li] \in StepType
      /\ steps[li].id \in StepIds /\ steps[li].v \in 1..RouteSpeed /\ steps[li].to \in Points
  BY <1>1, <1>2 DEF StepType
<1>4. /\ SubSeq(steps, 1, li) \in Seq(StepType) /\ SubSeq(steps, 1, li - 1) \in Seq(StepType)
      /\ SubSeq(steps, ri + 1, Len(steps)) \in Seq(StepType)
      /\ SubSeq(steps, li + 1, Len(steps)) \in Seq(StepType)
  <2>1. /\ 1 \in Nat \ {0} /\ li + 1 \in Nat \ {0} /\ ri + 1 \in Nat \ {0}
        /\ li \in Int /\ li - 1 \in Int /\ Len(steps) \in Int
        /\ li <= Len(steps) /\ li - 1 <= Len(steps) /\ Len(steps) <= Len(steps)
    BY <1>1, <1>2
  <2> HIDE DEF li, ri, steps
  <2> QED
    BY <1>1, <2>1, PartsAreSteps
<1>5. CASE b.at = <<>>
  <2>1. Composed(main, b, own) = SubSeq(steps, 1, li) \o own \o SubSeq(steps, ri + 1, Len(steps))
    BY <1>5 DEF Composed
  <2> HIDE DEF li, ri, steps
  <2> QED
    BY <1>4, <2>1, JoinedAreSteps
<1>6. CASE b.at # <<>>
  <2> DEFINE first == <<Straight(steps[li].id, b.at, steps[li].v)>>
             rest == <<Straight(b.split, steps[li].to, steps[li].v)>>
  <2>1. Composed(main, b, own) = SubSeq(steps, 1, li - 1) \o first \o own \o rest
                                     \o SubSeq(steps, li + 1, Len(steps))
    BY <1>6 DEF Composed
  <2>2. b.at \in Points /\ b.split \in StepIds
    BY <1>6 DEF BranchType
  <2>3. first \in Seq(StepType) /\ rest \in Seq(StepType)
    <3> HIDE DEF li, steps
    <3>1. /\ Straight(steps[li].id, b.at, steps[li].v) \in StepType
          /\ Straight(b.split, steps[li].to, steps[li].v) \in StepType
      BY <1>3, <2>2, StepsAreMade
    <3> QED
      BY <3>1
  <2> HIDE DEF li, ri, steps, first, rest
  <2> QED
    BY <1>4, <2>1, <2>3, JoinedAreSteps
<1> QED
  BY <1>5, <1>6

-----------------------------------------------------------------------------
(* The moves of a route that compiles.                                     *)

\* A heading leads one metre along one of the axes.
LEMMA HeadingIs ==
    ASSUME NEW d \in Headings
    PROVE  /\ d[1] \in Int /\ d[2] \in Int
           /\ \/ (d[1] = 1 /\ d[2] = 0) \/ (d[1] = 0 /\ d[2] = 1)
              \/ (d[1] = -1 /\ d[2] = 0) \/ (d[1] = 0 /\ d[2] = -1)
  BY DEF Headings

\* A straight that compiles leads ahead to its end, and passes no point twice.
LEMMA StraightLeads ==
    ASSUME NEW p \in PoseType, NEW s \in StepType, StraightCompiles(p, s)
    PROVE  /\ Along(p, s.to) \in Nat \ {0}
           /\ s.to = Ahead(p, Along(p, s.to)).at
           /\ \A k \in Int : k # Along(p, s.to) => Ahead(p, k).at # s.to
<1>1. s.to \in Points
  BY DEF StepType
<1>2. PICK x \in Int, y \in Int : p.at = <<x, y>>
  BY DEF PoseType, Points
<1>3. PICK a \in Int, b \in Int : s.to = <<a, b>>
  BY <1>1 DEF Points
<1>4. p.d \in Headings
  BY DEF PoseType
<1> DEFINE n == Along(p, s.to)
           e == p.d[1]
           f == p.d[2]
<1>5. /\ n = (a - x) * e + (b - y) * f
      /\ Lateral(p, s.to) = (b - y) * e - (a - x) * f
  BY <1>2, <1>3 DEF Along, Lateral
<1>6. Lateral(p, s.to) = 0 /\ n >= 1
  BY DEF StraightCompiles
<1>7. n \in Int
  BY <1>1, OffsetsAreInt
<1>8. ASSUME NEW k \in Int PROVE Ahead(p, k).at = <<x + k * e, y + k * f>>
  <2>1. p.at[1] = x /\ p.at[2] = y
    BY <1>2
  <2>2. Ahead(p, k) = [at |-> <<p.at[1] + k * p.d[1], p.at[2] + k * p.d[2]>>, d |-> p.d]
    BY AheadIsPose
  <2> QED
    BY <2>1, <2>2
<1>9. \/ (e = 1 /\ f = 0) \/ (e = 0 /\ f = 1) \/ (e = -1 /\ f = 0) \/ (e = 0 /\ f = -1)
  BY <1>4, HeadingIs
<1> HIDE DEF n, e, f
<1>10. x + n * e = a /\ y + n * f = b
  <2>1. CASE e = 1 /\ f = 0
    BY <1>5, <1>6, <1>7, <2>1
  <2>2. CASE e = 0 /\ f = 1
    BY <1>5, <1>6, <1>7, <2>2
  <2>3. CASE e = -1 /\ f = 0
    BY <1>5, <1>6, <1>7, <2>3
  <2>4. CASE e = 0 /\ f = -1
    BY <1>5, <1>6, <1>7, <2>4
  <2> QED
    BY <1>9, <2>1, <2>2, <2>3, <2>4
<1>11. ASSUME NEW k \in Int, k # n PROVE ~(x + k * e = a /\ y + k * f = b)
  <2>1. CASE e = 1 /\ f = 0
    BY <1>7, <1>10, <1>11, <2>1
  <2>2. CASE e = 0 /\ f = 1
    BY <1>7, <1>10, <1>11, <2>2
  <2>3. CASE e = -1 /\ f = 0
    BY <1>7, <1>10, <1>11, <2>3
  <2>4. CASE e = 0 /\ f = -1
    BY <1>7, <1>10, <1>11, <2>4
  <2> QED
    BY <1>9, <2>1, <2>2, <2>3, <2>4
<1>12. s.to = Ahead(p, n).at
  BY <1>3, <1>7, <1>8, <1>10
<1>13. ASSUME NEW k \in Int, k # n PROVE Ahead(p, k).at # s.to
  BY <1>3, <1>8, <1>11, <1>13
<1> QED
  BY <1>6, <1>7, <1>12, <1>13 DEF n

\* A quarter of an arc leads to another point, and a half to a third.
LEMMA ArcsLead ==
    ASSUME NEW p \in PoseType
    PROVE  /\ ArcQuarter(p, 1).at # p.at
           /\ ArcQuarter(ArcQuarter(p, 1), 1).at # p.at
           /\ ArcQuarter(ArcQuarter(p, 1), 1).at # ArcQuarter(p, 1).at
<1>1. PICK x \in Int, y \in Int : p.at = <<x, y>>
  BY DEF PoseType, Points
<1>2. PICK d \in Headings : p.d = d
  BY DEF PoseType
<1>3. Rot(d, 1) = <<-d[2], d[1]>> /\ d[1] \in Int /\ d[2] \in Int
  BY <1>2, HeadingIs DEF Rot
<1>4. ArcQuarter(p, 1) = [at |-> <<x + d[1] - d[2], y + d[2] + d[1]>>, d |-> <<-d[2], d[1]>>]
  <2> DEFINE side == <<-d[2], d[1]>>
  <2>1. ArcQuarter(p, 1) = [at |-> <<x + d[1] + side[1], y + d[2] + side[2]>>, d |-> side]
    <3>1. p.at[1] = x /\ p.at[2] = y /\ p.d = d /\ Rot(p.d, 1) = side
      BY <1>1, <1>2, <1>3
    <3> HIDE DEF side
    <3> QED
      BY <3>1 DEF ArcQuarter, Pose
  <2>2. side[1] = -d[2] /\ side[2] = d[1]
    OBVIOUS
  <2>3. x + d[1] + side[1] = x + d[1] - d[2] /\ y + d[2] + side[2] = y + d[2] + d[1]
    BY <1>3, <2>2
  <2> QED
    BY <2>1, <2>3, Zenon DEF side
<1>5. Rot(<<-d[2], d[1]>>, 1) = <<-d[1], -d[2]>>
  BY <1>3 DEF Rot
<1>6. ArcQuarter(ArcQuarter(p, 1), 1).at = <<x + d[1] - d[2] - d[2] - d[1], y + d[2] + d[1] + d[1] - d[2]>>
  BY <1>3, <1>4, <1>5 DEF ArcQuarter, Pose
<1>7. ArcQuarter(p, 1).at = <<x + d[1] - d[2], y + d[2] + d[1]>>
  BY <1>4
<1> DEFINE e == d[1]
           f == d[2]
<1>8. \/ (e = 1 /\ f = 0) \/ (e = 0 /\ f = 1) \/ (e = -1 /\ f = 0) \/ (e = 0 /\ f = -1)
  BY <1>2, HeadingIs
<1>9. e \in Int /\ f \in Int
  BY <1>3
<1> HIDE DEF e, f
<1>10. /\ x + e - f # x \/ y + f + e # y
       /\ x + e - f - f - e # x \/ y + f + e + e - f # y
       /\ x + e - f - f - e # x + e - f \/ y + f + e + e - f # y + f + e
  BY <1>8, <1>9
<1> QED
  BY <1>1, <1>6, <1>7, <1>10 DEF e, f

\* The home leg passes no point of HOME's own line but HOME before it ends there.
LEMMA HomeLeads ==
    ASSUME NEW p \in PoseType, NEW home \in PoseType, HomeFits(p, home)
    PROVE  /\ -Along(home, p.at) \in 1..5
           /\ \A k \in 0..(-Along(home, p.at) - 1) :
                 Ahead(p, k).at # home.at /\ Ahead(home, k + Along(home, p.at)).at # home.at
<1>1. PICK x \in Int, y \in Int : p.at = <<x, y>>
  BY DEF PoseType, Points
<1>2. PICK a \in Int, b \in Int : home.at = <<a, b>>
  BY DEF PoseType, Points
<1>3. PICK d \in Headings : p.d = d /\ home.d = d
  BY DEF PoseType, HomeFits
<1> DEFINE e == d[1]
           f == d[2]
           run == -Along(home, p.at)
<1>4. Along(home, p.at) = (x - a) * e + (y - b) * f
  BY <1>1, <1>2, <1>3 DEF Along
<1>5. -Along(home, p.at) \in 1..5
  BY DEF HomeFits
<1>6. \/ (e = 1 /\ f = 0) \/ (e = 0 /\ f = 1) \/ (e = -1 /\ f = 0) \/ (e = 0 /\ f = -1)
  BY <1>3, HeadingIs
<1>7. e \in Int /\ f \in Int
  BY <1>3, HeadingIs
<1>8. run \in 1..5 /\ Along(home, p.at) = -run /\ (x - a) * e + (y - b) * f = -run
  <2>1. p.at \in Points
    BY DEF PoseType
  <2>2. Along(home, p.at) \in Int
    BY <2>1, OffsetsAreInt
  <2> QED
    BY <1>4, <1>5, <2>2
<1>9. ASSUME NEW k \in Int
      PROVE  /\ Ahead(p, k).at = <<x + k * e, y + k * f>>
             /\ Ahead(home, k).at = <<a + k * e, b + k * f>>
  <2>1. p.at[1] = x /\ p.at[2] = y /\ home.at[1] = a /\ home.at[2] = b
    BY <1>1, <1>2
  <2>2. /\ Ahead(p, k) = [at |-> <<p.at[1] + k * p.d[1], p.at[2] + k * p.d[2]>>, d |-> p.d]
        /\ Ahead(home, k) = [at |-> <<home.at[1] + k * home.d[1], home.at[2] + k * home.d[2]>>, d |-> home.d]
    BY AheadIsPose
  <2> QED
    BY <1>3, <2>1, <2>2
<1> HIDE DEF run, e, f
<1>10. ASSUME NEW k \in 0..(run - 1) PROVE Ahead(p, k).at # home.at /\ Ahead(home, k - run).at # home.at
  <2>1. k \in Int /\ k - run \in Int /\ k < run
    BY <1>8
  <2> DEFINE m == k - run
  <2>2. Ahead(p, k).at = <<x + k * e, y + k * f>> /\ Ahead(home, m).at = <<a + m * e, b + m * f>>
    BY <1>9, <2>1
  <2>3. m \in Int /\ m # 0
    BY <1>8, <2>1
  <2> HIDE DEF m
  <2>4. x + k * e # a \/ y + k * f # b
    BY <1>6, <1>8, <2>1
  <2>5. a + m * e # a \/ b + m * f # b
    BY <1>6, <1>8, <2>3
  <2> QED
    BY <1>2, <2>2, <2>4, <2>5 DEF m
<1>11. \A k \in 0..(run - 1) : k - run = k + Along(home, p.at)
  <2>1. Along(home, p.at) = -run
    BY <1>8
  <2> QED
    BY <1>8, <2>1
<1> QED
  BY <1>5, <1>10, <1>11 DEF run

\* The poses a step that compiles passes; driven forward, it comes by its end only there.
LEMMA PathIs ==
    ASSUME NEW p \in PoseType, NEW home \in PoseType, NEW s \in StepType,
           s.kind = "straight" => StraightCompiles(p, s),
           s.kind = "home" => HomeFits(p, home)
    PROVE  /\ PathOf(home, p, s) \in Seq(PoseType)
           /\ s.kind \in {"straight", "arc", "home"} =>
                 /\ Len(PathOf(home, p, s)) >= 2
                 /\ \A k \in 1..(Len(PathOf(home, p, s)) - 1) :
                       PathOf(home, p, s)[k].at # EndOfStep(home, p, s).at
<1> DEFINE q == PathOf(home, p, s)
           e == EndOfStep(home, p, s)
<1>1. s.kind \in Kinds /\ s.turn \in {-2, -1, 0, 1, 2} /\ (s.kind = "arc" => s.turn \in {1, 2})
  BY DEF StepType
<1>2. CASE s.kind = "straight"
  <2> DEFINE n == Along(p, s.to)
  <2>1. q = [k \in 1..(n + 1) |-> Ahead(p, k - 1)] /\ e.at = s.to
    BY <1>2 DEF PathOf, EndOfStep, PoseType
  <2>2. n \in Nat \ {0} /\ \A k \in Int : k # n => Ahead(p, k).at # s.to
    BY <1>2, StraightLeads
  <2> HIDE DEF n, q, e
  <2>3. n + 1 \in Nat /\ \A k \in 1..(n + 1) : k - 1 \in Int /\ Ahead(p, k - 1) \in PoseType
    BY <2>2, AheadIsPose
  <2>4. q \in [1..(n + 1) -> PoseType]
    BY <2>1, <2>3
  <2>5. q \in Seq(PoseType) /\ Len(q) = n + 1
    BY <2>3, <2>4, IsASeq, LenProperties
  <2>6. ASSUME NEW k \in 1..(Len(q) - 1) PROVE q[k].at # e.at
    <3>1. k \in 1..(n + 1) /\ k - 1 \in Int /\ k - 1 # n
      BY <2>2, <2>5
    <3> QED
      BY <2>1, <2>2, <3>1
  <2> QED
    BY <2>2, <2>5, <2>6 DEF q, e
<1>3. CASE s.kind = "home"
  <2> DEFINE run == -Along(home, p.at)
             at(k) == IF 2 * (k - 1) <= run THEN Ahead(p, k - 1) ELSE Ahead(home, k - 1 - run)
  <2>1. q = [k \in 1..(run + 1) |-> at(k)] /\ e.at = home.at
    BY <1>3 DEF PathOf, EndOfStep
  <2>2. /\ run \in 1..5 /\ Along(home, p.at) = -run
        /\ \A k \in 0..(run - 1) : Ahead(p, k).at # home.at /\ Ahead(home, k - run).at # home.at
    <3>1. /\ -Along(home, p.at) \in 1..5
          /\ \A k \in 0..(-Along(home, p.at) - 1) :
                Ahead(p, k).at # home.at /\ Ahead(home, k + Along(home, p.at)).at # home.at
      BY <1>3, HomeLeads
    <3>2. p.at \in Points
      BY DEF PoseType
    <3>3. Along(home, p.at) \in Int
      BY <3>2, OffsetsAreInt
    <3>4. Along(home, p.at) = -run /\ run \in 1..5
      BY <3>1, <3>3
    <3>5. \A k \in 0..(run - 1) : k - run = k + Along(home, p.at)
      BY <3>3, <3>4
    <3> HIDE DEF run
    <3>6. \A k \in 0..(run - 1) : Ahead(p, k).at # home.at /\ Ahead(home, k + Along(home, p.at)).at # home.at
      BY <3>1 DEF run
    <3> QED
      BY <3>4, <3>5, <3>6
  <2>3. \A k \in 1..(run + 1) : at(k) \in PoseType
    <3>1. \A k \in 1..(run + 1) : k - 1 \in Int /\ k - 1 - run \in Int
      BY <2>2
    <3> HIDE DEF run
    <3> QED
      BY <3>1, AheadIsPose
  <2> HIDE DEF run, q, e, at
  <2>4. q \in [1..(run + 1) -> PoseType]
    BY <2>1, <2>3
  <2>5. q \in Seq(PoseType) /\ Len(q) = run + 1
    <3>1. run + 1 \in Nat
      BY <2>2
    <3> QED
      BY <2>4, <3>1, IsASeq, LenProperties
  <2>6. ASSUME NEW k \in 1..(Len(q) - 1) PROVE q[k].at # e.at
    <3>1. k \in 1..(run + 1) /\ k - 1 \in 0..(run - 1)
      BY <2>2, <2>5
    <3>2. at(k).at # home.at
      BY <2>2, <3>1 DEF at
    <3> QED
      BY <2>1, <3>1, <3>2
  <2> QED
    BY <2>2, <2>5, <2>6 DEF q, e
<1>4. CASE s.kind = "arc"
  <2>1. s.turn \in {1, 2}
    BY <1>1, <1>4
  <2>2. ArcQuarter(p, 1) \in PoseType
    BY TurnsArePoses
  <2>3. ArcQuarter(ArcQuarter(p, 1), 1) \in PoseType
    BY <2>2, TurnsArePoses
  <2>4. CASE s.turn = 1
    <3>1. q = <<p, ArcQuarter(p, 1)>> /\ e = ArcQuarter(p, 1)
      BY <1>4, <2>4 DEF PathOf, EndOfStep
    <3> HIDE DEF q, e
    <3>2. q \in Seq(PoseType) /\ Len(q) = 2 /\ q[1] = p
      BY <2>2, <3>1
    <3>3. e.at # p.at
      BY <3>1, ArcsLead
    <3> QED
      BY <3>2, <3>3 DEF q, e
  <2>5. CASE s.turn = 2
    <3>1. q = <<p, ArcQuarter(p, 1), ArcQuarter(ArcQuarter(p, 1), 1)>> /\ e = ArcQuarter(ArcQuarter(p, 1), 1)
      BY <1>4, <2>5 DEF PathOf, EndOfStep
    <3> HIDE DEF q, e
    <3>2. q \in Seq(PoseType) /\ Len(q) = 3 /\ q[1] = p /\ q[2] = ArcQuarter(p, 1)
      BY <2>2, <2>3, <3>1
    <3>3. e.at # p.at /\ e.at # ArcQuarter(p, 1).at
      BY <3>1, ArcsLead
    <3> QED
      BY <3>2, <3>3 DEF q, e
  <2> QED
    BY <2>1, <2>4, <2>5
<1>5. CASE s.kind = "reverse"
  <2>1. q = <<p, Ahead(p, -1)>>
    BY <1>5 DEF PathOf
  <2>2. Ahead(p, -1) \in PoseType
    BY AheadIsPose
  <2> QED
    BY <1>5, <2>1, <2>2
<1>6. CASE s.kind = "rotate"
  <2>1. Turned(p, s.turn) \in PoseType
    BY <1>1, TurnsArePoses
  <2>2. CASE s.turn \in {2, -2}
    <3>1. s.turn \div 2 \in {-1, 1}
      BY <2>2
    <3>2. q = <<p, Turned(p, s.turn \div 2), Turned(p, s.turn)>>
      BY <1>6, <2>2 DEF PathOf
    <3>3. Turned(p, s.turn \div 2) \in PoseType
      BY <3>1, TurnsArePoses
    <3> QED
      BY <1>6, <2>1, <3>2, <3>3
  <2>3. CASE s.turn \notin {2, -2}
    <3>1. q = <<p, Turned(p, s.turn)>>
      BY <1>6, <2>3 DEF PathOf
    <3> QED
      BY <1>6, <2>1, <3>1
  <2> QED
    BY <2>2, <2>3
<1>7. CASE s.kind = "wait"
  <2>1. q = <<p>>
    BY <1>7 DEF PathOf
  <2> QED
    BY <1>7, <2>1
<1> QED
  BY <1>1, <1>2, <1>3, <1>4, <1>5, <1>6, <1>7 DEF Kinds

\* What a step that compiles is driven as.
LEMMA CompiledIsMove ==
    ASSUME NEW r \in RouteType, NEW i \in 1..Len(r.steps), StepCompiles(r, i)
    PROVE  /\ CompiledStep(r, i) \in MoveType
           /\ Chainable(CompiledStep(r, i)) =>
                 /\ Len(CompiledStep(r, i).path) >= 2
                 /\ \A k \in 1..(Len(CompiledStep(r, i).path) - 1) :
                       CompiledStep(r, i).path[k].at # CompiledStep(r, i).end.at
<1> DEFINE s == r.steps[i]
           p == PoseAfter(r, i - 1)
           c == CompiledStep(r, i)
           q == PathOf(r.start, p, s)
<1>1. s \in StepType /\ r.start \in PoseType
  BY RouteHas
<1>2. p \in PoseType /\ PoseAfter(r, i) \in PoseType /\ PoseAfter(r, i) = EndOfStep(r.start, p, s)
  <2>1. i \in 0..Len(r.steps) /\ i - 1 \in 0..Len(r.steps)
    BY RouteHas
  <2> QED
    BY <2>1, RouteHas
<1>3. /\ s.kind = "straight" => StraightCompiles(p, s)
      /\ s.kind = "home" => HomeFits(p, r.start)
  BY DEF StepCompiles
<1>4. c = [kind |-> s.kind, start |-> p, end |-> PoseAfter(r, i),
           curved |-> (s.kind = "arc" \/ (s.kind = "home" /\ Lateral(r.start, p.at) # 0)),
           path |-> q,
           v |-> SpeedOf(s, s.kind = "arc" \/ (s.kind = "home" /\ Lateral(r.start, p.at) # 0))]
  BY DEF CompiledStep
<1>5. s.kind \in Kinds /\ s.v \in 1..RouteSpeed
  BY <1>1 DEF StepType
<1>6. \A b \in BOOLEAN : SpeedOf(s, b) \in 1..RouteSpeed
  BY <1>5 DEF SpeedOf, CurveSpeed, ReverseSpeed, RouteSpeed
<1>7. /\ q \in Seq(PoseType)
      /\ s.kind \in {"straight", "arc", "home"} =>
             /\ Len(q) >= 2
             /\ \A k \in 1..(Len(q) - 1) : q[k].at # EndOfStep(r.start, p, s).at
  <2> HIDE DEF s, p
  <2> QED
    BY <1>1, <1>2, <1>3, PathIs
<1> HIDE DEF s, p, q, c
<1>8. c \in MoveType
  BY <1>2, <1>4, <1>5, <1>6, <1>7 DEF MoveType
<1>9. Chainable(c) => s.kind \in {"straight", "arc", "home"}
  BY <1>4, <1>5 DEF Chainable, Kinds
<1> QED
  BY <1>2, <1>4, <1>7, <1>8, <1>9 DEF c

-----------------------------------------------------------------------------
(* The chains.                                                             *)

\* Steps a to g, driven as one move, come by their goal early if one of them does.
LEMMA ReturnsIs ==
    ASSUME NEW cs \in Seq(MoveType), NEW a \in 1..Len(cs), NEW g \in a..Len(cs)
    PROVE  ChainReturns(SubSeq(cs, a, g)) <=>
               \E j \in a..g : \E k \in DOMAIN cs[j].path :
                   /\ j < g \/ k < Len(cs[j].path)
                   /\ cs[j].path[k].at = cs[g].end.at
<1> DEFINE t == SubSeq(cs, a, g)
           m == g - a + 1
<1>1. Len(cs) \in Nat /\ a \in 1..Len(cs) /\ g \in 1..Len(cs) /\ a <= g /\ m \in Nat \ {0}
  BY LenProperties
<1>2. Len(t) = m /\ DOMAIN t = 1..m /\ \A j \in 1..m : t[j] = cs[a + j - 1]
  <2>1. \A k \in a..g : cs[k] \in MoveType
    BY <1>1, ElementOfSeq
  <2> QED
    BY <1>1, <2>1, SubSeqProperties, LenProperties
<1> HIDE DEF t
<1>3. m \in DOMAIN t /\ t[m] = cs[g]
  BY <1>1, <1>2
<1>4. \A j \in 1..m : a + j - 1 \in a..g /\ (a + j - 1 < g <=> j < m)
  BY <1>1
<1>5. \A j \in a..g : j - a + 1 \in 1..m /\ (j - a + 1 < m <=> j < g) /\ a + (j - a + 1) - 1 = j
  BY <1>1
<1> HIDE DEF m
<1>6. ChainReturns(t) <=>
          \E j \in DOMAIN t : \E k \in DOMAIN t[j].path :
              (j < Len(t) \/ k < Len(t[j].path)) /\ t[j].path[k].at = t[Len(t)].end.at
  BY DEF ChainReturns
<1>7. ASSUME NEW j \in DOMAIN t, NEW k \in DOMAIN t[j].path,
             j < Len(t) \/ k < Len(t[j].path), t[j].path[k].at = t[Len(t)].end.at
      PROVE  \E jj \in a..g : \E kk \in DOMAIN cs[jj].path :
                 /\ jj < g \/ kk < Len(cs[jj].path)
                 /\ cs[jj].path[kk].at = cs[g].end.at
  <2>1. /\ t[j] = cs[a + j - 1] /\ t[Len(t)] = cs[g] /\ a + j - 1 \in a..g
        /\ j < Len(t) <=> a + j - 1 < g
    BY <1>2, <1>3, <1>4
  <2> QED
    BY <1>7, <2>1
<1>8. ASSUME NEW j \in a..g, NEW k \in DOMAIN cs[j].path,
             j < g \/ k < Len(cs[j].path), cs[j].path[k].at = cs[g].end.at
      PROVE  \E jj \in DOMAIN t : \E kk \in DOMAIN t[jj].path :
                 (jj < Len(t) \/ kk < Len(t[jj].path)) /\ t[jj].path[kk].at = t[Len(t)].end.at
  <2> DEFINE jj == j - a + 1
  <2>1. jj \in DOMAIN t /\ t[jj] = cs[j] /\ t[Len(t)] = cs[g] /\ (jj < Len(t) <=> j < g)
    BY <1>2, <1>3, <1>5
  <2> HIDE DEF jj
  <2> QED
    BY <1>8, <2>1
<1>9. ASSUME ChainReturns(t)
      PROVE  \E j \in a..g : \E k \in DOMAIN cs[j].path :
                 /\ j < g \/ k < Len(cs[j].path)
                 /\ cs[j].path[k].at = cs[g].end.at
  BY <1>6, <1>7, <1>9, Zenon
<1>10. ASSUME \E j \in a..g : \E k \in DOMAIN cs[j].path :
                 /\ j < g \/ k < Len(cs[j].path)
                 /\ cs[j].path[k].at = cs[g].end.at
       PROVE  ChainReturns(t)
  BY <1>6, <1>8, <1>10, Zenon
<1> QED
  BY <1>9, <1>10, Zenon DEF t

\* The run of chainable steps that holds a step, and that every step of it has the same one.
LEMMA RunsAre ==
    ASSUME NEW cs \in Seq(MoveType), NEW i \in 1..Len(cs), Chainable(cs[i])
    PROVE  /\ RunFirst(cs, i) \in 1..i /\ RunLast(cs, i) \in i..Len(cs)
           /\ \A m \in RunFirst(cs, i)..RunLast(cs, i) : Chainable(cs[m])
           /\ \A m \in RunFirst(cs, i)..RunLast(cs, i) :
                 RunFirst(cs, m) = RunFirst(cs, i) /\ RunLast(cs, m) = RunLast(cs, i)
<1> DEFINE n == Len(cs)
           F(b) == {k \in 1..b : \A m \in k..b : Chainable(cs[m])}
           L(b) == {k \in b..n : \A m \in b..k : Chainable(cs[m])}
<1>1. n \in Nat /\ i \in 1..n
  BY LenProperties
<1>2. \A b : RunFirst(cs, b) = Smallest(F(b)) /\ RunLast(cs, b) = Greatest(L(b))
  BY DEF RunFirst, RunLast
<1> HIDE DEF n
<1>3. ASSUME NEW b \in 1..n, Chainable(cs[b])
      PROVE  /\ RunFirst(cs, b) \in F(b) /\ \A k \in F(b) : RunFirst(cs, b) <= k
             /\ RunLast(cs, b) \in L(b) /\ \A k \in L(b) : RunLast(cs, b) >= k
  <2>1. b \in Int /\ 1 \in Int /\ n \in Int /\ b..b = {b} /\ b \in 1..b /\ b \in b..n
    BY <1>1
  <2>2. F(b) \in SUBSET (1..b) /\ F(b) # {}
    BY <1>3, <2>1
  <2>3. L(b) \in SUBSET (b..n) /\ L(b) # {}
    BY <1>3, <2>1
  <2> HIDE DEF F, L
  <2>4. Smallest(F(b)) \in F(b) /\ \A k \in F(b) : Smallest(F(b)) <= k
    BY <2>1, <2>2, LeastOf
  <2>5. Greatest(L(b)) \in L(b) /\ \A k \in L(b) : Greatest(L(b)) >= k
    BY <2>1, <2>3, GreatestOf
  <2> QED
    BY <1>2, <2>4, <2>5
<1> DEFINE f == RunFirst(cs, i)
           l == RunLast(cs, i)
<1>4. f \in F(i) /\ l \in L(i) /\ (\A k \in F(i) : f <= k) /\ (\A k \in L(i) : l >= k)
  BY <1>1, <1>3
<1> HIDE DEF f, l
<1>5. f \in 1..i /\ l \in i..n /\ \A m \in f..l : Chainable(cs[m])
  <2>1. f \in 1..i /\ l \in i..n
    BY <1>4
  <2>2. ASSUME NEW m \in f..l PROVE Chainable(cs[m])
    <3>1. m \in f..i \/ m \in i..l
      BY <1>1, <2>1
    <3> QED
      BY <1>4, <3>1
  <2> QED
    BY <2>1, <2>2
<1>6. ASSUME NEW m \in f..l PROVE RunFirst(cs, m) = f /\ RunLast(cs, m) = l
  <2>1. m \in 1..n /\ Chainable(cs[m])
    BY <1>1, <1>5
  <2> DEFINE fm == RunFirst(cs, m)
             lm == RunLast(cs, m)
  <2>2. fm \in F(m) /\ lm \in L(m) /\ (\A k \in F(m) : fm <= k) /\ (\A k \in L(m) : lm >= k)
    BY <1>3, <2>1
  <2> HIDE DEF fm, lm
  <2>3. fm \in 1..m /\ lm \in m..n
    BY <2>2
  <2>4. f \in F(m) /\ l \in L(m)
    <3>1. f \in 1..m /\ l \in m..n /\ \A k \in f..m : k \in f..l
      BY <1>1, <1>5, <2>1
    <3>2. \A k \in m..l : k \in f..l
      BY <1>1, <1>5, <2>1
    <3> QED
      BY <1>5, <3>1, <3>2
  <2>5. fm <= f /\ lm >= l
    BY <2>2, <2>4
  <2>6. fm \in F(i)
    <3>1. fm \in 1..i
      BY <1>1, <1>5, <2>3, <2>5
    <3>2. ASSUME NEW k \in fm..i PROVE Chainable(cs[k])
      <4>1. k \in fm..m \/ k \in f..l
        BY <1>1, <1>5, <2>1, <2>3
      <4>2. \A x \in fm..m : Chainable(cs[x])
        BY <2>2
      <4> QED
        BY <1>5, <4>1, <4>2
    <3> QED
      BY <3>1, <3>2
  <2>7. lm \in L(i)
    <3>1. lm \in i..n
      BY <1>1, <1>5, <2>3, <2>5
    <3>2. ASSUME NEW k \in i..lm PROVE Chainable(cs[k])
      <4>1. k \in m..lm \/ k \in f..l
        BY <1>1, <1>5, <2>1, <2>3
      <4>2. \A x \in m..lm : Chainable(cs[x])
        BY <2>2
      <4> QED
        BY <1>5, <4>1, <4>2
    <3> QED
      BY <3>1, <3>2
  <2>8. f <= fm /\ l >= lm
    BY <1>4, <2>6, <2>7
  <2>9. fm = f /\ lm = l
    BY <1>1, <1>5, <2>3, <2>5, <2>8
  <2> QED
    BY <2>9 DEF fm, lm
<1> QED
  BY <1>5, <1>6 DEF f, l, n

\* What is driven from a step together is cut before it comes by its goal early.
LEMMA ChainIsCut ==
    ASSUME NEW cs \in Seq(MoveType), NEW i \in 1..Len(cs), Chainable(cs[i]),
           \A k \in 1..(Len(cs[i].path) - 1) : cs[i].path[k].at # cs[i].end.at
    PROVE  \E g \in i..Len(cs) :
              /\ Chain(cs, i) = SubSeq(cs, i, g)
              /\ \A m \in i..g : Chainable(cs[m])
              /\ ~ChainReturns(SubSeq(cs, i, g))
<1> DEFINE n == Len(cs)
           f == RunFirst(cs, i)
           l == RunLast(cs, i)
           B == ChainBreaks(cs)
           ends == {k \in i..l : (i + 1)..k \cap B = {}}
           g == Greatest(ends)
<1>1. n \in Nat /\ i \in 1..n
  BY LenProperties
<1>2. /\ f \in 1..i /\ l \in i..n
      /\ \A m \in f..l : Chainable(cs[m]) /\ RunFirst(cs, m) = f /\ RunLast(cs, m) = l
  BY RunsAre
<1>3. Chain(cs, i) = SubSeq(cs, i, g)
  BY DEF Chain
<1> HIDE DEF f, l, B, n
<1>4. g \in ends /\ \A k \in ends : g >= k
  <2>1. i \in i..l /\ (i + 1)..i = {} /\ i \in Int /\ l \in Int
    BY <1>1, <1>2
  <2>2. ends \in SUBSET (i..l) /\ ends # {}
    BY <2>1
  <2> HIDE DEF ends
  <2> QED
    BY <2>1, <2>2, GreatestOf
<1>5. g \in i..l /\ (i + 1)..g \cap B = {} /\ \A k \in i..l : (i + 1)..k \cap B = {} => g >= k
  BY <1>4
<1> HIDE DEF g, ends
<1>6. g \in i..n /\ g \in 1..n /\ f \in 1..n /\ g \in f..n /\ \A m \in i..g : m \in f..l
  BY <1>1, <1>2, <1>5
<1>7. DOMAIN cs[i].path = 1..Len(cs[i].path) /\ Len(cs[i].path) \in Nat
  <2>1. cs[i] \in MoveType
    BY ElementOfSeq
  <2>2. cs[i].path \in Seq(PoseType)
    BY <2>1 DEF MoveType
  <2> QED
    BY <2>2, LenProperties
<1>8. ~ChainReturns(SubSeq(cs, i, g))
  <2> SUFFICES ASSUME ChainReturns(SubSeq(cs, i, g)) PROVE FALSE
    OBVIOUS
  <2>1. PICK j \in i..g : \E k \in DOMAIN cs[j].path :
            (j < g \/ k < Len(cs[j].path)) /\ cs[j].path[k].at = cs[g].end.at
    BY <1>6, ReturnsIs DEF n
  <2>2. i # g
    <3> SUFFICES ASSUME i = g PROVE FALSE
      OBVIOUS
    <3>1. j = i /\ ~(j < g)
      BY <1>1, <1>6
    <3>2. PICK k \in DOMAIN cs[i].path : k < Len(cs[i].path) /\ cs[i].path[k].at = cs[i].end.at
      BY <2>1, <3>1
    <3>3. k \in 1..(Len(cs[i].path) - 1)
      BY <1>7, <3>2
    <3> QED
      BY <3>2, <3>3
  <2>3. ChainReturns(SubSeq(cs, f, g))
    <3>1. j \in f..g
      BY <1>2, <1>6
    <3> QED
      BY <1>6, <2>1, <3>1, ReturnsIs DEF n
  <2>4. ASSUME NEW e \in g..l PROVE ChainReturns(SubSeq(cs, f, e))
    <3>1. CASE e = g
      BY <2>3, <3>1
    <3>2. CASE e # g
      <4>1. g + 1 \in i..l /\ g + 1 \in f..l /\ e \in (g + 1)..l
        BY <1>1, <1>2, <1>5, <3>2
      <4>2. (i + 1)..(g + 1) \cap B # {}
        <5>1. ~(g >= g + 1)
          BY <1>1, <1>6
        <5> QED
          BY <1>5, <4>1, <5>1
      <4>3. g + 1 \in B
        <5>1. \A x \in (i + 1)..(g + 1) : x \in (i + 1)..g \/ x = g + 1
          BY <1>1, <1>6
        <5> QED
          BY <1>5, <4>2, <5>1
      <4>4. \A x \in (g + 1)..RunLast(cs, g + 1) : ChainReturns(SubSeq(cs, RunFirst(cs, g + 1), x))
        BY <4>3 DEF B, ChainBreaks
      <4>5. RunFirst(cs, g + 1) = f /\ RunLast(cs, g + 1) = l
        BY <1>2, <4>1
      <4> QED
        BY <4>1, <4>4, <4>5
    <3> QED
      BY <3>1, <3>2
  <2>5. g \in B
    <3>1. g \in f..l /\ f < g /\ g \in 1..n
      BY <1>1, <1>2, <1>5, <1>6, <2>2
    <3>2. Chainable(cs[g]) /\ RunFirst(cs, g) = f /\ RunLast(cs, g) = l
      BY <1>2, <3>1
    <3>3. g \in DOMAIN cs
      BY <3>1, LenProperties DEF n
    <3> QED
      BY <2>4, <3>1, <3>2, <3>3 DEF B, ChainBreaks
  <2>6. g \in (i + 1)..g
    BY <1>1, <1>6, <2>2
  <2> QED
    BY <1>5, <2>5, <2>6
<1>9. \A m \in i..g : Chainable(cs[m])
  BY <1>2, <1>6
<1> QED
  BY <1>3, <1>6, <1>8, <1>9 DEF n

-----------------------------------------------------------------------------
(* The invariant.                                                          *)

\* No branch is the draft's at first, and it is of the type of a branch.
LEMMA NoBranchIs == NoBranch \in BranchType /\ NoBranch.of = 0
<1>1. <<>> \in Seq(StepIds)
  BY EmptySeq
<1> QED
  BY <1>1 DEF NoBranch, BranchType

\* A branch of the right type names a main route.
LEMMA BranchesNameMains ==
    ASSUME NEW r \in RouteType
    PROVE  /\ IsBranch(r) => r.branch.of # 0
           /\ ~IsBranch(r) => r.branch = NoBranch /\ ~IsOpen(r)
           /\ Closed(r) => r.branch.of # 0 /\ r.branch.rejoin # NoId
<1>1. r.branch \in BranchType
  BY RouteHas
<1>2. r.branch.of = 0 => r.branch = NoBranch
  BY <1>1 DEF BranchType
<1> QED
  BY <1>2, NoBranchIs DEF IsBranch, IsOpen, Closed

\* The blank draft is a route of no open branch, and no picked route is a pick.
LEMMA BlankIs == Blank \in RouteType /\ ~IsOpen(Blank) /\ Nobody \in [of : Nat, route : RouteType]
<1>1. Pose(<<1, 1>>, <<1, 0>>) \in PoseType
  BY DEF Pose, PoseType, Points, Headings
<1>2. <<>> \in Seq(StepType)
  BY EmptySeq
<1>3. Blank \in RouteType /\ Blank.branch = NoBranch
  <2>1. 1 \in {1, 2}
    OBVIOUS
  <2> DEFINE q == Pose(<<1, 1>>, <<1, 0>>)
             t == <<>>
  <2>2. Blank = Route(q, t, 1, NoBranch)
    BY DEF Blank
  <2>3. q \in PoseType /\ t \in Seq(StepType) /\ NoBranch \in BranchType
    BY <1>1, <1>2, NoBranchIs
  <2> HIDE DEF q, t
  <2> QED
    BY <2>1, <2>2, <2>3, RouteIs
<1> QED
  BY <1>3, NoBranchIs DEF IsOpen, Nobody

\* What the server approved of a route stays true of it.
LEMMA HoldsStays ==
    ASSUME NEW r, world' = world
    PROVE  Holds(r)' <=> Holds(r)
  BY DEF Holds, Cleared, Clear

\* What is saved is a main route or a stop point's route, and well formed.
LEMMA SavedHas ==
    ASSUME PlanTypes, NEW e
    PROVE  /\ e \in Saved <=> (\E n \in 1..Len(mains) : e = mains[n]) \/ (\E n \in 1..Len(poss) : e = poss[n])
           /\ e \in Saved => e \in SavedType
<1>1. /\ DOMAIN mains = 1..Len(mains) /\ \A n \in 1..Len(mains) : mains[n] \in SavedType
      /\ DOMAIN poss = 1..Len(poss) /\ \A n \in 1..Len(poss) : poss[n] \in SavedType
  BY LenProperties, ElementOfSeq DEF PlanTypes
<1> QED
  BY <1>1 DEF Saved, Range

\* A step of the editor that saves nothing.
LEMMA EditingKeeps ==
    ASSUME PlanIInv, UNCHANGED <<world, mains, poss>>, draft' \in RouteType,
           picked' \in [of : Nat, route : RouteType], OpenLeaves'
    PROVE  PlanIInv'
<1>1. PlanTypes'
  BY DEF PlanIInv, PlanTypes
<1>2. Saved' = Saved
  BY DEF Saved
<1>3. ASSUME NEW e \in Saved PROVE Holds(e.route)'
  BY HoldsStays DEF PlanIInv, SavedHolds
<1>4. SavedHolds'
  BY <1>2, <1>3 DEF SavedHolds
<1> QED
  BY <1>1, <1>4 DEF PlanIInv

\* Drawing a step at the end of the draft keeps the invariant.
LEMMA DrawKeeps == ASSUME PlanIInv, Draw PROVE PlanIInv'
<1>1. PICK s \in Inputs : draft' = WithSteps(draft, Append(draft.steps, s))
  BY DEF Draw
<1>2. draft \in RouteType /\ s \in StepType
  BY InputsAreSteps DEF PlanIInv, PlanTypes
<1>3. /\ draft.start \in PoseType /\ draft.steps \in Seq(StepType)
      /\ draft.repeat \in {1, 3} /\ draft.branch \in BranchType
      /\ DOMAIN draft.steps = 1..Len(draft.steps) /\ Len(draft.steps) \in Nat
  BY <1>2, RouteHas
<1> DEFINE t == Append(draft.steps, s)
<1>4. /\ t \in Seq(StepType) /\ Len(t) = Len(draft.steps) + 1
      /\ \A i \in 1..Len(draft.steps) : t[i] = draft.steps[i]
  BY <1>2, <1>3, AppendProperties
<1> HIDE DEF t
<1>6. draft' \in RouteType /\ draft'.steps = t /\ draft'.branch = draft.branch
  <2>1. draft' = Route(draft.start, t, draft.repeat, draft.branch)
    BY <1>1 DEF WithSteps, t
  <2> QED
    BY <1>3, <1>4, <2>1, RouteIs
<1>8. UNCHANGED <<world, mains, poss>> /\ picked' = picked
  BY DEF Draw
<1>9. OpenLeaves'
  BY <1>6, <1>8 DEF PlanIInv, OpenLeaves, IsOpen
<1>10. picked' \in [of : Nat, route : RouteType]
  BY <1>8 DEF PlanIInv, PlanTypes
<1> QED
  BY <1>6, <1>8, <1>9, <1>10, EditingKeeps

\* Taking the last step back keeps the invariant.
LEMMA UndoKeeps == ASSUME PlanIInv, Undo PROVE PlanIInv'
<1>1. draft' = WithSteps(draft, Front(draft.steps)) /\ ~IsBranch(draft)
  BY DEF Undo
<1>2. draft \in RouteType
  BY DEF PlanIInv, PlanTypes
<1>3. /\ draft.start \in PoseType /\ draft.steps \in Seq(StepType)
      /\ draft.repeat \in {1, 3} /\ draft.branch \in BranchType /\ Len(draft.steps) \in Nat
  BY <1>2, RouteHas
<1>4. Front(draft.steps) \in Seq(StepType)
  <2>1. 1 \in Nat \ {0} /\ Len(draft.steps) - 1 \in Int /\ Len(draft.steps) - 1 <= Len(draft.steps)
    BY <1>3
  <2> QED
    BY <1>3, <2>1, PartsAreSteps DEF Front
<1>5. draft' \in RouteType /\ draft'.branch = draft.branch
  BY <1>1, <1>3, <1>4, RouteIs DEF WithSteps
<1>6. ~IsOpen(draft)
  BY <1>1, <1>2, BranchesNameMains
<1>7. OpenLeaves'
  BY <1>5, <1>6 DEF OpenLeaves, IsOpen
<1>8. UNCHANGED <<world, mains, poss>> /\ picked' = picked
  BY DEF Undo
<1>9. picked' \in [of : Nat, route : RouteType]
  BY <1>8 DEF PlanIInv, PlanTypes
<1> QED
  BY <1>5, <1>7, <1>8, <1>9, EditingKeeps

\* Splitting a straight in two keeps it: the tail is a step with an id of its own, and no id is lost.
LEMMA SplitStraightKeeps == ASSUME PlanIInv, SplitStraight PROVE PlanIInv'
<1> DEFINE st == draft.steps
<1>1. PICK i \in DOMAIN st :
          draft' = WithSteps(draft, SubSeq(st, 1, i - 1)
                    \o <<Straight(st[i].id, Ahead(PoseAfter(draft, i - 1), 1).at, st[i].v),
                         Straight(NextId, st[i].to, st[i].v)>>
                    \o SubSeq(st, i + 1, Len(st)))
  BY DEF SplitStraight
<1>2. draft \in RouteType
  BY DEF PlanIInv, PlanTypes
<1>3. /\ draft.start \in PoseType /\ st \in Seq(StepType)
      /\ draft.repeat \in {1, 3} /\ draft.branch \in BranchType
      /\ DOMAIN st = 1..Len(st) /\ Len(st) \in Nat /\ \A k \in 1..Len(st) : st[k] \in StepType
      /\ \A k \in 0..Len(st) : PoseAfter(draft, k) \in PoseType
  BY <1>2, RouteHas
<1> HIDE DEF st
<1>4. i \in 1..Len(st) /\ i - 1 \in 0..Len(st)
  BY <1>3
<1>5. st[i].id \in StepIds /\ st[i].to \in Points /\ st[i].v \in 1..RouteSpeed
  BY <1>3, <1>4 DEF StepType
<1> DEFINE c == Ahead(PoseAfter(draft, i - 1), 1).at
<1>6. c \in Points
  <2>1. Ahead(PoseAfter(draft, i - 1), 1) \in PoseType
    BY <1>3, <1>4, AheadIsPose
  <2> QED
    BY <2>1 DEF PoseType
<1> HIDE DEF c
<1>7. NextId \in StepIds
  BY <1>2, NextIdIsFree
<1> DEFINE one == Straight(st[i].id, c, st[i].v)
           two == Straight(NextId, st[i].to, st[i].v)
<1>8. one \in StepType /\ two \in StepType
  BY <1>5, <1>6, <1>7, StepsAreMade
<1> HIDE DEF one, two
<1>9. SubSeq(st, 1, i - 1) \in Seq(StepType) /\ SubSeq(st, i + 1, Len(st)) \in Seq(StepType)
  <2>1. /\ 1 \in Nat \ {0} /\ i - 1 \in Int /\ i - 1 <= Len(st)
        /\ i + 1 \in Nat \ {0} /\ Len(st) \in Int /\ Len(st) <= Len(st)
    BY <1>3, <1>4
  <2> QED
    BY <1>3, <2>1, PartsAreSteps
<1>10. <<one, two>> \in Seq(StepType)
  BY <1>8
<1> DEFINE t == SubSeq(st, 1, i - 1) \o <<one, two>> \o SubSeq(st, i + 1, Len(st))
<1>11. t \in Seq(StepType)
  BY <1>9, <1>10, JoinedAreSteps
<1>12. draft' = WithSteps(draft, t)
  BY <1>1 DEF one, two, c
<1> HIDE DEF t
<1>13. draft' \in RouteType /\ draft'.branch = draft.branch
  BY <1>3, <1>11, <1>12, RouteIs DEF WithSteps, st
<1>16. UNCHANGED <<world, mains, poss>> /\ picked' = picked
  BY DEF SplitStraight
<1>15. OpenLeaves'
  BY <1>13, <1>16 DEF PlanIInv, OpenLeaves, IsOpen
<1>17. picked' \in [of : Nat, route : RouteType]
  BY <1>16 DEF PlanIInv, PlanTypes
<1> QED
  BY <1>13, <1>15, <1>16, <1>17, EditingKeeps

\* Moving the start of the draft keeps it.
LEMMA SetStartKeeps == ASSUME PlanIInv, SetStart PROVE PlanIInv'
<1>1. draft' = Route(Pose(<<2, 1>>, <<1, 0>>), draft.steps, draft.repeat, draft.branch)
  BY DEF SetStart
<1>2. draft \in RouteType
  BY DEF PlanIInv, PlanTypes
<1>3. /\ draft.steps \in Seq(StepType) /\ draft.repeat \in {1, 3} /\ draft.branch \in BranchType
  BY <1>2, RouteHas
<1>4. Pose(<<2, 1>>, <<1, 0>>) \in PoseType
  BY DEF Pose, PoseType, Points, Headings
<1>5. draft' \in RouteType /\ draft'.steps = draft.steps /\ draft'.branch = draft.branch
  BY <1>1, <1>3, <1>4, RouteIs
<1>6. UNCHANGED <<world, mains, poss>> /\ picked' = picked
  BY DEF SetStart
<1>7. OpenLeaves'
  BY <1>5, <1>6 DEF PlanIInv, OpenLeaves, IsOpen
<1>8. picked' \in [of : Nat, route : RouteType]
  BY <1>6 DEF PlanIInv, PlanTypes
<1> QED
  BY <1>5, <1>6, <1>7, <1>8, EditingKeeps

\* Setting the number of passes keeps it.
LEMMA SetRepeatKeeps == ASSUME PlanIInv, SetRepeat PROVE PlanIInv'
<1>1. draft' = [draft EXCEPT !.repeat = 3]
  BY DEF SetRepeat
<1>2. draft \in RouteType
  BY DEF PlanIInv, PlanTypes
<1>3. draft' \in RouteType /\ draft'.steps = draft.steps /\ draft'.branch = draft.branch
  BY <1>1, <1>2 DEF RouteType
<1>4. UNCHANGED <<world, mains, poss>> /\ picked' = picked
  BY DEF SetRepeat
<1>5. OpenLeaves'
  BY <1>3, <1>4 DEF PlanIInv, OpenLeaves, IsOpen
<1>6. picked' \in [of : Nat, route : RouteType]
  BY <1>4 DEF PlanIInv, PlanTypes
<1> QED
  BY <1>3, <1>4, <1>5, <1>6, EditingKeeps

\* What the editor fetches of a saved main route.
LEMMA FetchedIs ==
    ASSUME PlanTypes, NEW n, Fetched(n) # Nobody
    PROVE  /\ n \in 1..Len(mains) /\ n \in Nat \ {0}
           /\ Fetched(n) \in [of : Nat, route : RouteType]
           /\ Fetched(n).of = n /\ Fetched(n).route = mains[n].route
<1>1. n \in DOMAIN mains /\ Fetched(n) = [of |-> n, route |-> mains[n].route]
  BY DEF Fetched
<1>2. /\ DOMAIN mains = 1..Len(mains) /\ Len(mains) \in Nat
      /\ \A k \in 1..Len(mains) : mains[k] \in SavedType
  BY LenProperties, ElementOfSeq DEF PlanTypes
<1>3. mains[n].route \in RouteType
  BY <1>1, <1>2 DEF SavedType
<1> QED
  BY <1>1, <1>2, <1>3

\* Starting a branch at a step of a main route keeps it.
LEMMA StartBranchKeeps == ASSUME PlanIInv, StartBranch PROVE PlanIInv'
<1>1. PICK n \in DOMAIN mains :
          /\ Fetched(n) # Nobody
          /\ \E li \in DOMAIN Fetched(n).route.steps :
                draft' = Route(Fetched(n).route.start, SubSeq(Fetched(n).route.steps, 1, li), 1,
                               [NoBranch EXCEPT !.of = n, !.leave = Fetched(n).route.steps[li].id])
          /\ picked' = Fetched(n)
  BY DEF StartBranch
<1> DEFINE r == Fetched(n).route
<1>2. /\ n \in Nat \ {0} /\ Fetched(n) \in [of : Nat, route : RouteType] /\ Fetched(n).of = n
      /\ r \in RouteType
  BY <1>1, FetchedIs DEF PlanIInv
<1>3. PICK li \in DOMAIN r.steps :
          draft' = Route(r.start, SubSeq(r.steps, 1, li), 1,
                         [NoBranch EXCEPT !.of = n, !.leave = r.steps[li].id])
  BY <1>1
<1> HIDE DEF r
<1> DEFINE b == [NoBranch EXCEPT !.of = n, !.leave = r.steps[li].id]
           t == SubSeq(r.steps, 1, li)
<1>4. /\ r.start \in PoseType /\ r.steps \in Seq(StepType) /\ DOMAIN r.steps = 1..Len(r.steps)
      /\ Len(r.steps) \in Nat /\ \A i \in 1..Len(r.steps) : r.steps[i] \in StepType
  BY <1>2, RouteHas
<1>5. r.steps[li].id \in StepIds
  BY <1>3, <1>4 DEF StepType
<1>6. /\ b \in BranchType /\ b.of = n /\ b.leave = r.steps[li].id /\ b.rejoin = NoId
      /\ b.own = <<>> /\ b.at = <<>>
  <2> DEFINE S == Seq(StepIds)
             P == Points \cup {<<>>}
             J == StepIds \cup {NoId}
             x == r.steps[li].id
             e == <<>>
  <2>1. b \in [of : {n}, leave : {x}, rejoin : {NoId}, own : {e}, at : {e}, split : {NoId}]
    BY DEF NoBranch
  <2>2. e \in S /\ e \in P /\ n \in Nat /\ n # 0 /\ x \in J /\ NoId \in J
    BY <1>2, <1>5, EmptySeq
  <2> HIDE DEF S, P, J, x, e, b
  <2>3. /\ b.of = n /\ b.leave = x /\ b.rejoin = NoId /\ b.own = e /\ b.at = e
        /\ b \in [of : Nat, leave : J, rejoin : J, own : S, at : P, split : J]
    BY <2>1, <2>2
  <2>4. b \in BranchType
    BY <2>2, <2>3 DEF BranchType, S, P, J, e
  <2> QED
    BY <2>3, <2>4 DEF x, e
<1>7. t \in Seq(StepType)
  <2>1. 1 \in Nat \ {0} /\ li \in Int /\ li <= Len(r.steps)
    BY <1>3, <1>4
  <2> QED
    BY <1>4, <2>1, PartsAreSteps
<1>9. r.steps[li].id \in Ids(r.steps)
  BY <1>3 DEF Ids
<1> HIDE DEF b, t
<1>10. draft' \in RouteType /\ draft'.steps = t /\ draft'.branch = b
  <2>1. draft' = Route(r.start, t, 1, b) /\ 1 \in {1, 2}
    BY <1>3 DEF b, t
  <2> QED
    BY <1>4, <1>6, <1>7, <2>1, RouteIs
<1>11. OpenLeaves'
  BY <1>1, <1>6, <1>9, <1>10 DEF OpenLeaves, r
<1>12. UNCHANGED <<world, mains, poss>>
  BY DEF StartBranch
<1> QED
  BY <1>1, <1>2, <1>10, <1>11, <1>12, EditingKeeps

\* The ids of some steps.
LEMMA IdsOfSteps ==
    ASSUME NEW own \in Seq(StepType)
    PROVE  [k \in DOMAIN own |-> own[k].id] \in Seq(StepIds)
<1>1. /\ Len(own) \in Nat /\ DOMAIN own = 1..Len(own) /\ \A k \in 1..Len(own) : own[k].id \in StepIds
  <2>1. /\ Len(own) \in Nat /\ DOMAIN own = 1..Len(own) /\ \A k \in 1..Len(own) : own[k] \in StepType
    BY LenProperties, ElementOfSeq
  <2> QED
    BY <2>1 DEF StepType
<1>2. [k \in DOMAIN own |-> own[k].id] \in [1..Len(own) -> StepIds]
  BY <1>1
<1> QED
  BY <1>1, <1>2, IsASeq

\* Rejoining the main route from an open branch keeps it.
LEMMA RejoinMainKeeps == ASSUME PlanIInv, RejoinMain PROVE PlanIInv'
<1> DEFINE main == picked.route
           st == draft.steps
           b == draft.branch
           li == IndexOf(main.steps, b.leave)
           own == SubSeq(st, li + 1, Len(st))
           ids == [k \in DOMAIN own |-> own[k].id]
<1>1. /\ IsOpen(draft) /\ picked.of = b.of
      /\ \E ri \in li..Len(main.steps) :
            draft' = Route(draft.start,
                       st \o SubSeq(main.steps, ri + 1, Len(main.steps)), draft.repeat,
                       [b EXCEPT !.rejoin = main.steps[ri].id, !.own = ids])
      /\ UNCHANGED <<world, mains, poss>> /\ picked' = picked
  BY DEF RejoinMain
<1>2. draft \in RouteType /\ main \in RouteType /\ picked \in [of : Nat, route : RouteType]
  BY DEF PlanIInv, PlanTypes
<1>3. /\ draft.start \in PoseType /\ st \in Seq(StepType) /\ draft.repeat \in {1, 3}
      /\ b \in BranchType /\ Len(st) \in Nat
  BY <1>2, RouteHas
<1>4. /\ main.steps \in Seq(StepType) /\ Len(main.steps) \in Nat
      /\ \A i \in 1..Len(main.steps) : main.steps[i] \in StepType
  BY <1>2, RouteHas
<1>5. b.leave \in Ids(main.steps)
  BY <1>1 DEF PlanIInv, OpenLeaves
<1>6. li \in 1..Len(main.steps)
  BY <1>4, <1>5, IndexIs
<1> HIDE DEF li
<1>7. own \in Seq(StepType)
  <2>1. li + 1 \in Nat \ {0} /\ Len(st) \in Int /\ Len(st) <= Len(st)
    BY <1>3, <1>4, <1>6
  <2> HIDE DEF st
  <2> QED
    BY <1>3, <2>1, PartsAreSteps
<1> HIDE DEF own
<1>8. ids \in Seq(StepIds)
  BY <1>7, IdsOfSteps
<1> HIDE DEF ids, st, main, b
<1>9. PICK ri \in li..Len(main.steps) :
            draft' = Route(draft.start,
                       st \o SubSeq(main.steps, ri + 1, Len(main.steps)), draft.repeat,
                       [b EXCEPT !.rejoin = main.steps[ri].id, !.own = ids])
  BY <1>1
<1>10. ri \in 1..Len(main.steps)
  BY <1>4, <1>6, <1>9
<1>11. main.steps[ri].id \in StepIds
  BY <1>4, <1>10 DEF StepType
<1> DEFINE t == st \o SubSeq(main.steps, ri + 1, Len(main.steps))
           nb == [b EXCEPT !.rejoin = main.steps[ri].id, !.own = ids]
<1>12. t \in Seq(StepType)
  <2>1. ri + 1 \in Nat \ {0} /\ Len(main.steps) \in Int /\ Len(main.steps) <= Len(main.steps)
    BY <1>4, <1>10
  <2>2. SubSeq(main.steps, ri + 1, Len(main.steps)) \in Seq(StepType)
    BY <1>4, <2>1, PartsAreSteps
  <2> QED
    BY <1>3, <2>2, JoinedAreSteps
<1>13. b.of # 0
  BY <1>1 DEF IsOpen, b
<1>14. nb \in BranchType /\ nb.rejoin # NoId
  <2> DEFINE x == main.steps[ri].id
  <2>1. x \in StepIds
    BY <1>11
  <2> HIDE DEF x
  <2>2. /\ [b EXCEPT !.rejoin = x, !.own = ids] \in BranchType
        /\ [b EXCEPT !.rejoin = x, !.own = ids].rejoin = x
    BY <1>3, <1>8, <1>13, <2>1 DEF BranchType
  <2> QED
    BY <2>1, <2>2, NoIdIs DEF x
<1>15. draft' \in RouteType /\ draft'.branch = nb
  <2>1. draft' = Route(draft.start, t, draft.repeat, nb)
    BY <1>9
  <2> HIDE DEF t, nb
  <2> QED
    BY <1>3, <1>12, <1>14, <2>1, RouteIs
<1>16. OpenLeaves'
  <2> HIDE DEF nb
  <2> QED
    BY <1>14, <1>15 DEF OpenLeaves, IsOpen
<1> QED
  BY <1>1, <1>2, <1>15, <1>16, EditingKeeps

\* The straight a stop point branches off is a step of the main route.
LEMMA JunctionIs ==
    ASSUME NEW main \in RouteType, NEW c \in Points, Junctions(main, c) # {}
    PROVE  Junction(main, c) \in Junctions(main, c) /\ Junction(main, c) \in 1..Len(main.steps)
<1> DEFINE off(i) == Abs(Lateral(PoseAfter(main, i - 1), c))
           S == Junctions(main, c)
           best == {i \in S : \A j \in S : off(i) <= off(j)}
           n == Len(main.steps)
<1>1. n \in Nat /\ DOMAIN main.steps = 1..n
  BY RouteHas
<1>2. S \in SUBSET (1..n)
  BY <1>1 DEF Junctions
<1>3. \A i \in S : off(i) \in Nat
  <2>1. \A i \in S : i - 1 \in 0..n
    BY <1>1, <1>2
  <2>2. \A i \in S : PoseAfter(main, i - 1) \in PoseType
    BY <2>1, RouteHas
  <2>3. \A i \in S : Lateral(PoseAfter(main, i - 1), c) \in Int
    BY <2>2, OffsetsAreInt
  <2> HIDE DEF S
  <2> QED
    BY <2>3 DEF Abs
<1>4. Junction(main, c) = Smallest(best)
  BY DEF Junction
<1> HIDE DEF off, S, n
<1>5. PICK s \in S : TRUE
  BY DEF S
<1> DEFINE O == {o \in 0..off(s) : \E i \in S : off(i) = o}
<1>6. PICK o \in O : \A m \in O : o <= m
  <2>1. 0 \in Int /\ off(s) \in Int /\ off(s) \in O
    BY <1>3, <1>5
  <2>2. O \in SUBSET (0..off(s)) /\ O # {}
    BY <2>1
  <2> HIDE DEF O
  <2> QED
    BY <2>1, <2>2, LeastOf
<1>7. PICK i \in S : off(i) = o
  BY <1>6
<1>8. ASSUME NEW j \in S PROVE off(i) <= off(j)
  <2>1. off(j) \in Nat /\ off(i) \in 0..off(s) /\ off(s) \in Nat
    BY <1>3, <1>6, <1>7
  <2>2. CASE off(j) <= off(s)
    <3>1. off(j) \in O
      BY <2>1, <2>2
    <3> HIDE DEF O
    <3> QED
      BY <1>6, <1>7, <3>1
  <2>3. CASE ~(off(j) <= off(s))
    BY <2>1, <2>3
  <2> QED
    BY <2>2, <2>3
<1>9. best \in SUBSET (1..n) /\ best # {} /\ best \subseteq S
  BY <1>2, <1>8
<1> HIDE DEF best
<1>10. Smallest(best) \in best
  <2>1. 1 \in Int /\ n \in Int
    BY <1>1
  <2> QED
    BY <1>9, <2>1, LeastOf
<1> QED
  BY <1>4, <1>9, <1>10 DEF n, S

\* The steps of a branch to a stop point are steps.
LEMMA OwnStepsAreSteps ==
    ASSUME NEW j \in PoseType, NEW side \in Int, NEW left \in BOOLEAN, NEW back
    PROVE  OwnSteps(j, side, left, back) \in Seq(StepType)
<1> DEFINE s == IF left THEN 1 ELSE -1
           b(k) == <<"b", k>>
           stop == Ahead(Turned(j, s), side).at
<1>1. s \in {-1, 1} /\ -s \in {-1, 1} /\ 2 * s \in {-2, 2} /\ RouteSpeed \in 1..RouteSpeed
  <2>1. s = 1 \/ s = -1
    OBVIOUS
  <2> HIDE DEF s
  <2> QED
    BY <2>1 DEF RouteSpeed
<1>2. stop \in Points /\ j.at \in Points
  <2> HIDE DEF s
  <2>1. Turned(j, s) \in PoseType
    BY <1>1, TurnsArePoses
  <2>2. Ahead(Turned(j, s), side) \in PoseType
    BY <2>1, AheadIsPose
  <2> QED
    BY <2>2 DEF PoseType
<1> DEFINE first == <<Rotate(b(1), s), Straight(b(2), stop, RouteSpeed), Wait(b(3))>>
           backed == <<BackUp(b(4)), Rotate(b(5), -s)>>
           turned == <<Rotate(b(4), 2 * s), Straight(b(5), j.at, RouteSpeed), Rotate(b(6), s)>>
<1>3. OwnSteps(j, side, left, back) = first \o (IF back = "reverse" THEN backed ELSE turned)
  BY DEF OwnSteps
<1> HIDE DEF s, stop, b
<1>4. /\ Rotate(b(1), s) \in StepType /\ Straight(b(2), stop, RouteSpeed) \in StepType
      /\ Wait(b(3)) \in StepType /\ BackUp(b(4)) \in StepType /\ Rotate(b(5), -s) \in StepType
      /\ Rotate(b(4), 2 * s) \in StepType /\ Straight(b(5), j.at, RouteSpeed) \in StepType
      /\ Rotate(b(6), s) \in StepType
  <2>1. s \in {-2, -1, 1, 2} /\ -s \in {-2, -1, 1, 2} /\ 2 * s \in {-2, -1, 1, 2}
    BY <1>1
  <2>2. \A k \in {1, 2, 3, 4, 5, 6} : b(k) \in StepIds
    BY DEF b, StepIds
  <2>3. \A id \in {b(1), b(2), b(3), b(4), b(5), b(6)} :
           /\ \A c \in Points, v \in 1..RouteSpeed : Straight(id, c, v) \in StepType
           /\ \A t \in {-2, -1, 1, 2} : Rotate(id, t) \in StepType
           /\ BackUp(id) \in StepType /\ Wait(id) \in StepType
    BY <2>2, StepsAreMade
  <2> QED
    BY <1>1, <1>2, <2>1, <2>3
<1>5. first \in Seq(StepType)
  BY <1>4
<1>6. backed \in Seq(StepType) /\ turned \in Seq(StepType)
  BY <1>4
<1> HIDE DEF first, backed, turned
<1>7. (IF back = "reverse" THEN backed ELSE turned) \in Seq(StepType)
  BY <1>6
<1> QED
  BY <1>3, <1>5, <1>7, JoinedAreSteps

\* Drawing the branch to a stop point in one go keeps it.
LEMMA AutoBranchKeeps == ASSUME PlanIInv, AutoBranch PROVE PlanIInv'
<1>1. PICK n \in DOMAIN mains, c \in {<<2, 2>>, <<3, 2>>, <<2, 0>>}, back \in {"turn", "reverse"} :
          LET copy == Fetched(n)
              main == copy.route
          IN  /\ copy # Nobody
              /\ Junctions(main, c) # {}
              /\ LET i == Junction(main, c)
                     p == PoseAfter(main, i - 1)
                     along == Along(p, c)
                     side == Abs(Lateral(p, c))
                     j == Ahead(p, along)
                     inside == along # 0 /\ j.at # main.steps[i].to
                     leave == main.steps[IF along = 0 THEN i - 1 ELSE i].id
                     own == OwnSteps(j, side, Lateral(p, c) > 0, back)
                     b == [of |-> n, leave |-> leave, rejoin |-> leave,
                           own |-> [k \in DOMAIN own |-> own[k].id],
                           at |-> IF inside THEN j.at ELSE <<>>,
                           split |-> IF inside THEN <<"s_2", leave[2]>> ELSE NoId]
                 IN  /\ side >= 1 /\ (back = "reverse" => side = 1)
                     /\ along = 0 => i > 1
                     /\ draft' = Route(main.start, Composed(main, b, own), 1, b)
              /\ picked' = copy
  BY Zenon DEF AutoBranch
<1>2. UNCHANGED <<world, mains, poss>>
  BY DEF AutoBranch
<1> DEFINE main == Fetched(n).route
           i == Junction(main, c)
           p == PoseAfter(main, i - 1)
           along == Along(p, c)
           side == Abs(Lateral(p, c))
           j == Ahead(p, along)
           left == Lateral(p, c) > 0
           inside == along # 0 /\ j.at # main.steps[i].to
           leave == main.steps[IF along = 0 THEN i - 1 ELSE i].id
           own == OwnSteps(j, side, left, back)
           ids == [k \in DOMAIN own |-> own[k].id]
           at == IF inside THEN j.at ELSE <<>>
           split == IF inside THEN <<"s_2", leave[2]>> ELSE NoId
           b == [of |-> n, leave |-> leave, rejoin |-> leave, own |-> ids, at |-> at, split |-> split]
<1>3. (along = 0 => i > 1) /\ draft' = Route(main.start, Composed(main, b, own), 1, b)
  BY <1>1, Zenon
<1> HIDE DEF b
<1>4. /\ n \in Nat \ {0} /\ main \in RouteType
      /\ picked' \in [of : Nat, route : RouteType]
  BY <1>1, FetchedIs DEF PlanIInv
<1>5. c \in Points
  BY DEF Points
<1>6. /\ main.start \in PoseType /\ main.steps \in Seq(StepType) /\ Len(main.steps) \in Nat
      /\ DOMAIN main.steps = 1..Len(main.steps)
      /\ \A k \in 1..Len(main.steps) : main.steps[k] \in StepType
      /\ \A k \in 0..Len(main.steps) : PoseAfter(main, k) \in PoseType
  BY <1>4, RouteHas
<1>7. i \in 1..Len(main.steps)
  <2>1. Junctions(main, c) # {}
    BY <1>1
  <2> HIDE DEF main
  <2> QED
    BY <1>4, <1>5, <2>1, JunctionIs
<1> HIDE DEF main, i
<1>8. p \in PoseType
  <2>1. i - 1 \in 0..Len(main.steps)
    BY <1>6, <1>7
  <2> QED
    BY <1>6, <2>1
<1> HIDE DEF p
<1>9. along \in Int /\ side \in Int /\ left \in BOOLEAN
  BY <1>5, <1>8, OffsetsAreInt DEF Abs
<1> HIDE DEF along, side, left
<1>10. j \in PoseType /\ j.at \in Points
  <2>1. j \in PoseType
    BY <1>8, <1>9, AheadIsPose
  <2> QED
    BY <2>1 DEF PoseType
<1>11. own \in Seq(StepType)
  <2> HIDE DEF j
  <2> QED
    BY <1>9, <1>10, OwnStepsAreSteps
<1>12. leave \in StepIds /\ leave \in Ids(main.steps)
  <2> DEFINE k == IF along = 0 THEN i - 1 ELSE i
  <2>1. k \in 1..Len(main.steps)
    BY <1>3, <1>6, <1>7
  <2> HIDE DEF k
  <2>2. main.steps[k].id \in StepIds /\ main.steps[k].id \in Ids(main.steps)
    BY <1>6, <2>1 DEF StepType, Ids
  <2> QED
    BY <2>2 DEF k
<1> HIDE DEF leave, own, inside, j
<1>13. ids \in Seq(StepIds)
  BY <1>11, IdsOfSteps
<1>14. at \in Points \cup {<<>>} /\ split \in StepIds \cup {NoId} /\ (at # <<>> => split # NoId)
  <2>1. CASE inside
    <3>1. at = j.at /\ split = <<"s_2", leave[2]>>
      BY <2>1
    <3> HIDE DEF at, split
    <3>2. split \in StepIds
      BY <1>12, <3>1 DEF StepIds
    <3> QED
      BY <1>10, <3>1, <3>2, NoIdIs
  <2>2. CASE ~inside
    <3>1. at = <<>> /\ split = NoId
      BY <2>2
    <3> HIDE DEF at, split
    <3> QED
      BY <3>1
  <2> QED
    BY <2>1, <2>2
<1> HIDE DEF ids, at, split
<1>15. b \in BranchType /\ b.leave = leave /\ b.rejoin = leave
  <2>1. b \in [of : Nat, leave : StepIds \cup {NoId}, rejoin : StepIds \cup {NoId}, own : Seq(StepIds),
               at : Points \cup {<<>>}, split : StepIds \cup {NoId}]
    BY <1>4, <1>12, <1>13, <1>14 DEF b
  <2>2. b.of = n /\ b.leave = leave /\ b.rejoin = leave /\ b.at = at /\ b.split = split
    BY DEF b
  <2> QED
    BY <1>4, <1>14, <2>1, <2>2 DEF BranchType
<1> DEFINE t == Composed(main, b, own)
<1>16. t \in Seq(StepType)
  BY <1>4, <1>11, <1>12, <1>15, ComposedAreSteps
<1>17. draft' \in RouteType /\ draft'.branch = b
  <2>1. draft' = Route(main.start, t, 1, b) /\ 1 \in {1, 2}
    BY <1>3
  <2> HIDE DEF t
  <2> QED
    BY <1>6, <1>15, <1>16, <2>1, RouteIs
<1>18. OpenLeaves'
  BY <1>12, <1>15, <1>17, NoIdIs DEF OpenLeaves, IsOpen
<1> QED
  BY <1>2, <1>4, <1>17, <1>18, EditingKeeps

\* Putting a stop point's route on the main route as it now is keeps it.
LEMMA RebaseKeeps == ASSUME PlanIInv, Rebase PROVE PlanIInv'
<1> DEFINE b == draft.branch
           marks == {n \in DOMAIN mains : ~mains[n].gone}
           newest == Greatest(marks)
           new == Fetched(newest)
           main == new.route
           nb == [b EXCEPT !.of = newest]
           t == Composed(main, b, OwnOf(draft))
<1>1. /\ Closed(draft) /\ marks # {} /\ new # Nobody
      /\ {b.leave, b.rejoin} \subseteq Ids(main.steps)
      /\ draft' = Route(main.start, t, draft.repeat, nb)
      /\ picked' = new
      /\ UNCHANGED <<world, mains, poss>>
  BY DEF Rebase
<1>2. draft \in RouteType /\ PlanTypes
  BY DEF PlanIInv, PlanTypes
<1>3. /\ newest \in Nat \ {0} /\ main \in RouteType /\ new \in [of : Nat, route : RouteType]
  <2> HIDE DEF newest
  <2> QED
    BY <1>1, <1>2, FetchedIs
<1>4. draft.repeat \in {1, 3} /\ b \in BranchType
  BY <1>2, RouteHas
<1>5. b.of # 0 /\ b.rejoin # NoId
  BY <1>1, <1>2, BranchesNameMains
<1>6. OwnOf(draft) \in Seq(StepType)
  BY <1>2, OwnAreSteps
<1> HIDE DEF b, main, newest, new, marks
<1>7. t \in Seq(StepType)
  BY <1>1, <1>3, <1>4, <1>6, ComposedAreSteps
<1>8. nb \in BranchType /\ nb.rejoin = b.rejoin
  BY <1>3, <1>4, <1>5 DEF BranchType
<1>9. main.start \in PoseType
  BY <1>3, RouteHas
<1> HIDE DEF nb, t
<1>10. draft' \in RouteType /\ draft'.branch = nb
  BY <1>1, <1>4, <1>7, <1>8, <1>9, RouteIs
<1>11. OpenLeaves'
  BY <1>5, <1>8, <1>10 DEF OpenLeaves, IsOpen
<1>12. picked' \in [of : Nat, route : RouteType]
  BY <1>1, <1>3
<1> QED
  BY <1>1, <1>10, <1>11, <1>12, EditingKeeps

\* A draft that the server approved is saved with the moves it compiles to.
LEMMA ApprovedIsSaved ==
    ASSUME PlanIInv, Approved(draft)
    PROVE  /\ [route |-> draft, moves |-> Compiled(draft), gone |-> FALSE] \in SavedType
           /\ Holds(draft)
<1>1. Compiles(draft) /\ Cleared(draft) /\ (draft.repeat > 1 => Closes(draft))
  BY DEF Approved
<1>2. draft \in RouteType
  BY DEF PlanIInv, PlanTypes
<1>3. Len(draft.steps) \in Nat /\ DOMAIN draft.steps = 1..Len(draft.steps)
  BY <1>2, RouteHas
<1>4. \A i \in 1..Len(draft.steps) : StepCompiles(draft, i)
  BY <1>1, <1>3 DEF Compiles
<1>5. \A i \in 1..Len(draft.steps) : CompiledStep(draft, i) \in MoveType
  BY <1>2, <1>4, CompiledIsMove
<1>6. Compiled(draft) \in [1..Len(draft.steps) -> MoveType]
  BY <1>3, <1>5 DEF Compiled
<1>7. Compiled(draft) \in Seq(MoveType)
  BY <1>3, <1>6, IsASeq
<1> QED
  BY <1>1, <1>2, <1>7 DEF SavedType, Holds

\* Saving a main route that the server approves keeps it.
LEMMA SaveMainKeeps == ASSUME PlanIInv, SaveMain PROVE PlanIInv'
<1> DEFINE e == [route |-> draft, moves |-> Compiled(draft), gone |-> FALSE]
<1>1. /\ Approved(draft) /\ mains' = Append(mains, e)
      /\ UNCHANGED <<world, session, draft, picked, poss>>
  BY DEF SaveMain
<1>2. e \in SavedType /\ Holds(draft) /\ e.route = draft
  BY <1>1, ApprovedIsSaved
<1> HIDE DEF e
<1>3. PlanTypes
  BY DEF PlanIInv
<1>4. /\ mains' \in Seq(SavedType) /\ Len(mains) \in Nat /\ Len(mains') = Len(mains) + 1
      /\ mains'[Len(mains) + 1] = e /\ \A n \in 1..Len(mains) : mains'[n] = mains[n]
  BY <1>1, <1>2, <1>3, AppendProperties, LenProperties DEF PlanTypes
<1>5. PlanTypes'
  BY <1>1, <1>3, <1>4 DEF PlanTypes
<1>6. ASSUME NEW x \in Saved' PROVE Holds(x.route)'
  <2>1. DOMAIN mains' = 1..Len(mains')
    BY <1>4, LenProperties
  <2>2. x = e \/ x \in Saved
    <3>1. CASE x \in Range(poss')
      BY <1>1, <3>1 DEF Saved
    <3>2. CASE x \in Range(mains')
      <4>1. PICK n \in 1..Len(mains') : x = mains'[n]
        BY <2>1, <3>2 DEF Range
      <4>2. CASE n = Len(mains) + 1
        BY <1>4, <4>1, <4>2
      <4>3. CASE n # Len(mains) + 1
        <5>1. n \in 1..Len(mains)
          BY <1>4, <4>3
        <5>2. x = mains[n]
          BY <1>4, <4>1, <5>1
        <5> QED
          BY <1>3, <5>1, <5>2, SavedHas
      <4> QED
        BY <4>2, <4>3
    <3> QED
      BY <1>6, <3>1, <3>2 DEF Saved
  <2>3. Holds(x.route)
    BY <1>2, <2>2 DEF PlanIInv, SavedHolds
  <2> QED
    BY <1>1, <2>3, HoldsStays
<1>7. OpenLeaves'
  BY <1>1 DEF PlanIInv, OpenLeaves
<1> QED
  BY <1>5, <1>6, <1>7 DEF PlanIInv, SavedHolds

\* Saving a stop point's route that the server approves keeps it.
LEMMA SavePosKeeps == ASSUME PlanIInv, SavePos PROVE PlanIInv'
<1> DEFINE e == [route |-> draft, moves |-> Compiled(draft), gone |-> FALSE]
<1>1. /\ Approved(draft) /\ poss' = Append(poss, e)
      /\ UNCHANGED <<world, session, draft, picked, mains>>
  BY DEF SavePos
<1>2. e \in SavedType /\ Holds(draft) /\ e.route = draft
  BY <1>1, ApprovedIsSaved
<1> HIDE DEF e
<1>3. PlanTypes
  BY DEF PlanIInv
<1>4. /\ poss' \in Seq(SavedType) /\ Len(poss) \in Nat /\ Len(poss') = Len(poss) + 1
      /\ poss'[Len(poss) + 1] = e /\ \A n \in 1..Len(poss) : poss'[n] = poss[n]
  BY <1>1, <1>2, <1>3, AppendProperties, LenProperties DEF PlanTypes
<1>5. PlanTypes'
  BY <1>1, <1>3, <1>4 DEF PlanTypes
<1>6. ASSUME NEW x \in Saved' PROVE Holds(x.route)'
  <2>1. DOMAIN poss' = 1..Len(poss')
    BY <1>4, LenProperties
  <2>2. x = e \/ x \in Saved
    <3>1. CASE x \in Range(mains')
      BY <1>1, <3>1 DEF Saved
    <3>2. CASE x \in Range(poss')
      <4>1. PICK n \in 1..Len(poss') : x = poss'[n]
        BY <2>1, <3>2 DEF Range
      <4>2. CASE n = Len(poss) + 1
        BY <1>4, <4>1, <4>2
      <4>3. CASE n # Len(poss) + 1
        <5>1. n \in 1..Len(poss)
          BY <1>4, <4>3
        <5>2. x = poss[n]
          BY <1>4, <4>1, <5>1
        <5> QED
          BY <1>3, <5>1, <5>2, SavedHas
      <4> QED
        BY <4>2, <4>3
    <3> QED
      BY <1>6, <3>1, <3>2 DEF Saved
  <2>3. Holds(x.route)
    BY <1>2, <2>2 DEF PlanIInv, SavedHolds
  <2> QED
    BY <1>1, <2>3, HoldsStays
<1>7. OpenLeaves'
  BY <1>1 DEF PlanIInv, OpenLeaves
<1> QED
  BY <1>5, <1>6, <1>7 DEF PlanIInv, SavedHolds

\* Taking a revision of the main route away keeps it: what was approved of it stays true.
LEMMA RemoveMainKeeps == ASSUME PlanIInv, RemoveMain PROVE PlanIInv'
<1>1. PICK m \in DOMAIN mains : mains' = [mains EXCEPT ![m].gone = TRUE]
  BY DEF RemoveMain
<1>2. UNCHANGED <<world, session, draft, picked, poss>>
  BY DEF RemoveMain
<1>3. PlanTypes
  BY DEF PlanIInv
<1>4. /\ mains \in Seq(SavedType) /\ Len(mains) \in Nat /\ DOMAIN mains = 1..Len(mains)
      /\ \A n \in 1..Len(mains) : mains[n] \in SavedType
  BY <1>3, LenProperties, ElementOfSeq DEF PlanTypes
<1>5. /\ DOMAIN mains' = DOMAIN mains
      /\ \A n \in DOMAIN mains : n # m => mains'[n] = mains[n]
      /\ mains'[m] = [mains[m] EXCEPT !.gone = TRUE]
  BY <1>1, <1>4
<1>6. \A n \in 1..Len(mains) : mains'[n] \in SavedType /\ mains'[n].route = mains[n].route
  <2>1. mains[m] \in SavedType
    BY <1>4
  <2>2. [mains[m] EXCEPT !.gone = TRUE] \in SavedType /\ [mains[m] EXCEPT !.gone = TRUE].route = mains[m].route
    BY <2>1 DEF SavedType
  <2> QED
    BY <1>4, <1>5, <2>2
<1>7. mains' \in Seq(SavedType)
  <2>1. mains' = [n \in 1..Len(mains) |-> mains'[n]]
    BY <1>1, <1>4
  <2>2. mains' \in [1..Len(mains) -> SavedType]
    BY <1>6, <2>1
  <2> QED
    BY <1>4, <2>2, IsASeq
<1>8. PlanTypes'
  BY <1>2, <1>3, <1>7 DEF PlanTypes
<1>9. ASSUME NEW x \in Saved' PROVE Holds(x.route)'
  <2>1. \E y \in Saved : x.route = y.route
    <3>1. CASE x \in Range(poss')
      BY <1>2, <3>1 DEF Saved
    <3>2. CASE x \in Range(mains')
      <4>1. PICK n \in 1..Len(mains) : x = mains'[n]
        BY <1>4, <1>5, <3>2 DEF Range
      <4>2. mains[n] \in Saved /\ x.route = mains[n].route
        BY <1>3, <1>6, <4>1, SavedHas
      <4> QED
        BY <4>2
    <3> QED
      BY <1>9, <3>1, <3>2 DEF Saved
  <2>2. Holds(x.route)
    BY <2>1 DEF PlanIInv, SavedHolds
  <2> QED
    BY <1>2, <2>2, HoldsStays
<1>10. OpenLeaves'
  BY <1>2 DEF PlanIInv, OpenLeaves
<1> QED
  BY <1>8, <1>9, <1>10 DEF PlanIInv, SavedHolds

\* The invariant holds at first and every step keeps it.
THEOREM PlanInvariant == PlanSpec => []PlanIInv
<1>1. PlanInit => PlanIInv
  <2> SUFFICES ASSUME PlanInit PROVE PlanIInv
    OBVIOUS
  <2>1. draft = Blank /\ picked = Nobody /\ mains = <<>> /\ poss = <<>>
    BY DEF PlanInit
  <2>2. <<>> \in Seq(SavedType)
    BY EmptySeq
  <2>3. PlanTypes
    BY <2>1, <2>2, BlankIs DEF PlanTypes
  <2>4. Saved = {}
    BY <2>1 DEF Saved, Range
  <2>5. OpenLeaves
    BY <2>1, BlankIs DEF OpenLeaves
  <2> QED
    BY <2>3, <2>4, <2>5 DEF PlanIInv, SavedHolds
<1>2. PlanIInv /\ [PlanNext]_planVars => PlanIInv'
  <2> SUFFICES ASSUME PlanIInv, [PlanNext]_planVars PROVE PlanIInv'
    OBVIOUS
  <2>1. CASE UNCHANGED planVars
    <3>1. UNCHANGED <<world, draft, picked, mains, poss>>
      BY <2>1 DEF planVars
    <3>2. draft' \in RouteType /\ picked' \in [of : Nat, route : RouteType] /\ OpenLeaves'
      BY <3>1 DEF PlanIInv, PlanTypes, OpenLeaves
    <3> QED
      BY <3>1, <3>2, EditingKeeps
  <2> QED
    BY <2>1, DrawKeeps, UndoKeeps, SplitStraightKeeps, SetStartKeeps, SetRepeatKeeps,
       StartBranchKeeps, RejoinMainKeeps, AutoBranchKeeps, RebaseKeeps, SaveMainKeeps,
       SavePosKeeps, RemoveMainKeeps
    DEF PlanNext
<1> QED
  BY <1>1, <1>2, PTL DEF PlanSpec

-----------------------------------------------------------------------------
(* What a saved route is driven like.                                      *)

\* The moves of a saved route.
LEMMA SavedMovesAre ==
    ASSUME PlanIInv, NEW e \in Saved
    PROVE  /\ e.route \in RouteType /\ Holds(e.route) /\ e.moves \in Seq(MoveType)
           /\ DOMAIN e.moves = 1..Len(e.moves) /\ Len(e.moves) = Len(e.route.steps)
           /\ \A i \in 1..Len(e.moves) :
                 e.moves[i] = CompiledStep(e.route, i) /\ StepCompiles(e.route, i)
<1>1. e \in SavedType /\ Holds(e.route)
  BY SavedHas DEF PlanIInv, SavedHolds
<1>2. e.route \in RouteType /\ e.moves \in Seq(MoveType) /\ e.moves = Compiled(e.route)
  BY <1>1 DEF SavedType
<1>3. Len(e.route.steps) \in Nat /\ DOMAIN e.route.steps = 1..Len(e.route.steps)
  BY <1>2, RouteHas
<1>4. /\ DOMAIN e.moves = 1..Len(e.route.steps)
      /\ \A i \in 1..Len(e.route.steps) : e.moves[i] = CompiledStep(e.route, i)
  BY <1>2, <1>3 DEF Compiled
<1>5. DOMAIN e.moves = 1..Len(e.moves) /\ Len(e.moves) \in Nat
  BY <1>2, LenProperties
<1>6. Len(e.moves) = Len(e.route.steps)
  BY <1>3, <1>4, <1>5
<1>7. \A i \in 1..Len(e.route.steps) : StepCompiles(e.route, i)
  BY <1>1, <1>3 DEF Holds, Compiles
<1> QED
  BY <1>1, <1>2, <1>4, <1>5, <1>6, <1>7

\* The move that sets out from a chainable step of a saved route.
LEMMA SavedChainIs ==
    ASSUME PlanIInv, NEW e \in Saved, NEW i \in DOMAIN e.moves, Chainable(e.moves[i])
    PROVE  \E g \in i..Len(e.moves) :
              /\ Chain(e.moves, i) = SubSeq(e.moves, i, g)
              /\ Chain(e.moves, i) \in Seq(MoveType) /\ Len(Chain(e.moves, i)) = g - i + 1
              /\ Len(Chain(e.moves, i)) \in Nat \ {0}
              /\ \A j \in 1..Len(Chain(e.moves, i)) :
                    /\ Chain(e.moves, i)[j] = e.moves[i + j - 1]
                    /\ Chain(e.moves, i)[j] \in MoveType
                    /\ Len(Chain(e.moves, i)[j].path) \in Nat
                    /\ DOMAIN Chain(e.moves, i)[j].path = 1..Len(Chain(e.moves, i)[j].path)
                    /\ Len(Chain(e.moves, i)[j].path) >= 2
              /\ ~ChainReturns(Chain(e.moves, i))
<1> DEFINE cs == e.moves
<1>1. /\ e.route \in RouteType /\ cs \in Seq(MoveType) /\ DOMAIN cs = 1..Len(cs)
      /\ Len(cs) \in Nat /\ Len(cs) = Len(e.route.steps)
      /\ \A m \in 1..Len(cs) :
            cs[m] \in MoveType /\ cs[m] = CompiledStep(e.route, m) /\ StepCompiles(e.route, m)
  BY SavedMovesAre, LenProperties, ElementOfSeq
<1>2. ASSUME NEW m \in 1..Len(cs), Chainable(cs[m])
      PROVE  /\ Len(cs[m].path) >= 2
             /\ \A k \in 1..(Len(cs[m].path) - 1) : cs[m].path[k].at # cs[m].end.at
  <2>1. cs[m] = CompiledStep(e.route, m) /\ StepCompiles(e.route, m) /\ m \in 1..Len(e.route.steps)
    BY <1>1
  <2> HIDE DEF cs
  <2> QED
    BY <1>1, <1>2, <2>1, CompiledIsMove
<1>3. i \in 1..Len(cs)
  BY <1>1
<1> HIDE DEF cs
<1>4. Chainable(cs[i])
  BY DEF cs
<1>5. PICK g \in i..Len(cs) :
          /\ Chain(cs, i) = SubSeq(cs, i, g)
          /\ \A m \in i..g : Chainable(cs[m])
          /\ ~ChainReturns(SubSeq(cs, i, g))
  BY <1>1, <1>2, <1>3, <1>4, ChainIsCut
<1> DEFINE t == SubSeq(cs, i, g)
<1>6. /\ t \in Seq(MoveType) /\ Len(t) = g - i + 1 /\ Len(t) \in Nat \ {0}
      /\ \A j \in 1..Len(t) : t[j] = cs[i + j - 1] /\ i + j - 1 \in i..g /\ i + j - 1 \in 1..Len(cs)
  <2>1. /\ i \in Int /\ g \in Int /\ i <= g /\ g - i + 1 \in Nat \ {0}
        /\ \A m \in i..g : cs[m] \in MoveType
        /\ \A j \in 1..(g - i + 1) : i + j - 1 \in i..g /\ i + j - 1 \in 1..Len(cs)
    BY <1>1, <1>3
  <2>2. /\ t \in Seq(MoveType) /\ Len(t) = g - i + 1
        /\ \A j \in 1..(g - i + 1) : t[j] = cs[i + j - 1]
    BY <2>1, SubSeqProperties
  <2> HIDE DEF t
  <2> QED
    BY <2>1, <2>2
<1> HIDE DEF t
<1>7. ASSUME NEW j \in 1..Len(t)
      PROVE  /\ t[j] = cs[i + j - 1] /\ t[j] \in MoveType /\ Len(t[j].path) \in Nat
             /\ DOMAIN t[j].path = 1..Len(t[j].path) /\ Len(t[j].path) >= 2
  <2>1. t[j] = cs[i + j - 1] /\ i + j - 1 \in i..g /\ i + j - 1 \in 1..Len(cs)
    BY <1>6
  <2>2. t[j] \in MoveType /\ Len(t[j].path) >= 2
    BY <1>1, <1>2, <1>5, <2>1
  <2>3. t[j].path \in Seq(PoseType)
    BY <2>2 DEF MoveType
  <2> QED
    BY <2>1, <2>2, <2>3, LenProperties
<1>8. Chain(cs, i) = t /\ ~ChainReturns(t)
  BY <1>5 DEF t
<1> QED
  BY <1>5, <1>6, <1>7, <1>8 DEF t, cs

\* A move of a saved route comes by its goal only at its end: the chain is cut there.
LEMMA GoalIsLast == ASSUME PlanIInv PROVE GoalIsReachedLast
<1> SUFFICES ASSUME NEW e \in Saved, NEW i \in DOMAIN e.moves, Chainable(e.moves[i])
             PROVE  LET chain == Chain(e.moves, i)
                        goal == chain[Len(chain)].end.at
                    IN  \A j \in DOMAIN chain : \A k \in DOMAIN chain[j].path :
                            chain[j].path[k].at = goal => j = Len(chain) /\ k = Len(chain[j].path)
  BY DEF GoalIsReachedLast
<1> DEFINE chain == Chain(e.moves, i)
<1>1. /\ chain \in Seq(MoveType) /\ Len(chain) \in Nat \ {0} /\ ~ChainReturns(chain)
      /\ \A j \in 1..Len(chain) :
            Len(chain[j].path) \in Nat /\ DOMAIN chain[j].path = 1..Len(chain[j].path)
  BY SavedChainIs, Zenon
<1> HIDE DEF chain
<1>2. DOMAIN chain = 1..Len(chain)
  BY <1>1, LenProperties
<1>3. ASSUME NEW j \in DOMAIN chain, NEW k \in DOMAIN chain[j].path,
             chain[j].path[k].at = chain[Len(chain)].end.at
      PROVE  j = Len(chain) /\ k = Len(chain[j].path)
  <2>1. ~(j < Len(chain) \/ k < Len(chain[j].path))
    BY <1>1, <1>3 DEF ChainReturns
  <2>2. j \in 1..Len(chain) /\ k \in 1..Len(chain[j].path) /\ Len(chain[j].path) \in Nat
    BY <1>1, <1>2
  <2> QED
    BY <1>1, <2>1, <2>2
<1> QED
  BY <1>3 DEF chain

\* A number between the least and the greatest of four.
LEMMA AmongFour ==
    ASSUME NEW a \in Int, NEW b \in Int, NEW c \in Int, NEW d \in Int, NEW z \in Int,
           a <= z \/ b <= z \/ c <= z \/ d <= z, z <= a \/ z <= b \/ z <= c \/ z <= d
    PROVE  z \in Smallest({a, b, c, d})..Greatest({a, b, c, d})
<1> DEFINE S == {a, b, c, d}
           m == Abs(a) + Abs(b) + Abs(c) + Abs(d)
<1>1. Abs(a) \in Nat /\ Abs(b) \in Nat /\ Abs(c) \in Nat /\ Abs(d) \in Nat
  BY DEF Abs
<1>2. m \in Nat /\ -m \in Int /\ S \in SUBSET (-m..m) /\ S # {}
  <2>1. /\ -Abs(a) <= a /\ a <= Abs(a) /\ -Abs(b) <= b /\ b <= Abs(b)
        /\ -Abs(c) <= c /\ c <= Abs(c) /\ -Abs(d) <= d /\ d <= Abs(d)
    BY DEF Abs
  <2> QED
    BY <1>1, <2>1
<1> HIDE DEF S, m
<1>3. Smallest(S) \in S /\ (\A n \in S : Smallest(S) <= n) /\ Greatest(S) \in S /\ \A n \in S : Greatest(S) >= n
  <2> DEFINE low == -m
  <2>1. low \in Int /\ m \in Int /\ S \in SUBSET (low..m) /\ S # {}
    BY <1>2
  <2> HIDE DEF low
  <2>2. Smallest(S) \in S /\ \A n \in S : Smallest(S) <= n
    BY <2>1, LeastOf
  <2>3. Greatest(S) \in S /\ \A n \in S : Greatest(S) >= n
    BY <2>1, GreatestOf
  <2> QED
    BY <2>2, <2>3
<1> DEFINE lo == Smallest(S)
           hi == Greatest(S)
<1>4. /\ lo \in Int /\ hi \in Int
      /\ lo <= a /\ lo <= b /\ lo <= c /\ lo <= d /\ hi >= a /\ hi >= b /\ hi >= c /\ hi >= d
  BY <1>3 DEF S
<1> HIDE DEF lo, hi
<1>5. z \in lo..hi
  BY <1>4
<1> QED
  BY <1>5 DEF lo, hi, S

\* Between the two ends of a line, whichever way it is driven, the vehicle is over its cells.
LEMMA LineIsSwept ==
    ASSUME NEW p \in PoseType, NEW n \in Int, NEW k \in Int,
           (0 <= k /\ k <= n) \/ (n <= k /\ k <= 0)
    PROVE  Footprint(Ahead(p, k)) \subseteq SweptLine(p, Ahead(p, n))
<1>1. PICK x \in Int, y \in Int : p.at = <<x, y>>
  BY DEF PoseType, Points
<1> DEFINE e == p.d[1]
           f == p.d[2]
<1>2. /\ e \in Int /\ f \in Int
      /\ (e = 1 /\ f = 0) \/ (e = 0 /\ f = 1) \/ (e = -1 /\ f = 0) \/ (e = 0 /\ f = -1)
  <2>1. p.d \in Headings
    BY DEF PoseType
  <2> QED
    BY <2>1, HeadingIs
<1>3. ASSUME NEW m \in Int
      PROVE  /\ Ahead(p, m).at = <<x + m * e, y + m * f>> /\ Ahead(p, m).d = p.d
             /\ Footprint(Ahead(p, m)) = {<<x + m * e, y + m * f>>, <<x + m * e + e, y + m * f + f>>}
  <2>1. p.at[1] = x /\ p.at[2] = y
    BY <1>1
  <2>2. Ahead(p, m) = [at |-> <<p.at[1] + m * p.d[1], p.at[2] + m * p.d[2]>>, d |-> p.d]
    BY AheadIsPose
  <2>3. Ahead(p, m).at = <<x + m * e, y + m * f>> /\ Ahead(p, m).d = p.d
    BY <2>1, <2>2
  <2> QED
    BY <2>3 DEF Footprint
<1>4. Footprint(p) = {<<x, y>>, <<x + e, y + f>>}
  BY <1>1 DEF Footprint
<1> DEFINE xn == x + n * e
           yn == y + n * f
           xk == x + k * e
           yk == y + k * f
           box == Footprint(p) \cup Footprint(Ahead(p, n))
<1>5. box = {<<x, y>>, <<x + e, y + f>>, <<xn, yn>>, <<xn + e, yn + f>>}
  BY <1>3, <1>4
<1>6. xn \in Int /\ yn \in Int /\ xk \in Int /\ yk \in Int
  <2>1. n * e \in Int /\ n * f \in Int /\ k * e \in Int /\ k * f \in Int
    BY <1>2
  <2> QED
    BY <2>1
<1>7. /\ (x <= xk /\ xk <= xn) \/ (xn <= xk /\ xk <= x)
      /\ (y <= yk /\ yk <= yn) \/ (yn <= yk /\ yk <= y)
  <2> HIDE DEF e, f
  <2>1. CASE e = 1 /\ f = 0
    BY <2>1
  <2>2. CASE e = 0 /\ f = 1
    BY <2>2
  <2>3. CASE e = -1 /\ f = 0
    BY <2>3
  <2>4. CASE e = 0 /\ f = -1
    BY <2>4
  <2> QED
    BY <1>2, <2>1, <2>2, <2>3, <2>4
<1>8. Footprint(Ahead(p, k)) = {<<xk, yk>>, <<xk + e, yk + f>>}
  BY <1>3
<1>9. /\ {c[1] : c \in box} = {x, x + e, xn, xn + e}
      /\ {c[2] : c \in box} = {y, y + f, yn, yn + f}
  <2> HIDE DEF box, xn, yn, e, f
  <2> QED
    BY <1>5
<1> HIDE DEF e, f, xn, yn, xk, yk
<1> DEFINE R == Smallest({x, x + e, xn, xn + e})..Greatest({x, x + e, xn, xn + e})
           C == Smallest({y, y + f, yn, yn + f})..Greatest({y, y + f, yn, yn + f})
<1>10. /\ xk \in R /\ xk + e \in R
  <2>1. /\ x + e \in Int /\ xn + e \in Int /\ xk + e \in Int
        /\ (x <= xk \/ xn <= xk) /\ (xk <= x \/ xk <= xn)
        /\ (x + e <= xk + e \/ xn + e <= xk + e) /\ (xk + e <= x + e \/ xk + e <= xn + e)
    BY <1>2, <1>6, <1>7
  <2> QED
    BY <1>6, <2>1, AmongFour
<1>11. /\ yk \in C /\ yk + f \in C
  <2>1. /\ y + f \in Int /\ yn + f \in Int /\ yk + f \in Int
        /\ (y <= yk \/ yn <= yk) /\ (yk <= y \/ yk <= yn)
        /\ (y + f <= yk + f \/ yn + f <= yk + f) /\ (yk + f <= y + f \/ yk + f <= yn + f)
    BY <1>2, <1>6, <1>7
  <2> QED
    BY <1>6, <2>1, AmongFour
<1>12. SweptLine(p, Ahead(p, n)) = R \X C
  <2>1. SweptLine(p, Ahead(p, n)) =
            (Smallest({c[1] : c \in box})..Greatest({c[1] : c \in box}))
                \X (Smallest({c[2] : c \in box})..Greatest({c[2] : c \in box}))
    BY DEF SweptLine
  <2> HIDE DEF box
  <2> QED
    BY <1>9, <2>1
<1> HIDE DEF R, C, box
<1> QED
  BY <1>8, <1>10, <1>11, <1>12

\* Wherever the vehicle stands on a step, and where its nose comes by as it turns, is swept.
LEMMA StandsInSwept ==
    ASSUME NEW r \in RouteType, NEW i \in 1..Len(r.steps), StepCompiles(r, i)
    PROVE  LET c == CompiledStep(r, i)
           IN  /\ \A k \in DOMAIN c.path : Footprint(c.path[k]) \subseteq Swept(c)
               /\ c.kind = "rotate" =>
                      \A k \in 1..(Len(c.path) - 1) : Nose(c.path[k], c.path[k + 1]) \in Swept(c)
<1> DEFINE s == r.steps[i]
           p == PoseAfter(r, i - 1)
           c == CompiledStep(r, i)
           q == PathOf(r.start, p, s)
           e == PoseAfter(r, i)
<1>1. s \in StepType /\ r.start \in PoseType
  BY RouteHas
<1>2. p \in PoseType /\ e \in PoseType /\ e = EndOfStep(r.start, p, s)
  <2>1. i \in 0..Len(r.steps) /\ i - 1 \in 0..Len(r.steps)
    BY RouteHas
  <2> QED
    BY <2>1, RouteHas
<1>3. s.kind = "straight" => StraightCompiles(p, s)
  BY DEF StepCompiles
<1>4. c.kind = s.kind /\ c.start = p /\ c.end = e /\ c.path = q
  BY DEF CompiledStep
<1>5. s.kind \in Kinds
  BY <1>1 DEF StepType
<1> HIDE DEF c, q, s, p, e
<1>6. CASE s.kind = "rotate"
  <2>1. Swept(c) = SweptTurn(q)
    BY <1>4, <1>6 DEF Swept
  <2>2. \A k \in DOMAIN q : Footprint(q[k]) \subseteq SweptTurn(q)
    BY DEF SweptTurn
  <2>3. \A k \in 1..(Len(q) - 1) : Nose(q[k], q[k + 1]) \in SweptTurn(q)
    <3> DEFINE N == {Nose(q[k], q[k + 1]) : k \in 1..(Len(q) - 1)}
               F == UNION {Footprint(q[k]) : k \in DOMAIN q}
    <3>1. \A k \in 1..(Len(q) - 1) : Nose(q[k], q[k + 1]) \in N
      OBVIOUS
    <3>2. SweptTurn(q) = F \cup N
      BY DEF SweptTurn
    <3> HIDE DEF N, F
    <3> QED
      BY <3>1, <3>2
  <2> QED
    BY <1>4, <2>1, <2>2, <2>3 DEF c
<1>7. CASE s.kind \in {"arc", "home"}
  <2>1. Swept(c) = SweptPath(q)
    BY <1>4, <1>7 DEF Swept
  <2>2. \A k \in DOMAIN q : Footprint(q[k]) \subseteq SweptPath(q)
    BY DEF SweptPath
  <2> QED
    BY <1>4, <1>7, <2>1, <2>2 DEF c
<1>8. CASE s.kind = "straight"
  <2> DEFINE n == Along(p, s.to)
  <2>1. Swept(c) = SweptLine(p, e)
    BY <1>4, <1>8 DEF Swept
  <2>2. n \in Nat /\ s.to = Ahead(p, n).at
    BY <1>1, <1>2, <1>3, <1>8, StraightLeads
  <2>3. q = [k \in 1..(n + 1) |-> Ahead(p, k - 1)]
    BY <1>8 DEF PathOf, q
  <2> HIDE DEF n
  <2>4. e = Ahead(p, n)
    <3>1. Ahead(p, n) = [at |-> <<p.at[1] + n * p.d[1], p.at[2] + n * p.d[2]>>, d |-> p.d]
      BY <1>2, <2>2, AheadIsPose
    <3>2. e = [p EXCEPT !.at = s.to]
      BY <1>2, <1>8 DEF EndOfStep
    <3>3. e = [at |-> s.to, d |-> p.d]
      BY <1>2, <3>2 DEF PoseType
    <3> QED
      BY <2>2, <3>1, <3>3
  <2>5. ASSUME NEW k \in 1..(n + 1) PROVE Footprint(Ahead(p, k - 1)) \subseteq SweptLine(p, e)
    <3>1. k - 1 \in Int /\ n \in Int /\ 0 <= k - 1 /\ k - 1 <= n
      BY <2>2
    <3> QED
      BY <1>2, <2>4, <3>1, LineIsSwept
  <2> QED
    BY <1>4, <1>8, <2>1, <2>3, <2>5 DEF c
<1>9. CASE s.kind = "reverse"
  <2>1. Swept(c) = SweptLine(p, e)
    BY <1>4, <1>9 DEF Swept
  <2>2. q = <<p, Ahead(p, -1)>> /\ e = Ahead(p, -1)
    BY <1>2, <1>9 DEF PathOf, EndOfStep, q
  <2>3. Ahead(p, 0) = p
    <3>1. Ahead(p, 0) = [at |-> <<p.at[1] + 0 * p.d[1], p.at[2] + 0 * p.d[2]>>, d |-> p.d]
      BY <1>2, AheadIsPose
    <3>2. PICK x \in Int, y \in Int : p.at = <<x, y>>
      BY <1>2 DEF PoseType, Points
    <3>3. p.d[1] \in Int /\ p.d[2] \in Int
      BY <1>2, HeadingIs DEF PoseType
    <3>4. x + 0 * p.d[1] = x /\ y + 0 * p.d[2] = y
      BY <3>3
    <3>5. Ahead(p, 0) = [at |-> p.at, d |-> p.d]
      BY <3>1, <3>2, <3>4
    <3> QED
      BY <1>2, <3>5 DEF PoseType
  <2>4. Footprint(Ahead(p, 0)) \subseteq SweptLine(p, e) /\ Footprint(Ahead(p, -1)) \subseteq SweptLine(p, e)
    <3>1. Footprint(Ahead(p, 0)) \subseteq SweptLine(p, Ahead(p, -1))
      BY <1>2, LineIsSwept
    <3>2. Footprint(Ahead(p, -1)) \subseteq SweptLine(p, Ahead(p, -1))
      BY <1>2, LineIsSwept
    <3> QED
      BY <2>2, <3>1, <3>2
  <2>5. \A k \in DOMAIN q : q[k] = Ahead(p, 0) \/ q[k] = Ahead(p, -1)
    BY <2>2, <2>3
  <2> QED
    BY <1>4, <1>9, <2>1, <2>4, <2>5 DEF c
<1>10. CASE s.kind = "wait"
  <2>1. Swept(c) = SweptLine(p, e)
    BY <1>4, <1>10 DEF Swept
  <2>2. q = <<p>> /\ e = p
    BY <1>2, <1>10 DEF PathOf, EndOfStep, q
  <2>3. Ahead(p, 0) = p
    <3>1. Ahead(p, 0) = [at |-> <<p.at[1] + 0 * p.d[1], p.at[2] + 0 * p.d[2]>>, d |-> p.d]
      BY <1>2, AheadIsPose
    <3>2. PICK x \in Int, y \in Int : p.at = <<x, y>>
      BY <1>2 DEF PoseType, Points
    <3>3. p.d[1] \in Int /\ p.d[2] \in Int
      BY <1>2, HeadingIs DEF PoseType
    <3>4. x + 0 * p.d[1] = x /\ y + 0 * p.d[2] = y
      BY <3>3
    <3>5. Ahead(p, 0) = [at |-> p.at, d |-> p.d]
      BY <3>1, <3>2, <3>4
    <3> QED
      BY <1>2, <3>5 DEF PoseType
  <2>4. Footprint(p) \subseteq SweptLine(p, e)
    <3>1. Footprint(Ahead(p, 0)) \subseteq SweptLine(p, Ahead(p, 0))
      BY <1>2, LineIsSwept
    <3> QED
      BY <2>2, <2>3, <3>1
  <2>5. \A k \in DOMAIN q : q[k] = p
    BY <2>2
  <2> QED
    BY <1>4, <1>10, <2>1, <2>4, <2>5 DEF c
<1> QED
  BY <1>5, <1>6, <1>7, <1>8, <1>9, <1>10 DEF Kinds

\* A step takes the vehicle from pose to pose.
LEMMA StandsAreEnds ==
    ASSUME NEW p \in PoseType, NEW c \in MoveType
    PROVE  StandsAfter(p, c) \in PoseType
<1>1. c.end \in PoseType
  BY DEF MoveType
<1>2. [c.end EXCEPT !.at = p.at] \in PoseType
  BY <1>1 DEF PoseType
<1> QED
  BY <1>1, <1>2 DEF StandsAfter

\* Where a vehicle stands on a pass: where it set out, and after each step where that leaves it.
LEMMA StandsFollow ==
    ASSUME NEW p \in PoseType, NEW moves \in Seq(MoveType)
    PROVE  /\ Stands(p, moves)[1] = p
           /\ \A i \in 1..(Len(moves) + 1) : Stands(p, moves)[i] \in PoseType
           /\ \A i \in 1..Len(moves) :
                 Stands(p, moves)[i + 1] = StandsAfter(Stands(p, moves)[i], moves[i])
<1> DEFINE n == Len(moves)
           F == [i \in 2..(n + 1) |-> [q \in PoseType |-> StandsAfter(q, moves[i - 1])]]
           Rec(g) == g = [i \in 1..(n + 1) |->
                             IF i = 1 THEN p ELSE StandsAfter(g[i - 1], moves[i - 1])]
<1>1. n \in Nat /\ \A i \in 1..n : moves[i] \in MoveType
  BY LenProperties, ElementOfSeq
<1>2. \A q \in PoseType, i \in 1..n : StandsAfter(q, moves[i]) \in PoseType
  BY <1>1, StandsAreEnds
<1>3. /\ F \in [2..(n + 1) -> [PoseType -> PoseType]]
      /\ \A i \in 2..(n + 1), q \in PoseType : F[i][q] = StandsAfter(q, moves[i - 1])
  <2>1. \A i \in 2..(n + 1) : i - 1 \in 1..n
    BY <1>1
  <2> QED
    BY <1>2, <2>1
<1> HIDE DEF F, n
<1>4. PICK g \in [1..(n + 1) -> PoseType] :
          \A i \in 1..(n + 1) : g[i] = IF i = 1 THEN p ELSE F[i][g[i - 1]]
  <2> DEFINE a == 1
             b == n + 1
  <2>1. a \in Int /\ b \in Int /\ F \in [(a + 1)..b -> [PoseType -> PoseType]]
    BY <1>1, <1>3
  <2> HIDE DEF a, b
  <2>2. \E g : Recurs(PoseType, p, a, b, F, g)
    BY <2>1, RecursionRuns, Zenon
  <2> QED
    BY <2>2 DEF a, b, Recurs
<1>5. Rec(g)
  <2>1. ASSUME NEW i \in 1..(n + 1), i # 1 PROVE g[i] = StandsAfter(g[i - 1], moves[i - 1])
    <3>1. i \in 2..(n + 1) /\ i - 1 \in 1..(n + 1)
      BY <1>1, <2>1
    <3> QED
      BY <1>3, <1>4, <2>1, <3>1
  <2> QED
    BY <1>4, <2>1
<1>6. Rec(Stands(p, moves))
  <2>1. Stands(p, moves) = CHOOSE f : Rec(f)
    BY DEF Stands, n
  <2> HIDE DEF Rec
  <2> QED
    BY <1>5, <2>1, Zenon
<1> DEFINE f == Stands(p, moves)
<1> HIDE DEF f
<1>7. \A i \in 1..(n + 1) : f[i] = IF i = 1 THEN p ELSE StandsAfter(f[i - 1], moves[i - 1])
  <2>1. f = [i \in 1..(n + 1) |-> IF i = 1 THEN p ELSE StandsAfter(f[i - 1], moves[i - 1])]
    BY <1>6 DEF f
  <2> QED
    BY <2>1
<1>8. f[1] = p /\ \A i \in 1..n : f[i + 1] = StandsAfter(f[i], moves[i])
  <2>1. 1 \in 1..(n + 1)
    BY <1>1
  <2>2. ASSUME NEW i \in 1..n PROVE f[i + 1] = StandsAfter(f[i], moves[i])
    <3>1. i + 1 \in 1..(n + 1) /\ i + 1 # 1 /\ (i + 1) - 1 = i
      BY <1>1
    <3> QED
      BY <1>7, <3>1
  <2> QED
    BY <1>7, <2>1, <2>2
<1>9. \A i \in 1..(n + 1) : f[i] \in PoseType
  <2> DEFINE T == {i \in 1..(n + 1) : f[i] \in PoseType}
  <2>1. 1 \in T /\ 1 \in Int /\ n + 1 \in Int
    BY <1>1, <1>8
  <2>2. ASSUME NEW i \in (1 + 1)..(n + 1), i - 1 \in T PROVE i \in T
    <3>1. i - 1 \in 1..n /\ (i - 1) + 1 = i /\ i \in 1..(n + 1)
      BY <1>1
    <3> QED
      BY <1>2, <1>8, <2>2, <3>1
  <2>3. \A i \in 1..(n + 1) : i \in T
    <3> HIDE DEF T
    <3> QED
      BY <2>1, <2>2, UpFrom
  <2> QED
    BY <2>3
<1> QED
  BY <1>8, <1>9 DEF f, n

\* Before step i of a pass that set out from p the vehicle stands where the step was compiled to
\* begin; or, no path followed yet, where it set out, turned as it was compiled to be.
StandsWell(e, p, i) ==
    LET q == PoseAfter(e.route, i - 1)
        at == Stands(p, e.moves)[i]
    IN  \/ at = q
        \/ /\ at = [q EXCEPT !.at = p.at] /\ q.at = e.route.start.at
           /\ \A j \in 1..(i - 1) : e.moves[j].kind \in {"rotate", "wait"}

\* A pass that sets out in the direction of the start stands well before every step.
LEMMA PassIs ==
    ASSUME PlanIInv, NEW e \in Saved, NEW p \in PoseType, p.d = e.route.start.d
    PROVE  \A i \in 1..(Len(e.moves) + 1) : StandsWell(e, p, i)
<1> DEFINE r == e.route
           moves == e.moves
           n == Len(moves)
           f == Stands(p, moves)
           Early(i) == \A j \in 1..(i - 1) : moves[j].kind \in {"rotate", "wait"}
           Beside(i) ==
               LET q == PoseAfter(r, i - 1)
               IN  f[i] = [q EXCEPT !.at = p.at] /\ q.at = r.start.at /\ Early(i)
           Good(i) == f[i] = PoseAfter(r, i - 1) \/ Beside(i)
           T == {i \in 1..(n + 1) : Good(i)}
<1>1. /\ r \in RouteType /\ moves \in Seq(MoveType) /\ n = Len(r.steps)
      /\ \A i \in 1..n : moves[i] = CompiledStep(r, i)
  BY SavedMovesAre
<1>2. /\ n \in Nat /\ r.start \in PoseType /\ PoseAfter(r, 0) = r.start
      /\ \A i \in 0..n : PoseAfter(r, i) \in PoseType
      /\ \A i \in 1..n : r.steps[i] \in StepType
      /\ \A i \in 1..n : PoseAfter(r, i) = EndOfStep(r.start, PoseAfter(r, i - 1), r.steps[i])
  BY <1>1, RouteHas
<1>3. /\ f[1] = p /\ \A i \in 1..(n + 1) : f[i] \in PoseType
      /\ \A i \in 1..n : f[i + 1] = StandsAfter(f[i], moves[i])
  BY <1>1, StandsFollow
<1>4. \A i \in 1..n : moves[i].kind = r.steps[i].kind /\ moves[i].end = PoseAfter(r, i)
  <2>1. \A i : CompiledStep(r, i).kind = r.steps[i].kind /\ CompiledStep(r, i).end = PoseAfter(r, i)
    BY DEF CompiledStep
  <2> HIDE DEF moves, n, r
  <2> QED
    BY <1>1, <2>1
<1>5. p.d = r.start.d
  OBVIOUS
<1> HIDE DEF f, moves, n, r
<1>6. 1 \in T
  <2>1. 1 \in 1..(n + 1) /\ 1 - 1 = 0 /\ Early(1)
    BY <1>2
  <2>2. p = [r.start EXCEPT !.at = p.at]
    BY <1>2, <1>5 DEF PoseType
  <2> QED
    BY <1>2, <1>3, <2>1, <2>2
<1>7. ASSUME NEW i \in (1 + 1)..(n + 1), i - 1 \in T PROVE i \in T
  <2> DEFINE k == i - 1
             q == PoseAfter(r, k - 1)
             x == PoseAfter(r, k)
             s == r.steps[k]
  <2>1. k \in 1..n /\ k + 1 = i /\ i \in 1..(n + 1) /\ k \in 0..n /\ k - 1 \in 0..n
    BY <1>2
  <2>2. /\ f[i] = StandsAfter(f[k], moves[k]) /\ x = EndOfStep(r.start, q, s)
        /\ moves[k].kind = s.kind /\ moves[k].end = x /\ s \in StepType
    BY <1>2, <1>3, <1>4, <2>1
  <2>3. q \in PoseType /\ x \in PoseType /\ f[k] \in PoseType
    BY <1>2, <1>3, <2>1
  <2>4. f[k] = q \/ Beside(k)
    BY <1>7
  <2>5. Early(k) /\ s.kind \in {"rotate", "wait"} => Early(i)
    <3>1. \A j \in 1..(i - 1) : j \in 1..(k - 1) \/ j = k
      BY <2>1
    <3> QED
      BY <2>2, <3>1
  <2> HIDE DEF k, x, s, Early
  <2>6. CASE s.kind = "rotate"
    <3>1. f[i] = [x EXCEPT !.at = f[k].at]
      BY <2>2, <2>6 DEF StandsAfter
    <3>2. x.at = q.at
      <4>1. s.turn \in {-2, -1, 0, 1, 2} /\ x = Turned(q, s.turn)
        BY <2>2, <2>6 DEF EndOfStep, StepType
      <4> HIDE DEF q
      <4> QED
        BY <2>3, <4>1, TurnsArePoses
    <3>3. CASE f[k] = q
      <4>1. f[i] = [x EXCEPT !.at = x.at]
        BY <3>1, <3>2, <3>3
      <4>2. f[i] = x
        BY <2>3, <4>1 DEF PoseType
      <4> QED
        BY <2>1, <4>2 DEF x, k
    <3>4. CASE Beside(k)
      <4>1. f[k].at = p.at
        BY <2>3, <3>4 DEF PoseType
      <4>2. f[i] = [x EXCEPT !.at = p.at] /\ x.at = r.start.at /\ Early(i)
        BY <2>5, <2>6, <3>1, <3>2, <3>4, <4>1
      <4> QED
        BY <2>1, <4>2 DEF x, k
    <3> QED
      BY <2>4, <3>3, <3>4
  <2>7. CASE s.kind = "wait"
    <3>1. f[i] = f[k] /\ x = q
      BY <2>2, <2>7 DEF StandsAfter, EndOfStep
    <3>2. CASE f[k] = q
      BY <2>1, <3>1, <3>2 DEF x, k
    <3>3. CASE Beside(k)
      <4>1. f[i] = [x EXCEPT !.at = p.at] /\ x.at = r.start.at /\ Early(i)
        BY <2>5, <2>7, <3>1, <3>3
      <4> QED
        BY <2>1, <4>1 DEF x, k
    <3> QED
      BY <2>4, <3>2, <3>3
  <2>8. CASE s.kind \notin {"rotate", "wait"}
    <3>1. f[i] = x
      BY <2>2, <2>8 DEF StandsAfter
    <3> QED
      BY <2>1, <3>1 DEF x, k
  <2> QED
    BY <2>6, <2>7, <2>8
<1>8. \A i \in 1..(n + 1) : i \in T
  <2>1. 1 \in Int /\ n + 1 \in Int
    BY <1>2
  <2> HIDE DEF T
  <2> QED
    BY <1>6, <1>7, <2>1, UpFrom
<1>9. \A i \in 1..(n + 1) : Good(i)
  <2> HIDE DEF Good
  <2> QED
    BY <1>8
<1> QED
  BY <1>9, Zenon DEF StandsWell, f, moves, n, r

\* Where two poses are the same, or beside one another.
LEMMA NearIs ==
    ASSUME NEW p \in PoseType, NEW q \in PoseType
    PROVE  /\ IsNear(q, q)
           /\ IsNear(p, q) <=> p.d = q.d /\ Abs(p.at[1] - q.at[1]) + Abs(p.at[2] - q.at[2]) <= 1
<1>1. q.at[1] \in Int /\ q.at[2] \in Int
  BY DEF PoseType, Points
<1>2. q.at[1] - q.at[1] = 0 /\ q.at[2] - q.at[2] = 0
  BY <1>1
<1>3. Abs(0) = 0
  BY DEF Abs
<1>4. IsNear(q, q)
  <2>1. Abs(q.at[1] - q.at[1]) + Abs(q.at[2] - q.at[2]) = 0
    BY <1>2, <1>3
  <2> QED
    BY <2>1 DEF IsNear
<1> QED
  BY <1>4 DEF IsNear

\* A pass of a saved route that is driven again sets out where the route starts, or beside it.
LEMMA OutsetsAre ==
    ASSUME PlanIInv, NEW e \in Saved, NEW k \in 1..e.route.repeat
    PROVE  Outsets(e)[k] \in PoseType /\ IsNear(Outsets(e)[k], e.route.start)
<1> DEFINE r == e.route
           moves == e.moves
           m == r.repeat
           last(p) == Stands(p, moves)[Len(moves) + 1]
           F == [i \in 2..m |-> [p \in PoseType |-> last(p)]]
           Rec(g) == g = [i \in 1..m |-> IF i = 1 THEN r.start ELSE last(g[i - 1])]
<1>1. /\ r \in RouteType /\ Holds(r) /\ moves \in Seq(MoveType) /\ Len(moves) = Len(r.steps)
  BY SavedMovesAre
<1>2. /\ m \in {1, 3} /\ r.start \in PoseType /\ EndPose(r) = PoseAfter(r, Len(r.steps))
      /\ Len(moves) \in Nat /\ PoseAfter(r, Len(moves)) \in PoseType
  BY <1>1, RouteHas
<1>3. \A p \in PoseType : last(p) \in PoseType
  <2>1. Len(moves) + 1 \in 1..(Len(moves) + 1)
    BY <1>2
  <2> HIDE DEF moves
  <2> QED
    BY <1>1, <2>1, StandsFollow
<1>4. ASSUME m # 1, NEW p \in PoseType, IsNear(p, r.start) PROVE IsNear(last(p), r.start)
  <2> DEFINE q == PoseAfter(r, Len(moves))
  <2>1. IsNear(q, r.start)
    BY <1>1, <1>2, <1>4 DEF Holds, Closes
  <2>2. p.d = r.start.d
    BY <1>4 DEF IsNear
  <2>3. Len(moves) + 1 \in 1..(Len(moves) + 1) /\ (Len(moves) + 1) - 1 = Len(moves)
    BY <1>2
  <2>4. last(p) = q \/ (last(p) = [q EXCEPT !.at = p.at])
    <3>1. \A i \in 1..(Len(moves) + 1) : StandsWell(e, p, i)
      BY <2>2, PassIs
    <3>2. StandsWell(e, p, Len(moves) + 1)
      BY <2>3, <3>1
    <3> QED
      BY <2>3, <3>2 DEF StandsWell
  <2> HIDE DEF last, q
  <2>5. CASE last(p) = q
    BY <2>1, <2>5
  <2>6. CASE last(p) = [q EXCEPT !.at = p.at]
    <3>1. last(p).at = p.at /\ last(p).d = q.d
      BY <1>2, <2>6 DEF PoseType, q
    <3>2. q.d = r.start.d
      BY <2>1 DEF IsNear
    <3> QED
      BY <1>4, <3>1, <3>2 DEF IsNear
  <2> QED
    BY <2>4, <2>5, <2>6
<1>5. /\ F \in [2..m -> [PoseType -> PoseType]]
      /\ \A i \in 2..m, p \in PoseType : F[i][p] = last(p)
  <2> HIDE DEF last, m
  <2> QED
    BY <1>3
<1> HIDE DEF F, m, r, moves, last
<1>6. PICK g \in [1..m -> PoseType] :
          \A i \in 1..m : g[i] = IF i = 1 THEN r.start ELSE F[i][g[i - 1]]
  <2> DEFINE a == 1
             x == r.start
  <2>1. a \in Int /\ m \in Int /\ x \in PoseType /\ F \in [(a + 1)..m -> [PoseType -> PoseType]]
    BY <1>2, <1>5
  <2> HIDE DEF a, x
  <2>2. \E g : Recurs(PoseType, x, a, m, F, g)
    BY <2>1, RecursionRuns, Zenon
  <2> QED
    BY <2>2 DEF a, x, Recurs
<1>7. Rec(g)
  <2>1. ASSUME NEW i \in 1..m, i # 1 PROVE g[i] = last(g[i - 1])
    <3>1. i \in 2..m /\ i - 1 \in 1..m
      BY <1>2, <2>1
    <3> QED
      BY <1>5, <1>6, <2>1, <3>1
  <2> QED
    BY <1>6, <2>1
<1>8. Rec(Outsets(e))
  <2>1. Outsets(e) = CHOOSE f : Rec(f)
    BY DEF Outsets, m, r, moves, last
  <2> HIDE DEF Rec
  <2> QED
    BY <1>7, <2>1, Zenon
<1> DEFINE f == Outsets(e)
<1> HIDE DEF f
<1>9. \A i \in 1..m : f[i] = IF i = 1 THEN r.start ELSE last(f[i - 1])
  <2>1. f = [i \in 1..m |-> IF i = 1 THEN r.start ELSE last(f[i - 1])]
    BY <1>8 DEF f
  <2> QED
    BY <2>1
<1> DEFINE T == {i \in 1..m : f[i] \in PoseType /\ IsNear(f[i], r.start)}
<1>10. 1 \in T
  <2>1. 1 \in 1..m
    BY <1>2
  <2>2. f[1] = r.start
    BY <1>9, <2>1
  <2> QED
    BY <1>2, <2>1, <2>2, NearIs
<1>11. ASSUME NEW i \in (1 + 1)..m, i - 1 \in T PROVE i \in T
  <2>1. i \in 1..m /\ i # 1 /\ m # 1
    BY <1>2
  <2>2. f[i] = last(f[i - 1])
    BY <1>9, <2>1
  <2>3. f[i - 1] \in PoseType /\ IsNear(f[i - 1], r.start)
    BY <1>11
  <2> HIDE DEF T
  <2>4. last(f[i - 1]) \in PoseType /\ IsNear(last(f[i - 1]), r.start)
    BY <1>3, <1>4, <2>1, <2>3
  <2> QED
    BY <2>1, <2>2, <2>4 DEF T
<1>12. \A i \in 1..m : i \in T
  <2>1. 1 \in Int /\ m \in Int
    BY <1>2
  <2> HIDE DEF T
  <2> QED
    BY <1>10, <1>11, <2>1, UpFrom
<1>13. k \in 1..m
  BY DEF m, r
<1> QED
  BY <1>12, <1>13 DEF f, r

\* What a step is over that is driven from where it was compiled to, or along a path of the
\* map's frame, was swept when the route was approved.
LEMMA OverIsSwept ==
    ASSUME NEW r \in RouteType, NEW i \in 1..Len(r.steps), StepCompiles(r, i), NEW p,
           p = PoseAfter(r, i - 1) \/ CompiledStep(r, i).kind \notin {"rotate", "wait"}
    PROVE  Over(p, CompiledStep(r, i)) \subseteq Swept(CompiledStep(r, i))
<1> DEFINE c == CompiledStep(r, i)
           x == PoseAfter(r, i - 1)
           s == r.steps[i]
<1>1. /\ c.kind = s.kind /\ c.path = PathOf(r.start, x, s) /\ c.path \in Seq(PoseType)
  <2>1. c \in MoveType
    BY CompiledIsMove
  <2> QED
    BY <2>1 DEF CompiledStep, MoveType
<1>2. s \in StepType /\ x \in PoseType
  <2>1. i - 1 \in 0..Len(r.steps)
    BY RouteHas
  <2> QED
    BY <2>1, RouteHas
<1>3. /\ \A k \in DOMAIN c.path : Footprint(c.path[k]) \subseteq Swept(c)
      /\ c.kind = "rotate" =>
             \A k \in 1..(Len(c.path) - 1) : Nose(c.path[k], c.path[k + 1]) \in Swept(c)
  BY StandsInSwept
<1>4. p = x \/ c.kind \notin {"rotate", "wait"}
  OBVIOUS
<1> HIDE DEF c, x, s
<1>5. DrivenPath(p, c) = c.path
  <2>1. CASE c.kind = "rotate"
    <3>1. \A k \in DOMAIN c.path : c.path[k] \in PoseType /\ c.path[k].at = x.at
      <4>1. s.turn \in {-2, -1, 0, 1, 2}
        BY <1>2 DEF StepType
      <4>2. s.turn \in {2, -2} => s.turn \div 2 \in {-2, -1, 0, 1, 2}
        BY SMT
      <4>3. /\ Turned(x, s.turn).at = x.at
            /\ s.turn \in {2, -2} => Turned(x, s.turn \div 2).at = x.at
        BY <1>2, <4>1, <4>2, TurnsArePoses
      <4>4. c.path = IF s.turn \in {2, -2}
                     THEN <<x, Turned(x, s.turn \div 2), Turned(x, s.turn)>>
                     ELSE <<x, Turned(x, s.turn)>>
        BY <1>1, <2>1 DEF PathOf
      <4>5. \A k \in DOMAIN c.path : c.path[k].at = x.at
        BY <4>3, <4>4
      <4>6. \A k \in DOMAIN c.path : c.path[k] \in PoseType
        BY <1>1, ElementOfSeq, LenProperties
      <4> QED
        BY <4>5, <4>6
    <3>2. \A k \in DOMAIN c.path : [c.path[k] EXCEPT !.at = p.at] = c.path[k]
      <4>1. p = x
        BY <1>4, <2>1
      <4> QED
        BY <3>1, <4>1 DEF PoseType
    <3>3. DrivenPath(p, c) = [k \in DOMAIN c.path |-> [c.path[k] EXCEPT !.at = p.at]]
      BY <2>1 DEF DrivenPath, SpunPath
    <3>4. c.path = [k \in DOMAIN c.path |-> c.path[k]]
      BY <1>1
    <3> QED
      BY <3>2, <3>3, <3>4
  <2>2. CASE c.kind = "wait"
    BY <1>1, <1>4, <2>2 DEF PathOf, DrivenPath
  <2>3. CASE c.kind \notin {"rotate", "wait"}
    BY <2>3 DEF DrivenPath
  <2> QED
    BY <2>1, <2>2, <2>3
<1> DEFINE feet == UNION {Footprint(c.path[k]) : k \in DOMAIN c.path}
           noses == {Nose(c.path[k], c.path[k + 1]) : k \in 1..(Len(c.path) - 1)}
<1>6. Over(p, c) = feet \cup (IF c.kind = "rotate" THEN noses ELSE {})
  BY <1>5, Zenon DEF Over
<1>7. feet \subseteq Swept(c)
  BY <1>3
<1>8. c.kind = "rotate" => noses \subseteq Swept(c)
  BY <1>3
<1> HIDE DEF feet, noses
<1> QED
  BY <1>6, <1>7, <1>8 DEF c

\* What is clear was seen free, or is declared dynamic.
LEMMA ClearIsSeen == ASSUME NEW S, NEW U, U \subseteq S, Clear(S) PROVE SeenFree(U)
  BY DEF Clear, SeenFree

\* Every cell a saved route drives over was checked when the route was approved.
LEMMA DrivenClear == ASSUME PlanIInv PROVE DrivenIsCleared
<1> SUFFICES ASSUME NEW e \in Saved, NEW k \in 1..e.route.repeat, NEW i \in DOMAIN e.moves
             PROVE  LET start == Outsets(e)[k]
                        at == Stands(start, e.moves)
                    IN  /\ IsNear(at[i], e.moves[i].start)
                        /\ start = e.route.start \/ OnPath(e.moves, i)
                               => SeenFree(Over(at[i], e.moves[i]))
  BY Zenon DEF DrivenIsCleared
<1> DEFINE r == e.route
           moves == e.moves
           start == Outsets(e)[k]
           at == Stands(start, moves)
           c == CompiledStep(r, i)
           q == PoseAfter(r, i - 1)
<1>1. /\ r \in RouteType /\ Holds(r) /\ Len(moves) = Len(r.steps) /\ DOMAIN moves = 1..Len(moves)
      /\ \A j \in 1..Len(moves) : moves[j] = CompiledStep(r, j) /\ StepCompiles(r, j)
  BY SavedMovesAre
<1>2. start \in PoseType /\ IsNear(start, r.start)
  BY OutsetsAre
<1>3. /\ i \in 1..Len(r.steps) /\ i \in 1..(Len(moves) + 1) /\ moves[i] = c /\ StepCompiles(r, i)
      /\ Len(moves) \in Nat
  <2>1. Len(r.steps) \in Nat
    BY <1>1, RouteHas
  <2> QED
    BY <1>1, <2>1
<1>4. q \in PoseType /\ r.start \in PoseType /\ c.start = q
  <2>1. i - 1 \in 0..Len(r.steps)
    BY <1>1, <1>3
  <2> QED
    BY <1>1, <2>1, RouteHas DEF CompiledStep
<1>5. \/ at[i] = q
      \/ /\ at[i] = [q EXCEPT !.at = start.at] /\ q.at = r.start.at
         /\ \A j \in 1..(i - 1) : moves[j].kind \in {"rotate", "wait"}
  <2>1. start.d = r.start.d
    BY <1>2 DEF IsNear
  <2>2. StandsWell(e, start, i)
    <3> HIDE DEF start
    <3> QED
      BY <1>2, <1>3, <2>1, PassIs
  <2> QED
    BY <2>2, Zenon DEF StandsWell
<1>6. Clear(Swept(c))
  <2>1. DOMAIN r.steps = 1..Len(r.steps)
    BY <1>1, RouteHas
  <2> QED
    BY <1>1, <1>3, <2>1 DEF Holds, Cleared
<1> HIDE DEF r, moves, start, at, c, q
<1>7. IsNear(at[i], q)
  <2>1. CASE at[i] = q
    BY <1>4, <2>1, NearIs
  <2>2. CASE at[i] = [q EXCEPT !.at = start.at] /\ q.at = r.start.at
    <3>1. at[i].at = start.at /\ at[i].d = q.d
      BY <1>4, <2>2 DEF PoseType
    <3> QED
      BY <1>2, <2>2, <3>1 DEF IsNear
  <2> QED
    BY <1>5, <2>1, <2>2
<1>8. ASSUME start = r.start \/ OnPath(moves, i) PROVE SeenFree(Over(at[i], c))
  <2>1. at[i] = q \/ c.kind \notin {"rotate", "wait"}
    <3>1. SUFFICES ASSUME at[i] # q PROVE c.kind \notin {"rotate", "wait"}
      OBVIOUS
    <3>2. /\ at[i] = [q EXCEPT !.at = start.at] /\ q.at = r.start.at
          /\ \A j \in 1..(i - 1) : moves[j].kind \in {"rotate", "wait"}
      BY <1>5, <3>1
    <3>3. start # r.start
      BY <1>4, <3>1, <3>2 DEF PoseType
    <3>4. PICK j \in 1..i : moves[j].kind \notin {"rotate", "wait"}
      BY <1>8, <3>3 DEF OnPath
    <3>5. j = i
      BY <1>3, <3>2, <3>4
    <3> QED
      BY <1>3, <3>4, <3>5
  <2>2. Over(at[i], c) \subseteq Swept(c)
    BY <1>1, <1>3, <2>1, OverIsSwept DEF c, q
  <2> HIDE DEF c
  <2> QED
    BY <1>6, <2>2, ClearIsSeen
<1> QED
  BY <1>3, <1>4, <1>7, <1>8 DEF r, moves, start, at

\* The metres driven before each step of a move, and before its end.
LEMMA MetresAre ==
    ASSUME NEW chain \in Seq(MoveType), \A j \in 1..Len(chain) : Len(chain[j].path) \in Nat
    PROVE  /\ Metres(chain) \in [1..(Len(chain) + 1) -> Int] /\ Metres(chain)[1] = 0
           /\ Metres(chain) \in Seq(Int) /\ Len(Metres(chain)) = Len(chain) + 1
<1> DEFINE n == Len(chain)
           F == [i \in 2..(n + 1) |-> [x \in Int |-> x + Len(chain[i - 1].path) - 1]]
           Rec(f) == f = [j \in 1..(n + 1) |-> IF j = 1 THEN 0 ELSE f[j - 1] + Len(chain[j - 1].path) - 1]
<1>1. n \in Nat
  BY LenProperties
<1>2. /\ F \in [2..(n + 1) -> [Int -> Int]]
      /\ \A i \in 2..(n + 1), x \in Int : F[i][x] = x + Len(chain[i - 1].path) - 1
  <2>1. \A i \in 2..(n + 1) : i - 1 \in 1..n
    BY <1>1
  <2>2. \A i \in 2..(n + 1) : Len(chain[i - 1].path) \in Int
    BY <2>1
  <2>3. \A i \in 2..(n + 1), x \in Int : x + Len(chain[i - 1].path) - 1 \in Int
    BY <2>2
  <2> HIDE DEF n
  <2> QED
    BY <2>3
<1> HIDE DEF F, n
<1>3. PICK g \in [1..(n + 1) -> Int] : \A i \in 1..(n + 1) : g[i] = IF i = 1 THEN 0 ELSE F[i][g[i - 1]]
  <2> DEFINE a == 1
             b == n + 1
             x == 0
  <2>1. a \in Int /\ b \in Int /\ x \in Int /\ F \in [(a + 1)..b -> [Int -> Int]]
    BY <1>1, <1>2
  <2> HIDE DEF a, b, x
  <2>2. \E g : Recurs(Int, x, a, b, F, g)
    BY <2>1, RecursionRuns, Zenon
  <2> QED
    BY <2>2 DEF a, b, x, Recurs
<1>4. Rec(g)
  <2>1. ASSUME NEW i \in 1..(n + 1), i # 1 PROVE g[i] = g[i - 1] + Len(chain[i - 1].path) - 1
    <3>1. i \in 2..(n + 1) /\ i - 1 \in 1..(n + 1)
      BY <1>1, <2>1
    <3> QED
      BY <1>2, <1>3, <2>1, <3>1
  <2> QED
    BY <1>3, <2>1
<1> DEFINE f == Metres(chain)
<1>5. Rec(f)
  <2>1. f = CHOOSE h : Rec(h)
    BY DEF Metres, n
  <2> HIDE DEF Rec, f
  <2> QED
    BY <1>4, <2>1, Zenon
<1> HIDE DEF f
<1>6. /\ DOMAIN f = 1..(n + 1) /\ f = [i \in 1..(n + 1) |-> f[i]]
      /\ \A i \in 1..(n + 1) : f[i] = IF i = 1 THEN 0 ELSE f[i - 1] + Len(chain[i - 1].path) - 1
  <2>1. DOMAIN f = 1..(n + 1)
    BY <1>5
  <2> QED
    BY <1>5, <2>1
<1>7. f[1] = 0
  <2>1. 1 \in 1..(n + 1)
    BY <1>1
  <2> QED
    BY <1>6, <2>1
<1>8. \A i \in 1..(n + 1) : f[i] \in Int
  <2> DEFINE S == {i \in 1..(n + 1) : f[i] \in Int}
  <2>1. 1 \in S /\ 1 \in Int /\ n + 1 \in Int
    BY <1>1, <1>7
  <2>2. ASSUME NEW i \in (1 + 1)..(n + 1), i - 1 \in S PROVE i \in S
    <3>1. i - 1 \in 1..n /\ i \in 1..(n + 1) /\ i # 1
      BY <1>1
    <3>2. Len(chain[i - 1].path) \in Int /\ f[i - 1] \in Int
      BY <2>2, <3>1 DEF n
    <3>3. f[i] = f[i - 1] + Len(chain[i - 1].path) - 1
      BY <1>6, <3>1
    <3>4. f[i] \in Int
      BY <3>2, <3>3
    <3> QED
      BY <3>1, <3>4
  <2>3. \A i \in 1..(n + 1) : i \in S
    <3> HIDE DEF S
    <3> QED
      BY <2>1, <2>2, UpFrom
  <2> QED
    BY <2>3
<1>9. f \in [1..(n + 1) -> Int]
  BY <1>6, <1>8
<1>10. f \in Seq(Int) /\ Len(f) = n + 1
  <2> DEFINE m == n + 1
  <2>1. m \in Nat /\ f \in [1..m -> Int]
    BY <1>1, <1>9
  <2> HIDE DEF m
  <2>2. f \in Seq(Int) /\ Len(f) = m
    BY <2>1, IsASeq, LenProperties
  <2> QED
    BY <2>2 DEF m
<1> QED
  BY <1>7, <1>9, <1>10 DEF f, n

\* The greater of two numbers.
LEMMA GreaterOf ==
    ASSUME NEW a \in Int, NEW b \in Int
    PROVE  Greatest({a, b}) \in Int /\ (Greatest({a, b}) = a \/ Greatest({a, b}) = b)
<1> DEFINE S == {a, b}
           lo == IF a <= b THEN a ELSE b
           hi == IF a <= b THEN b ELSE a
<1>1. lo \in Int /\ hi \in Int /\ S \in SUBSET (lo..hi) /\ S # {}
  OBVIOUS
<1> HIDE DEF S, lo, hi
<1>2. Greatest(S) \in S
  BY <1>1, GreatestOf
<1> QED
  BY <1>2 DEF S

\* The speed at a metre of a step allows for every step of the move from there on: it is
\* that one's, or it is braked to it a metre before it begins.
LEMMA CapLooksAhead ==
    ASSUME NEW chain \in Seq(MoveType), NEW M \in Seq(Int), Len(M) = Len(chain) + 1,
           NEW j \in 1..Len(chain), NEW k \in Int
    PROVE  /\ StepSpeed(chain, M, j, k) \in Int
           /\ \A m \in j..Len(chain) :
                 \/ StepSpeed(chain, M, j, k) <= chain[m].v
                 \/ StepSpeed(chain, M, j, k) <= chain[m].v + (M[m] - (M[j] + k)) - 1
<1> DEFINE n == Len(chain)
           here == M[j] + k
           end == M[Len(M)] - here
           slower == {m \in (j + 1)..n : M[m] - here < TaperDist(chain[j].v, chain[m].v)}
           S == {chain[j].v, end} \cup {chain[m].v : m \in slower}
           cap == StepSpeed(chain, M, j, k)
<1>1. /\ n \in Nat /\ \A m \in 1..n : chain[m] \in MoveType
      /\ \A m \in 1..(n + 1) : M[m] \in Int
  BY LenProperties, ElementOfSeq
<1>2. cap = Smallest(S)
  BY DEF StepSpeed
<1>3. \A m \in 1..n : chain[m].v \in 1..4
  BY <1>1 DEF MoveType, RouteSpeed
<1>4. here \in Int /\ end \in Int
  <2>1. Len(M) \in 1..(n + 1) /\ j \in 1..(n + 1)
    BY <1>1
  <2>2. M[Len(M)] \in Int /\ M[j] \in Int
    BY <1>1, <2>1
  <2> QED
    BY <2>2
<1> DEFINE lo == IF end < 0 THEN end ELSE 0
           hi == IF end < 0 THEN 4 ELSE end + 4
<1>5. lo \in Int /\ hi \in Int /\ S \in SUBSET (lo..hi) /\ S # {}
  <2> HIDE DEF end
  <2>1. lo \in Int /\ hi \in Int /\ end \in lo..hi /\ \A v \in 1..4 : v \in lo..hi
    BY <1>4
  <2>2. chain[j].v \in 1..4 /\ \A m \in slower : chain[m].v \in 1..4
    BY <1>1, <1>3
  <2> HIDE DEF lo, hi, slower
  <2> QED
    BY <2>1, <2>2
<1> HIDE DEF S, lo, hi, n, end, here, cap
<1>6. cap \in S /\ \A s \in S : cap <= s
  BY <1>2, <1>5, LeastOf
<1>7. cap \in Int
  BY <1>5, <1>6
<1>8. ASSUME NEW m \in j..n
      PROVE  cap <= chain[m].v \/ cap <= chain[m].v + (M[m] - here) - 1
  <2>1. j \in 1..n /\ m \in 1..n /\ m \in 1..(n + 1)
    BY <1>1 DEF n
  <2>2. chain[m].v \in Int /\ chain[j].v \in Int /\ M[m] \in Int
    <3>1. chain[m].v \in 1..4 /\ chain[j].v \in 1..4
      BY <1>3, <2>1
    <3>2. M[m] \in Int
      BY <1>1, <2>1
    <3>3. \A v \in 1..4 : v \in Int
      OBVIOUS
    <3> QED
      BY ONLY <3>1, <3>2, <3>3
  <2>3. cap <= chain[j].v
    BY <1>6 DEF S
  <2>4. CASE m = j
    BY <2>3, <2>4
  <2>5. CASE m # j
    <3>1. m \in (j + 1)..n
      BY <1>1, <2>1, <2>5
    <3>2. CASE m \in slower
      <4>1. chain[m].v \in S
        BY <3>2 DEF S
      <4> QED
        BY <1>6, <4>1
    <3>3. CASE m \notin slower
      <4>1. ~(M[m] - here < TaperDist(chain[j].v, chain[m].v))
        BY <3>1, <3>3
      <4>2. CASE chain[m].v >= chain[j].v
        <5>1. cap <= chain[m].v
          BY ONLY <1>7, <2>2, <2>3, <4>2
        <5> QED
          BY ONLY <5>1
      <4>3. CASE ~(chain[m].v >= chain[j].v)
        <5>1. TaperDist(chain[j].v, chain[m].v) = chain[j].v - chain[m].v + 1
          BY <4>3 DEF TaperDist
        <5> DEFINE v == chain[m].v
                   w == chain[j].v
                   d == M[m] - here
        <5>2. v \in Int /\ w \in Int /\ d \in Int /\ cap <= w /\ ~(d < w - v + 1)
          BY <1>4, <2>2, <2>3, <4>1, <5>1
        <5> HIDE DEF v, w, d
        <5>3. cap <= v + d - 1
          BY <1>7, <5>2
        <5> QED
          BY <5>3 DEF v, d
      <4> QED
        BY <4>2, <4>3
    <3> QED
      BY <3>2, <3>3
  <2> QED
    BY <2>4, <2>5
<1> QED
  BY <1>7, <1>8 DEF cap, n, here

\* Driven as fast as the caps allow, the vehicle has braked to a step before it is on it.
LEMMA BrakesInTime ==
    ASSUME NEW chain \in Seq(MoveType), Len(chain) # 0,
           \A j \in 1..Len(chain) : Len(chain[j].path) \in Nat
    PROVE  LET metres == Metres(chain)
               step(n) == Greatest({j \in DOMAIN chain : metres[j] < n})
               cap(n) == StepSpeed(chain, metres, step(n), n - 1 - metres[step(n)])
               speed[n \in 1..metres[Len(metres)]] ==
                   IF n = 1 THEN cap(1) ELSE Greatest({cap(n - 1), speed[n - 1] - 1})
           IN  \A n \in DOMAIN speed :
                   speed[n] <= chain[step(n)].v /\ step(n) \in DOMAIN chain
<1> DEFINE metres == Metres(chain)
           N == Len(chain)
           E == metres[Len(metres)]
           step(n) == Greatest({j \in DOMAIN chain : metres[j] < n})
           cap(n) == StepSpeed(chain, metres, step(n), n - 1 - metres[step(n)])
           Rec(f) == f = [n \in 1..E |-> IF n = 1 THEN cap(1) ELSE Greatest({cap(n - 1), f[n - 1] - 1})]
           speed == CHOOSE f : Rec(f)
           F == [n \in 2..E |-> [x \in Int |-> Greatest({cap(n - 1), x - 1})]]
<1>1. /\ N \in Nat \ {0} /\ DOMAIN chain = 1..N /\ \A j \in 1..N : chain[j] \in MoveType
  BY LenProperties, ElementOfSeq
<1>2. /\ metres \in Seq(Int) /\ Len(metres) = N + 1 /\ metres[1] = 0
      /\ \A j \in 1..(N + 1) : metres[j] \in Int
  <2>1. metres \in [1..(N + 1) -> Int] /\ metres \in Seq(Int) /\ Len(metres) = N + 1 /\ metres[1] = 0
    BY MetresAre
  <2> HIDE DEF metres
  <2> QED
    BY <2>1
<1>3. E \in Int
  <2>1. N + 1 \in 1..(N + 1)
    BY <1>1
  <2> HIDE DEF metres
  <2> QED
    BY <1>2, <2>1
<1> HIDE DEF metres, N, E
<1>4. ASSUME NEW n \in Nat \ {0}
      PROVE  /\ step(n) \in 1..N /\ metres[step(n)] <= n - 1 /\ metres[step(n)] \in Int
             /\ \A j \in 1..N : metres[j] < n => j <= step(n)
  <2> DEFINE S == {j \in DOMAIN chain : metres[j] < n}
  <2>1. 1 \in S /\ S \in SUBSET (1..N) /\ 1 \in Int /\ N \in Int
    BY <1>1, <1>2
  <2>2. Greatest(S) \in S /\ \A j \in S : Greatest(S) >= j
    <3> HIDE DEF S
    <3> QED
      BY <2>1, GreatestOf
  <2>3. step(n) \in 1..N /\ metres[step(n)] < n /\ \A j \in 1..N : metres[j] < n => step(n) >= j
    BY <1>1, <2>2
  <2> HIDE DEF step
  <2>4. step(n) \in 1..(N + 1)
    BY <1>1, <2>3
  <2>5. metres[step(n)] \in Int
    BY <1>2, <2>4
  <2> QED
    BY <1>1, <2>3, <2>5
<1>5. \A n \in Nat \ {0} : step(n + 1) >= step(n)
  <2> SUFFICES ASSUME NEW n \in Nat \ {0} PROVE step(n + 1) >= step(n)
    OBVIOUS
  <2> HIDE DEF step
  <2>1. n + 1 \in Nat \ {0} /\ step(n) \in 1..N /\ metres[step(n)] <= n - 1 /\ metres[step(n)] \in Int
    BY <1>4
  <2>2. metres[step(n)] < n + 1
    BY <2>1
  <2>3. step(n) <= step(n + 1) /\ step(n + 1) \in 1..N
    BY <1>4, <2>1, <2>2
  <2> QED
    BY <2>1, <2>3
<1> HIDE DEF step
<1>6. ASSUME NEW n \in Nat \ {0}
      PROVE  /\ cap(n) \in Int
             /\ \A m \in step(n)..N : cap(n) <= chain[m].v \/ cap(n) <= chain[m].v + (metres[m] - n)
  <2> DEFINE k == n - 1 - metres[step(n)]
  <2>1. step(n) \in 1..N /\ k \in Int /\ metres[step(n)] + k = n - 1
    <3> DEFINE d == metres[step(n)]
    <3>1. step(n) \in 1..N /\ d \in Int
      BY <1>4
    <3> HIDE DEF d
    <3>2. n - 1 - d \in Int /\ d + (n - 1 - d) = n - 1
      BY <3>1
    <3> QED
      BY <3>1, <3>2 DEF d
  <2> HIDE DEF k
  <2>2. /\ StepSpeed(chain, metres, step(n), k) \in Int
        /\ \A m \in step(n)..N :
              \/ StepSpeed(chain, metres, step(n), k) <= chain[m].v
              \/ StepSpeed(chain, metres, step(n), k) <= chain[m].v + (metres[m] - (metres[step(n)] + k)) - 1
    BY <1>2, <2>1, CapLooksAhead DEF N
  <2>3. cap(n) = StepSpeed(chain, metres, step(n), k)
    BY DEF k
  <2> HIDE DEF cap
  <2>4. ASSUME NEW m \in step(n)..N
        PROVE  cap(n) <= chain[m].v \/ cap(n) <= chain[m].v + (metres[m] - n)
    <3>1. m \in 1..N /\ m \in 1..(N + 1)
      BY <1>1, <2>1
    <3>2. chain[m].v \in Int /\ metres[m] \in Int
      BY <1>1, <1>2, <3>1 DEF MoveType
    <3>3. \/ cap(n) <= chain[m].v
          \/ cap(n) <= chain[m].v + (metres[m] - (n - 1)) - 1
      BY <2>1, <2>2, <2>3
    <3> QED
      BY <2>2, <2>3, <3>2, <3>3
  <2> QED
    BY <2>2, <2>3, <2>4
<1> HIDE DEF cap
<1>7. Rec(speed)
  <2>1. /\ F \in [2..E -> [Int -> Int]]
        /\ \A n \in 2..E, x \in Int : F[n][x] = Greatest({cap(n - 1), x - 1})
    <3>1. ASSUME NEW n \in 2..E, NEW x \in Int PROVE Greatest({cap(n - 1), x - 1}) \in Int
      <4>1. n - 1 \in Nat \ {0} /\ x - 1 \in Int
        BY <1>3
      <4>2. cap(n - 1) \in Int
        BY <1>6, <4>1
      <4> QED
        BY <4>1, <4>2, GreaterOf
    <3> QED
      BY <3>1
  <2> HIDE DEF F
  <2>2. PICK g \in [1..E -> Int] : \A n \in 1..E : g[n] = IF n = 1 THEN cap(1) ELSE F[n][g[n - 1]]
    <3> DEFINE a == 1
               x == cap(1)
    <3>1. a \in Int /\ E \in Int /\ x \in Int /\ F \in [(a + 1)..E -> [Int -> Int]]
      <4>1. 1 \in Nat \ {0}
        OBVIOUS
      <4>2. x \in Int
        BY <1>6, <4>1
      <4> HIDE DEF x
      <4> QED
        BY <1>3, <2>1, <4>2
    <3> HIDE DEF a, x
    <3>2. \E g : Recurs(Int, x, a, E, F, g)
      BY <3>1, RecursionRuns, Zenon
    <3> QED
      BY <3>2 DEF a, x, Recurs
  <2>3. Rec(g)
    <3>1. ASSUME NEW n \in 1..E, n # 1 PROVE g[n] = Greatest({cap(n - 1), g[n - 1] - 1})
      <4>1. n \in 2..E /\ n - 1 \in 1..E
        BY <1>3, <3>1
      <4> QED
        BY <2>1, <2>2, <3>1, <4>1
    <3> QED
      BY <2>2, <3>1
  <2> HIDE DEF Rec
  <2> QED
    BY <2>3, Zenon
<1> HIDE DEF speed
<1>8. /\ DOMAIN speed = 1..E
      /\ \A n \in 1..E : speed[n] = IF n = 1 THEN cap(1) ELSE Greatest({cap(n - 1), speed[n - 1] - 1})
  <2>1. DOMAIN speed = 1..E
    BY <1>7
  <2> QED
    BY <1>7, <2>1
<1> DEFINE Fits(n) == /\ speed[n] \in Int
                      /\ \A m \in step(n)..N :
                            speed[n] <= chain[m].v \/ speed[n] <= chain[m].v + (metres[m] - (n - 1))
           S == {n \in 1..E : Fits(n)}
<1>9. ASSUME NEW n \in 1..E PROVE n \in S
  <2>1. 1 \in S
    <3>1. 1 \in 1..E /\ 1 \in Nat \ {0}
      BY <1>3
    <3>2. speed[1] = cap(1)
      BY <1>8, <3>1
    <3>3. ASSUME NEW m \in step(1)..N
          PROVE  speed[1] <= chain[m].v \/ speed[1] <= chain[m].v + (metres[m] - (1 - 1))
      <4>1. step(1) \in 1..N
        BY <1>4, <3>1
      <4>2. m \in 1..N /\ m \in 1..(N + 1)
        BY <1>1, <4>1
      <4>3. chain[m].v \in Int /\ metres[m] \in Int /\ cap(1) \in Int
        BY <1>1, <1>2, <1>6, <3>1, <4>2 DEF MoveType
      <4>4. cap(1) <= chain[m].v \/ cap(1) <= chain[m].v + (metres[m] - 1)
        BY <1>6, <3>1
      <4> QED
        BY <3>2, <4>3, <4>4
    <3>4. speed[1] \in Int
      BY <1>6, <3>1, <3>2
    <3> QED
      BY <3>1, <3>3, <3>4
  <2>2. ASSUME NEW i \in (1 + 1)..E, i - 1 \in S PROVE i \in S
    <3> DEFINE b == i - 1
    <3>1. b \in Nat \ {0} /\ b + 1 = i /\ i \in 1..E /\ i # 1 /\ b \in 1..E /\ i \in Nat \ {0}
      BY <1>3
    <3>2. speed[i] = Greatest({cap(b), speed[b] - 1})
      BY <1>8, <3>1
    <3>3. /\ speed[b] \in Int
          /\ \A m \in step(b)..N :
                speed[b] <= chain[m].v \/ speed[b] <= chain[m].v + (metres[m] - (b - 1))
      BY <2>2
    <3> HIDE DEF b
    <3>4. /\ cap(b) \in Int
          /\ \A m \in step(b)..N : cap(b) <= chain[m].v \/ cap(b) <= chain[m].v + (metres[m] - b)
      BY <1>6, <3>1
    <3>5. speed[i] \in Int /\ (speed[i] = cap(b) \/ speed[i] = speed[b] - 1)
      <4>1. speed[b] - 1 \in Int
        BY <3>3
      <4> QED
        BY <3>2, <3>4, <4>1, GreaterOf
    <3>6. ASSUME NEW m \in step(i)..N
          PROVE  speed[i] <= chain[m].v \/ speed[i] <= chain[m].v + (metres[m] - (i - 1))
      <4>1. step(b) \in 1..N /\ step(i) \in 1..N /\ step(i) >= step(b)
        BY <1>4, <1>5, <3>1
      <4>2. m \in step(b)..N /\ m \in 1..N /\ m \in 1..(N + 1)
        BY <1>1, <4>1
      <4>3. chain[m].v \in Int /\ metres[m] \in Int
        BY <1>1, <1>2, <4>2 DEF MoveType
      <4>4. CASE speed[i] = cap(b)
        <5>1. cap(b) <= chain[m].v \/ cap(b) <= chain[m].v + (metres[m] - b)
          BY <3>4, <4>2
        <5>2. i - 1 = b
          BY <3>1
        <5> QED
          BY <4>4, <5>1, <5>2
      <4>5. CASE speed[i] = speed[b] - 1
        <5>1. speed[b] <= chain[m].v \/ speed[b] <= chain[m].v + (metres[m] - (b - 1))
          BY <3>3, <4>2
        <5>2. i - 1 = b /\ b \in Int
          BY <3>1
        <5> QED
          BY <3>3, <4>3, <4>5, <5>1, <5>2
      <4> QED
        BY <3>5, <4>4, <4>5
    <3> QED
      BY <3>1, <3>5, <3>6
  <2>3. 1 \in Int
    OBVIOUS
  <2> HIDE DEF S
  <2>4. \A i \in 1..E : i \in S
    BY <1>3, <2>1, <2>2, <2>3, UpFrom
  <2> QED
    BY <2>4
<1>10. ASSUME NEW n \in 1..E PROVE speed[n] <= chain[step(n)].v /\ step(n) \in DOMAIN chain
  <2>1. n \in Nat \ {0}
    BY <1>3
  <2>2. step(n) \in 1..N /\ metres[step(n)] <= n - 1 /\ metres[step(n)] \in Int
    BY <1>4, <2>1
  <2>3. Fits(n) /\ step(n) \in step(n)..N
    BY <1>9, <2>2
  <2>4. speed[n] <= chain[step(n)].v \/ speed[n] <= chain[step(n)].v + (metres[step(n)] - (n - 1))
    BY <2>3
  <2>5. chain[step(n)].v \in Int /\ speed[n] \in Int
    BY <1>1, <2>2, <2>3 DEF MoveType
  <2>6. speed[n] <= chain[step(n)].v
    BY <2>1, <2>2, <2>4, <2>5
  <2> QED
    BY <1>1, <2>2, <2>6
<1> HIDE DEF Rec
<1> QED
  BY <1>8, <1>10 DEF speed, Rec, cap, step, metres, E

\* On each step of a move the vehicle is no faster than that step allows, and a move
\* that curves allows curves.
LEMMA SpeedHolds == ASSUME PlanIInv PROVE SpeedFitsTheStep
<1> SUFFICES ASSUME NEW e \in Saved, NEW i \in DOMAIN e.moves, Chainable(e.moves[i])
             PROVE  LET chain == Chain(e.moves, i)
                        metres == Metres(chain)
                        step(n) == Greatest({j \in DOMAIN chain : metres[j] < n})
                        cap(n) == StepSpeed(chain, metres, step(n), n - 1 - metres[step(n)])
                        speed[n \in 1..metres[Len(metres)]] ==
                            IF n = 1 THEN cap(1) ELSE Greatest({cap(n - 1), speed[n - 1] - 1})
                    IN  \A n \in DOMAIN speed : speed[n] <= chain[step(n)].v
  BY Zenon DEF SpeedFitsTheStep
<1> DEFINE chain == Chain(e.moves, i)
<1>1. /\ chain \in Seq(MoveType) /\ Len(chain) # 0
      /\ \A j \in 1..Len(chain) : Len(chain[j].path) \in Nat
  BY SavedChainIs, Zenon
<1> HIDE DEF chain
<1>2. LET metres == Metres(chain)
          step(n) == Greatest({j \in DOMAIN chain : metres[j] < n})
          cap(n) == StepSpeed(chain, metres, step(n), n - 1 - metres[step(n)])
          speed[n \in 1..metres[Len(metres)]] ==
              IF n = 1 THEN cap(1) ELSE Greatest({cap(n - 1), speed[n - 1] - 1})
      IN  \A n \in DOMAIN speed :
              speed[n] <= chain[step(n)].v /\ step(n) \in DOMAIN chain
  BY <1>1, BrakesInTime
<1> QED
  BY <1>2, Zenon DEF chain

\* Where a saved route takes the vehicle is seen free, or declared dynamic.
THEOREM SavedRoutesAreCleared == PlanSpec => []DrivenIsCleared
<1>1. PlanIInv => DrivenIsCleared
  BY DrivenClear
<1> QED
  BY <1>1, PlanInvariant, PTL

\* No move of a saved route comes by its goal before its end.
THEOREM GoalsAreReachedLast == PlanSpec => []GoalIsReachedLast
<1>1. PlanIInv => GoalIsReachedLast
  BY GoalIsLast
<1> QED
  BY <1>1, PlanInvariant, PTL

\* On no step of a move is the vehicle faster than that step allows.
THEOREM SpeedsFitTheSteps == PlanSpec => []SpeedFitsTheStep
<1>1. PlanIInv => SpeedFitsTheStep
  BY SpeedHolds
<1> QED
  BY <1>1, PlanInvariant, PTL

-----------------------------------------------------------------------------
(* A branch and the main route it is drawn on.                             *)

OfMain == {"s"} \X Nat
OfBranch == {"b"} \X Nat

\* The steps of a main route have a main route's ids; what is picked is one that is saved.
MainsAreNumbered ==
    /\ ~IsBranch(draft) => Ids(draft.steps) \subseteq OfMain
    /\ \A n \in DOMAIN mains :
          ~IsBranch(mains[n].route) => Ids(mains[n].route.steps) \subseteq OfMain

\* Only a session of branches has one.
OnlyBranching == IsBranch(draft) => session = "branching"

PickedIsSaved ==
    picked # Nobody =>
        /\ picked.of \in DOMAIN mains /\ picked.route = mains[picked.of].route
        /\ ~IsBranch(picked.route)

\* The branch `b` leaves from `main` and goes on with it.
Fits(b, main) ==
    LET li == IndexOf(main.steps, b.leave)
    IN  /\ {b.leave, b.rejoin} \subseteq Ids(main.steps)
        /\ li <= IndexOf(main.steps, b.rejoin)
        /\ b.at # <<>> => b.rejoin = b.leave /\ main.steps[li].kind = "straight"

\* Where it leaves, and where it has to come back to.
LeavesAt(b, main) ==
    LET p == PoseAfter(main, IndexOf(main.steps, b.leave))
    IN  IF b.at = <<>> THEN p ELSE [p EXCEPT !.at = b.at]
GoesOnAt(b, main) ==
    IF b.at = <<>> THEN PoseAfter(main, IndexOf(main.steps, b.rejoin)) ELSE LeavesAt(b, main)

\* From p, steps that never go home lead to q.
Leads(p, steps, q) ==
    /\ \A k \in DOMAIN steps : steps[k].kind # "home"
    /\ Poses(p, steps)[Len(steps) + 1] = q

\* r is open on `main`: that up to the step it leaves after, then steps of its own.
IsOpenOn(r, main) ==
    LET b == r.branch
        li == IndexOf(main.steps, b.leave)
    IN  /\ b.at = <<>> /\ b.split = NoId
        /\ b.leave \in Ids(main.steps) /\ li <= Len(r.steps)
        /\ r.start = main.start /\ \A i \in 1..li : r.steps[i] = main.steps[i]
        /\ \A i \in (li + 1)..Len(r.steps) : r.steps[i].id \in OfBranch /\ r.steps[i].kind # "home"

\* r is closed on `main`: whatever else was drawn on, its own steps lead from there back to it.
IsClosedOn(r, main) ==
    LET b == r.branch
    IN  /\ Fits(b, main) /\ Range(b.own) \subseteq OfBranch /\ b.split \notin OfBranch
        /\ Range(b.own) \subseteq Ids(OwnOf(r))
        /\ Leads(LeavesAt(b, main), OwnOf(r), GoesOnAt(b, main))

\* A straight that leads nowhere: the vehicle stands there already.
NoWay(s, p) == s.kind = "straight" /\ s.to = p.at

\* r was open on `main` until a straight of that was split in it: the tail counts as the branch's.
\* The step it leaves after has become one of its own.
IsSplitBefore(r, main) ==
    LET b == r.branch
        li == IndexOf(main.steps, b.leave)
    IN  /\ b.leave \in Ids(main.steps)
        /\ \E k \in (li + 1)..Len(r.steps) : r.steps[k].id = b.leave

\* Or its first step leads nowhere: it is the tail of the straight it leaves after.
IsSplitThere(r, main) ==
    LET b == r.branch
        li == IndexOf(main.steps, b.leave)
    IN  /\ b.at = <<>> /\ b.leave \in Ids(main.steps) /\ li < Len(r.steps)
        /\ \A i \in 1..li : r.steps[i].id = main.steps[i].id
        /\ \A i \in (li + 1)..Len(r.steps) : r.steps[i].id \in OfBranch
        /\ NoWay(r.steps[li + 1], PoseAfter(main, li))
        /\ Along(PoseAfter(r, li - 1), r.steps[li].to) = 1
        /\ Along(PoseAfter(r, li), r.steps[li + 1].to) = 1

\* What comes of that once r is closed, which the server never approves.
IsRefusedOn(r, main) ==
    LET b == r.branch
    IN  /\ b.leave \in Ids(main.steps)
        /\ \/ b.leave \in Range(b.own)
           \/ /\ b.at = <<>> /\ Range(b.own) \subseteq OfBranch
              /\ Range(b.own) \subseteq Ids(OwnOf(r)) /\ OwnOf(r) # <<>>
              /\ NoWay(OwnOf(r)[1], PoseAfter(main, IndexOf(main.steps, b.leave)))

\* What a branch that is open is of the main route picked.
OpenFits ==
    IsOpen(draft) =>
        /\ picked # Nobody /\ picked.of = draft.branch.of
        /\ \/ IsOpenOn(draft, picked.route)
           \/ IsSplitBefore(draft, picked.route) \/ IsSplitThere(draft, picked.route)

\* What one that is closed is of the main route it names.
ClosedFits ==
    Closed(draft) =>
        /\ draft.branch.of \in DOMAIN mains /\ ~IsBranch(Named(draft.branch))
        /\ IsClosedOn(draft, Named(draft.branch)) \/ IsRefusedOn(draft, Named(draft.branch))

\* What was saved runs as drawn.
SavedFits == \A e \in Range(poss) : e.route.branch.of \in DOMAIN mains /\ RunsAsDrawn(e.route)

\* The main routes are all there, and no edit of the draft went unseen.
Seen == ~astray /\ \A n \in DOMAIN mains : ~mains[n].gone

\* The invariant of branches.
BranchIInv ==
    /\ MainsAreNumbered /\ OnlyBranching /\ PickedIsSaved
    /\ Seen => OpenFits /\ ClosedFits /\ SavedFits

\* The own steps of a branch are steps of the route, with the branch's ids.
LEMMA OwnAreOfTheRoute ==
    ASSUME NEW r \in RouteType
    PROVE  \A k \in 1..Len(OwnOf(r)) :
              \E j \in 1..Len(r.steps) : OwnOf(r)[k] = r.steps[j] /\ r.steps[j].id \in Range(r.branch.own)
<1> DEFINE n == Len(r.steps)
           I == Range(r.branch.own)
           From(s) == \A k \in 1..Len(s) : \E j \in 1..n : s[k] = r.steps[j] /\ r.steps[j].id \in I
<1>1. n \in Nat /\ \A i \in 1..n : r.steps[i] \in StepType
  BY RouteHas
<1>2. PICK f : /\ f[0] = <<>> /\ OwnOf(r) = f[n]
               /\ \A i \in 0..n : f[i] \in Seq(StepType)
               /\ \A i \in 1..n :
                     f[i] = IF r.steps[i].id \in I THEN Append(f[i - 1], r.steps[i]) ELSE f[i - 1]
  BY OwnRuns
<1> HIDE DEF n, I
<1> DEFINE T == {i \in 0..n : From(f[i])}
<1>3. 0 \in T /\ 0 \in Int /\ n \in Int
  <2>1. From(<<>>)
    <3>1. 1..Len(<<>>) = {}
      BY EmptySeq
    <3> QED
      BY <3>1
  <2> HIDE DEF From
  <2> QED
    BY <1>1, <1>2, <2>1
<1>4. ASSUME NEW i \in (0 + 1)..n, i - 1 \in T PROVE i \in T
  <2>1. i \in 1..n /\ i \in 0..n /\ i - 1 \in 0..n /\ From(f[i - 1])
    BY <1>1, <1>4
  <2>2. From(f[i])
    <3>1. CASE r.steps[i].id \in I
      <4> DEFINE s == f[i - 1]
      <4>1. f[i] = Append(s, r.steps[i]) /\ s \in Seq(StepType) /\ r.steps[i] \in StepType
        BY <1>1, <1>2, <2>1, <3>1
      <4>2. From(s)
        BY <2>1
      <4> HIDE DEF s
      <4>3. /\ Len(f[i]) = Len(s) + 1 /\ Len(s) \in Nat /\ f[i][Len(s) + 1] = r.steps[i]
            /\ \A k \in 1..Len(s) : f[i][k] = s[k]
        BY <4>1, AppendProperties, LenProperties
      <4>4. \A k \in 1..Len(f[i]) : k = Len(s) + 1 \/ k \in 1..Len(s)
        BY <4>3
      <4>5. ASSUME NEW k \in 1..Len(f[i])
            PROVE  \E j \in 1..n : f[i][k] = r.steps[j] /\ r.steps[j].id \in I
        <5>1. CASE k = Len(s) + 1
          BY <2>1, <3>1, <4>3, <5>1
        <5>2. CASE k \in 1..Len(s)
          BY <4>2, <4>3, <5>2
        <5> QED
          BY <4>4, <5>1, <5>2
      <4> QED
        BY ONLY <4>5
    <3>2. CASE r.steps[i].id \notin I
      <4>1. f[i] = f[i - 1]
        BY <1>2, <2>1, <3>2
      <4> HIDE DEF From
      <4> QED
        BY <2>1, <4>1
    <3> QED
      BY <3>1, <3>2
  <2> HIDE DEF From
  <2> QED
    BY <2>1, <2>2
<1>5. n \in T
  <2>1. \A i \in 0..n : i \in T
    <3> HIDE DEF T
    <3> QED
      BY <1>3, <1>4, UpFrom
  <2>2. n \in 0..n
    BY <1>1
  <2> HIDE DEF T
  <2> QED
    BY <2>1, <2>2
<1> QED
  BY <1>2, <1>5 DEF n, I

\* Own steps that stand together, with no other among the branch's ids, are what is collected.
LEMMA OwnIs ==
    ASSUME NEW r \in RouteType, NEW own \in Seq(StepType), NEW m \in Nat,
           m + Len(own) <= Len(r.steps),
           \A k \in 1..Len(own) : r.steps[m + k] = own[k] /\ own[k].id \in Range(r.branch.own),
           \A i \in 1..Len(r.steps) :
              i <= m \/ i > m + Len(own) => r.steps[i].id \notin Range(r.branch.own)
    PROVE  OwnOf(r) = own
<1> DEFINE n == Len(r.steps)
           len == Len(own)
           I == Range(r.branch.own)
<1>1. /\ n \in Nat /\ \A i \in 1..n : r.steps[i] \in StepType
      /\ len \in Nat /\ m + len <= n /\ \A k \in 1..len : own[k] \in StepType
      /\ \A k \in 1..len : r.steps[m + k] = own[k] /\ own[k].id \in I
      /\ \A i \in 1..n : i <= m \/ i > m + len => r.steps[i].id \notin I
  BY RouteHas, LenProperties, ElementOfSeq
<1>2. PICK f : /\ f[0] = <<>> /\ OwnOf(r) = f[n]
               /\ \A i \in 0..n : f[i] \in Seq(StepType)
               /\ \A i \in 1..n :
                     f[i] = IF r.steps[i].id \in I THEN Append(f[i - 1], r.steps[i]) ELSE f[i - 1]
  BY OwnRuns
<1> HIDE DEF n, len, I
<1>3. f[m] = <<>>
  <2> DEFINE T == {i \in 0..m : f[i] = <<>>}
  <2>1. 0 \in T /\ 0 \in Int /\ m \in Int
    BY <1>2
  <2>2. ASSUME NEW i \in (0 + 1)..m, i - 1 \in T PROVE i \in T
    <3>1. i \in 1..n /\ i <= m /\ i \in 0..m
      BY <1>1
    <3>2. f[i] = f[i - 1]
      BY <1>1, <1>2, <3>1
    <3> QED
      BY <2>2, <3>1, <3>2
  <2>3. \A i \in 0..m : i \in T
    <3> HIDE DEF T
    <3> QED
      BY <2>1, <2>2, UpFrom
  <2>4. m \in 0..m
    OBVIOUS
  <2> QED
    BY <2>3, <2>4
<1>4. f[m + len] = own
  <2> DEFINE T == {k \in 0..len : Len(f[m + k]) = k /\ \A i \in 1..k : f[m + k][i] = own[i]}
  <2>1. 0 \in T /\ 0 \in Int /\ len \in Int
    <3>1. m + 0 = m /\ 1..0 = {} /\ Len(<<>>) = 0 /\ 0 \in 0..len
      BY <1>1, EmptySeq
    <3>2. Len(f[m + 0]) = 0
      BY <1>3, <3>1
    <3> QED
      BY <1>1, <3>1, <3>2
  <2>2. ASSUME NEW k \in (0 + 1)..len, k - 1 \in T PROVE k \in T
    <3>1. /\ k \in 1..len /\ k \in 0..len /\ m + k \in 1..n /\ (m + k) - 1 = m + (k - 1)
          /\ m + (k - 1) \in 0..n /\ (k - 1) + 1 = k
      BY <1>1
    <3> DEFINE s == f[m + (k - 1)]
    <3>2. s \in Seq(StepType) /\ own[k] \in StepType /\ f[m + k] = Append(s, own[k])
      BY <1>1, <1>2, <3>1
    <3>3. Len(s) = k - 1 /\ \A i \in 1..(k - 1) : s[i] = own[i]
      BY <2>2
    <3> HIDE DEF s
    <3>4. /\ Len(f[m + k]) = k /\ f[m + k][k] = own[k]
          /\ \A i \in 1..(k - 1) : f[m + k][i] = own[i]
      BY <3>1, <3>2, <3>3, AppendProperties
    <3>5. \A i \in 1..k : i = k \/ i \in 1..(k - 1)
      BY <3>1
    <3> QED
      BY <3>1, <3>4, <3>5
  <2>3. \A k \in 0..len : k \in T
    <3> HIDE DEF T
    <3> QED
      BY <2>1, <2>2, UpFrom
  <2>4. len \in 0..len /\ m + len \in 0..n
    BY <1>1
  <2>5. Len(f[m + len]) = len /\ \A i \in 1..len : f[m + len][i] = own[i]
    BY <2>3, <2>4
  <2>6. f[m + len] \in Seq(StepType)
    BY <1>2, <2>4
  <2> HIDE DEF T
  <2> QED
    BY <2>5, <2>6, SeqEqual DEF len
<1>5. f[n] = own
  <2> DEFINE T == {i \in (m + len)..n : f[i] = own}
  <2>1. m + len \in T /\ m + len \in Int /\ n \in Int
    BY <1>1, <1>4
  <2>2. ASSUME NEW i \in (m + len + 1)..n, i - 1 \in T PROVE i \in T
    <3>1. i \in 1..n /\ i > m + len /\ i \in (m + len)..n
      BY <1>1
    <3>2. f[i] = f[i - 1]
      BY <1>1, <1>2, <3>1
    <3> QED
      BY <2>2, <3>1, <3>2
  <2>3. \A i \in (m + len)..n : i \in T
    <3> HIDE DEF T
    <3> QED
      BY <2>1, <2>2, UpFrom
  <2>4. n \in (m + len)..n
    BY <1>1
  <2> QED
    BY <2>3, <2>4
<1> QED
  BY <1>2, <1>5

\* A step that is not the branch's own may become two that are not: the same is collected.
LEMMA OwnStays ==
    ASSUME NEW r \in RouteType, NEW q \in RouteType, NEW i \in 1..Len(r.steps),
           q.branch.own = r.branch.own, Len(q.steps) = Len(r.steps) + 1,
           \A k \in 1..(i - 1) : q.steps[k] = r.steps[k],
           \A k \in (i + 1)..Len(r.steps) : q.steps[k + 1] = r.steps[k],
           {r.steps[i].id, q.steps[i].id, q.steps[i + 1].id} \cap Range(r.branch.own) = {}
    PROVE  OwnOf(q) = OwnOf(r)
<1> DEFINE n == Len(r.steps)
           I == Range(r.branch.own)
<1>1. /\ n \in Nat /\ i \in 1..n /\ Range(q.branch.own) = I
      /\ \A k \in 1..(i - 1) : q.steps[k] = r.steps[k]
      /\ \A k \in (i + 1)..n : q.steps[k + 1] = r.steps[k]
      /\ r.steps[i].id \notin I /\ q.steps[i].id \notin I /\ q.steps[i + 1].id \notin I
  BY RouteHas
<1>2. PICK f : /\ f[0] = <<>> /\ OwnOf(r) = f[n]
               /\ \A k \in 1..n :
                     f[k] = IF r.steps[k].id \in I THEN Append(f[k - 1], r.steps[k]) ELSE f[k - 1]
  BY OwnRuns
<1>3. PICK g : /\ g[0] = <<>> /\ OwnOf(q) = g[n + 1]
               /\ \A k \in 1..(n + 1) :
                     g[k] = IF q.steps[k].id \in I THEN Append(g[k - 1], q.steps[k]) ELSE g[k - 1]
  <2>1. PICK g : /\ g[0] = <<>> /\ OwnOf(q) = g[Len(q.steps)]
                 /\ \A k \in 1..Len(q.steps) :
                       g[k] = IF q.steps[k].id \in Range(q.branch.own)
                              THEN Append(g[k - 1], q.steps[k]) ELSE g[k - 1]
    BY OwnRuns
  <2> QED
    BY <1>1, <2>1
<1> HIDE DEF n, I
<1>4. g[i - 1] = f[i - 1]
  <2> DEFINE T == {k \in 0..(i - 1) : g[k] = f[k]}
  <2>1. 0 \in T /\ 0 \in Int /\ i - 1 \in Int
    BY <1>1, <1>2, <1>3
  <2>2. ASSUME NEW k \in (0 + 1)..(i - 1), k - 1 \in T PROVE k \in T
    <3>1. k \in 1..n /\ k \in 1..(n + 1) /\ k \in 1..(i - 1) /\ k \in 0..(i - 1)
      BY <1>1
    <3>2. g[k - 1] = f[k - 1] /\ q.steps[k] = r.steps[k]
      BY <1>1, <2>2, <3>1
    <3>3. g[k] = f[k]
      BY <1>2, <1>3, <3>1, <3>2
    <3> QED
      BY <3>1, <3>3
  <2>3. \A k \in 0..(i - 1) : k \in T
    <3> HIDE DEF T
    <3> QED
      BY <2>1, <2>2, UpFrom
  <2>4. i - 1 \in 0..(i - 1)
    BY <1>1
  <2> QED
    BY <2>3, <2>4
<1>5. g[i + 1] = f[i]
  <2>1. i \in 1..(n + 1) /\ i + 1 \in 1..(n + 1) /\ (i + 1) - 1 = i
    BY <1>1
  <2>2. f[i] = f[i - 1] /\ g[i] = g[i - 1]
    BY <1>1, <1>2, <1>3, <2>1
  <2>3. g[i + 1] = g[(i + 1) - 1]
    BY <1>1, <1>3, <2>1
  <2> QED
    BY <1>4, <2>1, <2>2, <2>3
<1>6. g[n + 1] = f[n]
  <2> DEFINE T == {k \in i..n : g[k + 1] = f[k]}
  <2>1. i \in T /\ i \in Int /\ n \in Int
    BY <1>1, <1>5
  <2>2. ASSUME NEW k \in (i + 1)..n, k - 1 \in T PROVE k \in T
    <3>1. /\ k \in 1..n /\ k + 1 \in 1..(n + 1) /\ k \in i..n
          /\ (k + 1) - 1 = k /\ (k - 1) + 1 = k
      BY <1>1
    <3>2. g[k] = f[k - 1] /\ q.steps[k + 1] = r.steps[k]
      BY <1>1, <2>2, <3>1
    <3>3. g[k + 1] = IF q.steps[k + 1].id \in I THEN Append(g[k], q.steps[k + 1]) ELSE g[k]
      BY <1>3, <3>1
    <3>4. f[k] = IF r.steps[k].id \in I THEN Append(f[k - 1], r.steps[k]) ELSE f[k - 1]
      BY <1>2, <3>1
    <3>5. g[k + 1] = f[k]
      BY <3>2, <3>3, <3>4
    <3> QED
      BY <3>1, <3>5
  <2>3. \A k \in i..n : k \in T
    <3> HIDE DEF T
    <3> QED
      BY <2>1, <2>2, UpFrom
  <2>4. n \in i..n
    BY <1>1
  <2> QED
    BY <2>3, <2>4
<1> QED
  BY <1>2, <1>3, <1>6
-----------------------------------------------------------------------------
(* Where steps lead.                                                       *)

\* Two steps that are driven alike, whatever their ids and speeds.
Alike(s, t) == s.kind = t.kind /\ s.to = t.to /\ s.turn = t.turn

\* The n steps after place a of one and after place b of the other are driven alike.
AlikeSteps(s, a, t, b, n) == \A i \in 1..n : Alike(s[a + i], t[b + i])

\* None of the n steps after place a goes home.
StayOut(s, a, n) == \A i \in 1..n : s[a + i].kind # "home"

\* So are the poses after them, homes being g and h.
SameWay(g, s, a, h, t, b, n) ==
    \A i \in 0..n : Poses(g, s)[a + i + 1] = Poses(h, t)[b + i + 1]

\* Alike steps from the same pose lead to the same poses.
LEMMA AlikeLead ==
    ASSUME NEW g \in PoseType, NEW h \in PoseType,
           NEW s \in Seq(StepType), NEW t \in Seq(StepType),
           NEW a \in Nat, NEW b \in Nat, NEW n \in Nat, a + n <= Len(s), b + n <= Len(t),
           Poses(g, s)[a + 1] = Poses(h, t)[b + 1],
           AlikeSteps(s, a, t, b, n), g = h \/ StayOut(s, a, n)
    PROVE  SameWay(g, s, a, h, t, b, n)
<1> DEFINE T == {i \in 0..n : Poses(g, s)[a + i + 1] = Poses(h, t)[b + i + 1]}
<1>1. Len(s) \in Nat /\ Len(t) \in Nat /\ a + n <= Len(s) /\ b + n <= Len(t)
  BY LenProperties
<1>5. \A i \in 1..n : /\ i \in 0..n /\ i - 1 \in 0..n /\ a + i \in 1..Len(s) /\ b + i \in 1..Len(t)
                      /\ a + (i - 1) + 1 = a + i /\ b + (i - 1) + 1 = b + i
  BY <1>1
<1>2. 0 \in T /\ 0 \in Int /\ n \in Int
  <2>1. a + 0 + 1 = a + 1 /\ b + 0 + 1 = b + 1
    OBVIOUS
  <2> QED
    BY <2>1
<1>3. ASSUME NEW i \in (0 + 1)..n, i - 1 \in T PROVE i \in T
  <2>5. i \in 1..n
    OBVIOUS
  <2>1. /\ i \in 1..n /\ i \in 0..n /\ a + i \in 1..Len(s) /\ b + i \in 1..Len(t)
        /\ a + (i - 1) + 1 = a + i /\ b + (i - 1) + 1 = b + i
    BY <1>5, <2>5
  <2>2. Poses(g, s)[a + i] = Poses(h, t)[b + i]
    BY <1>3, <2>1
  <2>3. /\ Poses(g, s)[a + i + 1] = EndOfStep(g, Poses(g, s)[a + i], s[a + i])
        /\ Poses(h, t)[b + i + 1] = EndOfStep(h, Poses(h, t)[b + i], t[b + i])
    BY <2>1, PosesFollow
  <2>6. Alike(s[a + i], t[b + i]) /\ (g = h \/ s[a + i].kind # "home")
    BY <2>5, Zenon DEF AlikeSteps, StayOut
  <2>4. EndOfStep(g, Poses(g, s)[a + i], s[a + i]) = EndOfStep(h, Poses(g, s)[a + i], t[b + i])
    <3> DEFINE p == Poses(g, s)[a + i]
               x == s[a + i]
               y == t[b + i]
    <3>1. Alike(x, y) /\ (g = h \/ x.kind # "home")
      BY <2>6
    <3> HIDE DEF p, x, y
    <3>2. EndOfStep(g, p, x) = EndOfStep(h, p, y)
      BY <3>1 DEF EndOfStep, Alike
    <3> QED
      BY <3>2 DEF p, x, y
  <2> QED
    BY <2>1, <2>2, <2>3, <2>4
<1>4. \A i \in 0..n : i \in T
  <2> HIDE DEF T
  <2> QED
    BY <1>2, <1>3, UpFrom
<1> QED
  BY <1>4 DEF SameWay

\* The same of two routes.
LEMMA AlikeRoutes ==
    ASSUME NEW r \in RouteType, NEW q \in RouteType, r.start = q.start,
           NEW a \in Nat, NEW b \in Nat, NEW n \in Nat, a + n <= Len(r.steps), b + n <= Len(q.steps),
           PoseAfter(r, a) = PoseAfter(q, b),
           AlikeSteps(r.steps, a, q.steps, b, n)
    PROVE  \A i \in 0..n : PoseAfter(r, a + i) = PoseAfter(q, b + i)
<1>1. /\ r.start \in PoseType /\ q.start \in PoseType
      /\ r.steps \in Seq(StepType) /\ q.steps \in Seq(StepType)
      /\ r.poses = Poses(r.start, r.steps) /\ q.poses = Poses(q.start, q.steps)
  BY RouteHas
<1>2. Poses(r.start, r.steps)[a + 1] = Poses(q.start, q.steps)[b + 1]
  BY <1>1 DEF PoseAfter
<1>3. \A i \in 0..n : Poses(r.start, r.steps)[a + i + 1] = Poses(q.start, q.steps)[b + i + 1]
  <2> DEFINE s == r.steps
             t == q.steps
             g == r.start
             h == q.start
  <2>1. a + n <= Len(s) /\ b + n <= Len(t) /\ g \in PoseType /\ h \in PoseType
    BY <1>1
  <2>2. s \in Seq(StepType) /\ t \in Seq(StepType) /\ Poses(g, s)[a + 1] = Poses(h, t)[b + 1]
    BY <1>1, <1>2
  <2>3. AlikeSteps(s, a, t, b, n)
    OBVIOUS
  <2>4. g = h \/ StayOut(s, a, n)
    OBVIOUS
  <2> HIDE DEF s, t, g, h
  <2>5. SameWay(g, s, a, h, t, b, n)
    BY <2>1, <2>2, <2>3, <2>4, AlikeLead
  <2> QED
    BY <2>5 DEF s, t, g, h, SameWay
<1>5. \A i \in 0..n : r.poses[a + i + 1] = q.poses[b + i + 1]
  BY <1>1, <1>3
<1> QED
  BY <1>5 DEF PoseAfter

\* Of two routes that begin alike.
LEMMA BeginAlike ==
    ASSUME NEW r \in RouteType, NEW q \in RouteType, r.start = q.start,
           NEW n \in Nat, n <= Len(r.steps), n <= Len(q.steps),
           \A i \in 1..n : r.steps[i] = q.steps[i]
    PROVE  \A i \in 0..n : PoseAfter(r, i) = PoseAfter(q, i)
<1> DEFINE o == 0
<1>1. o \in Nat /\ o + n <= Len(r.steps) /\ o + n <= Len(q.steps) /\ \A i \in 0..n : o + i = i
  OBVIOUS
<1>2. PoseAfter(r, o) = PoseAfter(q, o)
  BY RouteHas
<1>3. AlikeSteps(r.steps, o, q.steps, o, n)
  <2>1. \A i \in 1..n : o + i = i /\ r.steps[i] = q.steps[i]
    OBVIOUS
  <2> HIDE DEF o
  <2> QED
    BY <2>1 DEF AlikeSteps, Alike
<1> HIDE DEF o
<1>4. \A i \in 0..n : PoseAfter(r, o + i) = PoseAfter(q, o + i)
  <2>1. /\ r \in RouteType /\ q \in RouteType /\ r.start = q.start /\ o \in Nat /\ n \in Nat
        /\ o + n <= Len(r.steps) /\ o + n <= Len(q.steps)
    BY <1>1
  <2> QED
    BY ONLY <1>2, <1>3, <2>1, AlikeRoutes, ZenonT(60)
<1> QED
  BY <1>1, <1>4

\* What steps lead to is where a route is that runs through them.
LEMMA LeadsThrough ==
    ASSUME NEW r \in RouteType, NEW own \in Seq(StepType), NEW m \in Nat,
           m + Len(own) <= Len(r.steps), \A k \in 1..Len(own) : r.steps[m + k] = own[k],
           \A k \in 1..Len(own) : own[k].kind # "home"
    PROVE  Leads(PoseAfter(r, m), own, PoseAfter(r, m + Len(own)))
<1> DEFINE p == PoseAfter(r, m)
           len == Len(own)
<1>1. /\ r.start \in PoseType /\ r.steps \in Seq(StepType) /\ Len(r.steps) \in Nat
      /\ r.poses = Poses(r.start, r.steps)
  BY RouteHas
<1>2. len \in Nat /\ DOMAIN own = 1..len
  BY LenProperties
<1>3. p \in PoseType
  <2>1. m \in 0..Len(r.steps)
    BY <1>1, <1>2
  <2> QED
    BY <2>1, RouteHas
<1>4. Poses(p, own)[0 + 1] = Poses(r.start, r.steps)[m + 1]
  <2>1. Poses(p, own)[1] = p /\ p = Poses(r.start, r.steps)[m + 1] /\ 0 + 1 = 1
    BY <1>1, <1>3, PosesFollow DEF PoseAfter
  <2> QED
    BY <2>1
<1>5. \A i \in 1..len : Alike(own[0 + i], r.steps[m + i]) /\ own[0 + i].kind # "home"
  <2>1. \A i \in 1..len : 0 + i = i
    BY <1>2
  <2> QED
    BY <2>1 DEF Alike
<1> HIDE DEF p
<1>6. \A i \in 0..len : Poses(p, own)[0 + i + 1] = Poses(r.start, r.steps)[m + i + 1]
  <2>1. 0 \in Nat /\ 0 + len <= Len(own) /\ m + len <= Len(r.steps)
    BY <1>2
  <2> DEFINE t == r.steps
             h == r.start
  <2>2. AlikeSteps(own, 0, t, m, len)
    BY <1>5, Zenon DEF AlikeSteps
  <2>3. p = h \/ StayOut(own, 0, len)
    BY <1>5, Zenon DEF StayOut
  <2>4. m + len <= Len(t) /\ h \in PoseType /\ t \in Seq(StepType) /\ len \in Nat
    BY <1>1, <1>2, <2>1
  <2>5. Poses(p, own)[0 + 1] = Poses(h, t)[m + 1]
    BY <1>4
  <2> HIDE DEF len, t, h
  <2>6. SameWay(p, own, 0, h, t, m, len)
    BY <1>3, <2>1, <2>2, <2>3, <2>4, <2>5, AlikeLead
  <2> QED
    BY <2>6 DEF t, h, SameWay
<1>7. Poses(p, own)[len + 1] = PoseAfter(r, m + len)
  <2>1. len \in 0..len /\ 0 + len + 1 = len + 1
    BY <1>2
  <2> QED
    BY <1>1, <1>6, <2>1 DEF PoseAfter
<1> QED
  BY <1>2, <1>7 DEF Leads, p

\* And the other way round.
LEMMA LedThrough ==
    ASSUME NEW r \in RouteType, NEW own \in Seq(StepType), NEW m \in Nat,
           m + Len(own) <= Len(r.steps), \A k \in 1..Len(own) : r.steps[m + k] = own[k],
           NEW q, Leads(PoseAfter(r, m), own, q)
    PROVE  PoseAfter(r, m + Len(own)) = q
<1>1. DOMAIN own = 1..Len(own)
  BY LenProperties
<1>2. \A k \in 1..Len(own) : own[k].kind # "home"
  BY <1>1 DEF Leads
<1>3. Leads(PoseAfter(r, m), own, PoseAfter(r, m + Len(own)))
  BY <1>2, LeadsThrough
<1> QED
  BY <1>3 DEF Leads

-----------------------------------------------------------------------------
(* Steps told apart by their ids.                                          *)

\* In a route that compiles no two steps have the same id, and a step is found by its own.
LEMMA UniqueIds ==
    ASSUME NEW r \in RouteType, Compiles(r)
    PROVE  \A i \in 1..Len(r.steps) :
              /\ r.steps[i].id \in Ids(r.steps) /\ IndexOf(r.steps, r.steps[i].id) = i
              /\ \A j \in 1..Len(r.steps) : r.steps[j].id = r.steps[i].id => j = i
<1> DEFINE n == Len(r.steps)
           f == [i \in 1..n |-> r.steps[i].id]
<1>1. n \in Nat /\ DOMAIN r.steps = 1..n /\ r.steps \in Seq(StepType)
  BY RouteHas
<1>2. f \in Surjection(1..n, Ids(r.steps))
  BY <1>1 DEF Surjection, Ids
<1>3. IsFiniteSet(1..n) /\ Cardinality(1..n) = n
  <2>1. 1 \in Int /\ n \in Int /\ (IF 1 > n THEN 0 ELSE n - 1 + 1) = n
    BY <1>1
  <2> QED
    BY <2>1, FS_Interval
<1>4. Cardinality(Ids(r.steps)) = n
  BY DEF Compiles
<1>5. f \in Injection(1..n, Ids(r.steps))
  <2> HIDE DEF f
  <2> QED
    BY <1>2, <1>3, <1>4, FS_Surjection
<1>6. \A i, j \in 1..n : r.steps[j].id = r.steps[i].id => j = i
  <2>1. \A i, j \in 1..n : f[i] = f[j] => i = j
    <3> HIDE DEF f
    <3> QED
      BY <1>5 DEF Injection, IsInjective
  <2> QED
    BY <2>1
<1>7. ASSUME NEW i \in 1..n PROVE r.steps[i].id \in Ids(r.steps) /\ IndexOf(r.steps, r.steps[i].id) = i
  <2>1. r.steps[i].id \in Ids(r.steps)
    BY <1>1 DEF Ids
  <2>2. IndexOf(r.steps, r.steps[i].id) \in 1..n /\ r.steps[IndexOf(r.steps, r.steps[i].id)].id = r.steps[i].id
    BY <1>1, <2>1, IndexIs
  <2> QED
    BY <1>6, <2>1, <2>2
<1> QED
  BY <1>6, <1>7


-----------------------------------------------------------------------------
(* A main route with a branch put in.                                      *)

\* One part after another, by place.
LEMMA JoinedIs ==
    ASSUME NEW s \in Seq(StepType), NEW t \in Seq(StepType)
    PROVE  /\ s \o t \in Seq(StepType) /\ Len(s \o t) = Len(s) + Len(t)
           /\ \A i \in 1..Len(s) : (s \o t)[i] = s[i]
           /\ \A i \in 1..Len(t) : (s \o t)[Len(s) + i] = t[i]
<1>1. Len(s) \in Nat /\ Len(t) \in Nat
  BY LenProperties
<1>2. /\ s \o t \in Seq(StepType) /\ Len(s \o t) = Len(s) + Len(t)
      /\ \A i \in 1..(Len(s) + Len(t)) : (s \o t)[i] = IF i <= Len(s) THEN s[i] ELSE t[i - Len(s)]
  BY ConcatProperties
<1>3. ASSUME NEW i \in 1..Len(t) PROVE (s \o t)[Len(s) + i] = t[i]
  <2>1. Len(s) + i \in 1..(Len(s) + Len(t)) /\ ~(Len(s) + i <= Len(s)) /\ (Len(s) + i) - Len(s) = i
    BY <1>1
  <2> QED
    BY <1>2, <2>1
<1>4. \A i \in 1..Len(s) : i \in 1..(Len(s) + Len(t)) /\ i <= Len(s)
  BY <1>1
<1> QED
  BY <1>2, <1>3, <1>4

\* A part, by place.
LEMMA PartIs ==
    ASSUME NEW s \in Seq(StepType), NEW m \in Nat, NEW n \in Nat, m <= n, n <= Len(s)
    PROVE  /\ SubSeq(s, m + 1, n) \in Seq(StepType) /\ Len(SubSeq(s, m + 1, n)) = n - m
           /\ \A i \in 1..(n - m) : SubSeq(s, m + 1, n)[i] = s[m + i]
<1>1. Len(s) \in Nat /\ \A i \in 1..Len(s) : s[i] \in StepType
  BY LenProperties, ElementOfSeq
<1>2. m + 1 \in Int /\ n \in Int /\ \A i \in (m + 1)..n : s[i] \in StepType
  BY <1>1
<1>3. /\ SubSeq(s, m + 1, n) \in Seq(StepType)
      /\ Len(SubSeq(s, m + 1, n)) = IF m + 1 <= n THEN n - (m + 1) + 1 ELSE 0
      /\ \A i \in 1..(n - (m + 1) + 1) : SubSeq(s, m + 1, n)[i] = s[(m + 1) + i - 1]
  BY <1>2, SubSeqProperties
<1>4. (IF m + 1 <= n THEN n - (m + 1) + 1 ELSE 0) = n - m /\ n - (m + 1) + 1 = n - m
  OBVIOUS
<1>5. \A i \in 1..(n - m) : (m + 1) + i - 1 = m + i
  OBVIOUS
<1> QED
  BY <1>3, <1>4, <1>5

\* c is the route of `main` with the steps own put in as the branch `b`.
PutIn(c, main, b, own) ==
    LET li == IndexOf(main.steps, b.leave)
        ri == IndexOf(main.steps, b.rejoin)
        n == Len(own)
        x == IF b.at = <<>> THEN 0 ELSE 1
        st == main.steps[li]
    IN  /\ c \in Seq(StepType) /\ Len(c) = li + n + x + (Len(main.steps) - ri)
        /\ \A i \in 1..(li - x) : c[i] = main.steps[i]
        /\ \A k \in 1..n : c[li + k] = own[k]
        /\ \A i \in 1..(Len(main.steps) - ri) : c[li + n + x + i] = main.steps[ri + i]
        /\ x = 1 => c[li] = Straight(st.id, b.at, st.v) /\ c[li + n + 1] = Straight(b.split, st.to, st.v)

\* What the server composes is that.
LEMMA ComposedIs ==
    ASSUME NEW main \in RouteType, NEW b \in BranchType, NEW own \in Seq(StepType), Fits(b, main)
    PROVE  PutIn(Composed(main, b, own), main, b, own)
<1> DEFINE steps == main.steps
           n == Len(steps)
           len == Len(own)
           li == IndexOf(steps, b.leave)
           ri == IndexOf(steps, b.rejoin)
           st == steps[li]
           c == Composed(main, b, own)
<1>1. /\ steps \in Seq(StepType) /\ n \in Nat /\ \A i \in 1..n : steps[i] \in StepType
      /\ len \in Nat
  BY RouteHas, LenProperties
<1>2. li \in 1..n /\ ri \in 1..n /\ li <= ri /\ (b.at # <<>> => li = ri)
  <2>1. b.leave \in Ids(steps) /\ b.rejoin \in Ids(steps) /\ li <= ri /\ (b.at # <<>> => li = ri)
    BY DEF Fits
  <2> QED
    BY <1>1, <2>1, IndexIs
<1> HIDE DEF li, ri, len, n, steps
<1>3. /\ SubSeq(steps, ri + 1, n) \in Seq(StepType) /\ Len(SubSeq(steps, ri + 1, n)) = n - ri
      /\ \A i \in 1..(n - ri) : SubSeq(steps, ri + 1, n)[i] = steps[ri + i]
  <2>1. ri \in Nat /\ ri <= n /\ n <= Len(steps)
    BY <1>1, <1>2 DEF n
  <2> QED
    BY <1>1, <2>1, PartIs
<1> DEFINE z == SubSeq(steps, ri + 1, n)
<1>4. CASE b.at = <<>>
  <2> DEFINE y == SubSeq(steps, 1, li)
  <2>1. c = y \o own \o z
    BY <1>4 DEF Composed, li, ri, n, steps
  <2>2. y \in Seq(StepType) /\ Len(y) = li /\ \A i \in 1..li : y[i] = steps[i]
    <3>1. 0 \in Nat /\ li \in Nat /\ 0 <= li /\ li <= Len(steps)
      BY <1>1, <1>2 DEF n
    <3>2. /\ SubSeq(steps, 0 + 1, li) \in Seq(StepType) /\ Len(SubSeq(steps, 0 + 1, li)) = li - 0
          /\ \A i \in 1..(li - 0) : SubSeq(steps, 0 + 1, li)[i] = steps[0 + i]
      BY <1>1, <3>1, PartIs
    <3>3. 0 + 1 = 1 /\ li - 0 = li /\ \A i \in 1..li : 0 + i = i
      BY <3>1
    <3> QED
      BY <3>2, <3>3
  <2> DEFINE w == y \o own
  <2>3. /\ w \in Seq(StepType) /\ Len(w) = li + len /\ \A i \in 1..li : w[i] = steps[i]
        /\ \A i \in 1..len : w[li + i] = own[i]
    <3> HIDE DEF y
    <3> QED
      BY <2>2, JoinedIs DEF len
  <2> HIDE DEF y, w, z
  <2>4. /\ w \o z \in Seq(StepType) /\ Len(w \o z) = li + len + (n - ri)
        /\ \A i \in 1..(li + len) : (w \o z)[i] = w[i]
        /\ \A i \in 1..(n - ri) : (w \o z)[li + len + i] = steps[ri + i]
    <3>1. z \in Seq(StepType) /\ Len(z) = n - ri /\ \A i \in 1..(n - ri) : z[i] = steps[ri + i]
      BY <1>3 DEF z
    <3>2. /\ w \o z \in Seq(StepType) /\ Len(w \o z) = Len(w) + Len(z)
          /\ \A i \in 1..Len(w) : (w \o z)[i] = w[i]
          /\ \A i \in 1..Len(z) : (w \o z)[Len(w) + i] = z[i]
      BY <2>3, <3>1, JoinedIs
    <3> QED
      BY <2>3, <3>1, <3>2
  <2>5. c = w \o z
    BY <2>1 DEF w
  <2>6. \A i \in 1..(li - 0) : c[i] = steps[i]
    <3>1. \A i \in 1..(li - 0) : i \in 1..li /\ i \in 1..(li + len)
      BY <1>1, <1>2
    <3> QED
      BY <2>3, <2>4, <2>5, <3>1
  <2>7. \A k \in 1..len : c[li + k] = own[k]
    <3>1. \A k \in 1..len : li + k \in 1..(li + len)
      BY <1>1, <1>2
    <3> QED
      BY <2>3, <2>4, <2>5, <3>1
  <2>8. li + len + 0 + (n - ri) = li + len + (n - ri) /\ li + len + 0 = li + len /\ 0 # 1
    BY <1>1, <1>2
  <2>9. Len(c) = li + len + 0 + (n - ri)
    BY <2>4, <2>5, <2>8
  <2>10. \A i \in 1..(n - ri) : c[li + len + 0 + i] = steps[ri + i]
    BY <2>4, <2>5, <2>8
  <2>11. c \in Seq(StepType)
    BY <2>4, <2>5
  <2> HIDE DEF c
  <2> QED
    BY <1>4, <2>6, <2>7, <2>8, <2>9, <2>10, <2>11 DEF PutIn, li, ri, len, n, steps, c
<1>5. CASE b.at # <<>>
  <2> DEFINE one == Straight(st.id, b.at, st.v)
             two == Straight(b.split, st.to, st.v)
             y == SubSeq(steps, 1, li - 1)
             v == y \o <<one>>
             w == v \o own
             u == w \o <<two>>
  <2>1. c = y \o <<one>> \o own \o <<two>> \o SubSeq(steps, li + 1, n) /\ li = ri
    BY <1>2, <1>5 DEF Composed, li, ri, n, steps
  <2>2. one \in StepType /\ two \in StepType
    <3>1. st \in StepType
      BY <1>1, <1>2
    <3>2. b.at \in Points /\ b.split \in StepIds
      BY <1>5 DEF BranchType
    <3>3. st.id \in StepIds /\ st.v \in 1..RouteSpeed /\ st.to \in Points
      BY <3>1 DEF StepType
    <3> HIDE DEF st
    <3> QED
      BY <3>2, <3>3, StepsAreMade
  <2>3. y \in Seq(StepType) /\ Len(y) = li - 1 /\ \A i \in 1..(li - 1) : y[i] = steps[i]
    <3>1. 0 \in Nat /\ li - 1 \in Nat /\ 0 <= li - 1 /\ li - 1 <= Len(steps)
      BY <1>1, <1>2 DEF n
    <3>2. /\ SubSeq(steps, 0 + 1, li - 1) \in Seq(StepType) /\ Len(SubSeq(steps, 0 + 1, li - 1)) = (li - 1) - 0
          /\ \A i \in 1..((li - 1) - 0) : SubSeq(steps, 0 + 1, li - 1)[i] = steps[0 + i]
      BY <1>1, <3>1, PartIs
    <3>3. 0 + 1 = 1 /\ (li - 1) - 0 = li - 1 /\ \A i \in 1..(li - 1) : 0 + i = i
      BY <3>1
    <3> QED
      BY <3>2, <3>3
  <2> HIDE DEF one, two, y
  <2>4. /\ <<one>> \in Seq(StepType) /\ Len(<<one>>) = 1 /\ <<one>>[1] = one
        /\ <<two>> \in Seq(StepType) /\ Len(<<two>>) = 1 /\ <<two>>[1] = two /\ 1 \in 1..1
    BY <2>2
  <2>5. /\ v \in Seq(StepType) /\ Len(v) = li /\ \A i \in 1..(li - 1) : v[i] = steps[i]
        /\ v[li] = one
    <3> DEFINE e == <<one>>
    <3>1. e \in Seq(StepType) /\ Len(e) = 1 /\ e[1] = one /\ 1 \in 1..1
      BY <2>4
    <3> HIDE DEF e
    <3>2. /\ y \o e \in Seq(StepType) /\ Len(y \o e) = Len(y) + Len(e)
          /\ \A i \in 1..Len(y) : (y \o e)[i] = y[i]
          /\ \A i \in 1..Len(e) : (y \o e)[Len(y) + i] = e[i]
      BY <2>3, <3>1, JoinedIs
    <3>3. (li - 1) + 1 = li
      BY <1>1, <1>2
    <3>4. (y \o e)[li] = one /\ Len(y \o e) = li
      BY <2>3, <3>1, <3>2, <3>3
    <3>5. \A i \in 1..(li - 1) : (y \o e)[i] = steps[i]
      BY <2>3, <3>2
    <3>6. v = y \o e
      BY DEF e
    <3> HIDE DEF v
    <3> QED
      BY <3>2, <3>4, <3>5, <3>6
  <2> HIDE DEF v
  <2>6. /\ w \in Seq(StepType) /\ Len(w) = li + len /\ \A i \in 1..li : w[i] = v[i]
        /\ \A i \in 1..len : w[li + i] = own[i]
    BY <2>5, JoinedIs DEF len
  <2> HIDE DEF w
  <2>7. /\ u \in Seq(StepType) /\ Len(u) = li + len + 1 /\ \A i \in 1..(li + len) : u[i] = w[i]
        /\ u[li + len + 1] = two
    <3>1. /\ w \o <<two>> \in Seq(StepType) /\ Len(w \o <<two>>) = Len(w) + Len(<<two>>)
          /\ \A i \in 1..Len(w) : (w \o <<two>>)[i] = w[i]
          /\ \A i \in 1..Len(<<two>>) : (w \o <<two>>)[Len(w) + i] = <<two>>[i]
      BY <2>6, <2>4, JoinedIs
    <3> QED
      BY <2>6, <2>4, <3>1
  <2> HIDE DEF u, z
  <2>8. /\ u \o z \in Seq(StepType) /\ Len(u \o z) = li + len + 1 + (n - ri)
        /\ \A i \in 1..(li + len + 1) : (u \o z)[i] = u[i]
        /\ \A i \in 1..(n - ri) : (u \o z)[li + len + 1 + i] = steps[ri + i]
    <3>1. z \in Seq(StepType) /\ Len(z) = n - ri /\ \A i \in 1..(n - ri) : z[i] = steps[ri + i]
      BY <1>3 DEF z
    <3>2. /\ u \o z \in Seq(StepType) /\ Len(u \o z) = Len(u) + Len(z)
          /\ \A i \in 1..Len(u) : (u \o z)[i] = u[i]
          /\ \A i \in 1..Len(z) : (u \o z)[Len(u) + i] = z[i]
      BY <2>7, <3>1, JoinedIs
    <3> QED
      BY <2>7, <3>1, <3>2
  <2>9. c = u \o z
    BY <2>1 DEF u, w, v, z
  <2>10. \A i \in 1..li : c[i] = v[i]
    <3>1. \A i \in 1..li : i \in 1..(li + len) /\ i \in 1..(li + len + 1)
      BY <1>1, <1>2
    <3> QED
      BY <2>6, <2>7, <2>8, <2>9, <3>1
  <2>11. (\A i \in 1..(li - 1) : c[i] = steps[i]) /\ c[li] = one
    <3>1. (\A i \in 1..(li - 1) : i \in 1..li) /\ li \in 1..li
      BY <1>1, <1>2
    <3> QED
      BY <2>5, <2>10, <3>1
  <2>12. \A k \in 1..len : c[li + k] = own[k]
    <3>1. \A k \in 1..len : li + k \in 1..(li + len) /\ li + k \in 1..(li + len + 1)
      BY <1>1, <1>2
    <3> QED
      BY <2>6, <2>7, <2>8, <2>9, <3>1
  <2>13. c[li + len + 1] = two
    <3>1. li + len + 1 \in 1..(li + len + 1)
      BY <1>1, <1>2
    <3> QED
      BY <2>7, <2>8, <2>9, <3>1
  <2>14. c \in Seq(StepType) /\ Len(c) = li + len + 1 + (n - ri)
    BY <2>8, <2>9
  <2>15. \A i \in 1..(n - ri) : c[li + len + 1 + i] = steps[ri + i]
    BY <2>8, <2>9
  <2> HIDE DEF c
  <2> QED
    BY <1>5, <2>11, <2>12, <2>13, <2>14, <2>15 DEF PutIn, li, ri, len, n, steps, c, one, two
<1> QED
  BY <1>4, <1>5

\* Where r, the route of `main` with n steps put in as the branch `b`, is after its steps.
IsWhereMainIs(r, main, b, n) ==
    LET li == IndexOf(main.steps, b.leave)
        ri == IndexOf(main.steps, b.rejoin)
        x == IF b.at = <<>> THEN 0 ELSE 1
    IN  /\ \A i \in 0..(li - x) : PoseAfter(r, i) = PoseAfter(main, i)
        /\ PoseAfter(r, li) = LeavesAt(b, main) /\ PoseAfter(r, li + n) = GoesOnAt(b, main)
        /\ \A i \in 0..(Len(main.steps) - ri) : PoseAfter(r, li + n + x + i) = PoseAfter(main, ri + i)

\* If the steps put in lead from where it leaves to where it goes on, it is where the main route is.
LEMMA PutInIsDriven ==
    ASSUME NEW main \in RouteType, NEW r \in RouteType, NEW own \in Seq(StepType), NEW b \in BranchType,
           Fits(b, main), PutIn(r.steps, main, b, own), r.start = main.start,
           Leads(LeavesAt(b, main), own, GoesOnAt(b, main))
    PROVE  IsWhereMainIs(r, main, b, Len(own))
<1> DEFINE steps == main.steps
           m == Len(steps)
           n == Len(own)
           li == IndexOf(steps, b.leave)
           ri == IndexOf(steps, b.rejoin)
           x == IF b.at = <<>> THEN 0 ELSE 1
           st == steps[li]
           c == r.steps
<1>1. /\ steps \in Seq(StepType) /\ m \in Nat /\ \A i \in 1..m : steps[i] \in StepType
      /\ \A i \in 0..m : PoseAfter(main, i) \in PoseType
      /\ \A i \in 1..m : PoseAfter(main, i) = EndOfStep(main.start, PoseAfter(main, i - 1), steps[i])
      /\ n \in Nat /\ c \in Seq(StepType)
      /\ \A i \in 1..Len(c) : PoseAfter(r, i) = EndOfStep(r.start, PoseAfter(r, i - 1), c[i])
      /\ PoseAfter(r, 0) = PoseAfter(main, 0)
  BY RouteHas, LenProperties
<1>2. /\ li \in 1..m /\ ri \in 1..m /\ li <= ri /\ x \in {0, 1}
      /\ (x = 0 <=> b.at = <<>>) /\ (x = 1 => li = ri /\ st.kind = "straight")
  <2>1. /\ b.leave \in Ids(steps) /\ b.rejoin \in Ids(steps) /\ li <= ri
        /\ (b.at # <<>> => li = ri /\ st.kind = "straight")
    BY DEF Fits
  <2> QED
    BY <1>1, <2>1, IndexIs
<1>3. /\ Len(c) = li + n + x + (m - ri)
      /\ \A i \in 1..(li - x) : c[i] = steps[i]
      /\ \A k \in 1..n : c[li + k] = own[k]
      /\ \A i \in 1..(m - ri) : c[li + n + x + i] = steps[ri + i]
      /\ x = 1 => c[li] = Straight(st.id, b.at, st.v) /\ c[li + n + 1] = Straight(b.split, st.to, st.v)
  BY DEF PutIn
<1>4. PoseAfter(main, li) = LeavesAt(b, main) \/ x = 1
  BY <1>2 DEF LeavesAt
<1>5. LeavesAt(b, main) = IF x = 0 THEN PoseAfter(main, li) ELSE [PoseAfter(main, li) EXCEPT !.at = b.at]
  BY <1>2 DEF LeavesAt
<1>6. GoesOnAt(b, main) = IF x = 0 THEN PoseAfter(main, ri) ELSE LeavesAt(b, main)
  BY <1>2 DEF GoesOnAt
<1> HIDE DEF steps, m, n, li, ri, x, c, st
<1>7. \A i \in 0..(li - x) : PoseAfter(r, i) = PoseAfter(main, i)
  <2> DEFINE k == li - x
             o == 0
  <2>1. o \in Nat /\ k \in Nat /\ o + k <= Len(r.steps) /\ o + k <= Len(main.steps)
    <3>1. o \in Nat /\ k \in Nat /\ o + k <= Len(c) /\ o + k <= m
      BY <1>1, <1>2, <1>3
    <3> HIDE DEF o, k
    <3> QED
      BY <3>1 DEF c, m, steps
  <2>2. AlikeSteps(r.steps, o, main.steps, o, k)
    <3>1. \A i \in 1..k : o + i = i /\ c[i] = steps[i]
      BY <1>2, <1>3
    <3> HIDE DEF o, k
    <3> QED
      BY <3>1 DEF AlikeSteps, Alike, c, steps
  <2>3. PoseAfter(r, o) = PoseAfter(main, o)
    BY <1>1
  <2>4. \A i \in 0..k : o + i = i
    BY <2>1
  <2> HIDE DEF k, o
  <2>5. \A i \in 0..k : PoseAfter(r, o + i) = PoseAfter(main, o + i)
    BY <2>1, <2>2, <2>3, AlikeRoutes, ZenonT(60)
  <2> QED
    BY <2>4, <2>5 DEF k
<1>8. x = 1 => /\ st \in StepType
               /\ PoseAfter(main, li) = [PoseAfter(main, li - 1) EXCEPT !.at = st.to]
               /\ PoseAfter(r, li) = [PoseAfter(main, li - 1) EXCEPT !.at = b.at]
               /\ PoseAfter(r, li + n + 1) = [PoseAfter(r, li + n) EXCEPT !.at = st.to]
  <2> SUFFICES ASSUME x = 1
               PROVE  /\ st \in StepType
                      /\ PoseAfter(main, li) = [PoseAfter(main, li - 1) EXCEPT !.at = st.to]
                      /\ PoseAfter(r, li) = [PoseAfter(main, li - 1) EXCEPT !.at = b.at]
                      /\ PoseAfter(r, li + n + 1) = [PoseAfter(r, li + n) EXCEPT !.at = st.to]
    OBVIOUS
  <2>1. /\ li \in 1..Len(c) /\ li + n + 1 \in 1..Len(c) /\ li - 1 \in 0..(li - x)
        /\ (li + n + 1) - 1 = li + n
    BY <1>1, <1>2, <1>3
  <2>2. c[li] = Straight(st.id, b.at, st.v) /\ c[li + n + 1] = Straight(b.split, st.to, st.v)
    BY <1>3
  <2>3. st.kind = "straight" /\ st = steps[li] /\ st \in StepType
    BY <1>1, <1>2 DEF st
  <2>4. /\ c[li].kind = "straight" /\ c[li].to = b.at
        /\ c[li + n + 1].kind = "straight" /\ c[li + n + 1].to = st.to
    <3>1. \A id, to, v : Straight(id, to, v).kind = "straight" /\ Straight(id, to, v).to = to
      BY DEF Straight, Step
    <3> QED
      BY <2>2, <3>1
  <2>5. PoseAfter(main, li) = EndOfStep(main.start, PoseAfter(main, li - 1), st)
    BY <1>1, <1>2, <2>3
  <2>6. /\ PoseAfter(r, li) = EndOfStep(r.start, PoseAfter(r, li - 1), c[li])
        /\ PoseAfter(r, li + n + 1) = EndOfStep(r.start, PoseAfter(r, li + n), c[li + n + 1])
    BY <1>1, <2>1
  <2>7. PoseAfter(r, li - 1) = PoseAfter(main, li - 1)
    BY <1>7, <2>1
  <2>8. \A g, p, s : s.kind = "straight" => EndOfStep(g, p, s) = [p EXCEPT !.at = s.to]
    BY DEF EndOfStep
  <2>9. PoseAfter(main, li) = [PoseAfter(main, li - 1) EXCEPT !.at = st.to]
    BY <2>3, <2>5, <2>8
  <2>10. PoseAfter(r, li) = [PoseAfter(main, li - 1) EXCEPT !.at = b.at]
    BY <2>4, <2>6, <2>7, <2>8
  <2>11. PoseAfter(r, li + n + 1) = [PoseAfter(r, li + n) EXCEPT !.at = st.to]
    BY <2>4, <2>6, <2>8
  <2> QED
    BY <2>3, <2>9, <2>10, <2>11
<1>9. PoseAfter(r, li) = LeavesAt(b, main)
  <2>1. CASE x = 0
    <3>1. li \in 0..(li - x)
      BY <1>1, <1>2, <2>1
    <3> QED
      BY <1>5, <1>7, <2>1, <3>1
  <2>2. CASE x = 1
    <3>1. li - 1 \in 0..m
      BY <1>1, <1>2
    <3> DEFINE p == PoseAfter(main, li - 1)
    <3>2. p \in PoseType
      BY <1>1, <3>1
    <3>3. LeavesAt(b, main) = [PoseAfter(main, li) EXCEPT !.at = b.at]
      BY <1>5, <2>2
    <3>4. PoseAfter(main, li) = [p EXCEPT !.at = st.to] /\ PoseAfter(r, li) = [p EXCEPT !.at = b.at]
      BY <1>8, <2>2
    <3> HIDE DEF p
    <3>5. [[p EXCEPT !.at = st.to] EXCEPT !.at = b.at] = [p EXCEPT !.at = b.at]
      BY <3>2 DEF PoseType
    <3> QED
      BY <3>3, <3>4, <3>5
  <2> QED
    BY <1>2, <2>1, <2>2
<1>10. PoseAfter(r, li + n) = GoesOnAt(b, main)
  <2> DEFINE q == GoesOnAt(b, main)
  <2>1. li \in Nat /\ li + Len(own) <= Len(r.steps)
    BY <1>1, <1>2, <1>3 DEF c, n
  <2>2. \A k \in 1..Len(own) : r.steps[li + k] = own[k]
    BY <1>3 DEF c, n
  <2>3. Leads(PoseAfter(r, li), own, q)
    BY <1>9
  <2> HIDE DEF q
  <2>4. PoseAfter(r, li + Len(own)) = q
    BY <2>1, <2>2, <2>3, LedThrough
  <2> QED
    BY <2>4 DEF q, n
<1>11. PoseAfter(r, li + n + x) = PoseAfter(main, ri)
  <2>1. CASE x = 0
    <3>1. li + n + x = li + n
      BY <1>1, <1>2, <2>1
    <3> QED
      BY <1>6, <1>10, <2>1, <3>1
  <2>2. CASE x = 1
    <3>1. li - 1 \in 0..m /\ li = ri
      BY <1>1, <1>2, <2>2
    <3> DEFINE p == PoseAfter(main, li - 1)
    <3>2. p \in PoseType
      BY <1>1, <3>1
    <3>3. PoseAfter(r, li + n) = PoseAfter(r, li)
      BY <1>6, <1>9, <1>10, <2>2
    <3>4. /\ PoseAfter(main, li) = [p EXCEPT !.at = st.to] /\ PoseAfter(r, li) = [p EXCEPT !.at = b.at]
          /\ PoseAfter(r, li + n + x) = [PoseAfter(r, li + n) EXCEPT !.at = st.to]
      BY <1>8, <2>2
    <3> HIDE DEF p
    <3>5. [[p EXCEPT !.at = b.at] EXCEPT !.at = st.to] = [p EXCEPT !.at = st.to]
      BY <3>2 DEF PoseType
    <3> QED
      BY <3>1, <3>3, <3>4, <3>5
  <2> QED
    BY <1>2, <2>1, <2>2
<1>12. \A i \in 0..(m - ri) : PoseAfter(r, li + n + x + i) = PoseAfter(main, ri + i)
  <2> DEFINE a == li + n + x
             k == m - ri
  <2>1. a \in Nat /\ ri \in Nat /\ k \in Nat /\ a + k <= Len(r.steps) /\ ri + k <= Len(main.steps)
    <3>1. a \in Nat /\ ri \in Nat /\ k \in Nat /\ a + k = Len(c) /\ ri + k = m
      BY <1>1, <1>2, <1>3
    <3>2. Len(c) \in Nat /\ Len(c) <= Len(c) /\ m <= m
      BY <1>1, LenProperties
    <3> HIDE DEF a, k
    <3> QED
      BY <3>1, <3>2 DEF c, m, steps
  <2>2. AlikeSteps(r.steps, a, main.steps, ri, k)
    <3>1. \A i \in 1..k : c[a + i] = steps[ri + i]
      BY <1>3
    <3> HIDE DEF a, k
    <3> QED
      BY <3>1 DEF AlikeSteps, Alike, c, steps
  <2>3. PoseAfter(r, a) = PoseAfter(main, ri)
    BY <1>11
  <2> HIDE DEF a, k
  <2>4. \A i \in 0..k : PoseAfter(r, a + i) = PoseAfter(main, ri + i)
    BY <2>1, <2>2, <2>3, AlikeRoutes
  <2> QED
    BY <2>4 DEF a, k
<1> QED
  BY <1>7, <1>9, <1>10, <1>12 DEF IsWhereMainIs, li, ri, x, n, m, steps

\* Such a route, its steps told apart by their ids, runs as drawn.
LEMMA ThenRunsAsDrawn ==
    ASSUME NEW r \in RouteType, NEW own \in Seq(StepType), Compiles(r), Named(r.branch) \in RouteType,
           Fits(r.branch, Named(r.branch)), PutIn(r.steps, Named(r.branch), r.branch, own),
           Len(own) = Len(r.branch.own),
           IsWhereMainIs(r, Named(r.branch), r.branch, Len(own))
    PROVE  RunsAsDrawn(r)
<1> DEFINE b == r.branch
           main == Named(b)
           steps == main.steps
           m == Len(steps)
           n == Len(own)
           li == IndexOf(steps, b.leave)
           ri == IndexOf(steps, b.rejoin)
           x == IF b.at = <<>> THEN 0 ELSE 1
           c == r.steps
           idOf(i) == IF i = li /\ b.at # <<>> THEN b.split ELSE steps[i].id
<1>1. /\ m \in Nat /\ n \in Nat /\ DOMAIN steps = 1..m /\ \A i \in 1..m : steps[i] \in StepType
      /\ steps \in Seq(StepType) /\ Len(c) \in Nat
      /\ \A i \in 1..Len(c) : IndexOf(c, c[i].id) = i
  BY RouteHas, LenProperties, UniqueIds
<1>2. /\ li \in 1..m /\ ri \in 1..m /\ li <= ri /\ x \in {0, 1}
      /\ (x = 0 <=> b.at = <<>>) /\ (x = 1 => li = ri)
  <2>1. b.leave \in Ids(steps) /\ b.rejoin \in Ids(steps) /\ li <= ri /\ (b.at # <<>> => li = ri)
    BY DEF Fits
  <2> QED
    BY <1>1, <2>1, IndexIs
<1>3. /\ Len(c) = li + n + x + (m - ri)
      /\ \A i \in 1..(li - x) : c[i] = steps[i]
      /\ \A i \in 1..(m - ri) : c[li + n + x + i] = steps[ri + i]
      /\ x = 1 => c[li + n + 1] = Straight(b.split, steps[li].to, steps[li].v)
  BY DEF PutIn
<1>4. /\ \A i \in 0..(li - x) : PoseAfter(r, i) = PoseAfter(main, i)
      /\ PoseAfter(r, li) = LeavesAt(b, main) /\ PoseAfter(r, li + n) = GoesOnAt(b, main)
      /\ \A i \in 0..(m - ri) : PoseAfter(r, li + n + x + i) = PoseAfter(main, ri + i)
  BY DEF IsWhereMainIs
<1>5. PoseAfter(r, li + Len(b.own)) = IF b.at = <<>> THEN PoseAfter(main, ri) ELSE PoseAfter(r, li)
  BY <1>4 DEF GoesOnAt
<1> HIDE DEF b, main, steps, m, n, li, ri, x, c
<1>6. ASSUME NEW i \in DOMAIN steps \ ((li + 1)..ri)
      PROVE  PoseAfter(r, IndexOf(c, idOf(i))) = PoseAfter(main, i)
  <2>1. i \in 1..m /\ (i <= li \/ i > ri)
    BY <1>1, <1>2, <1>6
  <2>2. CASE i <= li - x
    <3>1. i \in 1..(li - x) /\ i \in 0..(li - x) /\ i \in 1..Len(c)
      BY <1>1, <1>2, <1>3, <2>1, <2>2
    <3>2. ~(i = li /\ b.at # <<>>)
      BY <1>2, <2>1, <2>2
    <3>3. idOf(i) = c[i].id
      BY <1>3, <3>1, <3>2
    <3> HIDE DEF idOf
    <3> QED
      BY <1>1, <1>4, <3>1, <3>3
  <2>3. CASE i = li /\ x = 1
    <3>1. li + n + 1 \in 1..Len(c) /\ 0 \in 0..(m - ri) /\ li + n + x + 0 = li + n + 1 /\ ri + 0 = i
      BY <1>1, <1>2, <1>3, <2>3
    <3>2. idOf(i) = b.split
      BY <1>2, <2>3
    <3>3. c[li + n + 1].id = b.split
      <4>1. \A id, to, v : Straight(id, to, v).id = id
        BY DEF Straight, Step
      <4> QED
        BY <1>3, <2>3, <4>1
    <3> HIDE DEF idOf
    <3>4. IndexOf(c, idOf(i)) = li + n + 1
      BY <1>1, <3>1, <3>2, <3>3
    <3>5. PoseAfter(r, li + n + 1) = PoseAfter(main, i)
      BY <1>4, <3>1
    <3> QED
      BY <3>4, <3>5
  <2>4. CASE i > ri
    <3> DEFINE k == i - ri
               a == li + n + x + k
    <3>1. k \in 1..(m - ri) /\ k \in 0..(m - ri) /\ ri + k = i /\ a \in 1..Len(c) /\ i # li
      BY <1>1, <1>2, <1>3, <2>1, <2>4
    <3>2. c[a] = steps[i] /\ PoseAfter(r, a) = PoseAfter(main, i)
      BY <1>3, <1>4, <3>1
    <3>3. idOf(i) = c[a].id
      BY <3>1, <3>2
    <3> HIDE DEF idOf, a
    <3> QED
      BY <1>1, <3>1, <3>2, <3>3
  <2> QED
    BY <1>2, <2>1, <2>2, <2>3, <2>4
<1> QED
  BY <1>5, <1>6 DEF RunsAsDrawn, b, main, steps, li, ri, c

\* The own steps of a route that is a main route with steps put in are the steps put in.
LEMMA PutInOwn ==
    ASSUME NEW main \in RouteType, NEW r \in RouteType, NEW own \in Seq(StepType),
           Fits(r.branch, main), PutIn(r.steps, main, r.branch, own),
           \A k \in 1..Len(own) : own[k].id \in Range(r.branch.own),
           Range(r.branch.own) \cap Ids(main.steps) = {},
           r.branch.at = <<>> \/ r.branch.split \notin Range(r.branch.own)
    PROVE  OwnOf(r) = own
<1> DEFINE b == r.branch
           steps == main.steps
           m == Len(steps)
           n == Len(own)
           li == IndexOf(steps, b.leave)
           ri == IndexOf(steps, b.rejoin)
           x == IF b.at = <<>> THEN 0 ELSE 1
           c == r.steps
           I == Range(b.own)
<1>1. /\ m \in Nat /\ n \in Nat /\ DOMAIN steps = 1..m /\ steps \in Seq(StepType) /\ Len(c) \in Nat
  BY RouteHas, LenProperties
<1>2. /\ li \in 1..m /\ ri \in 1..m /\ li <= ri /\ x \in {0, 1}
      /\ (x = 0 <=> b.at = <<>>)
  <2>1. b.leave \in Ids(steps) /\ b.rejoin \in Ids(steps) /\ li <= ri
    BY DEF Fits
  <2> QED
    BY <1>1, <2>1, IndexIs
<1>3. /\ Len(c) = li + n + x + (m - ri)
      /\ \A i \in 1..(li - x) : c[i] = steps[i]
      /\ \A k \in 1..n : c[li + k] = own[k]
      /\ \A i \in 1..(m - ri) : c[li + n + x + i] = steps[ri + i]
      /\ x = 1 => /\ c[li] = Straight(steps[li].id, b.at, steps[li].v)
                  /\ c[li + n + 1] = Straight(b.split, steps[li].to, steps[li].v)
  BY DEF PutIn
<1>4. \A i \in 1..m : steps[i].id \notin I
  BY <1>1 DEF Ids
<1>5. x = 1 => b.split \notin I
  BY <1>2
<1>6. \A k \in 1..n : own[k].id \in I
  OBVIOUS
<1> HIDE DEF b, steps, m, n, li, ri, x, c, I
<1>7. ASSUME NEW i \in 1..Len(c), i <= li \/ i > li + n PROVE c[i].id \notin I
  <2>1. \A id, to, v : Straight(id, to, v).id = id
    BY DEF Straight, Step
  <2>2. CASE i <= li - x
    <3>1. i \in 1..(li - x) /\ i \in 1..m
      BY <1>1, <1>2, <2>2
    <3> QED
      BY <1>3, <1>4, <3>1
  <2>3. CASE i = li /\ x = 1
    <3>1. c[i].id = steps[li].id
      BY <1>3, <2>1, <2>3
    <3> QED
      BY <1>2, <1>4, <3>1
  <2>4. CASE i = li + n + 1 /\ x = 1
    <3>1. c[i].id = b.split
      BY <1>3, <2>1, <2>4
    <3> QED
      BY <1>5, <2>4, <3>1
  <2>5. CASE i > li + n + x
    <3> DEFINE k == i - (li + n + x)
    <3>1. k \in 1..(m - ri) /\ li + n + x + k = i /\ ri + k \in 1..m
      BY <1>1, <1>2, <1>3, <2>5
    <3> HIDE DEF k
    <3> QED
      BY <1>3, <1>4, <3>1
  <2> QED
    BY <1>1, <1>2, <1>7, <2>2, <2>3, <2>4, <2>5
<1>8. li \in Nat /\ li + Len(own) <= Len(r.steps)
  <2>1. li \in Nat /\ li + n <= Len(c)
    BY <1>1, <1>2, <1>3
  <2> QED
    BY <2>1 DEF n, c
<1>9. \A k \in 1..Len(own) : r.steps[li + k] = own[k] /\ own[k].id \in Range(r.branch.own)
  BY <1>3, <1>6 DEF n, c, I, b
<1>10. \A i \in 1..Len(r.steps) :
          i <= li \/ i > li + Len(own) => r.steps[i].id \notin Range(r.branch.own)
  BY <1>7 DEF n, c, I, b
<1> QED
  BY <1>8, <1>9, <1>10, OwnIs

\* A closed branch the server approves is the main route with its own steps put in.
LEMMA ApprovedIsPutIn ==
    ASSUME PlanTypes, Closed(draft), Approved(draft), draft.branch.of \in DOMAIN mains
    PROVE  LET b == draft.branch
               main == Named(b)
           IN  /\ draft \in RouteType /\ main \in RouteType /\ Compiles(draft) /\ draft.start = main.start
               /\ Range(b.own) \cap Ids(main.steps) = {} /\ Fits(b, main)
               /\ PutIn(draft.steps, main, b, OwnOf(draft)) /\ Len(OwnOf(draft)) = Len(b.own)
<1> DEFINE b == draft.branch
           main == Named(b)
           c == draft.steps
           own == [k \in DOMAIN b.own |-> c[IndexOf(c, b.own[k])]]
<1>1. Compiles(draft) /\ IsMainPlusBranch(draft, main)
  BY DEF Approved, BranchHolds, Closed
<1>2. draft \in RouteType /\ main \in RouteType
  <2>1. \A n \in DOMAIN mains : mains[n] \in SavedType
    BY LenProperties, ElementOfSeq DEF PlanTypes
  <2>2. mains[b.of].route \in RouteType
    BY <2>1 DEF SavedType
  <2> QED
    BY <2>2 DEF PlanTypes, Named
<1>3. /\ Range(b.own) \cap Ids(main.steps) = {} /\ Range(b.own) \subseteq Ids(c)
      /\ (b.at # <<>> => b.split \notin Ids(main.steps) \cup Range(b.own) \cup {NoId})
      /\ draft.start = main.start /\ c = Composed(main, b, own)
  BY <1>1 DEF IsMainPlusBranch
<1>4. Fits(b, main)
  BY <1>1 DEF IsMainPlusBranch, Fits
<1> HIDE DEF main
<1>5. /\ b \in BranchType /\ c \in Seq(StepType) /\ b.own \in Seq(StepIds) /\ Len(b.own) \in Nat
      /\ DOMAIN b.own = 1..Len(b.own) /\ \A i \in 1..Len(c) : c[i] \in StepType
  <2>1. b \in BranchType /\ c \in Seq(StepType) /\ \A i \in 1..Len(c) : c[i] \in StepType
    BY <1>2, RouteHas
  <2>2. b.own \in Seq(StepIds)
    BY <2>1 DEF BranchType
  <2> QED
    BY <2>1, <2>2, LenProperties
<1> HIDE DEF c, b
<1>6. \A k \in 1..Len(b.own) : own[k] \in StepType /\ own[k].id = b.own[k] /\ b.own[k] \in Range(b.own)
  <2> TAKE k \in 1..Len(b.own)
  <2>1. b.own[k] \in Range(b.own)
    BY <1>5 DEF Range
  <2>2. b.own[k] \in Ids(c)
    BY <1>3, <2>1
  <2> DEFINE id == b.own[k]
  <2>3. IndexOf(c, id) \in 1..Len(c) /\ c[IndexOf(c, id)].id = id
    <3>1. id \in Ids(c)
      BY <2>2
    <3> HIDE DEF id
    <3> QED
      BY <1>5, <3>1, IndexIs
  <2>4. own[k] = c[IndexOf(c, id)]
    BY <1>5
  <2> HIDE DEF own
  <2> QED
    BY <1>5, <2>1, <2>3, <2>4
<1>7. own \in Seq(StepType) /\ Len(own) = Len(b.own)
  <2>1. own \in [1..Len(b.own) -> StepType]
    <3>1. DOMAIN own = 1..Len(b.own)
      BY <1>5
    <3>2. own = [k \in 1..Len(b.own) |-> own[k]]
      BY <1>5
    <3> HIDE DEF own
    <3> QED
      BY <1>6, <3>2
  <2> HIDE DEF own
  <2>2. own \in Seq(StepType)
    BY <1>5, <2>1, IsASeq
  <2>3. DOMAIN own = 1..Len(own) /\ Len(own) \in Nat /\ DOMAIN own = 1..Len(b.own)
    BY <2>1, <2>2, LenProperties
  <2> QED
    BY <1>5, <2>2, <2>3
<1> HIDE DEF own
<1>8. PutIn(c, main, b, own)
  BY <1>2, <1>3, <1>4, <1>5, <1>7, ComposedIs
<1>9. OwnOf(draft) = own
  <2>1. \A k \in 1..Len(own) : own[k].id \in Range(b.own)
    BY <1>6, <1>7
  <2>2. Range(b.own) \cap Ids(main.steps) = {} /\ (b.at = <<>> \/ b.split \notin Range(b.own))
    BY <1>3
  <2> QED
    BY <1>2, <1>4, <1>7, <1>8, <2>1, <2>2, PutInOwn DEF b, c
<1> QED
  BY <1>1, <1>2, <1>3, <1>4, <1>7, <1>8, <1>9 DEF b, c, main

\* A branch that a split in front of it has spoiled (IsRefusedOn) is not one the server approves.
LEMMA RefusedIsNotApproved ==
    ASSUME PlanTypes, Closed(draft), Approved(draft), draft.branch.of \in DOMAIN mains
    PROVE  ~IsRefusedOn(draft, Named(draft.branch))
<1> SUFFICES ASSUME IsRefusedOn(draft, Named(draft.branch)) PROVE FALSE
  OBVIOUS
<1> DEFINE b == draft.branch
           main == Named(b)
           own == OwnOf(draft)
           steps == main.steps
           li == IndexOf(steps, b.leave)
           c == draft.steps
<1>1. /\ draft \in RouteType /\ main \in RouteType /\ Compiles(draft) /\ draft.start = main.start
      /\ Range(b.own) \cap Ids(steps) = {} /\ Fits(b, main)
      /\ PutIn(c, main, b, own)
  BY ApprovedIsPutIn
<1>2. b.leave \in Ids(steps) /\ b.at = <<>> /\ own # <<>> /\ NoWay(own[1], PoseAfter(main, li))
  BY <1>1 DEF IsRefusedOn
<1>3. /\ steps \in Seq(StepType) /\ Len(steps) \in Nat /\ c \in Seq(StepType) /\ Len(c) \in Nat
      /\ DOMAIN c = 1..Len(c)
      /\ \A i \in 0..Len(steps) : PoseAfter(main, i) \in PoseType
      /\ PoseAfter(draft, 0) = PoseAfter(main, 0)
  BY <1>1, RouteHas
<1>4. own \in Seq(StepType) /\ Len(own) \in Nat /\ Len(own) # 0
  <2>1. own \in Seq(StepType)
    BY <1>1, OwnAreSteps
  <2> HIDE DEF own
  <2> QED
    BY <1>2, <2>1, LenProperties, EmptySeq
<1>5. li \in 1..Len(steps)
  BY <1>2, <1>3, IndexIs
<1>6. IndexOf(steps, b.rejoin) \in 1..Len(steps)
  BY <1>1, <1>3, IndexIs DEF Fits
<1> HIDE DEF main, own, b, steps, c
<1>7. /\ Len(c) = li + Len(own) + 0 + (Len(steps) - IndexOf(steps, b.rejoin))
      /\ \A i \in 1..(li - 0) : c[i] = steps[i]
      /\ \A k \in 1..Len(own) : c[li + k] = own[k]
  BY <1>1, <1>2 DEF PutIn, steps
<1> HIDE DEF li
<1>8. li + 1 \in 1..Len(c) /\ c[li + 1] = own[1] /\ \A i \in 1..li : c[i] = steps[i]
  <2>1. li + 1 \in 1..Len(c) /\ 1 \in 1..Len(own) /\ li - 0 = li
    BY <1>3, <1>4, <1>5, <1>6, <1>7
  <2> QED
    BY <1>7, <2>1
<1> DEFINE p == PoseAfter(main, li)
<1>9. PoseAfter(draft, li) = p
  <2>1. draft \in RouteType /\ main \in RouteType /\ draft.start = main.start
    BY <1>1
  <2>2. /\ li \in Nat /\ li <= Len(draft.steps) /\ li <= Len(main.steps)
        /\ li \in 0..li /\ \A i \in 1..li : draft.steps[i] = main.steps[i]
    BY <1>3, <1>5, <1>8 DEF c, steps
  <2> QED
    BY <2>1, <2>2, BeginAlike
<1>10. p \in PoseType
  BY <1>3, <1>5
<1> HIDE DEF p
<1>11. StepCompiles(draft, li + 1)
  BY <1>1, <1>3, <1>8 DEF Compiles, c
<1>12. (li + 1) - 1 = li
  BY <1>5, <1>3
<1>13. c[li + 1].kind = "straight" /\ c[li + 1].to = p.at
  BY <1>2, <1>8 DEF NoWay, p
<1>14. Along(p, p.at) >= 1
  BY <1>9, <1>11, <1>12, <1>13 DEF StepCompiles, StraightCompiles, c
<1>15. Along(p, p.at) = 0
  <2>1. p.at[1] \in Int /\ p.at[2] \in Int /\ p.d[1] \in Int /\ p.d[2] \in Int
    BY <1>10 DEF PoseType, Points, Headings
  <2>2. (p.at[1] - p.at[1]) * p.d[1] = 0 /\ (p.at[2] - p.at[2]) * p.d[2] = 0
    BY <2>1
  <2> QED
    BY <2>2 DEF Along
<1> QED
  BY <1>14, <1>15

\* A closed branch the server approves runs as drawn.
LEMMA ApprovedRunsAsDrawn ==
    ASSUME PlanTypes, Closed(draft), Approved(draft), ClosedFits
    PROVE  draft.branch.of \in DOMAIN mains /\ RunsAsDrawn(draft)
<1> DEFINE b == draft.branch
           main == Named(b)
           own == OwnOf(draft)
<1>1. b.of \in DOMAIN mains /\ IsClosedOn(draft, main)
  BY RefusedIsNotApproved DEF ClosedFits
<1>2. /\ draft \in RouteType /\ main \in RouteType /\ Compiles(draft) /\ draft.start = main.start
      /\ Fits(b, main) /\ PutIn(draft.steps, main, b, own) /\ Len(own) = Len(b.own)
  BY <1>1, ApprovedIsPutIn
<1>3. b \in BranchType /\ own \in Seq(StepType)
  BY <1>2, RouteHas, OwnAreSteps
<1>4. Leads(LeavesAt(b, main), own, GoesOnAt(b, main))
  BY <1>1 DEF IsClosedOn
<1> HIDE DEF own, main
<1>5. IsWhereMainIs(draft, main, b, Len(own))
  BY <1>2, <1>3, <1>4, PutInIsDriven
<1>6. RunsAsDrawn(draft)
  BY <1>2, <1>3, <1>5, ThenRunsAsDrawn DEF main
<1> QED
  BY <1>1, <1>6

\* Tuples, joined.
LEMMA JoinedTuples ==
    /\ \A a1, a2, a3, a4, a5 : <<a1, a2, a3>> \o <<a4, a5>> = <<a1, a2, a3, a4, a5>>
    /\ \A a1, a2, a3, a4, a5, a6 : <<a1, a2, a3>> \o <<a4, a5, a6>> = <<a1, a2, a3, a4, a5, a6>>
<1>1. ASSUME NEW a1, NEW a2, NEW a3, NEW a4, NEW a5
      PROVE  <<a1, a2, a3>> \o <<a4, a5>> = <<a1, a2, a3, a4, a5>>
  <2> DEFINE S == {a1, a2, a3, a4, a5}
             x == <<a1, a2, a3>>
             y == <<a4, a5>>
             z == <<a1, a2, a3, a4, a5>>
  <2>1. x \in Seq(S) /\ y \in Seq(S) /\ z \in Seq(S) /\ Len(x) = 3 /\ Len(y) = 2 /\ Len(z) = 5
    OBVIOUS
  <2>2. x[1] = a1 /\ x[2] = a2 /\ x[3] = a3 /\ y[1] = a4 /\ y[2] = a5
    OBVIOUS
  <2>3. z[1] = a1 /\ z[2] = a2 /\ z[3] = a3 /\ z[4] = a4 /\ z[5] = a5
    OBVIOUS
  <2> HIDE DEF S, x, y, z
  <2>4. /\ x \o y \in Seq(S) /\ Len(x \o y) = Len(x) + Len(y)
        /\ \A i \in 1..(Len(x) + Len(y)) : (x \o y)[i] = IF i <= Len(x) THEN x[i] ELSE y[i - Len(x)]
    BY <2>1, ConcatProperties
  <2>5. Len(x) + Len(y) = 5 /\ Len(x) = 3
    BY <2>1
  <2>6. \A i \in 1..5 : (x \o y)[i] = z[i]
    <3>1. \A i \in 1..3 : (x \o y)[i] = x[i]
      BY <2>4, <2>5
    <3>2. \A i \in 4..5 : (x \o y)[i] = y[i - 3]
      BY <2>4, <2>5
    <3>3. \A i \in 1..3 : x[i] = z[i]
      <4>1. \A i \in 1..3 : i = 1 \/ i = 2 \/ i = 3
        OBVIOUS
      <4> QED
        BY <2>2, <2>3, <4>1
    <3>4. \A i \in 4..5 : y[i - 3] = z[i]
      <4>1. \A i \in 4..5 : (i = 4 /\ i - 3 = 1) \/ (i = 5 /\ i - 3 = 2)
        OBVIOUS
      <4> QED
        BY <2>2, <2>3, <4>1
    <3>5. \A i \in 1..5 : i \in 1..3 \/ i \in 4..5
      OBVIOUS
    <3> QED
      BY <3>1, <3>2, <3>3, <3>4, <3>5
  <2>7. x \o y = z
    BY <2>1, <2>4, <2>5, <2>6, SeqEqual
  <2> QED
    BY <2>7 DEF x, y, z
<1>2. ASSUME NEW a1, NEW a2, NEW a3, NEW a4, NEW a5, NEW a6
      PROVE  <<a1, a2, a3>> \o <<a4, a5, a6>> = <<a1, a2, a3, a4, a5, a6>>
  <2> DEFINE S == {a1, a2, a3, a4, a5, a6}
             x == <<a1, a2, a3>>
             y == <<a4, a5, a6>>
             z == <<a1, a2, a3, a4, a5, a6>>
  <2>1. x \in Seq(S) /\ y \in Seq(S) /\ z \in Seq(S) /\ Len(x) = 3 /\ Len(y) = 3 /\ Len(z) = 6
    OBVIOUS
  <2>2. x[1] = a1 /\ x[2] = a2 /\ x[3] = a3 /\ y[1] = a4 /\ y[2] = a5 /\ y[3] = a6
    OBVIOUS
  <2>3. z[1] = a1 /\ z[2] = a2 /\ z[3] = a3 /\ z[4] = a4 /\ z[5] = a5 /\ z[6] = a6
    OBVIOUS
  <2> HIDE DEF S, x, y, z
  <2>4. /\ x \o y \in Seq(S) /\ Len(x \o y) = Len(x) + Len(y)
        /\ \A i \in 1..(Len(x) + Len(y)) : (x \o y)[i] = IF i <= Len(x) THEN x[i] ELSE y[i - Len(x)]
    BY <2>1, ConcatProperties
  <2>5. Len(x) + Len(y) = 6 /\ Len(x) = 3
    BY <2>1
  <2>6. \A i \in 1..6 : (x \o y)[i] = z[i]
    <3>1. \A i \in 1..3 : (x \o y)[i] = x[i]
      BY <2>4, <2>5
    <3>2. \A i \in 4..6 : (x \o y)[i] = y[i - 3]
      BY <2>4, <2>5
    <3>3. \A i \in 1..3 : x[i] = z[i]
      <4>1. \A i \in 1..3 : i = 1 \/ i = 2 \/ i = 3
        OBVIOUS
      <4> QED
        BY <2>2, <2>3, <4>1
    <3>4. \A i \in 4..6 : y[i - 3] = z[i]
      <4>1. \A i \in 4..6 : (i = 4 /\ i - 3 = 1) \/ (i = 5 /\ i - 3 = 2) \/ (i = 6 /\ i - 3 = 3)
        OBVIOUS
      <4> QED
        BY <2>2, <2>3, <4>1
    <3>5. \A i \in 1..6 : i \in 1..3 \/ i \in 4..6
      OBVIOUS
    <3> QED
      BY <3>1, <3>2, <3>3, <3>4, <3>5
  <2>7. x \o y = z
    BY <2>1, <2>4, <2>5, <2>6, SeqEqual
  <2> QED
    BY <2>7 DEF x, y, z
<1> QED
  BY <1>1, <1>2

\* The branch the editor draws to a stop point leads back to where it leaves.
LEMMA OwnStepsLead ==
    ASSUME NEW j \in PoseType, NEW side \in Int, NEW left \in BOOLEAN, NEW back,
           back = "reverse" => side = 1
    PROVE  /\ OwnSteps(j, side, left, back) \in Seq(StepType)
           /\ Leads(j, OwnSteps(j, side, left, back), j)
           /\ \A k \in 1..Len(OwnSteps(j, side, left, back)) :
                 OwnSteps(j, side, left, back)[k].id \in OfBranch
<1> DEFINE s == IF left THEN 1 ELSE -1
           stop == Ahead(Turned(j, s), side).at
           b(k) == <<"b", k>>
           own == OwnSteps(j, side, left, back)
           p == Poses(j, own)
           first == <<Rotate(b(1), s), Straight(b(2), stop, RouteSpeed), Wait(b(3))>>
           backed == <<BackUp(b(4)), Rotate(b(5), -s)>>
           turned == <<Rotate(b(4), 2 * s), Straight(b(5), j.at, RouteSpeed), Rotate(b(6), s)>>
           t == Turned(j, s)
<1>1. own \in Seq(StepType)
  BY OwnStepsAreSteps
<1>2. own = first \o (IF back = "reverse" THEN backed ELSE turned)
  BY DEF OwnSteps
<1>3. /\ p[1] = j /\ \A i \in 1..Len(own) : p[i + 1] = EndOfStep(j, p[i], own[i])
  <2> HIDE DEF own
  <2> QED
    BY <1>1, PosesFollow
<1>4. s \in {-1, 1} /\ -s \in {-1, 1}
  <2>1. s = 1 \/ s = -1
    OBVIOUS
  <2> HIDE DEF s
  <2> QED
    BY <2>1
<1>5. t = [at |-> j.at, d |-> Rot(j.d, s)] /\ t \in PoseType /\ j = [at |-> j.at, d |-> j.d]
  <2> HIDE DEF s
  <2>1. t = [at |-> j.at, d |-> Rot(j.d, s)] /\ j = [at |-> j.at, d |-> j.d]
    BY DEF Turned, PoseType
  <2> QED
    BY <1>4, <2>1, TurnsArePoses
<1>6. Rot(Rot(j.d, s), -s) = j.d /\ Rot(Rot(Rot(j.d, s), 2 * s), s) = j.d
  <2>1. \A h \in Headings, v \in Int :
           /\ Rot(Rot(h, 1), -1) = h /\ Rot(Rot(h, -1), 1) = h
           /\ v # 1 /\ v # -1 => Rot(Rot(Rot(h, 1), v), 1) = h /\ Rot(Rot(Rot(h, -1), v), -1) = h
    BY DEF Rot, Headings
  <2>2. j.d \in Headings
    BY DEF PoseType
  <2>3. -s # s /\ 2 * s \in Int /\ 2 * s # 1 /\ 2 * s # -1
    <3> HIDE DEF s
    <3> QED
      BY <1>4
  <2>4. (s = 1 /\ -s = -1) \/ (s = -1 /\ -s = 1)
    <3> DEFINE u == -s
    <3>1. u \in {-1, 1} /\ u # s
      BY <1>4, <2>3
    <3> HIDE DEF s, u
    <3>2. (s = 1 /\ u = -1) \/ (s = -1 /\ u = 1)
      BY <1>4, <3>1
    <3> QED
      BY <3>2 DEF u
  <2> DEFINE u == -s
             v == 2 * s
  <2>5. (s = 1 /\ u = -1) \/ (s = -1 /\ u = 1)
    BY <2>4
  <2>6. v \in Int /\ v # 1 /\ v # -1
    BY <2>3
  <2> HIDE DEF s, u, v
  <2>7. Rot(Rot(j.d, s), u) = j.d /\ Rot(Rot(Rot(j.d, s), v), s) = j.d
    BY <2>1, <2>2, <2>5, <2>6
  <2> QED
    BY <2>7 DEF u, v
<1>7. \A g, q, id, c, v, u :
         /\ EndOfStep(g, q, Straight(id, c, v)) = [q EXCEPT !.at = c]
         /\ EndOfStep(g, q, Rotate(id, u)) = Turned(q, u)
         /\ EndOfStep(g, q, BackUp(id)) = Ahead(q, -1) /\ EndOfStep(g, q, Wait(id)) = q
  BY DEF EndOfStep, Straight, Rotate, BackUp, Wait, Step
<1>8. \A k \in Nat : b(k) \in OfBranch
  BY DEF OfBranch
<1> DEFINE d == [t EXCEPT !.at = stop]
<1>9. d = [at |-> stop, d |-> Rot(j.d, s)]
  <2> HIDE DEF s, stop, t
  <2> QED
    BY <1>5
<1>10. \A id, c, v, u :
          /\ Straight(id, c, v).kind # "home" /\ Rotate(id, u).kind # "home"
          /\ BackUp(id).kind # "home" /\ Wait(id).kind # "home"
          /\ Straight(id, c, v).id = id /\ Rotate(id, u).id = id
          /\ BackUp(id).id = id /\ Wait(id).id = id
  BY DEF Straight, Rotate, BackUp, Wait, Step
<1>11. CASE back = "reverse"
  <2>1. own = <<Rotate(b(1), s), Straight(b(2), stop, RouteSpeed), Wait(b(3)), BackUp(b(4)), Rotate(b(5), -s)>>
    <3>1. own = first \o backed
      BY <1>2, <1>11
    <3> HIDE DEF own, s, stop, b
    <3> QED
      BY <3>1, JoinedTuples
  <2> HIDE DEF s, stop, b, own, p, first, backed, turned
  <2>2. /\ Len(own) = 5 /\ DOMAIN own = 1..5
        /\ own[1] = Rotate(b(1), s) /\ own[2] = Straight(b(2), stop, RouteSpeed)
        /\ own[3] = Wait(b(3)) /\ own[4] = BackUp(b(4)) /\ own[5] = Rotate(b(5), -s)
    BY <2>1
  <2>3. 1 \in 1..5 /\ 2 \in 1..5 /\ 3 \in 1..5 /\ 4 \in 1..5 /\ 5 \in 1..5
    OBVIOUS
  <2>4. /\ p[2] = EndOfStep(j, p[1], own[1]) /\ p[3] = EndOfStep(j, p[2], own[2])
        /\ p[4] = EndOfStep(j, p[3], own[3]) /\ p[5] = EndOfStep(j, p[4], own[4])
        /\ p[6] = EndOfStep(j, p[5], own[5])
    <3>1. 1 + 1 = 2 /\ 2 + 1 = 3 /\ 3 + 1 = 4 /\ 4 + 1 = 5 /\ 5 + 1 = 6
      OBVIOUS
    <3> QED
      BY <1>3, <2>2, <2>3, <3>1
  <2>5. p[2] = t /\ p[3] = d /\ p[4] = d /\ p[5] = Ahead(d, -1) /\ p[6] = Turned(Ahead(d, -1), -s)
    BY <1>3, <1>7, <2>2, <2>4
  <2>6. Ahead(d, -1) = t
    <3>1. stop = <<j.at[1] + t.d[1], j.at[2] + t.d[2]>>
      <4>1. Ahead(t, 1) = [at |-> <<t.at[1] + 1 * t.d[1], t.at[2] + 1 * t.d[2]>>, d |-> t.d]
        BY <1>5, AheadIsPose
      <4>2. 1 * t.d[1] = t.d[1] /\ 1 * t.d[2] = t.d[2] /\ t.at = j.at
        BY <1>5 DEF PoseType, Headings
      <4>3. stop = Ahead(t, 1).at
        BY <1>11 DEF stop
      <4> HIDE DEF t
      <4> QED
        BY <4>1, <4>2, <4>3
    <3> DEFINE h == t.d
    <3>2. /\ j.at[1] \in Int /\ j.at[2] \in Int /\ j.at = <<j.at[1], j.at[2]>>
          /\ h[1] \in Int /\ h[2] \in Int /\ h \in Headings
      BY <1>5 DEF PoseType, Points, Headings
    <3>3. d \in PoseType /\ d.at = stop /\ d.d = h
      <4>1. stop \in Points
        <5> HIDE DEF t
        <5> QED
          BY <3>1, <3>2 DEF Points
      <4> HIDE DEF t
      <4> QED
        BY <1>5, <4>1 DEF PoseType
    <3> HIDE DEF d, t, h
    <3>4. Ahead(d, -1) = [at |-> <<stop[1] + (-1) * h[1], stop[2] + (-1) * h[2]>>, d |-> h]
      <4>1. -1 \in Int /\ d \in PoseType
        BY ONLY <3>3
      <4>2. Ahead(d, -1) = [at |-> <<d.at[1] + (-1) * d.d[1], d.at[2] + (-1) * d.d[2]>>, d |-> d.d]
        BY ONLY <4>1, AheadIsPose
      <4> QED
        BY ONLY <3>3, <4>2
    <3>5. stop[1] + (-1) * h[1] = j.at[1] /\ stop[2] + (-1) * h[2] = j.at[2]
      <4> DEFINE x == j.at[1]
                 y == j.at[2]
                 u == h[1]
                 w == h[2]
      <4>1. x \in Int /\ y \in Int /\ u \in Int /\ w \in Int
        BY ONLY <3>2
      <4>2. stop[1] = x + u /\ stop[2] = y + w
        BY ONLY <3>1 DEF h
      <4> HIDE DEF x, y, u, w
      <4>3. stop[1] + (-1) * u = x /\ stop[2] + (-1) * w = y
        BY ONLY <4>1, <4>2
      <4> QED
        BY ONLY <4>3 DEF x, y, u, w
    <3>6. Ahead(d, -1) = [at |-> j.at, d |-> h] /\ h = Rot(j.d, s)
      BY <1>5, <3>2, <3>4, <3>5 DEF h
    <3> QED
      BY <1>5, <3>6
  <2>7. Turned(t, -s) = j
    BY <1>5, <1>6 DEF Turned
  <2>8. p[Len(own) + 1] = j
    BY <2>2, <2>5, <2>6, <2>7
  <2>9. \A k \in 1..5 : own[k].kind # "home" /\ own[k].id \in OfBranch
    <3>1. \A k \in 1..5 : k = 1 \/ k = 2 \/ k = 3 \/ k = 4 \/ k = 5
      OBVIOUS
    <3>2. /\ b(1) \in OfBranch /\ b(2) \in OfBranch /\ b(3) \in OfBranch
          /\ b(4) \in OfBranch /\ b(5) \in OfBranch
      BY <1>8
    <3>3. /\ own[1].kind # "home" /\ own[1].id \in OfBranch
          /\ own[2].kind # "home" /\ own[2].id \in OfBranch
          /\ own[3].kind # "home" /\ own[3].id \in OfBranch
          /\ own[4].kind # "home" /\ own[4].id \in OfBranch
          /\ own[5].kind # "home" /\ own[5].id \in OfBranch
      BY <1>10, <2>2, <3>2
    <3> HIDE DEF own
    <3> QED
      BY <3>1, <3>3
  <2> QED
    BY <1>1, <2>2, <2>8, <2>9 DEF Leads, p, own
<1>12. CASE back # "reverse"
  <2>1. own = <<Rotate(b(1), s), Straight(b(2), stop, RouteSpeed), Wait(b(3)), Rotate(b(4), 2 * s),
                Straight(b(5), j.at, RouteSpeed), Rotate(b(6), s)>>
    <3>1. own = first \o turned
      BY <1>2, <1>12
    <3> HIDE DEF own, s, stop, b
    <3> QED
      BY <3>1, JoinedTuples
  <2> HIDE DEF s, stop, b, own, p, first, backed, turned
  <2>2. /\ Len(own) = 6 /\ DOMAIN own = 1..6
        /\ own[1] = Rotate(b(1), s) /\ own[2] = Straight(b(2), stop, RouteSpeed)
        /\ own[3] = Wait(b(3)) /\ own[4] = Rotate(b(4), 2 * s)
        /\ own[5] = Straight(b(5), j.at, RouteSpeed) /\ own[6] = Rotate(b(6), s)
    BY <2>1
  <2>3. 1 \in 1..6 /\ 2 \in 1..6 /\ 3 \in 1..6 /\ 4 \in 1..6 /\ 5 \in 1..6 /\ 6 \in 1..6
    OBVIOUS
  <2>4. /\ p[2] = EndOfStep(j, p[1], own[1]) /\ p[3] = EndOfStep(j, p[2], own[2])
        /\ p[4] = EndOfStep(j, p[3], own[3]) /\ p[5] = EndOfStep(j, p[4], own[4])
        /\ p[6] = EndOfStep(j, p[5], own[5]) /\ p[7] = EndOfStep(j, p[6], own[6])
    <3>1. 1 + 1 = 2 /\ 2 + 1 = 3 /\ 3 + 1 = 4 /\ 4 + 1 = 5 /\ 5 + 1 = 6 /\ 6 + 1 = 7
      OBVIOUS
    <3> QED
      BY <1>3, <2>2, <2>3, <3>1
  <2> DEFINE e == Turned(d, 2 * s)
             f == [e EXCEPT !.at = j.at]
  <2>5. p[2] = t /\ p[3] = d /\ p[4] = d /\ p[5] = e /\ p[6] = f /\ p[7] = Turned(f, s)
    BY <1>3, <1>7, <2>2, <2>4
  <2>6. Turned(f, s) = j
    <3>1. e = [at |-> stop, d |-> Rot(Rot(j.d, s), 2 * s)]
      <4> HIDE DEF d
      <4> QED
        BY <1>9 DEF Turned
    <3> HIDE DEF e
    <3>2. f = [at |-> j.at, d |-> Rot(Rot(j.d, s), 2 * s)]
      BY <3>1
    <3> HIDE DEF f
    <3>3. Turned(f, s) = [at |-> j.at, d |-> Rot(Rot(Rot(j.d, s), 2 * s), s)]
      BY <3>2 DEF Turned
    <3> QED
      BY <1>5, <1>6, <3>3
  <2>7. p[Len(own) + 1] = j
    BY <2>2, <2>5, <2>6
  <2>8. \A k \in 1..6 : own[k].kind # "home" /\ own[k].id \in OfBranch
    <3>1. \A k \in 1..6 : k = 1 \/ k = 2 \/ k = 3 \/ k = 4 \/ k = 5 \/ k = 6
      OBVIOUS
    <3>2. /\ b(1) \in OfBranch /\ b(2) \in OfBranch /\ b(3) \in OfBranch
          /\ b(4) \in OfBranch /\ b(5) \in OfBranch /\ b(6) \in OfBranch
      BY <1>8
    <3>3. /\ own[1].kind # "home" /\ own[1].id \in OfBranch
          /\ own[2].kind # "home" /\ own[2].id \in OfBranch
          /\ own[3].kind # "home" /\ own[3].id \in OfBranch
          /\ own[4].kind # "home" /\ own[4].id \in OfBranch
          /\ own[5].kind # "home" /\ own[5].id \in OfBranch
          /\ own[6].kind # "home" /\ own[6].id \in OfBranch
      BY <1>10, <2>2, <3>2
    <3> HIDE DEF own
    <3> QED
      BY <3>1, <3>3
  <2> QED
    BY <1>1, <2>2, <2>7, <2>8 DEF Leads, p, own
<1> QED
  BY <1>11, <1>12

-----------------------------------------------------------------------------
(* The steps of the editor keep it.                                        *)

\* What is saved is a route of its type.
LEMMA MainHas ==
    ASSUME PlanTypes, NEW n \in DOMAIN mains
    PROVE  n \in 1..Len(mains) /\ mains[n] \in SavedType /\ mains[n].route \in RouteType
<1>1. n \in 1..Len(mains) /\ mains[n] \in SavedType
  BY LenProperties, ElementOfSeq DEF PlanTypes
<1> QED
  BY <1>1 DEF SavedType

\* A route runs as drawn or does not, whatever else is saved.
LEMMA RunsOn ==
    ASSUME NEW r, r.branch.of \in DOMAIN mains,
           \A n \in DOMAIN mains : mains'[n].route = mains[n].route
    PROVE  RunsAsDrawn(r)' <=> RunsAsDrawn(r)
<1>1. Named(r.branch)' = Named(r.branch)
  BY DEF Named
<1> QED
  BY <1>1 DEF RunsAsDrawn

\* The own steps follow from the steps and the branch's ids alone.
LEMMA OwnOfSame ==
    ASSUME NEW r, NEW q, q.steps = r.steps, q.branch = r.branch
    PROVE  OwnOf(q) = OwnOf(r)
  BY DEF OwnOf

\* What is closed on a main route stays so as long as its own steps do.
LEMMA ClosedStays ==
    ASSUME NEW r, NEW q, NEW main, q.branch = r.branch, OwnOf(q) = OwnOf(r),
           IsClosedOn(r, main) \/ IsRefusedOn(r, main)
    PROVE  IsClosedOn(q, main) \/ IsRefusedOn(q, main)
<1>1. IsClosedOn(r, main) => IsClosedOn(q, main)
  BY DEF IsClosedOn
<1>2. IsRefusedOn(r, main) => IsRefusedOn(q, main)
  BY DEF IsRefusedOn
<1> QED
  BY <1>1, <1>2

\* An edit of the draft that saves nothing.
LEMMA EditingFits ==
    ASSUME PlanIInv, BranchIInv, UNCHANGED <<session, mains, poss>>,
           ~IsBranch(draft') => Ids(draft'.steps) \subseteq OfMain,
           IsBranch(draft') => session = "branching",
           PickedIsSaved', (Seen' => Seen) \/ poss = <<>>, Seen' => OpenFits' /\ ClosedFits'
    PROVE  BranchIInv'
<1>1. MainsAreNumbered' /\ OnlyBranching'
  BY DEF BranchIInv, MainsAreNumbered, OnlyBranching
<1>2. ASSUME Seen', NEW e \in Range(poss)
      PROVE  e.route.branch.of \in DOMAIN mains /\ RunsAsDrawn(e.route)'
  <2>1. Seen
    <3>1. poss = <<>> => Range(poss) = {}
      BY DEF Range
    <3> QED
      BY <1>2, <3>1
  <2>2. e.route.branch.of \in DOMAIN mains /\ RunsAsDrawn(e.route)
    BY <1>2, <2>1 DEF BranchIInv, SavedFits
  <2> DEFINE r == e.route
  <2>3. RunsAsDrawn(r)' <=> RunsAsDrawn(r)
    <3>1. r.branch.of \in DOMAIN mains /\ \A n \in DOMAIN mains : mains'[n].route = mains[n].route
      BY <2>2
    <3> HIDE DEF r
    <3> QED
      BY <3>1, RunsOn
  <2> QED
    BY <2>2, <2>3
<1>3. Seen' => SavedFits'
  BY <1>2 DEF SavedFits
<1> QED
  BY <1>1, <1>3 DEF BranchIInv

\* What is picked stays saved while it is.
LEMMA PickStays ==
    ASSUME PickedIsSaved, picked' = picked, DOMAIN mains \subseteq DOMAIN mains',
           \A n \in DOMAIN mains : mains'[n].route = mains[n].route
    PROVE  PickedIsSaved'
  BY DEF PickedIsSaved

\* Drawing a step keeps it.
LEMMA DrawFits == ASSUME PlanIInv, BranchIInv, Draw PROVE BranchIInv'
<1>1. PICK s \in Inputs : draft' = WithSteps(draft, Append(draft.steps, s))
  BY DEF Draw
<1>2. draft \in RouteType /\ s \in StepType
  BY InputsAreSteps DEF PlanIInv, PlanTypes
<1>3. /\ draft.start \in PoseType /\ draft.steps \in Seq(StepType)
      /\ draft.repeat \in {1, 3} /\ draft.branch \in BranchType
      /\ DOMAIN draft.steps = 1..Len(draft.steps) /\ Len(draft.steps) \in Nat
  BY <1>2, RouteHas
<1> DEFINE t == Append(draft.steps, s)
<1>4. /\ t \in Seq(StepType) /\ Len(t) = Len(draft.steps) + 1
      /\ \A i \in 1..Len(draft.steps) : t[i] = draft.steps[i]
      /\ t[Len(draft.steps) + 1] = s /\ DOMAIN t = 1..Len(t)
  BY <1>2, <1>3, AppendProperties, LenProperties
<1> HIDE DEF t
<1>5. draft' \in RouteType /\ draft'.steps = t /\ draft'.branch = draft.branch /\ draft'.start = draft.start
  <2>1. draft' = Route(draft.start, t, draft.repeat, draft.branch)
    BY <1>1 DEF WithSteps, t
  <2>2. draft'.start = draft.start
    BY <2>1 DEF Route
  <2> QED
    BY <1>3, <1>4, <2>1, <2>2, RouteIs
<1>6. UNCHANGED <<session, mains, poss, picked, astray>> /\ (IsBranch(draft) => IsOpen(draft))
  BY DEF Draw
<1>7. s.id = NextId /\ (IsBranch(draft) => s.kind # "home")
  <2>1. \A id, c, v, u :
           /\ Straight(id, c, v).id = id /\ Rotate(id, u).id = id /\ Arc(id, u).id = id
           /\ BackUp(id).id = id /\ Wait(id).id = id /\ Home(id).id = id
           /\ Straight(id, c, v).kind = "straight" /\ Rotate(id, u).kind = "rotate"
           /\ BackUp(id).kind = "reverse" /\ Wait(id).kind = "wait"
    BY DEF Straight, Rotate, Arc, BackUp, Wait, Home, Step
  <2>2. s.id = NextId
    BY <2>1 DEF Inputs, StraightOf
  <2>3. IsBranch(draft) => session = "branching"
    BY DEF BranchIInv, OnlyBranching
  <2>4. IsBranch(draft) => s.kind # "home"
    BY <2>1, <2>3 DEF Inputs, StraightOf
  <2> QED
    BY <2>2, <2>4
<1>8. /\ IsBranch(draft') = IsBranch(draft) /\ IsOpen(draft') = IsOpen(draft)
      /\ Closed(draft') = Closed(draft)
  BY <1>5 DEF IsBranch, IsOpen, Closed
<1>9. ~IsBranch(draft') => Ids(draft'.steps) \subseteq OfMain
  <2> SUFFICES ASSUME ~IsBranch(draft') PROVE Ids(draft'.steps) \subseteq OfMain
    OBVIOUS
  <2>1. ~IsBranch(draft)
    BY <1>8
  <2>2. s.id \in OfMain
    BY <1>2, <1>7, <2>1, NextIdIsFree DEF OfMain
  <2>3. \A i \in 1..Len(draft.steps) : draft.steps[i].id \in OfMain
    BY <1>3, <2>1 DEF BranchIInv, MainsAreNumbered, Ids
  <2>4. \A i \in 1..Len(t) : i = Len(draft.steps) + 1 \/ i \in 1..Len(draft.steps)
    BY <1>3, <1>4
  <2>5. \A i \in 1..Len(t) : t[i].id \in OfMain
    BY <1>4, <2>2, <2>3, <2>4
  <2> QED
    BY <1>4, <1>5, <2>5 DEF Ids
<1>10. Seen' => Seen
  BY <1>6 DEF Seen
<1>11. Seen' => ClosedFits'
  <2>1. ~Closed(draft')
    BY <1>6, <1>8 DEF Closed
  <2> QED
    BY <2>1 DEF ClosedFits
<1> DEFINE main == picked.route
           li == IndexOf(main.steps, draft.branch.leave)
<1>12. main \in RouteType /\ main.steps \in Seq(StepType) /\ Len(main.steps) \in Nat
  <2>1. main \in RouteType
    BY DEF PlanIInv, PlanTypes
  <2> QED
    BY <2>1, RouteHas
<1>13. draft.branch.leave \in Ids(main.steps) => li \in 1..Len(main.steps)
  BY <1>12, IndexIs
<1>14. IsBranch(draft) => s.id \in OfBranch /\ s.kind # "home"
  BY <1>2, <1>7, NextIdIsFree DEF OfBranch
<1> HIDE DEF li, main
<1>15. ASSUME IsOpenOn(draft, main), IsBranch(draft) PROVE IsOpenOn(draft', main)
  <2>1. /\ li \in Nat \ {0} /\ li <= Len(draft.steps)
        /\ \A i \in 1..li : draft.steps[i] = main.steps[i]
        /\ \A i \in (li + 1)..Len(draft.steps) : draft.steps[i].id \in OfBranch /\ draft.steps[i].kind # "home"
    BY <1>12, <1>13, <1>15 DEF IsOpenOn, li
  <2>2. \A i \in 1..li : t[i] = main.steps[i]
    <3>1. \A i \in 1..li : i \in 1..Len(draft.steps)
      BY <1>3, <2>1
    <3> QED
      BY <1>4, <2>1, <3>1
  <2>3. \A i \in (li + 1)..Len(t) : t[i].id \in OfBranch /\ t[i].kind # "home"
    <3>1. \A i \in (li + 1)..Len(t) :
             i = Len(draft.steps) + 1 \/ (i \in 1..Len(draft.steps) /\ i \in (li + 1)..Len(draft.steps))
      BY <1>3, <1>4, <2>1
    <3> QED
      BY <1>4, <1>14, <1>15, <2>1, <3>1
  <2>4. li <= Len(t)
    BY <1>3, <1>4, <2>1
  <2> QED
    BY <1>5, <1>15, <2>2, <2>3, <2>4 DEF IsOpenOn, li
<1>16. ASSUME IsSplitBefore(draft, main) PROVE IsSplitBefore(draft', main)
  <2>1. draft.branch.leave \in Ids(main.steps) /\ li \in Nat
    BY <1>12, <1>13, <1>16 DEF IsSplitBefore
  <2>2. PICK k \in (li + 1)..Len(draft.steps) : draft.steps[k].id = draft.branch.leave
    BY <1>16 DEF IsSplitBefore, li
  <2>3. k \in (li + 1)..Len(t) /\ k \in 1..Len(draft.steps)
    BY <1>3, <1>4, <2>1
  <2>4. t[k].id = draft.branch.leave
    BY <1>4, <2>2, <2>3
  <2> QED
    BY <1>5, <2>1, <2>3, <2>4 DEF IsSplitBefore, li
<1>17. ASSUME IsSplitThere(draft, main), IsBranch(draft) PROVE IsSplitThere(draft', main)
  <2>1. /\ li \in Nat \ {0} /\ li < Len(draft.steps)
        /\ \A i \in 1..li : draft.steps[i].id = main.steps[i].id
        /\ \A i \in (li + 1)..Len(draft.steps) : draft.steps[i].id \in OfBranch
        /\ NoWay(draft.steps[li + 1], PoseAfter(main, li))
        /\ Along(PoseAfter(draft, li - 1), draft.steps[li].to) = 1
        /\ Along(PoseAfter(draft, li), draft.steps[li + 1].to) = 1
    BY <1>12, <1>13, <1>17 DEF IsSplitThere, li
  <2>2. /\ li \in 1..Len(draft.steps) /\ li + 1 \in 1..Len(draft.steps)
        /\ li \in 0..Len(draft.steps) /\ li - 1 \in 0..Len(draft.steps) /\ li < Len(t)
    BY <1>3, <1>4, <2>1
  <2>3. \A i \in 0..Len(draft.steps) : PoseAfter(draft', i) = PoseAfter(draft, i)
    <3>1. /\ draft' \in RouteType /\ draft.start = draft'.start
          /\ Len(draft.steps) \in Nat /\ Len(draft.steps) <= Len(draft'.steps)
          /\ \A i \in 1..Len(draft.steps) : draft.steps[i] = draft'.steps[i]
      BY <1>3, <1>4, <1>5
    <3> DEFINE r == draft
               q == draft'
    <3>2. r \in RouteType /\ q \in RouteType /\ r.start = q.start
      BY <1>2, <3>1
    <3>3. /\ Len(r.steps) \in Nat /\ Len(r.steps) <= Len(q.steps) /\ Len(r.steps) <= Len(r.steps)
          /\ \A i \in 1..Len(r.steps) : r.steps[i] = q.steps[i]
      BY <3>1
    <3> HIDE DEF r, q
    <3>4. \A i \in 0..Len(r.steps) : PoseAfter(r, i) = PoseAfter(q, i)
      BY <3>2, <3>3, BeginAlike
    <3> QED
      BY <3>4 DEF r, q
  <2>4. \A i \in 1..li : t[i].id = main.steps[i].id
    <3>1. \A i \in 1..li : i \in 1..Len(draft.steps)
      BY <1>3, <2>1
    <3> QED
      BY <1>4, <2>1, <3>1
  <2>5. \A i \in (li + 1)..Len(t) : t[i].id \in OfBranch
    <3>1. \A i \in (li + 1)..Len(t) :
             i = Len(draft.steps) + 1 \/ (i \in 1..Len(draft.steps) /\ i \in (li + 1)..Len(draft.steps))
      <4>1. li \in Nat /\ Len(draft.steps) \in Nat /\ Len(t) = Len(draft.steps) + 1
        BY <1>3, <1>4, <2>1
      <4> QED
        BY <4>1
    <3>2. s.id \in OfBranch /\ \A i \in (li + 1)..Len(draft.steps) : draft.steps[i].id \in OfBranch
      BY <1>14, <1>17, <2>1
    <3> QED
      BY <1>4, <3>1, <3>2
  <2>6. t[li] = draft.steps[li] /\ t[li + 1] = draft.steps[li + 1]
    BY <1>4, <2>2
  <2>7. PoseAfter(draft', li) = PoseAfter(draft, li) /\ PoseAfter(draft', li - 1) = PoseAfter(draft, li - 1)
    BY <2>2, <2>3
  <2> QED
    BY <1>5, <1>17, <2>1, <2>2, <2>4, <2>5, <2>6, <2>7 DEF IsSplitThere, li
<1>18. Seen' => OpenFits'
  <2> SUFFICES ASSUME Seen', IsOpen(draft')
               PROVE  /\ picked' # Nobody /\ picked'.of = draft'.branch.of
                      /\ \/ IsOpenOn(draft', picked'.route)
                         \/ IsSplitBefore(draft', picked'.route) \/ IsSplitThere(draft', picked'.route)
    BY DEF OpenFits
  <2>1. IsOpen(draft) /\ IsBranch(draft)
    BY <1>2, <1>8, BranchesNameMains
  <2>2. /\ picked # Nobody /\ picked.of = draft.branch.of
        /\ IsOpenOn(draft, main) \/ IsSplitBefore(draft, main) \/ IsSplitThere(draft, main)
    BY <1>10, <2>1 DEF BranchIInv, OpenFits, main
  <2>3. IsOpenOn(draft', main) \/ IsSplitBefore(draft', main) \/ IsSplitThere(draft', main)
    BY <1>15, <1>16, <1>17, <2>1, <2>2
  <2>4. picked'.route = main
    BY <1>6 DEF main
  <2> QED
    BY <1>5, <1>6, <2>2, <2>3, <2>4
<1>19. IsBranch(draft') => session = "branching"
  BY <1>8 DEF BranchIInv, OnlyBranching
<1>20. PickedIsSaved'
  BY <1>6, PickStays DEF BranchIInv
<1> QED
  BY <1>6, <1>9, <1>10, <1>11, <1>18, <1>19, <1>20, EditingFits

\* What is saved as a main route compiles, and has a main route's ids.
LEMMA SavedMainHas ==
    ASSUME PlanIInv, MainsAreNumbered, NEW n \in DOMAIN mains, ~IsBranch(mains[n].route)
    PROVE  /\ mains[n].route \in RouteType /\ Compiles(mains[n].route)
           /\ Ids(mains[n].route.steps) \subseteq OfMain
<1>1. mains[n].route \in RouteType
  BY MainHas DEF PlanIInv
<1>2. mains[n] \in Saved
  BY DEF Saved, Range
<1> QED
  BY <1>1, <1>2 DEF PlanIInv, SavedHolds, Holds, MainsAreNumbered

\* Taking the last step back keeps it.
LEMMA UndoFits == ASSUME PlanIInv, BranchIInv, Undo PROVE BranchIInv'
<1>1. draft' = WithSteps(draft, Front(draft.steps)) /\ ~IsBranch(draft) /\ draft.steps # <<>>
  BY DEF Undo
<1>2. draft \in RouteType
  BY DEF PlanIInv, PlanTypes
<1>3. /\ draft.start \in PoseType /\ draft.steps \in Seq(StepType)
      /\ draft.repeat \in {1, 3} /\ draft.branch \in BranchType /\ Len(draft.steps) \in Nat
      /\ DOMAIN draft.steps = 1..Len(draft.steps)
  BY <1>2, RouteHas
<1> DEFINE t == Front(draft.steps)
           n == Len(draft.steps)
<1>4. /\ t \in Seq(StepType) /\ DOMAIN t = 1..Len(t) /\ Len(t) = n - 1
      /\ \A i \in 1..(n - 1) : t[i] = draft.steps[i]
  <2>1. n # 0
    BY <1>1, <1>3, EmptySeq
  <2>2. 0 \in Nat /\ n - 1 \in Nat /\ 0 <= n - 1 /\ n - 1 <= n
    BY <1>3, <2>1
  <2> DEFINE k == n - 1
             o == 0
  <2>3. t = SubSeq(draft.steps, o + 1, k)
    <3>1. o + 1 = 1
      OBVIOUS
    <3> QED
      BY <3>1 DEF Front
  <2>4. k - o = k /\ \A i \in 1..k : o + i = i
    BY <2>2
  <2>5. o \in Nat /\ k \in Nat /\ o <= k /\ k <= Len(draft.steps)
    BY <2>2
  <2> HIDE DEF t, n, k, o
  <2>6. /\ t \in Seq(StepType) /\ Len(t) = k - o /\ \A i \in 1..(k - o) : t[i] = draft.steps[o + i]
    BY <1>3, <2>3, <2>5, PartIs
  <2>7. t \in Seq(StepType) /\ Len(t) = k /\ \A i \in 1..k : t[i] = draft.steps[i]
    BY <2>4, <2>6
  <2> QED
    BY <2>7, LenProperties DEF k
<1> HIDE DEF t, n
<1>5. draft'.steps = t /\ draft'.branch = draft.branch
  BY <1>1, <1>3, <1>4, RouteIs DEF WithSteps, t
<1>6. ~IsBranch(draft')
  BY <1>1, <1>5 DEF IsBranch
<1>7. Ids(draft'.steps) \subseteq OfMain
  <2>1. \A i \in 1..n : draft.steps[i].id \in OfMain
    BY <1>1, <1>3 DEF BranchIInv, MainsAreNumbered, Ids, n
  <2>2. \A i \in 1..Len(t) : i \in 1..n /\ i \in 1..(n - 1)
    BY <1>3, <1>4 DEF n
  <2> QED
    BY <1>4, <1>5, <2>1, <2>2 DEF Ids
<1>8. UNCHANGED <<session, mains, poss, picked, astray>>
  BY DEF Undo
<1>9. ~IsOpen(draft') /\ ~Closed(draft')
  BY <1>5, <1>1, <1>2, <1>6, BranchesNameMains DEF IsOpen, Closed
<1>10. Seen' => OpenFits' /\ ClosedFits'
  BY <1>9 DEF OpenFits, ClosedFits
<1>11. Seen' => Seen
  BY <1>8 DEF Seen
<1>12. PickedIsSaved'
  BY <1>8, PickStays DEF BranchIInv
<1> QED
  BY <1>6, <1>7, <1>8, <1>10, <1>11, <1>12, EditingFits

\* q is r with its straight i split, of whose two metres the second is a step of its own: `id`.
IsSplit(r, q, i, id) ==
    LET p == PoseAfter(r, i - 1)
    IN  /\ i \in 1..Len(r.steps) /\ r.steps[i].kind = "straight" /\ Along(p, r.steps[i].to) = 2
        /\ q.start = r.start /\ q.branch = r.branch /\ Len(q.steps) = Len(r.steps) + 1
        /\ \A k \in 1..(i - 1) : q.steps[k] = r.steps[k]
        /\ \A k \in (i + 1)..Len(r.steps) : q.steps[k + 1] = r.steps[k]
        /\ q.steps[i].kind = "straight" /\ q.steps[i + 1].kind = "straight"
        /\ q.steps[i].id = r.steps[i].id /\ q.steps[i + 1].id = id
        /\ q.steps[i].to = Ahead(p, 1).at /\ q.steps[i + 1].to = r.steps[i].to

\* That is what the editor does.
LEMMA SplitIs ==
    ASSUME draft \in RouteType, SplitStraight
    PROVE  /\ draft' \in RouteType
           /\ \E i : IsSplit(draft, draft', i, NextId) /\ astray' = (astray \/ Unseen(i))
<1> DEFINE st == draft.steps
<1>1. PICK i \in DOMAIN st :
          /\ st[i].kind = "straight" /\ Along(PoseAfter(draft, i - 1), st[i].to) = 2
          /\ draft' = WithSteps(draft, SubSeq(st, 1, i - 1)
                    \o <<Straight(st[i].id, Ahead(PoseAfter(draft, i - 1), 1).at, st[i].v),
                         Straight(NextId, st[i].to, st[i].v)>>
                    \o SubSeq(st, i + 1, Len(st)))
          /\ astray' = (astray \/ Unseen(i))
  BY DEF SplitStraight
<1>2. draft \in RouteType
  OBVIOUS
<1>3. /\ draft.start \in PoseType /\ st \in Seq(StepType)
      /\ draft.repeat \in {1, 3} /\ draft.branch \in BranchType
      /\ DOMAIN st = 1..Len(st) /\ Len(st) \in Nat /\ \A k \in 1..Len(st) : st[k] \in StepType
      /\ \A k \in 0..Len(st) : PoseAfter(draft, k) \in PoseType
  BY <1>2, RouteHas
<1> HIDE DEF st
<1>4. i \in 1..Len(st) /\ i - 1 \in 0..Len(st)
  BY <1>1, <1>3
<1>5. st[i].id \in StepIds /\ st[i].to \in Points /\ st[i].v \in 1..RouteSpeed
  BY <1>3, <1>4 DEF StepType
<1> DEFINE c == Ahead(PoseAfter(draft, i - 1), 1).at
<1>6. c \in Points
  <2>1. Ahead(PoseAfter(draft, i - 1), 1) \in PoseType
    BY <1>3, <1>4, AheadIsPose
  <2> QED
    BY <2>1 DEF PoseType
<1> HIDE DEF c
<1>7. NextId \in StepIds /\ NextId \notin Ids(st) /\ NextId \in {IF IsBranch(draft) THEN "b" ELSE "s"} \X Nat
  BY <1>2, NextIdIsFree DEF st
<1> DEFINE one == Straight(st[i].id, c, st[i].v)
           two == Straight(NextId, st[i].to, st[i].v)
<1>8. /\ one \in StepType /\ two \in StepType /\ one.id = st[i].id /\ two.id = NextId
      /\ one.kind = "straight" /\ two.kind = "straight" /\ one.to = c /\ two.to = st[i].to
  <2>1. one \in StepType /\ two \in StepType
    BY <1>5, <1>6, <1>7, StepsAreMade
  <2> QED
    BY <2>1 DEF Straight, Step
<1> HIDE DEF one, two
<1> DEFINE x == SubSeq(st, 1, i - 1)
           y == <<one, two>>
           z == SubSeq(st, i + 1, Len(st))
           t == x \o y \o z
           n == Len(st)
<1>9. /\ x \in Seq(StepType) /\ Len(x) = i - 1 /\ \A k \in 1..(i - 1) : x[k] = st[k]
      /\ z \in Seq(StepType) /\ Len(z) = n - i /\ \A k \in 1..(n - i) : z[k] = st[i + k]
  <2> DEFINE k == i - 1
             o == 0
  <2>1. o \in Nat /\ k \in Nat /\ o <= k /\ k <= Len(st) /\ o + 1 = 1 /\ k - o = k /\ \A m \in 1..k : o + m = m
    BY <1>3, <1>4
  <2>2. i \in Nat /\ n \in Nat /\ i <= n /\ n <= Len(st)
    BY <1>3, <1>4
  <2>3. x = SubSeq(st, o + 1, k)
    BY <2>1
  <2> HIDE DEF o, k, n, x
  <2>4. x \in Seq(StepType) /\ Len(x) = k - o /\ \A m \in 1..(k - o) : x[m] = st[o + m]
    BY <1>3, <2>1, <2>3, PartIs
  <2>5. z \in Seq(StepType) /\ Len(z) = n - i /\ \A m \in 1..(n - i) : z[m] = st[i + m]
    <3>1. /\ SubSeq(st, i + 1, n) \in Seq(StepType) /\ Len(SubSeq(st, i + 1, n)) = n - i
          /\ \A m \in 1..(n - i) : SubSeq(st, i + 1, n)[m] = st[i + m]
      BY <1>3, <2>2, PartIs
    <3>2. z = SubSeq(st, i + 1, n)
      BY DEF n
    <3> HIDE DEF z
    <3> QED
      BY <3>1, <3>2
  <2>6. x \in Seq(StepType) /\ Len(x) = k /\ \A m \in 1..k : x[m] = st[m]
    BY <2>1, <2>4
  <2> QED
    BY <2>5, <2>6 DEF k
<1>10. y \in Seq(StepType) /\ Len(y) = 2 /\ y[1] = one /\ y[2] = two
  BY <1>8
<1> HIDE DEF x, y, z, n
<1> DEFINE w == x \o y
<1>11. /\ w \in Seq(StepType) /\ Len(w) = i + 1 /\ \A k \in 1..(i - 1) : w[k] = st[k]
       /\ w[i] = one /\ w[i + 1] = two
  <2>1. /\ w \in Seq(StepType) /\ Len(w) = Len(x) + Len(y) /\ \A k \in 1..Len(x) : w[k] = x[k]
        /\ \A k \in 1..Len(y) : w[Len(x) + k] = y[k]
    BY <1>9, <1>10, JoinedIs
  <2>2. (i - 1) + 2 = i + 1 /\ (i - 1) + 1 = i /\ 1 \in 1..2 /\ 2 \in 1..2
    BY <1>3, <1>4
  <2> HIDE DEF w
  <2> QED
    BY <1>9, <1>10, <2>1, <2>2
<1> HIDE DEF w
<1>12. /\ t \in Seq(StepType) /\ Len(t) = n + 1 /\ \A k \in 1..(i - 1) : t[k] = st[k]
       /\ t[i] = one /\ t[i + 1] = two /\ \A k \in (i + 1)..n : t[k + 1] = st[k]
  <2>1. t = w \o z
    BY DEF w
  <2> HIDE DEF t
  <2>2. /\ t \in Seq(StepType) /\ Len(t) = Len(w) + Len(z) /\ \A k \in 1..Len(w) : t[k] = w[k]
        /\ \A k \in 1..Len(z) : t[Len(w) + k] = z[k]
    BY <1>9, <1>11, <2>1, JoinedIs
  <2>3. Len(w) + Len(z) = n + 1
    BY <1>3, <1>4, <1>9, <1>11 DEF n
  <2>4. \A k \in 1..(i - 1) : k \in 1..(i + 1)
    BY <1>3, <1>4
  <2>5. i \in 1..(i + 1) /\ i + 1 \in 1..(i + 1)
    BY <1>3, <1>4
  <2>6. ASSUME NEW k \in (i + 1)..n PROVE t[k + 1] = st[k]
    <3>1. k - i \in 1..(n - i) /\ (i + 1) + (k - i) = k + 1 /\ i + (k - i) = k
      BY <1>3, <1>4 DEF n
    <3> QED
      BY <1>9, <1>11, <2>2, <3>1
  <2> QED
    BY <1>11, <2>2, <2>3, <2>4, <2>5, <2>6
<1>13. draft' = WithSteps(draft, t)
  BY <1>1 DEF one, two, c, x, y, z
<1> HIDE DEF t
<1>14. draft' \in RouteType /\ draft'.branch = draft.branch /\ draft'.steps = t /\ draft'.start = draft.start
  <2>1. draft' = Route(draft.start, t, draft.repeat, draft.branch)
    BY <1>13 DEF WithSteps
  <2>2. draft'.start = draft.start
    BY <2>1 DEF Route
  <2> QED
    BY <1>3, <1>12, <2>1, <2>2, RouteIs
<1>15. Along(PoseAfter(draft, i - 1), st[i].to) = 2
  BY <1>1
<1>16. IsSplit(draft, draft', i, NextId)
  BY <1>1, <1>4, <1>8, <1>12, <1>14, <1>15 DEF IsSplit, st, n, c
<1> QED
  BY <1>1, <1>14, <1>16

\* The steps of what is split: those there were, the two halves in place of one.
LEMMA SplitSteps ==
    ASSUME NEW r \in RouteType, NEW q \in RouteType, NEW i, NEW id, IsSplit(r, q, i, id)
    PROVE  /\ i \in Nat \ {0} /\ Len(r.steps) \in Nat /\ i <= Len(r.steps)
           /\ Len(q.steps) = Len(r.steps) + 1
           /\ \A k \in 1..Len(q.steps) :
                 \/ k \in 1..(i - 1) /\ k \in 1..Len(r.steps) /\ q.steps[k] = r.steps[k]
                 \/ k = i \/ k = i + 1
                 \/ k - 1 \in (i + 1)..Len(r.steps) /\ k - 1 \in 1..Len(r.steps)
                       /\ q.steps[k] = r.steps[k - 1]
<1> DEFINE n == Len(r.steps)
           m == Len(q.steps)
<1>1. n \in Nat
  BY RouteHas
<1>2. /\ i \in 1..n /\ m = n + 1 /\ \A k \in 1..(i - 1) : q.steps[k] = r.steps[k]
      /\ \A k \in (i + 1)..n : q.steps[k + 1] = r.steps[k]
  BY DEF IsSplit
<1> HIDE DEF n, m
<1>3. ASSUME NEW k \in 1..m
      PROVE  \/ k \in 1..(i - 1) /\ k \in 1..n /\ q.steps[k] = r.steps[k]
             \/ k = i \/ k = i + 1
             \/ k - 1 \in (i + 1)..n /\ k - 1 \in 1..n /\ q.steps[k] = r.steps[k - 1]
  <2>1. CASE k < i
    <3>1. k \in 1..(i - 1) /\ k \in 1..n
      BY <1>1, <1>2, <2>1
    <3> QED
      BY <1>2, <3>1
  <2>2. CASE k > i + 1
    <3>1. k - 1 \in (i + 1)..n /\ k - 1 \in 1..n /\ (k - 1) + 1 = k
      BY <1>1, <1>2, <2>2
    <3>2. q.steps[(k - 1) + 1] = r.steps[k - 1]
      BY <1>2, <3>1
    <3> QED
      BY <3>1, <3>2
  <2> QED
    BY <1>1, <1>2, <2>1, <2>2
<1> QED
  BY <1>1, <1>2, <1>3 DEF n, m

\* And their ids.
LEMMA SplitIds ==
    ASSUME NEW r \in RouteType, NEW q \in RouteType, NEW i, NEW id, IsSplit(r, q, i, id)
    PROVE  Ids(q.steps) \subseteq Ids(r.steps) \cup {id}
<1>1. /\ DOMAIN q.steps = 1..Len(q.steps) /\ DOMAIN r.steps = 1..Len(r.steps)
  BY RouteHas
<1>2. \A k \in 1..Len(r.steps) : r.steps[k].id \in Ids(r.steps)
  BY <1>1 DEF Ids
<1>3. /\ i \in 1..Len(r.steps) /\ q.steps[i].id = r.steps[i].id /\ q.steps[i + 1].id = id
  BY DEF IsSplit
<1>4. ASSUME NEW k \in 1..Len(q.steps) PROVE q.steps[k].id \in Ids(r.steps) \cup {id}
  <2>1. \/ k \in 1..Len(r.steps) /\ q.steps[k] = r.steps[k]
        \/ k = i \/ k = i + 1
        \/ k - 1 \in 1..Len(r.steps) /\ q.steps[k] = r.steps[k - 1]
    BY SplitSteps
  <2> QED
    BY <1>2, <1>3, <2>1
<1> QED
  BY <1>1, <1>4 DEF Ids

\* Half way along it is a metre from where it starts and a metre from where it ends.
LEMMA HalfWay ==
    ASSUME NEW p \in PoseType, NEW c \in Points, Along(p, c) = 2
    PROVE  Along(p, Ahead(p, 1).at) = 1 /\ Along([p EXCEPT !.at = Ahead(p, 1).at], c) = 1
<1> DEFINE h == Ahead(p, 1).at
           q == [p EXCEPT !.at = h]
           x == p.at[1]
           y == p.at[2]
           u == p.d[1]
           w == p.d[2]
<1>1. x \in Int /\ y \in Int /\ c[1] \in Int /\ c[2] \in Int /\ <<u, w>> \in Headings
  BY DEF PoseType, Points, Headings
<1>2. /\ u \in Int /\ w \in Int
      /\ (u = 1 /\ w = 0) \/ (u = -1 /\ w = 0) \/ (u = 0 /\ w = 1) \/ (u = 0 /\ w = -1)
  BY <1>1 DEF Headings
<1>3. h[1] = x + 1 * u /\ h[2] = y + 1 * w
  BY AheadIsPose
<1>4. q.at = h /\ q.d = p.d
  BY DEF PoseType
<1>5. (c[1] - x) * u + (c[2] - y) * w = 2
  BY DEF Along
<1> HIDE DEF h, q
<1>6. Along(p, h) = (h[1] - x) * u + (h[2] - y) * w
  BY DEF Along
<1>7. Along(q, c) = (c[1] - h[1]) * u + (c[2] - h[2]) * w
  BY <1>4 DEF Along
<1> HIDE DEF x, y, u, w
<1>8. h[1] = x + u /\ h[2] = y + w /\ h[1] \in Int /\ h[2] \in Int
  BY <1>1, <1>2, <1>3
<1>9. (h[1] - x) * u + (h[2] - y) * w = 1 /\ (c[1] - h[1]) * u + (c[2] - h[2]) * w = 1
  <2>1. CASE u = 1 /\ w = 0
    BY <1>1, <1>5, <1>8, <2>1
  <2>2. CASE u = -1 /\ w = 0
    BY <1>1, <1>5, <1>8, <2>2
  <2>3. CASE u = 0 /\ w = 1
    BY <1>1, <1>5, <1>8, <2>3
  <2>4. CASE u = 0 /\ w = -1
    BY <1>1, <1>5, <1>8, <2>4
  <2> QED
    BY <1>2, <2>1, <2>2, <2>3, <2>4
<1> QED
  BY <1>6, <1>7, <1>9 DEF h, q

\* Up to the split the route is where it was; then it is half way along.
LEMMA SplitPoses ==
    ASSUME NEW r \in RouteType, NEW q \in RouteType, NEW i, NEW id, IsSplit(r, q, i, id)
    PROVE  /\ \A k \in 0..(i - 1) : PoseAfter(q, k) = PoseAfter(r, k)
           /\ PoseAfter(q, i) = [PoseAfter(r, i - 1) EXCEPT !.at = Ahead(PoseAfter(r, i - 1), 1).at]
<1> DEFINE p == PoseAfter(r, i - 1)
<1>1. /\ i \in Nat \ {0} /\ Len(r.steps) \in Nat /\ i <= Len(r.steps)
      /\ Len(q.steps) = Len(r.steps) + 1
  BY SplitSteps
<1>2. /\ q.start = r.start /\ \A k \in 1..(i - 1) : q.steps[k] = r.steps[k]
      /\ q.steps[i].kind = "straight" /\ q.steps[i].to = Ahead(p, 1).at
  BY DEF IsSplit
<1> DEFINE n == i - 1
<1>3. n \in Nat /\ n <= Len(q.steps) /\ n <= Len(r.steps) /\ \A k \in 1..n : q.steps[k] = r.steps[k]
  BY <1>1, <1>2
<1> HIDE DEF n, p
<1>4. \A k \in 0..n : PoseAfter(q, k) = PoseAfter(r, k)
  BY <1>2, <1>3, BeginAlike
<1>5. i \in 1..Len(q.steps) /\ i - 1 \in 0..n
  BY <1>1 DEF n
<1>6. PoseAfter(q, i) = EndOfStep(q.start, PoseAfter(q, i - 1), q.steps[i])
  BY <1>5, RouteHas
<1>7. PoseAfter(q, i - 1) = p
  BY <1>4, <1>5 DEF p
<1>8. PoseAfter(q, i) = [p EXCEPT !.at = Ahead(p, 1).at]
  BY <1>2, <1>6, <1>7 DEF EndOfStep
<1> QED
  BY <1>4, <1>8 DEF n, p

\* A split after the branch point leaves it open.
LEMMA SplitStaysOpen ==
    ASSUME NEW r \in RouteType, NEW q \in RouteType, NEW i, NEW id, IsSplit(r, q, i, id), id \in OfBranch,
           NEW main \in RouteType, IsOpenOn(r, main), IndexOf(main.steps, r.branch.leave) < i
    PROVE  IsOpenOn(q, main)
<1> DEFINE li == IndexOf(main.steps, r.branch.leave)
<1>1. r.branch.leave \in Ids(main.steps) /\ main.steps \in Seq(StepType)
  BY RouteHas DEF IsOpenOn
<1>2. li \in 1..Len(main.steps) /\ Len(main.steps) \in Nat
  BY <1>1, IndexIs, LenProperties
<1>3. /\ \A k \in 1..li : r.steps[k] = main.steps[k]
      /\ \A k \in (li + 1)..Len(r.steps) : r.steps[k].id \in OfBranch /\ r.steps[k].kind # "home"
  BY DEF IsOpenOn
<1>4. li < i
  OBVIOUS
<1> HIDE DEF li
<1>5. /\ i \in Nat \ {0} /\ Len(r.steps) \in Nat /\ i <= Len(r.steps) /\ Len(q.steps) = Len(r.steps) + 1
  BY SplitSteps
<1>6. li \in Nat \ {0}
  BY <1>2
<1>7. /\ q.branch = r.branch /\ q.start = r.start /\ \A k \in 1..(i - 1) : q.steps[k] = r.steps[k]
      /\ q.steps[i].kind = "straight" /\ q.steps[i + 1].kind = "straight"
      /\ q.steps[i].id = r.steps[i].id /\ q.steps[i + 1].id = id
  BY DEF IsSplit
<1>8. \A k \in 1..li : q.steps[k] = main.steps[k]
  <2>1. \A k \in 1..li : k \in 1..(i - 1)
    BY <1>4, <1>5, <1>6
  <2> QED
    BY <1>3, <1>7, <2>1
<1>9. ASSUME NEW k \in (li + 1)..Len(q.steps) PROVE q.steps[k].id \in OfBranch /\ q.steps[k].kind # "home"
  <2>1. k \in 1..Len(q.steps)
    BY <1>5, <1>6
  <2>2. CASE k \in 1..(i - 1) /\ k \in 1..Len(r.steps) /\ q.steps[k] = r.steps[k]
    <3>1. k \in (li + 1)..Len(r.steps)
      BY <1>6, <2>2
    <3> QED
      BY <1>3, <2>2, <3>1
  <2>3. CASE k = i
    <3>1. i \in (li + 1)..Len(r.steps)
      BY <1>4, <1>5, <1>6
    <3> QED
      BY <1>3, <1>7, <2>3, <3>1
  <2>4. CASE k = i + 1
    BY <1>7, <2>4
  <2>5. CASE k - 1 \in (i + 1)..Len(r.steps) /\ k - 1 \in 1..Len(r.steps) /\ q.steps[k] = r.steps[k - 1]
    <3>1. k - 1 \in (li + 1)..Len(r.steps)
      BY <1>4, <1>5, <1>6, <2>5
    <3> QED
      BY <1>3, <2>5, <3>1
  <2>6. \/ k \in 1..(i - 1) /\ k \in 1..Len(r.steps) /\ q.steps[k] = r.steps[k]
        \/ k = i \/ k = i + 1
        \/ k - 1 \in (i + 1)..Len(r.steps) /\ k - 1 \in 1..Len(r.steps) /\ q.steps[k] = r.steps[k - 1]
    BY <2>1, SplitSteps
  <2> QED
    BY <2>2, <2>3, <2>4, <2>5, <2>6
<1>10. li <= Len(q.steps)
  BY <1>4, <1>5, <1>6
<1> QED
  BY <1>7, <1>8, <1>9, <1>10 DEF IsOpenOn, li

\* A split before it, or later than one, has the step the branch leaves after among its own.
LEMMA SplitBefore ==
    ASSUME NEW r \in RouteType, NEW q \in RouteType, NEW i, NEW id, IsSplit(r, q, i, id),
           NEW main \in RouteType, r.branch.leave \in Ids(main.steps),
           NEW k \in 1..Len(r.steps), r.steps[k].id = r.branch.leave,
           \/ k > IndexOf(main.steps, r.branch.leave)
           \/ k = IndexOf(main.steps, r.branch.leave) /\ i < k
    PROVE  IsSplitBefore(q, main)
<1> DEFINE li == IndexOf(main.steps, r.branch.leave)
           j == IF i < k THEN k + 1 ELSE k
<1>1. li \in Nat
  <2>1. main.steps \in Seq(StepType)
    BY RouteHas
  <2>2. li \in 1..Len(main.steps)
    BY <2>1, IndexIs
  <2> QED
    BY <2>2
<1>2. k > li \/ (k = li /\ i < k)
  OBVIOUS
<1> HIDE DEF li
<1>3. /\ i \in Nat \ {0} /\ Len(r.steps) \in Nat /\ i <= Len(r.steps) /\ Len(q.steps) = Len(r.steps) + 1
  BY SplitSteps
<1>4. /\ q.branch = r.branch /\ \A m \in 1..(i - 1) : q.steps[m] = r.steps[m]
      /\ \A m \in (i + 1)..Len(r.steps) : q.steps[m + 1] = r.steps[m]
      /\ q.steps[i].id = r.steps[i].id
  BY DEF IsSplit
<1>5. j \in (li + 1)..Len(q.steps)
  BY <1>1, <1>2, <1>3
<1>6. q.steps[j].id = r.branch.leave
  <2>1. CASE i < k
    <3>1. k \in (i + 1)..Len(r.steps) /\ j = k + 1
      BY <1>3, <2>1
    <3> HIDE DEF j
    <3> QED
      BY <1>4, <3>1
  <2>2. CASE i = k
    <3>1. j = i
      BY <1>3, <2>2
    <3> HIDE DEF j
    <3> QED
      BY <1>4, <2>2, <3>1
  <2>3. CASE i > k
    <3>1. k \in 1..(i - 1) /\ j = k
      BY <1>3, <2>3
    <3> HIDE DEF j
    <3> QED
      BY <1>4, <3>1
  <2> QED
    BY <1>3, <2>1, <2>2, <2>3
<1> HIDE DEF j
<1> QED
  BY <1>4, <1>5, <1>6 DEF IsSplitBefore, li

\* A split of the straight it leaves after makes the tail of that its first step.
LEMMA SplitThere ==
    ASSUME NEW r \in RouteType, NEW q \in RouteType, NEW i, NEW id, IsSplit(r, q, i, id), id \in OfBranch,
           NEW main \in RouteType, IsOpenOn(r, main), i = IndexOf(main.steps, r.branch.leave)
    PROVE  IsSplitThere(q, main)
<1> DEFINE p == PoseAfter(r, i - 1)
           c == r.steps[i].to
<1>1. /\ r.branch.at = <<>> /\ r.branch.leave \in Ids(main.steps) /\ r.start = main.start
      /\ \A k \in 1..i : r.steps[k] = main.steps[k]
      /\ \A k \in (i + 1)..Len(r.steps) : r.steps[k].id \in OfBranch
  BY DEF IsOpenOn
<1>2. /\ i \in Nat \ {0} /\ Len(r.steps) \in Nat /\ i <= Len(r.steps) /\ Len(q.steps) = Len(r.steps) + 1
  BY SplitSteps
<1>3. /\ q.branch = r.branch /\ \A k \in 1..(i - 1) : q.steps[k] = r.steps[k]
      /\ r.steps[i].kind = "straight" /\ Along(p, c) = 2
      /\ q.steps[i + 1].kind = "straight"
      /\ q.steps[i].id = r.steps[i].id /\ q.steps[i + 1].id = id
      /\ q.steps[i].to = Ahead(p, 1).at /\ q.steps[i + 1].to = c
  BY DEF IsSplit
<1>4. i \in 1..Len(main.steps)
  <2>1. main.steps \in Seq(StepType)
    BY RouteHas
  <2> QED
    BY <1>1, <2>1, IndexIs
<1>5. p \in PoseType /\ c \in Points
  <2>1. i - 1 \in 0..Len(r.steps) /\ i \in 1..Len(r.steps)
    BY <1>2
  <2>2. r.steps[i] \in StepType
    BY <2>1, RouteHas
  <2> QED
    BY <2>1, <2>2, RouteHas DEF StepType
<1> HIDE DEF p, c
<1>6. Along(p, Ahead(p, 1).at) = 1 /\ Along([p EXCEPT !.at = Ahead(p, 1).at], c) = 1
  BY <1>3, <1>5, HalfWay
<1>7. PoseAfter(q, i - 1) = p /\ PoseAfter(q, i) = [p EXCEPT !.at = Ahead(p, 1).at]
  <2>1. i - 1 \in 0..(i - 1)
    BY <1>2
  <2> QED
    BY <2>1, SplitPoses DEF p
<1>8. PoseAfter(main, i).at = c
  <2>1. i \in Nat /\ i <= Len(r.steps) /\ i <= Len(main.steps) /\ i \in 0..i /\ i \in 1..Len(r.steps)
    BY <1>2, <1>4
  <2>2. PoseAfter(main, i) = PoseAfter(r, i)
    BY <1>1, <2>1, BeginAlike
  <2>3. PoseAfter(r, i) = EndOfStep(r.start, p, r.steps[i])
    BY <2>1, RouteHas DEF p
  <2>4. PoseAfter(r, i) = [p EXCEPT !.at = c]
    BY <1>3, <2>3 DEF EndOfStep, c
  <2> QED
    BY <1>5, <2>2, <2>4 DEF PoseType
<1>9. NoWay(q.steps[i + 1], PoseAfter(main, i))
  BY <1>3, <1>8 DEF NoWay
<1>10. ASSUME NEW k \in 1..i PROVE q.steps[k].id = main.steps[k].id
  <2>1. k \in 1..(i - 1) \/ k = i
    BY <1>2
  <2> QED
    BY <1>1, <1>3, <2>1
<1>11. ASSUME NEW k \in (i + 1)..Len(q.steps) PROVE q.steps[k].id \in OfBranch
  <2>1. k \in 1..Len(q.steps) /\ k \notin 1..(i - 1) /\ k # i
    BY <1>2
  <2>2. k = i + 1 \/ (k - 1 \in (i + 1)..Len(r.steps) /\ q.steps[k] = r.steps[k - 1])
    BY <2>1, SplitSteps
  <2> QED
    BY <1>1, <1>3, <2>2
<1>12. i < Len(q.steps)
  BY <1>2
<1> QED
  BY <1>1, <1>3, <1>6, <1>7, <1>9, <1>10, <1>11, <1>12 DEF IsSplitThere

\* Then neither half has two metres; one split after them leaves it so.
LEMMA SplitThereStays ==
    ASSUME NEW r \in RouteType, NEW q \in RouteType, NEW i, NEW id, IsSplit(r, q, i, id), id \in OfBranch,
           NEW main \in RouteType, IsSplitThere(r, main), ~(i < IndexOf(main.steps, r.branch.leave))
    PROVE  IsSplitThere(q, main)
<1> DEFINE li == IndexOf(main.steps, r.branch.leave)
<1>1. /\ r.branch.at = <<>> /\ r.branch.leave \in Ids(main.steps) /\ li < Len(r.steps)
      /\ \A k \in 1..li : r.steps[k].id = main.steps[k].id
      /\ \A k \in (li + 1)..Len(r.steps) : r.steps[k].id \in OfBranch
      /\ NoWay(r.steps[li + 1], PoseAfter(main, li))
      /\ Along(PoseAfter(r, li - 1), r.steps[li].to) = 1
      /\ Along(PoseAfter(r, li), r.steps[li + 1].to) = 1
  BY DEF IsSplitThere
<1>2. /\ i \in Nat \ {0} /\ Len(r.steps) \in Nat /\ i <= Len(r.steps) /\ Len(q.steps) = Len(r.steps) + 1
  BY SplitSteps
<1>3. /\ q.branch = r.branch /\ \A k \in 1..(i - 1) : q.steps[k] = r.steps[k]
      /\ Along(PoseAfter(r, i - 1), r.steps[i].to) = 2
      /\ q.steps[i].id = r.steps[i].id /\ q.steps[i + 1].id = id
  BY DEF IsSplit
<1>4. li \in Nat \ {0}
  <2>1. main.steps \in Seq(StepType)
    BY RouteHas
  <2>2. li \in 1..Len(main.steps)
    BY <1>1, <2>1, IndexIs
  <2> QED
    BY <2>2
<1>5. ~(i < li)
  OBVIOUS
<1> HIDE DEF li
<1>6. i # li
  BY <1>1, <1>3
<1>7. i # li + 1
  <2> SUFFICES ASSUME i = li + 1 PROVE FALSE
    OBVIOUS
  <2>1. i - 1 = li
    BY <1>4
  <2> QED
    BY <1>1, <1>3, <2>1
<1>8. i > li + 1
  BY <1>2, <1>4, <1>5, <1>6, <1>7
<1>9. /\ li \in 1..(i - 1) /\ li + 1 \in 1..(i - 1) /\ li \in 0..(i - 1) /\ li - 1 \in 0..(i - 1)
      /\ li < Len(q.steps)
  BY <1>2, <1>4, <1>8
<1>10. PoseAfter(q, li) = PoseAfter(r, li) /\ PoseAfter(q, li - 1) = PoseAfter(r, li - 1)
  BY <1>9, SplitPoses
<1>11. q.steps[li] = r.steps[li] /\ q.steps[li + 1] = r.steps[li + 1]
  BY <1>3, <1>9
<1>12. ASSUME NEW k \in 1..li PROVE q.steps[k].id = main.steps[k].id
  <2>1. k \in 1..(i - 1)
    BY <1>2, <1>4, <1>8
  <2> QED
    BY <1>1, <1>3, <2>1
<1>13. ASSUME NEW k \in (li + 1)..Len(q.steps) PROVE q.steps[k].id \in OfBranch
  <2>1. k \in 1..Len(q.steps)
    BY <1>2, <1>4
  <2>2. \/ k \in 1..Len(r.steps) /\ q.steps[k] = r.steps[k]
        \/ k = i \/ k = i + 1
        \/ k - 1 \in (i + 1)..Len(r.steps) /\ q.steps[k] = r.steps[k - 1]
    BY <2>1, SplitSteps
  <2>3. (k \in 1..Len(r.steps) => k \in (li + 1)..Len(r.steps)) /\ i \in (li + 1)..Len(r.steps)
    BY <1>2, <1>4, <1>8
  <2>4. k - 1 \in (i + 1)..Len(r.steps) => k - 1 \in (li + 1)..Len(r.steps)
    BY <1>2, <1>4, <1>8
  <2> QED
    BY <1>1, <1>3, <2>2, <2>3, <2>4
<1> QED
  BY <1>1, <1>3, <1>9, <1>10, <1>11, <1>12, <1>13 DEF IsSplitThere, li

\* A split of a step that is not the branch's leaves it its own.
LEMMA SplitKeepsOwn ==
    ASSUME NEW r \in RouteType, NEW q \in RouteType, NEW i, NEW id, IsSplit(r, q, i, id),
           id \notin Range(r.branch.own), r.steps[i].id \notin Range(r.branch.own)
    PROVE  OwnOf(q) = OwnOf(r)
<1>1. /\ i \in 1..Len(r.steps) /\ q.branch.own = r.branch.own /\ Len(q.steps) = Len(r.steps) + 1
      /\ \A k \in 1..(i - 1) : q.steps[k] = r.steps[k]
      /\ \A k \in (i + 1)..Len(r.steps) : q.steps[k + 1] = r.steps[k]
      /\ {r.steps[i].id, q.steps[i].id, q.steps[i + 1].id} \cap Range(r.branch.own) = {}
  BY DEF IsSplit
<1> QED
  BY <1>1, OwnStays

\* Splitting a straight keeps it: what is not seen later is what the history tells.
LEMMA SplitStraightFits == ASSUME PlanIInv, BranchIInv, SplitStraight PROVE BranchIInv'
<1>1. draft \in RouteType /\ picked.route \in RouteType
  BY DEF PlanIInv, PlanTypes
<1>2. PICK i : IsSplit(draft, draft', i, NextId) /\ astray' = (astray \/ Unseen(i))
  BY <1>1, SplitIs
<1>3. draft' \in RouteType /\ draft'.branch = draft.branch
  BY <1>1, <1>2, SplitIs DEF IsSplit
<1> DEFINE r == draft
           q == draft'
           main == picked.route
           id == NextId
           own == Range(draft.branch.own)
<1>4. r \in RouteType /\ q \in RouteType /\ main \in RouteType /\ IsSplit(r, q, i, id) /\ q.branch = r.branch
  BY <1>1, <1>2, <1>3
<1>5. UNCHANGED <<session, mains, poss, picked>>
  BY DEF SplitStraight
<1>6. IsBranch(q) = IsBranch(r) /\ IsOpen(q) = IsOpen(r) /\ Closed(q) = Closed(r)
  BY <1>3 DEF IsBranch, IsOpen, Closed
<1>7. /\ id \notin Ids(r.steps) /\ (IsBranch(r) => id \in OfBranch) /\ (~IsBranch(r) => id \in OfMain)
  BY <1>1, NextIdIsFree DEF OfBranch, OfMain
<1>8. Seen' => Seen /\ ~Unseen(i)
  BY <1>2, <1>5 DEF Seen
<1>9. /\ Closed(r) => IsBranch(r)
      /\ IsOpen(r) => IsBranch(r)
  BY <1>1, BranchesNameMains DEF Closed
<1>10. Closed(r) /\ ~Unseen(i) => r.steps[i].id \notin own
  BY DEF Unseen
<1> HIDE DEF r, q, main, id, own
<1>12. ~IsBranch(q) => Ids(q.steps) \subseteq OfMain
  <2>1. ~IsBranch(r) => Ids(r.steps) \subseteq OfMain
    BY DEF BranchIInv, MainsAreNumbered, r
  <2>2. Ids(q.steps) \subseteq Ids(r.steps) \cup {id}
    BY <1>4, SplitIds
  <2> QED
    BY <1>6, <1>7, <2>1, <2>2
<1>13. ASSUME NEW x \in RouteType, IsClosedOn(r, x) \/ IsRefusedOn(r, x), r.steps[i].id \notin own
       PROVE  IsClosedOn(q, x) \/ IsRefusedOn(q, x)
  <2>1. CASE r.branch.leave \in Range(r.branch.own) /\ r.branch.leave \in Ids(x.steps)
    BY <1>4, <2>1 DEF IsRefusedOn
  <2>2. CASE own \subseteq Ids(OwnOf(r))
    <3>1. id \notin own
      <4> SUFFICES ASSUME id \in own PROVE FALSE
        OBVIOUS
      <4>1. OwnOf(r) \in Seq(StepType)
        BY <1>4, OwnAreSteps
      <4>2. PICK k \in 1..Len(OwnOf(r)) : OwnOf(r)[k].id = id
        BY <2>2, <4>1, LenProperties DEF Ids
      <4>3. PICK j \in 1..Len(r.steps) : OwnOf(r)[k] = r.steps[j]
        BY <1>4, OwnAreOfTheRoute
      <4>4. DOMAIN r.steps = 1..Len(r.steps)
        BY <1>4, RouteHas
      <4> QED
        BY <1>7, <4>2, <4>3, <4>4 DEF Ids
    <3>2. OwnOf(q) = OwnOf(r)
      BY <1>4, <1>13, <3>1, SplitKeepsOwn DEF own, r
    <3> QED
      BY <1>4, <1>13, <3>2, ClosedStays
  <2> QED
    BY <1>13, <2>1, <2>2 DEF IsClosedOn, IsRefusedOn, own, r
<1>14. Seen' => ClosedFits'
  <2> SUFFICES ASSUME Seen', Closed(q) PROVE ClosedFits'
    BY DEF ClosedFits, q
  <2> DEFINE x == Named(draft.branch)
  <2>1. /\ draft.branch.of \in DOMAIN mains /\ ~IsBranch(x)
        /\ IsClosedOn(r, x) \/ IsRefusedOn(r, x)
    BY <1>6, <1>8 DEF BranchIInv, ClosedFits, r
  <2>2. x \in RouteType
    BY <2>1, MainHas DEF PlanIInv, Named
  <2>3. Named(draft.branch)' = x
    BY <1>3, <1>5 DEF Named
  <2>4. r.steps[i].id \notin own
    BY <1>6, <1>8, <1>10
  <2> HIDE DEF x
  <2>5. IsClosedOn(q, x) \/ IsRefusedOn(q, x)
    BY <1>13, <2>1, <2>2, <2>4
  <2> QED
    BY <1>3, <1>5, <2>1, <2>3, <2>5 DEF ClosedFits, q
<1> DEFINE leave == r.branch.leave
           li == IndexOf(main.steps, leave)
<1>15. /\ main.steps \in Seq(StepType) /\ Len(main.steps) \in Nat
       /\ Len(r.steps) \in Nat /\ i \in Nat \ {0} /\ i <= Len(r.steps)
  BY <1>4, RouteHas, SplitSteps
<1>16. leave \in Ids(main.steps) => li \in 1..Len(main.steps) /\ main.steps[li].id = leave
  BY <1>15, IndexIs
<1> HIDE DEF leave, li
<1>17. ASSUME leave \in Ids(main.steps), NEW k \in 1..Len(r.steps), r.steps[k].id = leave,
              k > li \/ (k = li /\ i < k)
       PROVE  IsSplitBefore(q, main)
  BY <1>4, <1>17, SplitBefore DEF leave, li
<1>18. ASSUME IsSplitBefore(r, main) PROVE IsSplitBefore(q, main)
  <2>1. leave \in Ids(main.steps)
    BY <1>18 DEF IsSplitBefore, leave
  <2>2. PICK k \in (li + 1)..Len(r.steps) : r.steps[k].id = leave
    BY <1>18 DEF IsSplitBefore, leave, li
  <2>3. k \in 1..Len(r.steps) /\ k > li
    BY <1>15, <1>16, <2>1
  <2> QED
    BY <1>17, <2>1, <2>2, <2>3
<1>19. ASSUME IsSplitThere(r, main), id \in OfBranch
       PROVE  IsSplitBefore(q, main) \/ IsSplitThere(q, main)
  <2>1. /\ leave \in Ids(main.steps) /\ li < Len(r.steps)
        /\ \A k \in 1..li : r.steps[k].id = main.steps[k].id
    BY <1>19 DEF IsSplitThere, leave, li
  <2>2. CASE i < li
    <3>1. li \in 1..Len(r.steps) /\ li \in 1..li
      BY <1>15, <1>16, <2>1
    <3>2. r.steps[li].id = leave
      BY <1>16, <2>1, <3>1
    <3> QED
      BY <1>17, <2>1, <2>2, <3>1, <3>2
  <2>3. CASE ~(i < li)
    <3>1. ~(i < IndexOf(main.steps, r.branch.leave))
      BY <2>3 DEF li, leave
    <3> QED
      BY <1>4, <1>19, <3>1, SplitThereStays
  <2> QED
    BY <2>2, <2>3
<1>20. ASSUME IsOpenOn(r, main), id \in OfBranch
       PROVE  IsOpenOn(q, main) \/ IsSplitBefore(q, main) \/ IsSplitThere(q, main)
  <2>1. /\ leave \in Ids(main.steps) /\ li <= Len(r.steps)
        /\ \A k \in 1..li : r.steps[k] = main.steps[k]
    BY <1>20 DEF IsOpenOn, leave, li
  <2>2. CASE i < li
    <3>1. li \in 1..Len(r.steps) /\ li \in 1..li
      BY <1>15, <1>16, <2>1
    <3>2. r.steps[li].id = leave
      BY <1>16, <2>1, <3>1
    <3> QED
      BY <1>17, <2>1, <2>2, <3>1, <3>2
  <2>3. CASE i = li
    <3>1. i = IndexOf(main.steps, r.branch.leave)
      BY <2>3 DEF li, leave
    <3> QED
      BY <1>4, <1>20, <3>1, SplitThere
  <2>4. CASE li < i
    <3>1. IndexOf(main.steps, r.branch.leave) < i
      BY <2>4 DEF li, leave
    <3> QED
      BY <1>4, <1>20, <3>1, SplitStaysOpen
  <2>5. li \in Nat
    BY <1>16, <2>1
  <2> QED
    BY <1>15, <2>2, <2>3, <2>4, <2>5
<1>21. Seen' => OpenFits'
  <2> SUFFICES ASSUME Seen', IsOpen(q)
               PROVE  /\ picked' # Nobody /\ picked'.of = q.branch.of
                      /\ \/ IsOpenOn(q, picked'.route)
                         \/ IsSplitBefore(q, picked'.route) \/ IsSplitThere(q, picked'.route)
    BY DEF OpenFits, q
  <2>1. IsOpen(r) /\ id \in OfBranch
    BY <1>6, <1>7, <1>9
  <2>2. /\ picked # Nobody /\ picked.of = r.branch.of
        /\ IsOpenOn(r, main) \/ IsSplitBefore(r, main) \/ IsSplitThere(r, main)
    BY <1>8, <2>1 DEF BranchIInv, OpenFits, main, r
  <2>3. IsOpenOn(q, main) \/ IsSplitBefore(q, main) \/ IsSplitThere(q, main)
    BY <1>18, <1>19, <1>20, <2>1, <2>2
  <2>4. picked' = picked /\ picked'.route = main
    BY <1>5 DEF main
  <2> QED
    BY <1>4, <2>2, <2>3, <2>4
<1>22. IsBranch(draft') => session = "branching"
  BY <1>6 DEF BranchIInv, OnlyBranching, q, r
<1>23. PickedIsSaved'
  BY <1>5, PickStays DEF BranchIInv
<1> QED
  BY <1>5, <1>8, <1>12, <1>14, <1>21, <1>22, <1>23, EditingFits DEF q

\* Moving the start keeps it: in an open branch the history tells.
LEMMA SetStartFits == ASSUME PlanIInv, BranchIInv, SetStart PROVE BranchIInv'
<1>1. /\ draft' = Route(Pose(<<2, 1>>, <<1, 0>>), draft.steps, draft.repeat, draft.branch)
      /\ astray' = (astray \/ IsOpen(draft)) /\ UNCHANGED <<session, picked, mains, poss>>
  BY DEF SetStart
<1>2. draft'.steps = draft.steps /\ draft'.branch = draft.branch
  BY <1>1 DEF Route
<1>3. /\ IsBranch(draft') = IsBranch(draft) /\ IsOpen(draft') = IsOpen(draft)
      /\ Closed(draft') = Closed(draft)
  BY <1>2 DEF IsBranch, IsOpen, Closed
<1>4. ~IsBranch(draft') => Ids(draft'.steps) \subseteq OfMain
  BY <1>2, <1>3 DEF BranchIInv, MainsAreNumbered
<1>5. Seen' => Seen /\ ~IsOpen(draft)
  BY <1>1 DEF Seen
<1>6. Seen' => OpenFits'
  BY <1>3, <1>5 DEF OpenFits
<1>7. ASSUME Seen', Closed(draft')
      PROVE  IsClosedOn(draft', Named(draft.branch)) \/ IsRefusedOn(draft', Named(draft.branch))
  <2> DEFINE r == draft
             q == draft'
             x == Named(draft.branch)
  <2>1. IsClosedOn(r, x) \/ IsRefusedOn(r, x)
    BY <1>3, <1>5, <1>7 DEF BranchIInv, ClosedFits
  <2>2. q.branch = r.branch /\ q.steps = r.steps
    BY <1>2
  <2> HIDE DEF r, q, x
  <2>3. OwnOf(q) = OwnOf(r)
    BY <2>2, OwnOfSame
  <2>4. IsClosedOn(q, x) \/ IsRefusedOn(q, x)
    BY <2>1, <2>2, <2>3, ClosedStays
  <2> QED
    BY <2>4 DEF q, x
<1>8. Seen' => ClosedFits'
  <2> SUFFICES ASSUME Seen', Closed(draft') PROVE ClosedFits'
    BY DEF ClosedFits
  <2>1. draft.branch.of \in DOMAIN mains /\ ~IsBranch(Named(draft.branch))
    BY <1>3, <1>5 DEF BranchIInv, ClosedFits
  <2>2. Named(draft.branch)' = Named(draft.branch)
    BY <1>1, <1>2 DEF Named
  <2> QED
    BY <1>1, <1>2, <1>7, <2>1, <2>2 DEF ClosedFits
<1>9. IsBranch(draft') => session = "branching"
  BY <1>3 DEF BranchIInv, OnlyBranching
<1>10. PickedIsSaved'
  BY <1>1, PickStays DEF BranchIInv
<1> QED
  BY <1>1, <1>4, <1>5, <1>6, <1>8, <1>9, <1>10, EditingFits

\* Setting the number of passes keeps it.
LEMMA SetRepeatFits == ASSUME PlanIInv, BranchIInv, SetRepeat PROVE BranchIInv'
<1>1. /\ draft' = [draft EXCEPT !.repeat = 3] /\ session = "drawing"
      /\ UNCHANGED <<session, picked, mains, poss, astray>>
  BY DEF SetRepeat
<1>2. draft \in RouteType /\ ~IsBranch(draft)
  BY <1>1 DEF PlanIInv, PlanTypes, BranchIInv, OnlyBranching
<1>3. draft'.steps = draft.steps /\ draft'.branch = draft.branch
  BY <1>1, <1>2 DEF RouteType
<1>4. ~IsBranch(draft') /\ ~IsOpen(draft') /\ ~Closed(draft')
  BY <1>2, <1>3, BranchesNameMains DEF IsBranch, IsOpen, Closed
<1>5. Ids(draft'.steps) \subseteq OfMain
  BY <1>2, <1>3 DEF BranchIInv, MainsAreNumbered
<1>6. Seen' => OpenFits' /\ ClosedFits'
  BY <1>4 DEF OpenFits, ClosedFits
<1>7. Seen' => Seen
  BY <1>1 DEF Seen
<1>8. PickedIsSaved'
  BY <1>1, PickStays DEF BranchIInv
<1> QED
  BY <1>1, <1>4, <1>5, <1>6, <1>7, <1>8, EditingFits

\* What is fetched is a main route that is saved: it compiles, with a main route's ids.
LEMMA FetchedHas ==
    ASSUME PlanIInv, MainsAreNumbered, NEW n, Fetched(n) # Nobody
    PROVE  /\ n \in DOMAIN mains /\ ~mains[n].gone /\ ~IsBranch(mains[n].route)
           /\ Fetched(n).of = n /\ Fetched(n).route = mains[n].route
           /\ Fetched(n).route \in RouteType /\ Compiles(Fetched(n).route)
           /\ Ids(Fetched(n).route.steps) \subseteq OfMain
<1>1. n \in DOMAIN mains /\ ~mains[n].gone /\ ~IsBranch(mains[n].route)
  BY DEF Fetched
<1>2. Fetched(n).of = n /\ Fetched(n).route = mains[n].route
  BY FetchedIs DEF PlanIInv
<1> QED
  BY <1>1, <1>2, SavedMainHas

\* The ids of the steps put in.
LEMMA IdsAreThose ==
    ASSUME NEW own \in Seq(StepType)
    PROVE  /\ Range([k \in DOMAIN own |-> own[k].id]) = Ids(own)
           /\ \A k \in 1..Len(own) : own[k].id \in Ids(own)
<1>1. DOMAIN own = 1..Len(own)
  BY LenProperties
<1> QED
  BY <1>1 DEF Range, Ids

\* No id is a main route's and a branch's.
LEMMA IdsApart == OfMain \cap OfBranch = {} /\ NoId \notin OfBranch /\ \A k : <<"s_2", k>> \notin OfBranch
  BY DEF OfMain, OfBranch, NoId

\* Starting a branch keeps it.
LEMMA StartBranchFits == ASSUME PlanIInv, BranchIInv, StartBranch PROVE BranchIInv'
<1>1. PICK n \in DOMAIN mains :
          /\ Fetched(n) # Nobody
          /\ \E li \in DOMAIN Fetched(n).route.steps :
                draft' = Route(Fetched(n).route.start, SubSeq(Fetched(n).route.steps, 1, li), 1,
                               [NoBranch EXCEPT !.of = n, !.leave = Fetched(n).route.steps[li].id])
          /\ picked' = Fetched(n)
  BY DEF StartBranch
<1> DEFINE r == Fetched(n).route
<1>2. /\ n \in Nat \ {0} /\ Fetched(n) \in [of : Nat, route : RouteType] /\ Fetched(n).of = n
      /\ r \in RouteType /\ Compiles(r) /\ ~IsBranch(r) /\ r = mains[n].route
  BY <1>1, FetchedIs, FetchedHas DEF PlanIInv, BranchIInv
<1>3. PICK li \in DOMAIN r.steps :
          draft' = Route(r.start, SubSeq(r.steps, 1, li), 1,
                         [NoBranch EXCEPT !.of = n, !.leave = r.steps[li].id])
  BY <1>1
<1> HIDE DEF r
<1> DEFINE b == [NoBranch EXCEPT !.of = n, !.leave = r.steps[li].id]
           t == SubSeq(r.steps, 1, li)
<1>4. /\ r.start \in PoseType /\ r.steps \in Seq(StepType) /\ DOMAIN r.steps = 1..Len(r.steps)
      /\ Len(r.steps) \in Nat /\ \A i \in 1..Len(r.steps) : r.steps[i] \in StepType
  BY <1>2, RouteHas
<1>5. /\ b.of = n /\ b.leave = r.steps[li].id /\ b.rejoin = NoId /\ b.at = <<>> /\ b.split = NoId
  <2> DEFINE x == r.steps[li].id
             e == <<>>
  <2>1. b \in [of : {n}, leave : {x}, rejoin : {NoId}, own : {e}, at : {e}, split : {NoId}]
    BY DEF NoBranch
  <2> HIDE DEF x, e, b
  <2>2. /\ b.of = n /\ b.leave = x /\ b.rejoin = NoId /\ b.at = e /\ b.split = NoId
    BY <2>1
  <2> QED
    BY <2>2 DEF x, e
<1>6. t \in Seq(StepType) /\ Len(t) = li /\ \A i \in 1..li : t[i] = r.steps[i]
  <2> DEFINE o == 0
  <2>1. o \in Nat /\ li \in Nat /\ o <= li /\ li <= Len(r.steps) /\ o + 1 = 1 /\ li - o = li
        /\ \A i \in 1..li : o + i = i
    BY <1>3, <1>4
  <2>2. t = SubSeq(r.steps, o + 1, li)
    BY <2>1
  <2> HIDE DEF o, t
  <2>3. t \in Seq(StepType) /\ Len(t) = li - o /\ \A i \in 1..(li - o) : t[i] = r.steps[o + i]
    BY <1>4, <2>1, <2>2, PartIs
  <2> QED
    BY <2>1, <2>3
<1> HIDE DEF b, t
<1>7. draft'.start = r.start /\ draft'.steps = t /\ draft'.branch = b
  <2>1. draft' = Route(r.start, t, 1, b)
    BY <1>3 DEF b, t
  <2> QED
    BY <2>1 DEF Route
<1>8. IsOpen(draft') /\ IsBranch(draft') /\ ~Closed(draft')
  BY <1>2, <1>5, <1>7, NoBranchIs DEF IsOpen, IsBranch, Closed
<1>9. IsOpenOn(draft', r)
  <2>1. li \in 1..Len(r.steps) /\ IndexOf(r.steps, b.leave) = li /\ b.leave \in Ids(r.steps)
    BY <1>2, <1>3, <1>4, <1>5, UniqueIds
  <2>2. li <= Len(t) /\ (li + 1)..Len(t) = {}
    BY <1>4, <1>6, <2>1
  <2> QED
    BY <1>5, <1>6, <1>7, <2>1, <2>2 DEF IsOpenOn
<1>10. OpenFits' /\ ClosedFits'
  <2>1. IsOpenOn(draft', picked'.route) /\ picked' # Nobody /\ picked'.of = draft'.branch.of
    BY <1>1, <1>2, <1>5, <1>7, <1>9 DEF r
  <2> QED
    BY <1>8, <2>1 DEF OpenFits, ClosedFits
<1>11. UNCHANGED <<session, mains, poss>> /\ session = "branching" /\ poss = <<>>
  BY DEF StartBranch, Going
<1>12. PickedIsSaved'
  BY <1>1, <1>2, <1>11 DEF PickedIsSaved, r
<1> QED
  BY <1>8, <1>10, <1>11, <1>12, EditingFits

\* q is r, open on `main`, with what is left of that after its step ri; `own` is what followed
\* the step r leaves after.
IsRejoined(r, q, main, ri, own) ==
    LET n == Len(r.steps)
        li == IndexOf(main.steps, r.branch.leave)
    IN  /\ li \in 1..Len(main.steps) /\ li <= n /\ ri \in li..Len(main.steps)
        /\ own \in Seq(StepType) /\ Len(own) = n - li /\ \A k \in 1..Len(own) : own[k] = r.steps[li + k]
        /\ Len(q.steps) = n + (Len(main.steps) - ri) /\ \A i \in 1..n : q.steps[i] = r.steps[i]
        /\ \A i \in 1..(Len(main.steps) - ri) : q.steps[n + i] = main.steps[ri + i]
        /\ q.branch.leave = r.branch.leave /\ q.branch.rejoin = main.steps[ri].id
        /\ q.branch.at = r.branch.at /\ q.branch.split = r.branch.split
        /\ Range(q.branch.own) = Ids(own)

\* Its own steps are those, unless their ids are a main route's.
LEMMA RejoinedOwn ==
    ASSUME NEW r \in RouteType, NEW q \in RouteType, NEW main \in RouteType, NEW ri, NEW own,
           IsRejoined(r, q, main, ri, own), Ids(own) \subseteq OfBranch, Ids(main.steps) \subseteq OfMain,
           \A i \in 1..IndexOf(main.steps, r.branch.leave) : r.steps[i].id = main.steps[i].id
    PROVE  OwnOf(q) = own
<1> DEFINE n == Len(r.steps)
           m == Len(main.steps)
           len == Len(own)
           li == IndexOf(main.steps, r.branch.leave)
<1>1. /\ li \in 1..m /\ li <= n /\ ri \in li..m
      /\ own \in Seq(StepType) /\ len = n - li /\ \A k \in 1..len : own[k] = r.steps[li + k]
      /\ Len(q.steps) = n + (m - ri) /\ \A i \in 1..n : q.steps[i] = r.steps[i]
      /\ \A i \in 1..(m - ri) : q.steps[n + i] = main.steps[ri + i]
      /\ Range(q.branch.own) = Ids(own)
  BY DEF IsRejoined
<1>2. n \in Nat /\ m \in Nat /\ DOMAIN main.steps = 1..m
  BY RouteHas
<1>3. \A i \in 1..m : main.steps[i].id \notin OfBranch
  <2>1. \A i \in 1..m : main.steps[i].id \in OfMain
    BY <1>2 DEF Ids
  <2> QED
    BY <2>1, IdsApart
<1>4. \A i \in 1..li : r.steps[i].id = main.steps[i].id
  OBVIOUS
<1>5. \A k \in 1..len : own[k].id \in Ids(own)
  BY <1>1, IdsAreThose
<1> HIDE DEF n, m, len, li
<1>6. li \in Nat /\ len \in Nat /\ li + len = n /\ n <= Len(q.steps)
  <2>1. li \in 1..m /\ li <= n /\ ri \in li..m /\ len = n - li /\ Len(q.steps) = n + (m - ri)
    BY <1>1
  <2>2. n \in Nat /\ m \in Nat
    BY <1>2
  <2> HIDE DEF n, m, len, li
  <2> QED
    BY ONLY <2>1, <2>2
<1>7. ASSUME NEW k \in 1..len PROVE q.steps[li + k] = own[k] /\ own[k].id \in Range(q.branch.own)
  <2>1. li + k \in 1..n
    BY <1>2, <1>6
  <2> QED
    BY <1>1, <1>5, <2>1
<1>8. ASSUME NEW i \in 1..Len(q.steps), i <= li \/ i > li + len PROVE q.steps[i].id \notin Range(q.branch.own)
  <2>1. CASE i <= li
    <3>1. i \in 1..li /\ i \in 1..n /\ i \in 1..m
      BY <1>1, <1>2, <2>1
    <3>2. q.steps[i].id = main.steps[i].id
      BY <1>1, <1>4, <3>1
    <3> QED
      BY <1>1, <1>3, <3>1, <3>2
  <2>2. CASE i > li + len
    <3> DEFINE k == i - n
    <3>1. k \in 1..(m - ri) /\ n + k = i /\ ri + k \in 1..m
      BY <1>1, <1>2, <1>6, <2>2
    <3> HIDE DEF k
    <3>2. q.steps[i] = main.steps[ri + k]
      BY <1>1, <3>1
    <3> QED
      BY <1>1, <1>3, <3>1, <3>2
  <2> QED
    BY <1>8, <2>1, <2>2
<1>9. li + Len(own) <= Len(q.steps) /\ li \in Nat /\ own \in Seq(StepType)
  BY <1>1, <1>6 DEF len
<1>10. /\ \A k \in 1..Len(own) : q.steps[li + k] = own[k] /\ own[k].id \in Range(q.branch.own)
       /\ \A i \in 1..Len(q.steps) :
             i <= li \/ i > li + Len(own) => q.steps[i].id \notin Range(q.branch.own)
  BY <1>7, <1>8 DEF len
<1> QED
  BY <1>9, <1>10, OwnIs

\* A branch rejoined where it ends leads from where it left the main route to where that goes on.
LEMMA RejoinedIsClosed ==
    ASSUME NEW r \in RouteType, NEW q \in RouteType, NEW main \in RouteType, NEW ri, NEW own,
           IsRejoined(r, q, main, ri, own), IsOpenOn(r, main), Compiles(main),
           Ids(main.steps) \subseteq OfMain, PoseAfter(r, Len(r.steps)) = PoseAfter(main, ri)
    PROVE  IsClosedOn(q, main)
<1> DEFINE n == Len(r.steps)
           m == Len(main.steps)
           len == Len(own)
           li == IndexOf(main.steps, r.branch.leave)
<1>1. /\ li \in 1..m /\ li <= n /\ ri \in li..m
      /\ own \in Seq(StepType) /\ len = n - li /\ \A k \in 1..len : own[k] = r.steps[li + k]
      /\ q.branch.leave = r.branch.leave /\ q.branch.rejoin = main.steps[ri].id
      /\ q.branch.at = r.branch.at /\ q.branch.split = r.branch.split
      /\ Range(q.branch.own) = Ids(own)
  BY DEF IsRejoined
<1>2. /\ r.branch.at = <<>> /\ r.branch.split = NoId /\ r.branch.leave \in Ids(main.steps)
      /\ r.start = main.start /\ \A i \in 1..li : r.steps[i] = main.steps[i]
      /\ \A i \in (li + 1)..n : r.steps[i].id \in OfBranch /\ r.steps[i].kind # "home"
  BY DEF IsOpenOn
<1>3. n \in Nat /\ m \in Nat
  BY RouteHas
<1> HIDE DEF n, m, len, li
<1>4. li \in Nat /\ len \in Nat /\ li + len = n /\ ri \in 1..m /\ li <= ri
  BY <1>1, <1>3
<1>5. ASSUME NEW k \in 1..len PROVE own[k].id \in OfBranch /\ own[k].kind # "home"
  <2>1. li + k \in (li + 1)..n
    BY <1>3, <1>4
  <2> QED
    BY <1>1, <1>2, <2>1
<1>6. Ids(own) \subseteq OfBranch
  <2>1. DOMAIN own = 1..len
    BY <1>1, LenProperties DEF len
  <2> QED
    BY <1>5, <2>1 DEF Ids
<1>7. OwnOf(q) = own
  BY <1>2, <1>6, RejoinedOwn DEF li
<1>8. /\ IndexOf(main.steps, q.branch.leave) = li /\ IndexOf(main.steps, q.branch.rejoin) = ri
      /\ q.branch.leave \in Ids(main.steps) /\ q.branch.rejoin \in Ids(main.steps)
  BY <1>1, <1>2, <1>4, UniqueIds DEF li, m
<1>9. Fits(q.branch, main)
  BY <1>1, <1>2, <1>4, <1>8 DEF Fits
<1>10. PoseAfter(r, li) = PoseAfter(main, li)
  <2>1. li <= Len(r.steps) /\ li <= Len(main.steps) /\ li \in 0..li
    BY <1>1, <1>3, <1>4 DEF n, m
  <2> QED
    BY <1>2, <1>4, <2>1, BeginAlike
<1>11. Leads(PoseAfter(r, li), own, PoseAfter(r, n))
  <2>1. li + Len(own) <= Len(r.steps) /\ li + Len(own) = n
    BY <1>3, <1>4 DEF len, n
  <2>2. /\ \A k \in 1..Len(own) : r.steps[li + k] = own[k]
        /\ \A k \in 1..Len(own) : own[k].kind # "home"
    BY <1>1, <1>5 DEF len
  <2>3. Leads(PoseAfter(r, li), own, PoseAfter(r, li + Len(own)))
    BY <1>1, <1>4, <2>1, <2>2, LeadsThrough
  <2> QED
    BY <2>1, <2>3
<1>12. PoseAfter(r, n) = PoseAfter(main, ri)
  BY DEF n
<1>13. Leads(LeavesAt(q.branch, main), own, GoesOnAt(q.branch, main))
  BY <1>1, <1>2, <1>8, <1>10, <1>11, <1>12 DEF LeavesAt, GoesOnAt
<1>14. q.branch.split \notin OfBranch
  BY <1>1, <1>2, IdsApart
<1> QED
  BY <1>1, <1>6, <1>7, <1>9, <1>13, <1>14 DEF IsClosedOn

\* One a straight was split before is closed as what the server never approves.
LEMMA RejoinedIsRefused ==
    ASSUME NEW r \in RouteType, NEW q \in RouteType, NEW main \in RouteType, NEW ri, NEW own,
           IsRejoined(r, q, main, ri, own), Ids(main.steps) \subseteq OfMain,
           IsSplitBefore(r, main) \/ IsSplitThere(r, main)
    PROVE  IsRefusedOn(q, main)
<1> DEFINE n == Len(r.steps)
           m == Len(main.steps)
           len == Len(own)
           li == IndexOf(main.steps, r.branch.leave)
<1>1. /\ li \in 1..m /\ li <= n
      /\ own \in Seq(StepType) /\ len = n - li /\ \A k \in 1..len : own[k] = r.steps[li + k]
      /\ q.branch.leave = r.branch.leave /\ q.branch.at = r.branch.at
      /\ Range(q.branch.own) = Ids(own)
  BY DEF IsRejoined
<1>2. n \in Nat /\ m \in Nat
  BY RouteHas
<1>3. \A k \in 1..len : own[k].id \in Ids(own)
  BY <1>1, IdsAreThose
<1>4. DOMAIN own = 1..len
  BY <1>1, LenProperties
<1> HIDE DEF n, m, len, li
<1>5. li \in Nat /\ len \in Nat /\ li + len = n
  BY <1>1, <1>2
<1>6. CASE IsSplitBefore(r, main)
  <2>1. r.branch.leave \in Ids(main.steps)
    BY <1>6 DEF IsSplitBefore
  <2>2. PICK k \in (li + 1)..n : r.steps[k].id = r.branch.leave
    BY <1>6 DEF IsSplitBefore, li, n
  <2> DEFINE j == k - li
  <2>3. j \in 1..len /\ li + j = k
    BY <1>2, <1>5
  <2> HIDE DEF j
  <2>4. own[j].id = r.branch.leave
    BY <1>1, <2>2, <2>3
  <2> QED
    BY <1>1, <1>3, <2>1, <2>3, <2>4 DEF IsRefusedOn
<1>7. CASE IsSplitThere(r, main)
  <2>1. /\ r.branch.at = <<>> /\ r.branch.leave \in Ids(main.steps) /\ li < n
        /\ \A i \in 1..li : r.steps[i].id = main.steps[i].id
        /\ \A i \in (li + 1)..n : r.steps[i].id \in OfBranch
        /\ NoWay(r.steps[li + 1], PoseAfter(main, li))
    BY <1>7 DEF IsSplitThere, li, n
  <2>2. ASSUME NEW k \in 1..len PROVE own[k].id \in OfBranch
    <3>1. li + k \in (li + 1)..n
      BY <1>2, <1>5
    <3> QED
      BY <1>1, <2>1, <3>1
  <2>3. Ids(own) \subseteq OfBranch
    BY <1>4, <2>2 DEF Ids
  <2>4. OwnOf(q) = own
    BY <2>1, <2>3, RejoinedOwn DEF li
  <2>5. 1 \in 1..len
    BY <1>2, <1>5, <2>1
  <2>6. own # <<>> /\ own[1] = r.steps[li + 1]
    BY <1>1, <1>4, <2>5
  <2> QED
    BY <1>1, <2>1, <2>3, <2>4, <2>6 DEF IsRefusedOn, li
<1> QED
  BY <1>6, <1>7

\* Rejoining the main route keeps it: the branch is closed from where it left to where that goes on.
LEMMA RejoinMainFits == ASSUME PlanIInv, BranchIInv, RejoinMain PROVE BranchIInv'
<1> DEFINE main == picked.route
           st == draft.steps
           b == draft.branch
           li == IndexOf(main.steps, b.leave)
           own == SubSeq(st, li + 1, Len(st))
           ids == [k \in DOMAIN own |-> own[k].id]
           n == Len(st)
           m == Len(main.steps)
<1>1. /\ IsOpen(draft) /\ picked # Nobody /\ picked.of = b.of
      /\ \E ri \in li..Len(main.steps) :
            /\ EndsOn(End, PoseAfter(main, ri))
            /\ draft' = Route(draft.start,
                       st \o SubSeq(main.steps, ri + 1, Len(main.steps)), draft.repeat,
                       [b EXCEPT !.rejoin = main.steps[ri].id, !.own = ids])
      /\ UNCHANGED <<session, mains, poss, astray>> /\ picked' = picked
  BY DEF RejoinMain
<1>2. /\ draft \in RouteType /\ main \in RouteType /\ Compiles(main) /\ Ids(main.steps) \subseteq OfMain
      /\ picked.of \in DOMAIN mains /\ main = mains[picked.of].route /\ ~IsBranch(main)
  BY <1>1, SavedMainHas DEF PlanIInv, PlanTypes, BranchIInv, PickedIsSaved
<1>3. /\ draft.start \in PoseType /\ st \in Seq(StepType) /\ draft.repeat \in {1, 3}
      /\ b \in BranchType /\ n \in Nat /\ EndPose(draft) = PoseAfter(draft, n)
  BY <1>2, RouteHas
<1>4. /\ main.steps \in Seq(StepType) /\ m \in Nat
      /\ \A i \in 1..m : main.steps[i] \in StepType
  BY <1>2, RouteHas
<1>5. PICK ri \in li..Len(main.steps) :
            /\ EndsOn(End, PoseAfter(main, ri))
            /\ draft' = Route(draft.start,
                       st \o SubSeq(main.steps, ri + 1, Len(main.steps)), draft.repeat,
                       [b EXCEPT !.rejoin = main.steps[ri].id, !.own = ids])
  BY <1>1
<1> DEFINE z == SubSeq(main.steps, ri + 1, Len(main.steps))
           t == st \o z
           nb == [b EXCEPT !.rejoin = main.steps[ri].id, !.own = ids]
<1>6. Seen' => Seen
  BY <1>1 DEF Seen
<1>7. IsBranch(draft)
  BY <1>1, <1>2, BranchesNameMains
<1>8. nb.of = b.of /\ nb.leave = b.leave /\ nb.at = b.at /\ nb.split = b.split
      /\ nb.rejoin = main.steps[ri].id /\ nb.own = ids
  <2> DEFINE x == main.steps[ri].id
  <2> HIDE DEF x, ids
  <2>1. /\ [b EXCEPT !.rejoin = x, !.own = ids].of = b.of
        /\ [b EXCEPT !.rejoin = x, !.own = ids].leave = b.leave
        /\ [b EXCEPT !.rejoin = x, !.own = ids].at = b.at
        /\ [b EXCEPT !.rejoin = x, !.own = ids].split = b.split
        /\ [b EXCEPT !.rejoin = x, !.own = ids].rejoin = x
        /\ [b EXCEPT !.rejoin = x, !.own = ids].own = ids
    BY <1>3 DEF BranchType
  <2> QED
    BY <2>1 DEF x
<1>9. draft'.start = draft.start /\ draft'.steps = t /\ draft'.branch = nb
  BY <1>5 DEF Route
<1>10. PlanIInv'
  BY RejoinMainKeeps
<1>11. draft' \in RouteType
  BY <1>10 DEF PlanIInv, PlanTypes
<1> HIDE DEF st, main, b, li, own, ids, nb, t, z, m, n
<1>12. ASSUME Seen' PROVE IsClosedOn(draft', main) \/ IsRefusedOn(draft', main)
  <2>1. IsOpenOn(draft, main) \/ IsSplitBefore(draft, main) \/ IsSplitThere(draft, main)
    BY <1>1, <1>6, <1>12 DEF BranchIInv, OpenFits, main
  <2>2. b.leave \in Ids(main.steps)
    BY <2>1 DEF IsOpenOn, IsSplitBefore, IsSplitThere, b
  <2>3. li \in 1..m
    BY <1>4, <2>2, IndexIs DEF li, m
  <2>4. li <= n
    <3>1. IsOpenOn(draft, main) \/ IsSplitThere(draft, main) => li <= n
      BY <1>3, <2>3 DEF IsOpenOn, IsSplitThere, b, li, n, st
    <3>2. CASE IsSplitBefore(draft, main)
      <4>1. PICK k \in (li + 1)..n : TRUE
        BY <3>2 DEF IsSplitBefore, b, li, n, st
      <4> QED
        BY <1>3, <2>3, <4>1
    <3> QED
      BY <2>1, <3>1, <3>2
  <2>5. ri \in 1..m /\ li <= ri /\ ri \in li..m
    BY <1>4, <1>5, <2>3 DEF m
  <2>6. own \in Seq(StepType) /\ Len(own) = n - li /\ \A k \in 1..Len(own) : own[k] = st[li + k]
    <3>1. li \in Nat /\ n \in Nat /\ li <= n /\ n <= Len(st)
      BY <1>3, <1>4, <2>3, <2>4 DEF n
    <3>2. own = SubSeq(st, li + 1, n)
      BY DEF own, n
    <3> QED
      BY <1>3, <3>1, <3>2, PartIs
  <2>7. z \in Seq(StepType) /\ Len(z) = m - ri /\ \A k \in 1..(m - ri) : z[k] = main.steps[ri + k]
    <3>1. ri \in Nat /\ m \in Nat /\ ri <= m /\ m <= Len(main.steps)
      BY <1>4, <2>5 DEF m
    <3>2. z = SubSeq(main.steps, ri + 1, m)
      BY DEF z, m
    <3> QED
      BY <1>4, <3>1, <3>2, PartIs
  <2>8. /\ Len(t) = n + (m - ri) /\ \A i \in 1..n : t[i] = st[i]
        /\ \A i \in 1..(m - ri) : t[n + i] = main.steps[ri + i]
    <3>1. /\ t \in Seq(StepType) /\ Len(t) = Len(st) + Len(z) /\ \A i \in 1..Len(st) : t[i] = st[i]
          /\ \A i \in 1..Len(z) : t[Len(st) + i] = z[i]
      BY <1>3, <2>7, JoinedIs DEF t
    <3> QED
      BY <2>7, <3>1 DEF n
  <2>9. Range(nb.own) = Ids(own)
    BY <1>8, <2>6, IdsAreThose DEF ids
  <2> DEFINE r == draft
             q == draft'
  <2>10. IsRejoined(r, q, main, ri, own)
    <3>1. draft'.steps = t /\ draft'.branch = nb /\ st = draft.steps /\ b = draft.branch
      BY <1>9 DEF st, b
    <3> QED
      BY <1>8, <2>3, <2>4, <2>5, <2>6, <2>8, <2>9, <3>1 DEF IsRejoined, li, m, n
  <2>11. PoseAfter(r, Len(r.steps)) = PoseAfter(main, ri)
    BY <1>3, <1>5 DEF EndsOn, End, n, st
  <2>12. r \in RouteType /\ q \in RouteType
    BY <1>2, <1>11
  <2>13. IsOpenOn(r, main) \/ IsSplitBefore(r, main) \/ IsSplitThere(r, main)
    BY <2>1
  <2> HIDE DEF r, q
  <2>14. IsOpenOn(r, main) => IsClosedOn(q, main)
    BY <1>2, <2>10, <2>11, <2>12, RejoinedIsClosed
  <2>15. IsSplitBefore(r, main) \/ IsSplitThere(r, main) => IsRefusedOn(q, main)
    BY <1>2, <2>10, <2>12, RejoinedIsRefused
  <2> QED
    BY <2>13, <2>14, <2>15 DEF q
<1>13. nb.rejoin # NoId
  <2> SUFFICES ASSUME nb.rejoin = NoId PROVE FALSE
    OBVIOUS
  <2>1. b.leave \in Ids(main.steps)
    BY <1>1 DEF PlanIInv, OpenLeaves, b, main
  <2>2. ri \in 1..m
    <3>1. li \in 1..m
      BY <1>4, <2>1, IndexIs DEF li, m
    <3> QED
      BY <1>4, <1>5, <3>1 DEF m
  <2>3. main.steps[ri].id \in StepIds
    BY <1>4, <2>2 DEF StepType
  <2> QED
    BY <1>8, <2>3, NoIdIs
<1>14. ~IsOpen(draft') /\ IsBranch(draft') /\ draft'.branch.of = picked.of
  <2>1. nb.of = b.of /\ b.of # 0 /\ NoBranch.of = 0
    BY <1>1, <1>8, NoBranchIs DEF IsOpen, b
  <2> QED
    BY <1>1, <1>9, <1>13, <2>1 DEF IsOpen, IsBranch, b
<1>15. Seen' => OpenFits' /\ ClosedFits'
  <2> SUFFICES ASSUME Seen' PROVE OpenFits' /\ ClosedFits'
    OBVIOUS
  <2>1. OpenFits'
    BY <1>14 DEF OpenFits
  <2>2. Named(draft.branch)' = main
    BY <1>1, <1>2, <1>14 DEF Named
  <2>3. ClosedFits'
    BY <1>1, <1>2, <1>12, <1>14, <2>2 DEF ClosedFits
  <2> QED
    BY <2>1, <2>3
<1>16. PickedIsSaved'
  BY <1>1, PickStays DEF BranchIInv
<1>17. IsBranch(draft') => session = "branching"
  BY <1>7 DEF BranchIInv, OnlyBranching
<1> QED
  BY <1>1, <1>6, <1>14, <1>15, <1>16, <1>17, EditingFits

\* A pose moved along by nothing, and one put on the place where it goes.
LEMMA PlacedIs ==
    ASSUME NEW p \in PoseType, NEW k \in Int, NEW e \in Points
    PROVE  /\ Ahead(p, 0) = p
           /\ e = Ahead(p, k).at => [p EXCEPT !.at = e] = Ahead(p, k)
           /\ [[p EXCEPT !.at = e] EXCEPT !.at = Ahead(p, k).at] = Ahead(p, k)
<1>1. /\ p = [at |-> p.at, d |-> p.d] /\ p.at = <<p.at[1], p.at[2]>>
      /\ p.at[1] \in Int /\ p.at[2] \in Int /\ p.d[1] \in Int /\ p.d[2] \in Int
  BY DEF PoseType, Points, Headings
<1> DEFINE q(n) == <<p.at[1] + n * p.d[1], p.at[2] + n * p.d[2]>>
<1>2. \A n : Ahead(p, n) = [at |-> q(n), d |-> p.d]
  BY <1>1 DEF Ahead
<1>3. q(0) = p.at
  BY <1>1
<1>4. \A x : [p EXCEPT !.at = x] = [at |-> x, d |-> p.d]
  BY <1>1
<1>5. \A x, y : [[p EXCEPT !.at = x] EXCEPT !.at = y] = [at |-> y, d |-> p.d]
  <2> TAKE x, y
  <2> DEFINE r == [at |-> x, d |-> p.d]
  <2>1. r.d = p.d /\ [r EXCEPT !.at = y] = [at |-> y, d |-> p.d]
    OBVIOUS
  <2>2. [p EXCEPT !.at = x] = r
    BY <1>4
  <2> HIDE DEF r
  <2> QED
    BY <2>1, <2>2
<1> HIDE DEF q
<1>6. Ahead(p, 0) = p
  BY <1>1, <1>2, <1>3
<1>7. Ahead(p, k).at = q(k) /\ Ahead(p, k) = [at |-> q(k), d |-> p.d]
  BY <1>2
<1> QED
  BY <1>4, <1>5, <1>6, <1>7

\* A place is not the mark of none.
LEMMA PlacesAre == \A e \in Points : e # <<>>
  BY DEF Points

\* A branch to a stop point, put in at the place it leaves from, fits.
LEMMA AutoBranchFits == ASSUME PlanIInv, BranchIInv, AutoBranch PROVE BranchIInv'
<1>1. PICK n \in DOMAIN mains, c \in {<<2, 2>>, <<3, 2>>, <<2, 0>>}, back \in {"turn", "reverse"} :
          LET copy == Fetched(n)
              main == copy.route
          IN  /\ copy # Nobody
              /\ Junctions(main, c) # {}
              /\ LET i == Junction(main, c)
                     p == PoseAfter(main, i - 1)
                     along == Along(p, c)
                     side == Abs(Lateral(p, c))
                     j == Ahead(p, along)
                     inside == along # 0 /\ j.at # main.steps[i].to
                     leave == main.steps[IF along = 0 THEN i - 1 ELSE i].id
                     own == OwnSteps(j, side, Lateral(p, c) > 0, back)
                     b == [of |-> n, leave |-> leave, rejoin |-> leave,
                           own |-> [k \in DOMAIN own |-> own[k].id],
                           at |-> IF inside THEN j.at ELSE <<>>,
                           split |-> IF inside THEN <<"s_2", leave[2]>> ELSE NoId]
                 IN  /\ side >= 1 /\ (back = "reverse" => side = 1)
                     /\ along = 0 => i > 1
                     /\ draft' = Route(main.start, Composed(main, b, own), 1, b)
              /\ picked' = copy
  BY Zenon DEF AutoBranch
<1>2. UNCHANGED <<session, mains, poss>> /\ session = "branching" /\ poss = <<>>
  BY DEF AutoBranch, Going
<1> DEFINE main == Fetched(n).route
           i == Junction(main, c)
           p == PoseAfter(main, i - 1)
           along == Along(p, c)
           side == Abs(Lateral(p, c))
           j == Ahead(p, along)
           left == Lateral(p, c) > 0
           inside == along # 0 /\ j.at # main.steps[i].to
           li == IF along = 0 THEN i - 1 ELSE i
           leave == main.steps[li].id
           own == OwnSteps(j, side, left, back)
           ids == [k \in DOMAIN own |-> own[k].id]
           at == IF inside THEN j.at ELSE <<>>
           split == IF inside THEN <<"s_2", leave[2]>> ELSE NoId
           b == [of |-> n, leave |-> leave, rejoin |-> leave, own |-> ids, at |-> at, split |-> split]
<1>3. /\ (along = 0 => i > 1) /\ (back = "reverse" => side = 1)
      /\ draft' = Route(main.start, Composed(main, b, own), 1, b)
  BY <1>1, Zenon
<1> HIDE DEF b
<1>4. /\ n \in Nat \ {0} /\ main \in RouteType /\ Compiles(main) /\ ~IsBranch(main)
      /\ main = mains[n].route /\ Fetched(n).of = n /\ Ids(main.steps) \subseteq OfMain
  BY <1>1, FetchedIs, FetchedHas DEF PlanIInv, BranchIInv
<1>5. c \in Points
  BY DEF Points
<1>6. /\ main.start \in PoseType /\ main.steps \in Seq(StepType) /\ Len(main.steps) \in Nat
      /\ DOMAIN main.steps = 1..Len(main.steps)
      /\ \A k \in 1..Len(main.steps) : main.steps[k] \in StepType
      /\ \A k \in 0..Len(main.steps) : PoseAfter(main, k) \in PoseType
      /\ \A k \in 1..Len(main.steps) :
            PoseAfter(main, k) = EndOfStep(main.start, PoseAfter(main, k - 1), main.steps[k])
  BY <1>4, RouteHas
<1>7. i \in 1..Len(main.steps) /\ main.steps[i].kind = "straight"
  <2>1. Junctions(main, c) # {}
    BY <1>1
  <2> HIDE DEF main
  <2>2. i \in Junctions(main, c) /\ i \in 1..Len(main.steps)
    BY <1>4, <1>5, <2>1, JunctionIs
  <2> HIDE DEF i
  <2> QED
    BY <2>2 DEF Junctions
<1>8. picked' = Fetched(n) /\ picked' # Nobody /\ picked'.of = n /\ picked'.route = main
  BY <1>1, <1>4
<1> HIDE DEF main, i
<1>9. p \in PoseType
  <2>1. i - 1 \in 0..Len(main.steps)
    BY <1>6, <1>7
  <2> QED
    BY <1>6, <2>1
<1>10. PoseAfter(main, i) = [p EXCEPT !.at = main.steps[i].to] /\ main.steps[i].to \in Points
  <2>1. main.steps[i] \in StepType
    BY <1>6, <1>7
  <2>2. PoseAfter(main, i) = EndOfStep(main.start, p, main.steps[i])
    BY <1>6, <1>7
  <2> HIDE DEF p
  <2> QED
    BY <1>7, <2>1, <2>2 DEF EndOfStep, StepType
<1>11. li \in 1..Len(main.steps) /\ (along = 0 => PoseAfter(main, li) = p) /\ (along # 0 => li = i)
  <2> HIDE DEF along
  <2> QED
    BY <1>3, <1>6, <1>7
<1> HIDE DEF p, li
<1>12. along \in Int /\ side \in Int /\ left \in BOOLEAN
  BY <1>5, <1>9, OffsetsAreInt DEF Abs
<1> HIDE DEF along, side, left
<1>13. j \in PoseType /\ j.at \in Points
  <2>1. j \in PoseType
    BY <1>9, <1>12, AheadIsPose
  <2> QED
    BY <2>1 DEF PoseType
<1>14. /\ (along = 0 => j = PoseAfter(main, li) /\ ~inside)
       /\ (along # 0 /\ ~inside => j = PoseAfter(main, li))
       /\ (inside => j = [PoseAfter(main, li) EXCEPT !.at = j.at] /\ li = i)
  <2> DEFINE e == main.steps[i].to
  <2>1. /\ Ahead(p, 0) = p
        /\ e = Ahead(p, along).at => [p EXCEPT !.at = e] = Ahead(p, along)
        /\ [[p EXCEPT !.at = e] EXCEPT !.at = Ahead(p, along).at] = Ahead(p, along)
    <3>1. e \in Points
      BY <1>10
    <3> HIDE DEF e
    <3> QED
      BY <1>9, <1>12, <3>1, PlacedIs
  <2>2. PoseAfter(main, i) = [p EXCEPT !.at = e]
    BY <1>10
  <2>3. inside => along # 0
    OBVIOUS
  <2>4. along # 0 /\ ~inside => e = Ahead(p, along).at
    OBVIOUS
  <2>5. j = Ahead(p, along)
    OBVIOUS
  <2> HIDE DEF e, inside, j
  <2>6. along = 0 => j = p
    BY <2>1, <2>5
  <2> QED
    BY <1>11, <2>1, <2>2, <2>3, <2>4, <2>5, <2>6
<1>15. /\ own \in Seq(StepType) /\ Leads(j, own, j)
       /\ \A k \in 1..Len(own) : own[k].id \in OfBranch
  <2> HIDE DEF j
  <2> QED
    BY <1>3, <1>12, <1>13, OwnStepsLead
<1>16. leave \in StepIds /\ leave \in Ids(main.steps) /\ IndexOf(main.steps, leave) = li
  <2>1. main.steps[li].id \in StepIds
    BY <1>6, <1>11 DEF StepType
  <2> QED
    BY <1>4, <1>11, <2>1, UniqueIds
<1>17. inside => main.steps[li].kind = "straight"
  BY <1>7, <1>14
<1> HIDE DEF leave, own, inside, j
<1>18. ids \in Seq(StepIds) /\ Range(ids) = Ids(own) /\ \A k \in 1..Len(own) : own[k].id \in Range(ids)
  BY <1>15, IdsOfSteps, IdsAreThose
<1>19. Range(ids) \subseteq OfBranch
  <2>1. DOMAIN own = 1..Len(own)
    BY <1>15, LenProperties
  <2> QED
    BY <1>15, <1>18, <2>1 DEF Ids
<1>20. /\ at \in Points \cup {<<>>} /\ split \in StepIds \cup {NoId} /\ (at # <<>> => split # NoId)
       /\ split \notin OfBranch /\ (at # <<>> <=> inside) /\ (inside => at = j.at)
  <2>1. CASE inside
    <3>1. at = j.at /\ split = <<"s_2", leave[2]>>
      BY <2>1
    <3> HIDE DEF at, split
    <3>2. split \in StepIds
      BY <1>16, <3>1 DEF StepIds
    <3>3. split \notin OfBranch
      BY <3>1, IdsApart
    <3>4. at # <<>> /\ at \in Points
      BY <1>13, <3>1, PlacesAre
    <3> QED
      BY <2>1, <3>1, <3>2, <3>3, <3>4, NoIdIs
  <2>2. CASE ~inside
    <3>1. at = <<>> /\ split = NoId
      BY <2>2
    <3> HIDE DEF at, split
    <3> QED
      BY <2>2, <3>1, IdsApart
  <2> QED
    BY <2>1, <2>2
<1> HIDE DEF ids, at, split
<1>21. /\ b \in BranchType /\ b.of = n /\ b.leave = leave /\ b.rejoin = leave
       /\ b.own = ids /\ b.at = at /\ b.split = split
  <2>1. b \in [of : Nat, leave : StepIds \cup {NoId}, rejoin : StepIds \cup {NoId}, own : Seq(StepIds),
               at : Points \cup {<<>>}, split : StepIds \cup {NoId}]
    BY <1>4, <1>16, <1>18, <1>20 DEF b
  <2>2. /\ b.of = n /\ b.leave = leave /\ b.rejoin = leave /\ b.own = ids
        /\ b.at = at /\ b.split = split
    BY DEF b
  <2> QED
    BY <1>4, <1>20, <2>1, <2>2 DEF BranchType
<1>22. Fits(b, main)
  BY <1>6, <1>11, <1>16, <1>17, <1>20, <1>21 DEF Fits
<1>23. LeavesAt(b, main) = j /\ GoesOnAt(b, main) = j
  BY <1>14, <1>16, <1>20, <1>21 DEF LeavesAt, GoesOnAt
<1> DEFINE t == Composed(main, b, own)
<1>24. t \in Seq(StepType) /\ PutIn(t, main, b, own)
  BY <1>4, <1>15, <1>16, <1>21, <1>22, ComposedAreSteps, ComposedIs
<1>25. draft' \in RouteType /\ draft'.branch = b /\ draft'.steps = t
  <2>1. draft' = Route(main.start, t, 1, b) /\ 1 \in {1, 2}
    BY <1>3
  <2> HIDE DEF t
  <2> QED
    BY <1>6, <1>21, <1>24, <2>1, RouteIs
<1> HIDE DEF t
<1>26. OwnOf(draft') = own
  <2> DEFINE q == draft'
  <2>1. q \in RouteType /\ q.branch = b /\ q.steps = t
    BY <1>25
  <2> HIDE DEF q
  <2>2. /\ Fits(q.branch, main) /\ PutIn(q.steps, main, q.branch, own)
        /\ \A k \in 1..Len(own) : own[k].id \in Range(q.branch.own)
        /\ Range(q.branch.own) \cap Ids(main.steps) = {}
        /\ q.branch.at = <<>> \/ q.branch.split \notin Range(q.branch.own)
    BY <1>4, <1>18, <1>19, <1>20, <1>21, <1>22, <1>24, <2>1, IdsApart
  <2>3. OwnOf(q) = own
    BY <1>4, <1>15, <2>1, <2>2, PutInOwn
  <2> QED
    BY <2>3 DEF q
<1>27. IsClosedOn(draft', main)
  BY <1>15, <1>18, <1>19, <1>20, <1>21, <1>22, <1>23, <1>25, <1>26 DEF IsClosedOn
<1>28. IsBranch(draft') /\ ~IsOpen(draft') /\ draft'.branch.of = n
  BY <1>4, <1>16, <1>21, <1>25, NoBranchIs, NoIdIs DEF IsBranch, IsOpen
<1>29. OpenFits' /\ ClosedFits'
  <2>1. Named(draft.branch)' = main
    BY <1>2, <1>4, <1>28 DEF Named
  <2>2. OpenFits'
    BY <1>28 DEF OpenFits
  <2>3. (draft.branch.of \in DOMAIN mains)' /\ (~IsBranch(Named(draft.branch)))'
    BY <1>1, <1>2, <1>4, <1>28, <2>1
  <2>4. IsClosedOn(draft, Named(draft.branch))'
    BY <1>27, <2>1
  <2>5. ClosedFits'
    BY <2>3, <2>4 DEF ClosedFits
  <2> QED
    BY <2>2, <2>5
<1>30. PickedIsSaved'
  BY <1>1, <1>2, <1>4, <1>8 DEF PickedIsSaved
<1> QED
  BY <1>2, <1>28, <1>29, <1>30, EditingFits

\* A branch put on a main route on which its two points are where they were fits that as well.
LEMMA RebaseFits == ASSUME PlanIInv, BranchIInv, Rebase PROVE BranchIInv'
<1> DEFINE b == draft.branch
           marks == {n \in DOMAIN mains : ~mains[n].gone}
           newest == Greatest(marks)
           new == Fetched(newest)
           old == Fetched(b.of)
           main == new.route
           was == old.route
           nb == [b EXCEPT !.of = newest]
           own == OwnOf(draft)
           t == Composed(main, b, own)
<1>1. /\ Closed(draft) /\ new # Nobody
      /\ {b.leave, b.rejoin} \subseteq Ids(main.steps)
      /\ IndexOf(main.steps, b.leave) <= IndexOf(main.steps, b.rejoin)
      /\ old # Nobody => Unmoved(b, was, main)
      /\ b.at # <<>> => old # Nobody /\
            was.steps[IndexOf(was.steps, b.leave)] = main.steps[IndexOf(main.steps, b.leave)]
      /\ draft' = Route(main.start, t, draft.repeat, nb)
      /\ picked' = new
      /\ UNCHANGED <<session, mains, poss, astray>> /\ poss = <<>>
  BY DEF Rebase, Going
<1>2. draft \in RouteType /\ PlanTypes
  BY DEF PlanIInv, PlanTypes
<1>3. /\ newest \in Nat \ {0} /\ newest \in DOMAIN mains /\ main \in RouteType
      /\ new.of = newest /\ main = mains[newest].route /\ ~IsBranch(main)
      /\ Ids(main.steps) \subseteq OfMain
  <2> HIDE DEF newest
  <2> QED
    BY <1>1, <1>2, FetchedIs, FetchedHas DEF BranchIInv
<1>4. draft.repeat \in {1, 3} /\ b \in BranchType
  BY <1>2, RouteHas
<1>5. b.of # 0 /\ b.rejoin # NoId
  BY <1>1, <1>2, BranchesNameMains
<1>6. own \in Seq(StepType)
  BY <1>2, OwnAreSteps
<1>7. IsBranch(draft) /\ (Seen' => Seen)
  BY <1>1 DEF Seen, Closed
<1>8. ASSUME Seen
      PROVE  /\ b.of \in DOMAIN mains /\ ~IsBranch(mains[b.of].route) /\ old # Nobody
             /\ was = mains[b.of].route
             /\ IsClosedOn(draft, was) \/ IsRefusedOn(draft, was)
  <2>1. /\ b.of \in DOMAIN mains /\ ~IsBranch(mains[b.of].route)
        /\ IsClosedOn(draft, mains[b.of].route) \/ IsRefusedOn(draft, mains[b.of].route)
    BY <1>1, <1>8 DEF BranchIInv, ClosedFits, Named
  <2>2. ~mains[b.of].gone
    BY <1>8, <2>1 DEF Seen
  <2>3. old = [of |-> b.of, route |-> mains[b.of].route]
    BY <2>1, <2>2 DEF Fetched
  <2>4. old.of = b.of /\ was = mains[b.of].route
    BY <2>3
  <2>5. Nobody.of = 0
    BY DEF Nobody
  <2> HIDE DEF old
  <2> QED
    BY <1>5, <2>1, <2>4, <2>5
<1> HIDE DEF b, marks, newest, new, old, main, was, own
<1>9. /\ nb \in BranchType /\ nb.of = newest /\ nb.leave = b.leave /\ nb.rejoin = b.rejoin
      /\ nb.own = b.own /\ nb.at = b.at /\ nb.split = b.split
  <2>1. /\ nb.of = newest /\ nb.leave = b.leave /\ nb.rejoin = b.rejoin
        /\ nb.own = b.own /\ nb.at = b.at /\ nb.split = b.split
    BY <1>4 DEF BranchType
  <2>2. nb \in BranchType
    BY <1>3, <1>4, <1>5 DEF BranchType
  <2> QED
    BY <2>1, <2>2
<1>10. t \in Seq(StepType)
  BY <1>1, <1>3, <1>4, <1>6, ComposedAreSteps
<1>11. main.start \in PoseType
  BY <1>3, RouteHas
<1>12. t = Composed(main, nb, own)
  <2> HIDE DEF nb
  <2> QED
    BY <1>9 DEF Composed
<1> HIDE DEF nb, t
<1>13. draft' \in RouteType /\ draft'.branch = nb /\ draft'.steps = t
  BY <1>1, <1>4, <1>9, <1>10, <1>11, RouteIs
<1>14. ASSUME Seen' PROVE IsClosedOn(draft', main) \/ IsRefusedOn(draft', main)
  <2>1. Unmoved(b, was, main)
    BY <1>1, <1>7, <1>8, <1>14
  <2>2. /\ PoseAfter(main, IndexOf(main.steps, b.leave)) = PoseAfter(was, IndexOf(was.steps, b.leave))
        /\ PoseAfter(main, IndexOf(main.steps, b.rejoin)) = PoseAfter(was, IndexOf(was.steps, b.rejoin))
    BY <2>1 DEF Unmoved
  <2>3. \A k \in 1..Len(own) : own[k].id \in Range(b.own)
    BY <1>2, OwnAreOfTheRoute DEF own, b
  <2>4. ASSUME Fits(nb, main), Range(b.own) \subseteq OfBranch, b.at = <<>> \/ b.split \notin OfBranch
        PROVE  OwnOf(draft') = own
    <3> DEFINE q == draft'
    <3>1. q \in RouteType /\ q.branch = nb /\ q.steps = t
      BY <1>13
    <3> HIDE DEF q
    <3>2. PutIn(t, main, nb, own)
      BY <1>3, <1>6, <1>9, <1>12, <2>4, ComposedIs
    <3>3. /\ Fits(q.branch, main) /\ PutIn(q.steps, main, q.branch, own)
          /\ \A k \in 1..Len(own) : own[k].id \in Range(q.branch.own)
          /\ Range(q.branch.own) \cap Ids(main.steps) = {}
          /\ q.branch.at = <<>> \/ q.branch.split \notin Range(q.branch.own)
      BY <1>3, <1>9, <2>3, <2>4, <3>1, <3>2, IdsApart
    <3>4. OwnOf(q) = own
      BY <1>3, <1>6, <3>1, <3>3, PutInOwn
    <3> QED
      BY <3>4 DEF q
  <2>5. CASE IsClosedOn(draft, was)
    <3>1. /\ Fits(b, was) /\ Range(b.own) \subseteq OfBranch /\ b.split \notin OfBranch
          /\ Range(b.own) \subseteq Ids(own) /\ Leads(LeavesAt(b, was), own, GoesOnAt(b, was))
      BY <2>5 DEF IsClosedOn, b, own
    <3>2. LeavesAt(nb, main) = LeavesAt(b, was) /\ GoesOnAt(nb, main) = GoesOnAt(b, was)
      BY <1>9, <2>2 DEF LeavesAt, GoesOnAt
    <3>3. Fits(nb, main)
      BY <1>1, <1>9, <3>1 DEF Fits
    <3>4. OwnOf(draft') = own
      BY <2>4, <3>1, <3>3
    <3> QED
      BY <1>9, <1>13, <3>1, <3>2, <3>3, <3>4 DEF IsClosedOn
  <2>6. CASE IsRefusedOn(draft, was)
    <3>1. CASE b.leave \in Range(b.own)
      BY <1>1, <1>9, <1>13, <3>1 DEF IsRefusedOn
    <3>2. CASE b.leave \notin Range(b.own)
      <4>1. /\ b.at = <<>> /\ Range(b.own) \subseteq OfBranch
            /\ Range(b.own) \subseteq Ids(own) /\ own # <<>>
            /\ NoWay(own[1], PoseAfter(was, IndexOf(was.steps, b.leave)))
        BY <2>6, <3>2 DEF IsRefusedOn, b, own
      <4>2. Fits(nb, main)
        BY <1>1, <1>9, <4>1 DEF Fits
      <4>3. OwnOf(draft') = own
        BY <2>4, <4>1, <4>2
      <4> QED
        BY <1>1, <1>9, <1>13, <2>2, <4>1, <4>3 DEF IsRefusedOn
    <3> QED
      BY <3>1, <3>2
  <2> QED
    BY <1>7, <1>8, <1>14, <2>5, <2>6
<1>15. IsBranch(draft') /\ ~IsOpen(draft') /\ draft'.branch.of = newest
  BY <1>3, <1>5, <1>9, <1>13, NoBranchIs DEF IsBranch, IsOpen
<1>16. Seen' => OpenFits' /\ ClosedFits'
  <2>1. Named(draft.branch)' = main
    BY <1>1, <1>3, <1>15 DEF Named
  <2> QED
    BY <1>1, <1>3, <1>14, <1>15, <2>1 DEF OpenFits, ClosedFits
<1>17. PickedIsSaved'
  BY <1>1, <1>3 DEF PickedIsSaved, main
<1>18. session = "branching"
  BY <1>7 DEF BranchIInv, OnlyBranching
<1> QED
  BY <1>1, <1>7, <1>15, <1>16, <1>17, <1>18, EditingFits

\* Saving a main route takes nothing from what is saved.
LEMMA SaveMainFits == ASSUME PlanIInv, BranchIInv, SaveMain PROVE BranchIInv'
<1> DEFINE e == [route |-> draft, moves |-> Compiled(draft), gone |-> FALSE]
<1>1. /\ ~IsOpen(draft) /\ Approved(draft) /\ mains' = Append(mains, e)
      /\ UNCHANGED <<session, draft, picked, poss, astray>>
  BY DEF SaveMain
<1>2. e \in SavedType /\ e.route = draft /\ e.gone = FALSE
  <2>1. e \in SavedType
    BY <1>1, ApprovedIsSaved
  <2> QED
    BY <2>1
<1> HIDE DEF e
<1>3. PlanTypes
  BY DEF PlanIInv
<1>4. /\ mains' \in Seq(SavedType) /\ Len(mains) \in Nat /\ Len(mains') = Len(mains) + 1
      /\ mains'[Len(mains) + 1] = e /\ \A n \in 1..Len(mains) : mains'[n] = mains[n]
  BY <1>1, <1>2, <1>3, AppendProperties, LenProperties DEF PlanTypes
<1>5. DOMAIN mains = 1..Len(mains) /\ DOMAIN mains' = 1..(Len(mains) + 1)
  BY <1>3, <1>4, LenProperties DEF PlanTypes
<1>6. \A n \in DOMAIN mains : n \in DOMAIN mains' /\ mains'[n] = mains[n]
  BY <1>4, <1>5
<1>7. \A n \in DOMAIN mains' : n \in DOMAIN mains \/ mains'[n] = e
  BY <1>4, <1>5
<1>8. MainsAreNumbered'
  <2>1. IsBranch(draft') = IsBranch(draft)
    BY <1>1
  <2>2. \A n \in DOMAIN mains' :
           ~IsBranch(mains'[n].route) => Ids(mains'[n].route.steps) \subseteq OfMain
    BY <1>2, <1>6, <1>7 DEF BranchIInv, MainsAreNumbered
  <2> QED
    BY <1>1, <2>2 DEF BranchIInv, MainsAreNumbered
<1>9. OnlyBranching'
  BY <1>1 DEF BranchIInv, OnlyBranching
<1>10. PickedIsSaved'
  <2>1. DOMAIN mains \subseteq DOMAIN mains' /\ \A n \in DOMAIN mains : mains'[n].route = mains[n].route
    BY <1>6
  <2> QED
    BY <1>1, <2>1, PickStays DEF BranchIInv
<1>11. Seen' => Seen
  BY <1>1, <1>6 DEF Seen
<1>12. ASSUME Seen' PROVE OpenFits' /\ ClosedFits' /\ SavedFits'
  <2>1. OpenFits /\ ClosedFits /\ SavedFits
    BY <1>11, <1>12 DEF BranchIInv
  <2>2. OpenFits'
    BY <1>1, <2>1 DEF OpenFits
  <2>3. ClosedFits'
    <3> SUFFICES ASSUME Closed(draft') PROVE /\ draft'.branch.of \in DOMAIN mains'
                                             /\ ~IsBranch(Named(draft.branch)')
                                             /\ \/ IsClosedOn(draft', Named(draft.branch)')
                                                \/ IsRefusedOn(draft', Named(draft.branch)')
      BY DEF ClosedFits
    <3>1. /\ draft.branch.of \in DOMAIN mains /\ ~IsBranch(Named(draft.branch))
          /\ IsClosedOn(draft, Named(draft.branch)) \/ IsRefusedOn(draft, Named(draft.branch))
      BY <1>1, <2>1 DEF ClosedFits
    <3>2. Named(draft.branch)' = Named(draft.branch)
      BY <1>1, <1>6, <3>1 DEF Named
    <3> QED
      BY <1>1, <1>6, <3>1, <3>2
  <2>4. ASSUME NEW x \in Range(poss) PROVE x.route.branch.of \in DOMAIN mains' /\ RunsAsDrawn(x.route)'
    <3>1. x.route.branch.of \in DOMAIN mains /\ RunsAsDrawn(x.route)
      BY <2>1, <2>4 DEF SavedFits
    <3> DEFINE r == x.route
    <3>2. r.branch.of \in DOMAIN mains /\ \A n \in DOMAIN mains : mains'[n].route = mains[n].route
      BY <1>6, <3>1
    <3>3. RunsAsDrawn(r)' <=> RunsAsDrawn(r)
      <4> HIDE DEF r
      <4> QED
        BY <3>2, RunsOn
    <3> QED
      BY <1>6, <3>1, <3>3
  <2>5. SavedFits'
    BY <1>1, <2>4 DEF SavedFits
  <2> QED
    BY <2>2, <2>3, <2>5
<1> QED
  BY <1>8, <1>9, <1>10, <1>12 DEF BranchIInv

\* A stop point's route is saved as it was drawn.
LEMMA SavePosFits == ASSUME PlanIInv, BranchIInv, SavePos PROVE BranchIInv'
<1> DEFINE e == [route |-> draft, moves |-> Compiled(draft), gone |-> FALSE]
<1>1. /\ Closed(draft) /\ Approved(draft) /\ poss' = Append(poss, e)
      /\ UNCHANGED <<session, draft, picked, mains, astray>> /\ poss = <<>>
  BY DEF SavePos, Going
<1>2. e.route = draft
  OBVIOUS
<1> HIDE DEF e
<1>3. Range(poss') = {e}
  <2>1. poss' = <<e>>
    BY <1>1
  <2>2. DOMAIN <<e>> = {1} /\ <<e>>[1] = e
    OBVIOUS
  <2> QED
    BY <2>1, <2>2 DEF Range
<1>4. /\ MainsAreNumbered' /\ OnlyBranching' /\ PickedIsSaved' /\ (Seen' => Seen)
      /\ (OpenFits => OpenFits')
  BY <1>1 DEF BranchIInv, MainsAreNumbered, OnlyBranching, PickedIsSaved, Seen, OpenFits
<1>5. ClosedFits => ClosedFits'
  BY <1>1 DEF ClosedFits, Named
<1>6. ASSUME Seen' PROVE SavedFits'
  <2>1. ClosedFits /\ PlanTypes
    BY <1>4, <1>6 DEF BranchIInv, PlanIInv
  <2>2. draft.branch.of \in DOMAIN mains /\ RunsAsDrawn(draft)
    BY <1>1, <2>1, ApprovedRunsAsDrawn
  <2>3. ASSUME NEW x \in Range(poss')
        PROVE  x.route.branch.of \in DOMAIN mains' /\ RunsAsDrawn(x.route)'
    <3>1. x.route = draft
      BY <1>2, <1>3, <2>3
    <3>2. x.route.branch.of \in DOMAIN mains /\ RunsAsDrawn(x.route)
      BY <2>2, <3>1
    <3> DEFINE r == x.route
    <3>3. r.branch.of \in DOMAIN mains /\ \A n \in DOMAIN mains : mains'[n].route = mains[n].route
      BY <1>1, <3>2
    <3>4. RunsAsDrawn(r)' <=> RunsAsDrawn(r)
      <4> HIDE DEF r
      <4> QED
        BY <3>3, RunsOn
    <3> QED
      BY <1>1, <3>2, <3>4
  <2> QED
    BY <2>3 DEF SavedFits
<1> QED
  BY <1>4, <1>5, <1>6 DEF BranchIInv

\* With a main route taken away nothing is said any more of what was saved.
LEMMA RemoveMainFits == ASSUME PlanIInv, BranchIInv, RemoveMain PROVE BranchIInv'
<1>1. PICK n \in DOMAIN mains : ~mains[n].gone /\ mains' = [mains EXCEPT ![n].gone = TRUE]
  BY DEF RemoveMain
<1>2. UNCHANGED <<session, draft, picked, poss, astray>>
  BY DEF RemoveMain
<1>3. DOMAIN mains' = DOMAIN mains /\ \A k \in DOMAIN mains : mains'[k].route = mains[k].route
  <2>1. DOMAIN mains' = DOMAIN mains
    BY <1>1
  <2>2. ASSUME NEW k \in DOMAIN mains PROVE mains'[k].route = mains[k].route
    <3>1. mains[k] \in SavedType
      BY <2>2, MainHas DEF PlanIInv
    <3>2. mains'[k] = mains[k] \/ mains'[k] = [mains[k] EXCEPT !.gone = TRUE]
      BY <1>1, <2>2
    <3> QED
      BY <3>1, <3>2 DEF SavedType
  <2> QED
    BY <2>1, <2>2
<1>4. mains'[n].gone = TRUE
  <2>1. mains[n] \in SavedType
    BY MainHas DEF PlanIInv
  <2> QED
    BY <1>1, <2>1 DEF SavedType
<1>5. ~Seen'
  BY <1>3, <1>4 DEF Seen
<1>6. MainsAreNumbered' /\ OnlyBranching'
  BY <1>2, <1>3 DEF BranchIInv, MainsAreNumbered, OnlyBranching
<1>7. PickedIsSaved'
  BY <1>2, <1>3, PickStays DEF BranchIInv
<1> QED
  BY <1>5, <1>6, <1>7 DEF BranchIInv

\* In every state of a session the branch that is drawn fits the main route it is drawn on, as
\* long as no main route was removed and no edit went unseen.  (editor.js: Start branch, Rejoin
\* main, Stop point, Rebase)
THEOREM BranchInvariant == PlanSpec => []BranchIInv
<1>1. PlanInit => BranchIInv
  <2> SUFFICES ASSUME PlanInit PROVE BranchIInv
    OBVIOUS
  <2>1. draft = Blank /\ picked = Nobody /\ mains = <<>> /\ poss = <<>>
    BY DEF PlanInit
  <2>2. DOMAIN mains = {} /\ Range(poss) = {}
    BY <2>1 DEF Range
  <2>3. draft.steps = <<>> /\ draft.branch = NoBranch
    BY <2>1 DEF Blank, Route
  <2>4. ~IsBranch(draft) /\ Ids(draft.steps) = {} /\ ~IsOpen(draft) /\ ~Closed(draft)
    BY <2>3, NoBranchIs DEF IsBranch, Ids, IsOpen, Closed
  <2> QED
    BY <2>1, <2>2, <2>4
    DEF BranchIInv, MainsAreNumbered, OnlyBranching, PickedIsSaved, OpenFits, ClosedFits, SavedFits
<1>2. PlanIInv /\ BranchIInv /\ [PlanNext]_planVars => BranchIInv'
  <2> SUFFICES ASSUME PlanIInv, BranchIInv, [PlanNext]_planVars PROVE BranchIInv'
    OBVIOUS
  <2>1. CASE UNCHANGED planVars
    <3>1. UNCHANGED <<session, draft, picked, mains, poss, astray>>
      BY <2>1 DEF planVars
    <3>2. /\ MainsAreNumbered' /\ OnlyBranching' /\ PickedIsSaved'
          /\ (Seen' => Seen) /\ (OpenFits => OpenFits')
      BY <3>1 DEF BranchIInv, MainsAreNumbered, OnlyBranching, PickedIsSaved, Seen, OpenFits
    <3>3. ClosedFits => ClosedFits'
      BY <3>1 DEF ClosedFits, Named
    <3>4. SavedFits => SavedFits'
      <4>1. ASSUME SavedFits, NEW e \in Range(poss)
            PROVE  e.route.branch.of \in DOMAIN mains /\ RunsAsDrawn(e.route)'
        <5>1. e.route.branch.of \in DOMAIN mains /\ RunsAsDrawn(e.route)
          BY <4>1 DEF SavedFits
        <5> DEFINE r == e.route
        <5>2. r.branch.of \in DOMAIN mains /\ \A n \in DOMAIN mains : mains'[n].route = mains[n].route
          BY <3>1, <5>1
        <5>3. RunsAsDrawn(r)' <=> RunsAsDrawn(r)
          <6> HIDE DEF r
          <6> QED
            BY <5>2, RunsOn
        <5> QED
          BY <5>1, <5>3
      <4> QED
        BY <3>1, <4>1 DEF SavedFits
    <3> QED
      BY <3>2, <3>3, <3>4 DEF BranchIInv
  <2> QED
    BY <2>1, DrawFits, UndoFits, SplitStraightFits, SetStartFits, SetRepeatFits,
       StartBranchFits, RejoinMainFits, AutoBranchFits, RebaseFits, SaveMainFits,
       SavePosFits, RemoveMainFits
    DEF PlanNext
<1> QED
  BY <1>1, <1>2, PlanInvariant, PTL DEF PlanSpec

\* A saved POS route runs as drawn: its main steps where they run on the main route, the branch
\* from there and back to it.  (OPERATE_AMR_QR.md; Rejoin main, Rebase and branch_problem)
THEOREM BranchesRunAsDrawn == PlanSpec => []MainRunsAsDrawn
<1>1. BranchIInv => MainRunsAsDrawn
  BY DEF BranchIInv, SavedFits, Seen, MainRunsAsDrawn
<1> QED
  BY <1>1, BranchInvariant, PTL
=============================================================================
