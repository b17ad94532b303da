----------------------------- MODULE RoutePlan -----------------------------
(***************************************************************************)
(* A route from the editor to the moves it is driven in: the draft of a    *)
(* main route and of the POS routes that branch off it, the server's check *)
(* of what is saved (schema, compiler, clearance on the map, branch), and  *)
(* the executor's chains: consecutive forward steps driven as one          *)
(* FollowPath, their breaks and their speeds.                              *)
(*                                                                         *)
(* The plane is a lattice of one-metre cells, headings are quarter turns,  *)
(* an arc has a radius of one metre (a quarter of it counts as a metre),   *)
(* the vehicle covers its own cell and the one ahead, margin included.  A  *)
(* speed is a level: the vehicle brakes by one level in one metre.         *)
(***************************************************************************)
EXTENDS Integers, Sequences, FiniteSets, SequencesExt

CONSTANTS
    MaxSteps,   \* bound: steps drawn in one draft
    MaxOwn,     \* bound: steps of a branch drawn by hand
    MaxMains    \* bound: revisions of the main route

ASSUME PlanAssumption ==
    /\ MaxSteps \in Nat /\ MaxOwn \in Nat /\ MaxMains \in Nat

VARIABLES
    world,    \* the map's cells: occupied, unknown, keepout, in a dynamic area
    session,  \* what this run of the editor does: one route, or branches off main routes
    draft,    \* the editor's route
    picked,   \* the editor's copy of the main route picked, Nobody when there is none
    mains,    \* the saved revisions of the main route, with whether each is gone
    poss,     \* the saved revisions of the POS routes
    astray    \* history, read by no step: the draft holds an edit that neither the rejoin
              \* nor Rebase looks for (Unseen)

planVars == <<world, session, draft, picked, mains, poss, astray>>

-----------------------------------------------------------------------------
(* The plane *)

Cells == (0..5) \X (0..4)

\* A pose is the cell the vehicle stands in and the direction it faces.
Pose(c, d) == [at |-> c, d |-> d]
Ahead(p, k) == [p EXCEPT !.at = <<@[1] + k * p.d[1], @[2] + k * p.d[2]>>]

\* A direction turned by quarter turns, positive to the left.
Rot(d, t) ==
    CASE t = 1 -> <<-d[2], d[1]>> [] t = -1 -> <<d[2], -d[1]>> [] OTHER -> <<-d[1], -d[2]>>
Turned(p, t) == [p EXCEPT !.d = Rot(@, t)]

\* How far `c` lies ahead of p and to the left of its heading line.
Along(p, c) == (c[1] - p.at[1]) * p.d[1] + (c[2] - p.at[2]) * p.d[2]
Lateral(p, c) == (c[2] - p.at[2]) * p.d[1] - (c[1] - p.at[1]) * p.d[2]

Abs(n) == IF n < 0 THEN -n ELSE n
Smallest(S) == CHOOSE n \in S : \A m \in S : n <= m
Greatest(S) == CHOOSE n \in S : \A m \in S : n >= m

\* A quarter of an arc: forward, and round to one side.
ArcQuarter(p, t) ==
    LET side == Rot(p.d, t)
    IN  Pose(<<p.at[1] + p.d[1] + side[1], p.at[2] + p.d[2] + side[2]>>, side)

-----------------------------------------------------------------------------
(* Steps and routes *)

RouteSpeed == 4
CurveSpeed == 2
ReverseSpeed == 1

\* An id is a letter and a number: s for what a main route is drawn of, b for a branch,
\* s_2 for what is left of a straight a branch leaves inside of.
NoId == <<"", 0>>

Step(kind, id) == [kind |-> kind, id |-> id, to |-> <<0, 0>>, turn |-> 0, v |-> RouteSpeed]
Straight(id, c, v) == [Step("straight", id) EXCEPT !.to = c, !.v = v]
Rotate(id, t) == [Step("rotate", id) EXCEPT !.turn = t]
Arc(id, t) == [Step("arc", id) EXCEPT !.turn = t]
BackUp(id) == Step("reverse", id)
Wait(id) == Step("wait", id)
Home(id) == Step("home", id)

Ids(steps) == {steps[i].id : i \in DOMAIN steps}
IndexOf(steps, id) == CHOOSE i \in DOMAIN steps : steps[i].id = id

\* Where a step ends, for the editor and for the compiler.
EndOfStep(home, p, s) ==
    CASE s.kind = "straight" -> [p EXCEPT !.at = s.to]
      [] s.kind = "reverse" -> Ahead(p, -1)
      [] s.kind = "rotate" -> Turned(p, s.turn)
      [] s.kind = "arc" ->
            IF s.turn = 2 THEN ArcQuarter(ArcQuarter(p, 1), 1) ELSE ArcQuarter(p, s.turn)
      [] s.kind = "home" -> home
      [] OTHER -> p

NoBranch ==
    [of |-> 0, leave |-> NoId, rejoin |-> NoId, own |-> <<>>, at |-> <<>>, split |-> NoId]

\* The pose before the first step and after each one.  (A set of one element, for TLC to
\* evaluate it once.)
Poses(start, steps) ==
    LET f[n \in 1..(Len(steps) + 1)] ==
            IF n = 1 THEN start
            ELSE CHOOSE q \in {EndOfStep(start, p, steps[n - 1]) : p \in {f[n - 1]}} : TRUE
    IN  f

\* A route, with the poses that follow from it.
Route(start, steps, repeat, branch) ==
    [start |-> start, steps |-> steps, repeat |-> repeat, branch |-> branch,
     poses |-> Poses(start, steps)]
WithSteps(r, steps) == Route(r.start, steps, r.repeat, r.branch)

PoseAfter(r, n) == r.poses[n + 1]
EndPose(r) == r.poses[Len(r.poses)]

IsBranch(r) == r.branch # NoBranch
IsOpen(r) == r.branch.of # 0 /\ r.branch.rejoin = NoId

\* The home leg exists: behind HOME, at most five metres, on its heading, and the
\* S-curve neither steeper than 30 degrees nor tighter than one metre.
HomeFits(p, home) ==
    LET run == -Along(home, p.at)
        off == Abs(Lateral(home, p.at))
    IN  /\ p.d = home.d
        /\ run \in 1..5
        /\ 13 * off <= 4 * run
        /\ 577 * off <= 100 * run * run

-----------------------------------------------------------------------------
(* The compiler *)

StraightCompiles(p, s) == Lateral(p, s.to) = 0 /\ Along(p, s.to) >= 1

WaitCompiles(steps, i) ==
    i # 1 /\ i # Len(steps) /\ steps[i - 1].kind \notin {"wait", "arc"}

StepCompiles(r, i) ==
    LET s == r.steps[i]
    IN  CASE s.kind = "straight" -> StraightCompiles(PoseAfter(r, i - 1), s)
          [] s.kind = "wait" -> WaitCompiles(r.steps, i)
          [] s.kind = "home" -> i = Len(r.steps) /\ HomeFits(PoseAfter(r, i - 1), r.start)
          [] OTHER -> TRUE

Compiles(r) ==
    /\ r.steps # <<>>
    /\ Cardinality(Ids(r.steps)) = Len(r.steps)
    /\ \A i \in DOMAIN r.steps : StepCompiles(r, i)

\* Within the limits a route may carry at their loosest: one metre, and less than the 90 degrees
\* that the next heading of the lattice is away.
IsNear(p, q) == p.d = q.d /\ Abs(p.at[1] - q.at[1]) + Abs(p.at[2] - q.at[2]) <= 1

\* Faulty variant: only the heading at the end is compared.
ClosesFacing(r) == EndPose(r).d = r.start.d

Closes(r) == IsNear(EndPose(r), r.start)

\* The poses a step passes, a metre or a quarter turn apart, the first where it starts.
PathOf(home, p, s) ==
    CASE s.kind = "straight" -> [k \in 1..(Along(p, s.to) + 1) |-> Ahead(p, k - 1)]
      [] s.kind = "reverse" -> <<p, Ahead(p, -1)>>
      [] s.kind = "rotate" ->
            IF s.turn \in {2, -2}
            THEN <<p, Turned(p, s.turn \div 2), Turned(p, s.turn)>> ELSE <<p, Turned(p, s.turn)>>
      [] s.kind = "arc" ->
            IF s.turn = 2 THEN <<p, ArcQuarter(p, 1), ArcQuarter(ArcQuarter(p, 1), 1)>>
            ELSE <<p, ArcQuarter(p, s.turn)>>
      [] s.kind = "wait" -> <<p>>
      [] s.kind = "home" ->
            LET run == -Along(home, p.at)
            IN  [k \in 1..(run + 1) |->
                    IF 2 * (k - 1) <= run THEN Ahead(p, k - 1) ELSE Ahead(home, k - 1 - run)]

SpeedOf(s, curved) ==
    CASE curved -> CurveSpeed [] s.kind = "reverse" -> ReverseSpeed [] OTHER -> s.v

CompiledStep(r, i) ==
    LET s == r.steps[i]
        p == PoseAfter(r, i - 1)
        curved == s.kind = "arc" \/ (s.kind = "home" /\ Lateral(r.start, p.at) # 0)
    IN  [kind |-> s.kind, start |-> p, end |-> PoseAfter(r, i), curved |-> curved,
         path |-> PathOf(r.start, p, s), v |-> SpeedOf(s, curved)]

Compiled(r) == [i \in DOMAIN r.steps |-> CompiledStep(r, i)]

-----------------------------------------------------------------------------
(* The cells a step sweeps, as validation rasterises them *)

Footprint(p) == {p.at, <<p.at[1] + p.d[1], p.at[2] + p.d[2]>>}

\* The cell the nose passes half way through a quarter turn from p to q.
Nose(p, q) == <<p.at[1] + p.d[1] + q.d[1], p.at[2] + p.d[2] + q.d[2]>>

\* A line: every cell from where the rearmost footprint begins to where the foremost ends.
SweptLine(p, q) ==
    LET box == Footprint(p) \cup Footprint(q)
        r(i) == Smallest({c[i] : c \in box})..Greatest({c[i] : c \in box})
    IN  r(1) \X r(2)

\* Faulty variant: a rotation is cleared at the headings it starts and ends at.
SweptTurnEnds(path) == Footprint(path[1]) \cup Footprint(path[Len(path)])

SweptTurn(path) ==
    (UNION {Footprint(path[k]) : k \in DOMAIN path})
        \cup {Nose(path[k], path[k + 1]) : k \in 1..(Len(path) - 1)}

SweptPath(path) == UNION {Footprint(path[k]) : k \in DOMAIN path}

Swept(c) ==
    CASE c.kind = "rotate" -> SweptTurn(c.path)
      [] c.kind \in {"arc", "home"} -> SweptPath(c.path)
      [] OTHER -> SweptLine(c.start, c.end)

\* Nothing in a dynamic area blocks but a keepout; what was never seen blocks like a wall.
Clear(cells) ==
    /\ cells \subseteq Cells
    /\ cells \cap world.keep = {}
    /\ (cells \ world.dyn) \cap (world.occ \cup world.unk) = {}

-----------------------------------------------------------------------------
(* The server: what it approves *)

Named(b) == mains[b.of].route

\* The steps a branch has to hold: the main route with the branch put in.
Composed(main, b, own) ==
    LET li == IndexOf(main.steps, b.leave)
        ri == IndexOf(main.steps, b.rejoin)
        st == main.steps[li]
    IN  IF b.at = <<>>
        THEN SubSeq(main.steps, 1, li) \o own \o SubSeq(main.steps, ri + 1, Len(main.steps))
        ELSE SubSeq(main.steps, 1, li - 1) \o <<Straight(st.id, b.at, st.v)>> \o own
             \o <<Straight(b.split, st.to, st.v)>>
             \o SubSeq(main.steps, li + 1, Len(main.steps))

\* branch_problem: `r` is the main route named plus its own steps, and nothing else.
IsMainPlusBranch(r, main) ==
    LET b == r.branch
        ids == Ids(main.steps)
        own == [k \in DOMAIN b.own |-> r.steps[IndexOf(r.steps, b.own[k])]]
    IN  /\ ~IsBranch(main)
        /\ {b.leave, b.rejoin} \subseteq ids
        /\ IndexOf(main.steps, b.leave) <= IndexOf(main.steps, b.rejoin)
        /\ Range(b.own) \cap ids = {}
        /\ Range(b.own) \subseteq Ids(r.steps)
        /\ b.at # <<>> =>
               /\ main.steps[IndexOf(main.steps, b.leave)].kind = "straight"
               /\ b.rejoin = b.leave
               /\ b.split \notin ids \cup Range(b.own) \cup {NoId}
        /\ r.start = main.start
        /\ r.steps = Composed(main, b, own)

BranchHolds(r) ==
    IsBranch(r) => ~mains[r.branch.of].gone /\ IsMainPlusBranch(r, Named(r.branch))

Cleared(r) ==
    /\ Clear(Footprint(r.start))
    /\ \A i \in DOMAIN r.steps : Clear(Swept(CompiledStep(r, i)))

Approved(r) ==
    /\ r.repeat >= 1
    /\ Compiles(r)
    /\ r.repeat > 1 => Closes(r)
    /\ Cleared(r)
    /\ BranchHolds(r)

-----------------------------------------------------------------------------
(* The editor.  Two kinds of session bound what is drawn: one route with every
   kind of step, or two revisions of a main route of few kinds and a branch. *)

Blank == Route(Pose(<<1, 1>>, <<1, 0>>), <<>>, 1, NoBranch)
Nobody == [of |-> 0, route |-> Blank]

\* Bounds: the session ends with the POS route saved; the revisions of the main route, after
\* which it is not drawn on; its steps.
Going == poss = <<>>
Closed(r) == IsBranch(r) /\ ~IsOpen(r)
MainsLeft == Len(mains) < (IF session = "drawing" THEN 1 ELSE MaxMains)
StepsLeft == Len(draft.steps) < (IF session = "drawing" THEN MaxSteps ELSE MaxSteps - 1)

\* The smallest free id: in a main route from one past its steps, in a branch from 1.
NextId ==
    LET letter == IF IsBranch(draft) THEN "b" ELSE "s"
        first == IF IsBranch(draft) THEN 1 ELSE Len(draft.steps) + 1
    IN  <<letter, Smallest({k \in first..(first + Len(draft.steps)) :
                              <<letter, k>> \notin Ids(draft.steps)})>>

End == EndPose(draft)

StraightOf(k, v) == Straight(NextId, Ahead(End, k).at, v)

Inputs ==
    IF session = "drawing"
    THEN {StraightOf(2, 4), StraightOf(1, 3), StraightOf(1, 1), Rotate(NextId, 2),
          Rotate(NextId, -1), Arc(NextId, 1), Arc(NextId, 2),
          BackUp(NextId), Wait(NextId), Home(NextId)}
    ELSE IF IsBranch(draft)
    THEN {StraightOf(2, 4), StraightOf(1, 4), Rotate(NextId, 2), BackUp(NextId), Wait(NextId)}
    ELSE {StraightOf(2, 4), Rotate(NextId, 1), BackUp(NextId)}

\* The editor itself refuses a second home leg and one it cannot build.
Drawable(s) ==
    s.kind = "home" =>
        /\ draft.steps # <<>>
        /\ \A i \in DOMAIN draft.steps : draft.steps[i].kind # "home"
        /\ HomeFits(End, draft.start)

OwnOfOpen(d) ==
    SubSeq(d.steps, IndexOf(d.steps, d.branch.leave) + 1, Len(d.steps))

\* A step is added at the end: never once a branch is closed.
Draw ==
    /\ Going
    /\ IF IsBranch(draft)
       THEN IsOpen(draft) /\ Len(OwnOfOpen(draft)) < MaxOwn
       ELSE MainsLeft /\ StepsLeft
    /\ \E s \in Inputs :
          /\ Drawable(s)
          /\ draft' = WithSteps(draft, Append(draft.steps, s))
    /\ UNCHANGED <<world, session, picked, mains, poss, astray>>

\* Undo of a step just drawn.
Undo ==
    /\ draft.steps # <<>> /\ ~IsBranch(draft) /\ MainsLeft
    /\ draft' = WithSteps(draft, Front(draft.steps))
    /\ UNCHANGED <<world, session, picked, mains, poss, astray>>

\* A split of step i goes unseen later: the tail of an own step of a closed branch is not among
\* the branch's steps, which are what Rebase keeps.
Unseen(i) == Closed(draft) /\ draft.steps[i].id \in Range(draft.branch.own)

\* A waypoint in a straight of two metres: the tail is a step of its own, in a branch too.
SplitStraight ==
    /\ Going
    /\ IF IsBranch(draft) THEN Len(draft.steps) < 2 * MaxSteps ELSE MainsLeft /\ StepsLeft
    /\ \E i \in DOMAIN draft.steps :
          LET s == draft.steps[i]
              p == PoseAfter(draft, i - 1)
          IN  /\ s.kind = "straight" /\ Along(p, s.to) = 2
              /\ draft' = WithSteps(draft, SubSeq(draft.steps, 1, i - 1)
                    \o <<Straight(s.id, Ahead(p, 1).at, s.v), Straight(NextId, s.to, s.v)>>
                    \o SubSeq(draft.steps, i + 1, Len(draft.steps)))
              /\ astray' = (astray \/ Unseen(i))
    /\ UNCHANGED <<world, session, picked, mains, poss>>

\* The start is put elsewhere; the steps keep their end points.  In an open branch that goes
\* unseen: Rebase puts the start back, the branch was closed from the other one.  (Bounds: to
\* one place; where branches are drawn, in a branch only.)
SetStart ==
    /\ Going
    /\ session = "drawing" => MainsLeft
    /\ session = "branching" => IsBranch(draft)
    /\ draft' = Route(Pose(<<2, 1>>, <<1, 0>>), draft.steps, draft.repeat, draft.branch)
    /\ astray' = (astray \/ IsOpen(draft))
    /\ UNCHANGED <<world, session, picked, mains, poss>>

\* (Bound: three passes.)
SetRepeat ==
    /\ session = "drawing" /\ MainsLeft
    /\ draft' = [draft EXCEPT !.repeat = 3]
    /\ UNCHANGED <<world, session, picked, mains, poss, astray>>

\* The copy the editor takes of a saved main route: not of a branch, not of one gone.
Fetched(n) ==
    IF n \in DOMAIN mains /\ ~mains[n].gone /\ ~IsBranch(mains[n].route)
    THEN [of |-> n, route |-> mains[n].route] ELSE Nobody

\* Start branch: the draft is the main route up to the step it leaves after.
StartBranch ==
    /\ Going /\ session = "branching" /\ ~IsBranch(draft)
    /\ \E n \in DOMAIN mains :
          LET c == Fetched(n)
          IN  /\ c # Nobody
              /\ \E li \in DOMAIN c.route.steps :
                    draft' = Route(c.route.start, SubSeq(c.route.steps, 1, li), 1,
                                   [NoBranch EXCEPT !.of = n, !.leave = c.route.steps[li].id])
              /\ picked' = c
    /\ astray' = FALSE
    /\ UNCHANGED <<world, session, mains, poss>>

\* Faulty variant: the branch may end facing any way.
EndsOnPlace(p, q) == p.at = q.at

\* The end of a branch against the end of the main step it goes on after (1 cm, 0.5 degrees).
EndsOn(p, q) == p = q

\* Rejoin main: the rest of the main route follows, if the branch ends where that step ends.
RejoinMain ==
    /\ IsOpen(draft) /\ picked # Nobody /\ picked.of = draft.branch.of
    /\ LET main == picked.route
           li == IndexOf(main.steps, draft.branch.leave)
           own == SubSeq(draft.steps, li + 1, Len(draft.steps))
       IN  /\ own # <<>>
           /\ \E ri \in li..Len(main.steps) :
                 /\ EndsOn(End, PoseAfter(main, ri))
                 /\ draft' = Route(draft.start,
                       draft.steps \o SubSeq(main.steps, ri + 1, Len(main.steps)), draft.repeat,
                       [draft.branch EXCEPT !.rejoin = main.steps[ri].id,
                                            !.own = [k \in DOMAIN own |-> own[k].id]])
    /\ UNCHANGED <<world, session, picked, mains, poss, astray>>

\* The nearest main straight beside point c, and how far along it the foot of c lies.
Junctions(main, c) ==
    {i \in DOMAIN main.steps :
        LET p == PoseAfter(main, i - 1)
        IN  main.steps[i].kind = "straight" /\ Along(p, c) \in 0..Along(p, main.steps[i].to)}

Junction(main, c) ==
    LET off(i) == Abs(Lateral(PoseAfter(main, i - 1), c))
        S == Junctions(main, c)
    IN  Smallest({i \in S : \A j \in S : off(i) <= off(j)})

\* The branch to a stop point: a turn off the main heading, a straight, a wait, the way back.
OwnSteps(j, side, left, back) ==
    LET s == IF left THEN 1 ELSE -1
        stop == Ahead(Turned(j, s), side).at
        b(k) == <<"b", k>>
    IN  <<Rotate(b(1), s), Straight(b(2), stop, RouteSpeed), Wait(b(3))>>
        \o (IF back = "reverse"
            THEN <<BackUp(b(4)), Rotate(b(5), -s)>>
            ELSE <<Rotate(b(4), 2 * s), Straight(b(5), j.at, RouteSpeed), Rotate(b(6), s)>>)

\* Stop point on the map: the whole POS route from one click.  The foot at the very start
\* of the route, which the editor moves 50 mm along, is not on the lattice.
AutoBranch ==
    /\ Going /\ session = "branching" /\ ~IsBranch(draft)
    /\ \E n \in DOMAIN mains, c \in {<<2, 2>>, <<3, 2>>, <<2, 0>>}, back \in {"turn", "reverse"} :
          LET copy == Fetched(n)
              main == copy.route
          IN  /\ copy # Nobody
              /\ Junctions(main, c) # {}
              /\ LET i == Junction(main, c)
                     p == PoseAfter(main, i - 1)
                     along == Along(p, c)
                     side == Abs(Lateral(p, c))
                     j == Ahead(p, along)
                     inside == along # 0 /\ j.at # main.steps[i].to
                     leave == main.steps[IF along = 0 THEN i - 1 ELSE i].id
                     own == OwnSteps(j, side, Lateral(p, c) > 0, back)
                     b == [of |-> n, leave |-> leave, rejoin |-> leave,
                           own |-> [k \in DOMAIN own |-> own[k].id],
                           at |-> IF inside THEN j.at ELSE <<>>,
                           split |-> IF inside THEN <<"s_2", leave[2]>> ELSE NoId]
                 IN  /\ side >= 1 /\ (back = "reverse" => side = 1)
                     /\ along = 0 => i > 1
                     /\ draft' = Route(main.start, Composed(main, b, own), 1, b)
              /\ picked' = copy
    /\ astray' = FALSE
    /\ UNCHANGED <<world, session, mains, poss>>

\* The steps of a branch that are its own, in the order of the route.
OwnOf(r) ==
    LET own[n \in 0..Len(r.steps)] ==
            IF n = 0 THEN <<>>
            ELSE IF r.steps[n].id \in Range(r.branch.own) THEN Append(own[n - 1], r.steps[n])
            ELSE own[n - 1]
    IN  own[Len(r.steps)]

\* The branch point and the rejoin point of `b` are where they were on the old main route.
Unmoved(b, old, new) ==
    \A id \in {b.leave, b.rejoin} :
        PoseAfter(new, IndexOf(new.steps, id)) = PoseAfter(old, IndexOf(old.steps, id))

\* Rebase on the newest main.  With the old revision gone there is nothing to compare with:
\* only a junction inside a straight is then refused.
Rebase ==
    /\ Going /\ Closed(draft)
    /\ LET b == draft.branch
           left == {n \in DOMAIN mains : ~mains[n].gone}
       IN  /\ left # {}
           /\ LET newest == Greatest(left)
                  new == Fetched(newest)
                  old == Fetched(b.of)
                  main == new.route
                  at(c) == c.route.steps[IndexOf(c.route.steps, b.leave)]
              IN  /\ new # Nobody
                  /\ {b.leave, b.rejoin} \subseteq Ids(main.steps)
                  /\ IndexOf(main.steps, b.leave) <= IndexOf(main.steps, b.rejoin)
                  /\ old # Nobody => Unmoved(b, old.route, main)
                  /\ b.at # <<>> => old # Nobody /\ at(old) = at(new)
                  /\ draft' = Route(main.start, Composed(main, b, OwnOf(draft)), draft.repeat,
                                    [b EXCEPT !.of = newest])
                  /\ picked' = new
    /\ UNCHANGED <<world, session, mains, poss, astray>>

\* Save: the server checks the draft again and gives it the next revision.
SaveMain ==
    /\ ~IsOpen(draft) /\ Approved(draft)
    /\ MainsLeft
    /\ mains' = Append(mains, [route |-> draft, moves |-> Compiled(draft), gone |-> FALSE])
    /\ UNCHANGED <<world, session, draft, picked, poss, astray>>

SavePos ==
    /\ Going /\ Closed(draft) /\ Approved(draft)
    /\ poss' = Append(poss, [route |-> draft, moves |-> Compiled(draft), gone |-> FALSE])
    /\ UNCHANGED <<world, session, draft, picked, mains, astray>>

\* The engineer removes a revision of the main route.
RemoveMain ==
    /\ Going /\ session = "branching"
    /\ \E n \in DOMAIN mains :
          /\ ~mains[n].gone
          /\ mains' = [mains EXCEPT ![n].gone = TRUE]
    /\ UNCHANGED <<world, session, draft, picked, poss, astray>>

-----------------------------------------------------------------------------
(* The executor: consecutive forward steps are one move *)

Chainable(c) == c.kind \notin {"rotate", "wait", "reverse"}

\* Driven as one move, the steps come by its goal before the last of its poses.
ChainReturns(cs) ==
    \E j \in DOMAIN cs : \E k \in DOMAIN cs[j].path :
        /\ j < Len(cs) \/ k < Len(cs[j].path)
        /\ cs[j].path[k].at = cs[Len(cs)].end.at

\* The first and the last step of the unbroken run of chainable steps that holds step i.
RunFirst(cs, i) == Smallest({k \in 1..i : \A m \in k..i : Chainable(cs[m])})
RunLast(cs, i) == Greatest({k \in i..Len(cs) : \A m \in i..k : Chainable(cs[m])})

\* Faulty variant: what is left once the last step is cut off is not looked at again.
ChainBreaksOnce(cs) ==
    {b \in DOMAIN cs :
        /\ Chainable(cs[b]) /\ b = RunLast(cs, b) /\ RunFirst(cs, b) < b
        /\ ChainReturns(SubSeq(cs, RunFirst(cs, b), b))}

\* The steps that start a move of their own: cut from the end as long as what is left returns.
ChainBreaks(cs) ==
    {b \in DOMAIN cs :
        /\ Chainable(cs[b]) /\ RunFirst(cs, b) < b
        /\ \A e \in b..RunLast(cs, b) : ChainReturns(SubSeq(cs, RunFirst(cs, b), e))}

\* The steps driven together from step i.
Chain(cs, i) ==
    LET ends == {k \in i..RunLast(cs, i) : (i + 1)..k \cap ChainBreaks(cs) = {}}
    IN  SubSeq(cs, i, Greatest(ends))

\* The metres driven before step j of the chain, and before its end.
Metres(chain) ==
    LET f[j \in 1..(Len(chain) + 1)] ==
            IF j = 1 THEN 0 ELSE f[j - 1] + Len(chain[j - 1].path) - 1
    IN  f

\* The metres it takes to slow from one speed to another, and one more for the reaction.
TaperDist(v, next) == IF next >= v THEN 0 ELSE v - next + 1

\* Faulty variant: only the next step of the chain is looked at.
StepSpeedNext(chain, metres, j, k) ==
    LET here == metres[j] + k
        end == metres[Len(metres)] - here
        slower == {m \in (j + 1)..Len(chain) : m = j + 1 /\
                    metres[m] - here < TaperDist(chain[j].v, chain[m].v)}
    IN  Smallest({chain[j].v, end} \cup {chain[m].v : m \in slower})

\* The speed k metres into step j of the chain: its own, tapered to every slower step
\* further on, and to the stop at the end of the move.
StepSpeed(chain, metres, j, k) ==
    LET here == metres[j] + k
        end == metres[Len(metres)] - here
        slower == {m \in (j + 1)..Len(chain) :
                    metres[m] - here < TaperDist(chain[j].v, chain[m].v)}
    IN  Smallest({chain[j].v, end} \cup {chain[m].v : m \in slower})

-----------------------------------------------------------------------------
(* The executor: where the vehicle is driven *)

\* Faulty variant: a path is measured from where the vehicle stands, as a turn is.
DrivenPathRelative(p, c) ==
    [k \in DOMAIN c.path |->
        [c.path[k] EXCEPT !.at = <<@[1] + p.at[1] - c.start.at[1], @[2] + p.at[2] - c.start.at[2]>>]]

\* A Spin turns where the vehicle stands.
SpunPath(p, c) == [k \in DOMAIN c.path |-> [c.path[k] EXCEPT !.at = p.at]]

\* The poses step c takes a vehicle through that stands at p: a path is one of the map's frame,
\* wherever the vehicle comes onto it; a wait stands.
DrivenPath(p, c) ==
    CASE c.kind = "rotate" -> SpunPath(p, c)
      [] c.kind = "wait" -> <<p>>
      [] OTHER -> c.path

\* Where it stands when the step is done: the end of a path is verified against the compiled
\* one, of a turn the heading and that the vehicle did not leave where it turned.
StandsAfter(p, c) ==
    CASE c.kind = "rotate" -> [c.end EXCEPT !.at = p.at] [] c.kind = "wait" -> p [] OTHER -> c.end

\* Where it stands before each step of a pass that sets out from p, and after the last.
Stands(p, moves) ==
    LET f[n \in 1..(Len(moves) + 1)] ==
            IF n = 1 THEN p ELSE StandsAfter(f[n - 1], moves[n - 1])
    IN  f

\* Where each pass of a saved route sets out: nothing looks at the pose between two passes.
Outsets(e) ==
    LET g[n \in 1..e.route.repeat] ==
            IF n = 1 THEN e.route.start ELSE Stands(g[n - 1], e.moves)[Len(e.moves) + 1]
    IN  g

-----------------------------------------------------------------------------

\* The maps the routes are drawn on.
Worlds ==
    LET free == [occ |-> {}, unk |-> {}, keep |-> {}, dyn |-> {}]
    IN  {[free EXCEPT !.occ = {<<3, 2>>}, !.dyn = {<<3, 2>>, <<4, 1>>}, !.keep = {<<4, 1>>}],
         [free EXCEPT !.unk = {<<2, 2>>}, !.occ = {<<0, 3>>}]}

PlanInit ==
    /\ world \in Worlds /\ session \in {"drawing", "branching"}
    /\ session = "branching" => world.unk = {}
    /\ draft = Blank /\ picked = Nobody /\ mains = <<>> /\ poss = <<>> /\ astray = FALSE

PlanNext ==
    \/ Draw \/ Undo \/ SplitStraight \/ SetStart \/ SetRepeat
    \/ StartBranch \/ RejoinMain \/ AutoBranch \/ Rebase
    \/ SaveMain \/ SavePos \/ RemoveMain

PlanSpec == PlanInit /\ [][PlanNext]_planVars

-----------------------------------------------------------------------------
(* What a saved route is driven like *)

Saved == Range(mains) \cup Range(poss)

\* The cells a vehicle that stands at p is over in step c: wherever it stands, and where its
\* nose comes by as it turns on the spot.
Over(p, c) ==
    LET path == DrivenPath(p, c)
    IN  (UNION {Footprint(path[k]) : k \in DOMAIN path})
        \cup (IF c.kind = "rotate" THEN {Nose(path[k], path[k + 1]) : k \in 1..(Len(path) - 1)}
              ELSE {})

SeenFree(cells) ==
    /\ cells \subseteq Cells
    /\ cells \cap world.keep = {}
    /\ \A c \in cells : c \in world.dyn \/ c \notin world.occ \cup world.unk

\* Step i follows a path, or comes after one that does.
OnPath(moves, i) == \E j \in 1..i : moves[j].kind \notin {"rotate", "wait"}

\* On a saved route the vehicle, every pass from where the last one really ended, is never over
\* a cell that is off the map, kept out, or neither seen free nor in an area declared dynamic;
\* and no step begins farther than the closing error from where it was compiled to.  What was
\* approved is the pass from the start: what a later one, whose route does not close exactly,
\* is over before it comes onto its first path (turns where the last pass ended, and the metre
\* to the path) nobody looked at, and is excepted.  (validate.py, footprint.py and the closing
\* error of compiler.py, against _follow_path, _send_spin and what the end of a step verifies)
DrivenIsCleared ==
    \A e \in Saved : \A n \in 1..e.route.repeat :
        LET start == Outsets(e)[n]
            at == Stands(start, e.moves)
        IN  \A i \in DOMAIN e.moves :
                /\ IsNear(at[i], e.moves[i].start)
                /\ start = e.route.start \/ OnPath(e.moves, i) => SeenFree(Over(at[i], e.moves[i]))

\* No move, from whatever step it sets out, comes by its own goal before its end: the goal
\* checker would take the first time for the arrival.  (chain_breaks in the route executor)
GoalIsReachedLast ==
    \A e \in Saved : \A i \in DOMAIN e.moves :
        Chainable(e.moves[i]) =>
            LET chain == Chain(e.moves, i)
                goal == chain[Len(chain)].end.at
            IN  \A j \in DOMAIN chain : \A k \in DOMAIN chain[j].path :
                    chain[j].path[k].at = goal => j = Len(chain) /\ k = Len(chain[j].path)

\* Driven at once as fast as each step's cap allows, braking one level a metre and reacting a
\* metre late, the vehicle is never faster than the step it is on.  (_step_speed)
SpeedFitsTheStep ==
    \A e \in Saved : \A i \in DOMAIN e.moves :
        Chainable(e.moves[i]) =>
            LET chain == Chain(e.moves, i)
                metres == Metres(chain)
                step(n) == Greatest({j \in DOMAIN chain : metres[j] < n})
                cap(n) == StepSpeed(chain, metres, step(n), n - 1 - metres[step(n)])
                speed[n \in 1..metres[Len(metres)]] ==
                    IF n = 1 THEN cap(1) ELSE Greatest({cap(n - 1), speed[n - 1] - 1})
            IN  \A n \in DOMAIN speed : speed[n] <= chain[step(n)].v

\* Every main step of r ends where it ends on the main route r names, and the branch where
\* that goes on: on the end of the step it rejoins after, or where it left a straight inside.
RunsAsDrawn(r) ==
    LET b == r.branch
        main == Named(b)
        li == IndexOf(main.steps, b.leave)
        ri == IndexOf(main.steps, b.rejoin)
        idOf(i) == IF i = li /\ b.at # <<>> THEN b.split ELSE main.steps[i].id
    IN  /\ \A i \in DOMAIN main.steps \ ((li + 1)..ri) :
              PoseAfter(r, IndexOf(r.steps, idOf(i))) = PoseAfter(main, i)
        /\ PoseAfter(r, li + Len(b.own)) =
              IF b.at = <<>> THEN PoseAfter(main, ri) ELSE PoseAfter(r, li)

\* A saved POS route runs as drawn: the main steps as on the main route, the branch from it and
\* back to it.  (OPERATE_AMR_QR.md: the branch has to end on the pose of the step it goes on
\* after; Rejoin main, Rebase and branch_problem.)  As long as no revision was removed, which
\* Rebase compares with, and no edit went unseen.
MainRunsAsDrawn ==
    (~astray /\ \A n \in DOMAIN mains : ~mains[n].gone) =>
    \A e \in Range(poss) : RunsAsDrawn(e.route)
=============================================================================
