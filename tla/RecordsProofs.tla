-------------------------- MODULE RecordsProofs -----------------------------
(***************************************************************************)
(* The verdict of UptimeMarker, proved for every number of boots. It reads *)
(* nothing but the marker and the boot time, so what has to hold is what   *)
(* the marker says of a run: of the one under way, that it is of this      *)
(* boot; of the one before, how it ended. Then the checkpoint, for every   *)
(* mission; the journal of the supervisor, for every history; the keypad   *)
(* and the panel of the operator, for every number of keys and scans.      *)
(***************************************************************************)
EXTENDS MCRecords, SequenceTheorems, FiniteSetTheorems, WellFoundedInduction, TLAPS

Lives == {"down", "starting", "running", "stopping", "leaving"}

\* The types that the argument needs.
LifeOK ==
  /\ life \in Lives /\ ended \in {"stopped", "left", "killed", "cut"}
  /\ marked \in BOOLEAN
  /\ boot \in Nat \ {0} /\ marker \in Nat /\ clock \in {"kept", "back", "ahead"}

\* A run that got its marker onto the disk is marked in the boot it lives in.
RunIsMarked ==
  life \in {"running", "stopping"} /\ marked = TRUE => marker = boot

\* Only a stop is left after it came to its marker.
LeavingStopped == life = "leaving" => ended \in {"stopped", "left"}

\* What a run left behind is how it ended.
EndIsMarked ==
  life \in {"down", "starting", "leaving"} =>
    /\ ended = "stopped" => marker = 0
    /\ marked = TRUE /\ ended = "killed" => marker = boot
    /\ marked = TRUE /\ ended = "cut" => marker \in 1..(boot - 1)

MarkerIInv == LifeOK /\ RunIsMarked /\ LeavingStopped /\ EndIsMarked

LEMMA InitMarkerIInv == MarkerInit => MarkerIInv
<1> SUFFICES ASSUME MarkerInit PROVE MarkerIInv
  OBVIOUS
<1>1. boot \in Nat \ {0} /\ marker \in Nat
  BY DEF MarkerInit
<1>2. /\ life = "down" /\ ended = "stopped" /\ marked = FALSE /\ marker = 0 /\ clock = "kept"
  BY DEF MarkerInit
<1>3. LifeOK
  BY <1>1, <1>2, Zenon DEF LifeOK, Lives
<1> QED
  BY <1>2, <1>3 DEF MarkerIInv, RunIsMarked, LeavingStopped, EndIsMarked

\* A step of a run, before it ends.
LEMMA RunKeepsMarkerIInv ==
  ASSUME MarkerIInv, Starts \/ BootReport \/ ModeChange \/ StopBegins
  PROVE  MarkerIInv'
<1> USE DEF MarkerIInv, LifeOK, Lives, RunIsMarked, LeavingStopped, EndIsMarked
<1>1. CASE Starts
  BY <1>1 DEF Starts
<1>2. CASE BootReport
  BY <1>2 DEF BootReport
<1>3. CASE ModeChange
  BY <1>3 DEF ModeChange, MarkWritten
<1>4. CASE StopBegins
  BY <1>4 DEF StopBegins, MarkWritten
<1> QED
  BY <1>1, <1>2, <1>3, <1>4

\* The end of a run: its stop, its death, or that of the machine.
LEMMA EndKeepsMarkerIInv ==
  ASSUME MarkerIInv, StopEnds \/ LastStepOfLoop \/ RunKilled \/ MachineCut \/ ClockSet
  PROVE  MarkerIInv'
<1> USE DEF MarkerIInv, LifeOK, Lives, RunIsMarked, LeavingStopped, EndIsMarked
<1>1. CASE StopEnds
  BY <1>1 DEF StopEnds
<1>2. CASE LastStepOfLoop
  BY <1>2 DEF LastStepOfLoop, MarkWritten
<1>3. CASE RunKilled
  BY <1>3 DEF RunKilled, RunInterrupted
<1>4. CASE MachineCut
  <2>1. CASE life \in {"down", "leaving"} /\ ended \in {"stopped", "left"}
    BY <1>4, <2>1 DEF MachineCut
  <2>2. CASE ~(life \in {"down", "leaving"} /\ ended \in {"stopped", "left"})
    <3>1. /\ life' = "down" /\ ended' = "cut" /\ boot' = boot + 1 /\ marker' = marker
          /\ clock' = clock /\ marked' = (marked /\ life # "starting")
      BY <1>4, <2>2 DEF MachineCut, RunInterrupted
    <3>2. CASE marked = TRUE /\ life # "starting"
      <4>1. marker \in 1..boot
        BY <2>2, <3>2
      <4> QED
        BY <3>1, <4>1
    <3>3. CASE ~(marked = TRUE /\ life # "starting")
      <4>1. marked' = FALSE
        BY <3>1, <3>3, Zenon
      <4> QED
        BY <3>1, <4>1
    <3> QED
      BY <3>2, <3>3
  <2> QED
    BY <2>1, <2>2
<1>5. CASE ClockSet
  BY <1>5 DEF ClockSet
<1> QED
  BY <1>1, <1>2, <1>3, <1>4, <1>5

\* The marker always says of a run what the invariant says.
THEOREM MarkerInvariant == MarkerSpec => []MarkerIInv
<1>1. ASSUME MarkerIInv, [MarkerNext]_markerVars PROVE MarkerIInv'
  <2>1. CASE MarkerNext
    BY <1>1, <2>1, RunKeepsMarkerIInv, EndKeepsMarkerIInv DEF MarkerNext
  <2>2. CASE UNCHANGED markerVars
    BY <1>1, <2>2
    DEF markerVars, MarkerIInv, LifeOK, RunIsMarked, LeavingStopped, EndIsMarked
  <2> QED
    BY <1>1, <2>1, <2>2
<1> QED
  BY InitMarkerIInv, <1>1, PTL DEF MarkerSpec

\* What a start says of the run before (verdict() of uptime.py), for any number of boots and
\* restarts: the report is the only step that leaves "starting" for "running", and the
\* invariant tells it the marker.
THEOREM VerdictHolds == MarkerSpec => VerdictIsTrue
<1> DEFINE Told ==
      life = "starting" /\ life' = "running" =>
        /\ ended = "stopped" => verdict' = "none"
        /\ marked /\ ended \in {"killed", "cut"} => verdict' # "none"
        /\ marked /\ ended = "cut" /\ (bootRead => clock # "back") => verdict' = "power_loss"
        /\ marked /\ ended = "killed" /\ bootRead /\ clock # "ahead" =>
              verdict' = "service_crash"
<1>1. ASSUME MarkerIInv, MarkerNext, life = "starting", life' = "running" PROVE Told
  <2>1. BootReport
    BY <1>1 DEF MarkerNext, Starts, ModeChange, StopBegins, StopEnds, LastStepOfLoop, RunKilled,
                MachineCut, RunInterrupted, ClockSet
  <2>2. verdict' = Verdict
    BY <2>1 DEF BootReport
  <2>3. /\ ended = "stopped" => marker = 0
        /\ marked = TRUE /\ ended = "killed" => marker = boot
        /\ marked = TRUE /\ ended = "cut" => marker \in 1..(boot - 1)
        /\ boot \in Nat \ {0} /\ clock \in {"kept", "back", "ahead"} /\ marked \in BOOLEAN
    BY <1>1 DEF MarkerIInv, LifeOK, EndIsMarked
  <2>4. ended = "stopped" => verdict' = "none"
    BY <2>2, <2>3 DEF Verdict
  <2>5. ASSUME marked = TRUE, ended = "killed"
        PROVE  /\ verdict' # "none"
               /\ bootRead /\ clock # "ahead" => verdict' = "service_crash"
    <3>1. marker = boot /\ marker # 0 /\ ~(marker < boot)
      BY <2>3, <2>5
    <3> QED
      BY <2>2, <2>3, <3>1, Zenon DEF Verdict
  <2>6. ASSUME marked = TRUE, ended = "cut"
        PROVE  /\ verdict' # "none"
               /\ (bootRead => clock # "back") => verdict' = "power_loss"
    <3>1. marker # 0 /\ marker < boot
      BY <2>3, <2>6
    <3>2. (bootRead => clock # "back") => ~bootRead \/ clock = "ahead" \/ (clock = "kept" /\ marker < boot)
      BY <2>3, <3>1, Zenon
    <3> QED
      BY <2>2, <3>1, <3>2, Zenon DEF Verdict
  <2> QED
    BY <2>3, <2>4, <2>5, <2>6, Zenon
<1>2. MarkerIInv /\ [MarkerNext]_markerVars => [Told]_markerVars
  BY <1>1
<1> QED
  BY MarkerInvariant, <1>2, PTL DEF MarkerSpec, VerdictIsTrue

-----------------------------------------------------------------------------
(***************************************************************************)
(* The checkpoint of a stopped run.                                        *)
(***************************************************************************)

\* A stop, or what was made of one, is of a run that was abandoned there.
Happened(s) == <<s.mission, s.place>> \in abandoned

\* What each thread has in hand is a stop, and later a checkpoint of one.
InHand ==
    /\ pc \in [Threads -> {"idle", "sync", "build", "save"}] /\ DOMAIN job = Threads
    /\ lastStop # None => Happened(lastStop)
    /\ \A t \in Threads : /\ pc[t] = "build" => Happened(job[t])
                          /\ pc[t] = "save" /\ job[t] # None => Happened(job[t])

CheckpointIInv == InHand /\ CheckpointIsTrue

\* It holds when the node starts.
LEMMA CheckpointInit == Init => CheckpointIInv
  BY DEF Init, CheckpointIInv, InHand, CheckpointIsTrue, CheckpointWasAbandoned,
         ContinuesStoppedRoute

\* The handlers that record no stop keep it.
LEMMA HandlerKeeps ==
    ASSUME CheckpointIInv,
           Load \/ Rejoin \/ StartContinued \/ Drive \/ StepDone \/ Ack \/ Unready \/ Jog
    PROVE  CheckpointIInv'
<1> USE DEF CheckpointIInv
<1>1. UNCHANGED <<lastStop, cp, file, job, abandoned>>
  BY DEF Load, Rejoin, StartContinued, Drive, StepDone, Ack, Unready, Jog, ThenPublish, history,
         runVars, syncVars
<1>2. /\ pc' = pc \/ pc' = [pc EXCEPT !["handler"] = "sync"]
  BY DEF Load, Rejoin, StartContinued, Drive, StepDone, Ack, Unready, Jog, ThenPublish, syncVars
<1>3. \A t \in Threads : pc'[t] = pc[t] \/ pc'[t] = "sync"
  BY <1>2 DEF InHand
<1>4. InHand'
  <2>1. pc' \in [Threads -> {"idle", "sync", "build", "save"}] /\ DOMAIN job' = Threads
    BY <1>1, <1>2 DEF InHand
  <2> QED
    BY <1>1, <1>3, <2>1 DEF InHand, Happened
<1>5. CheckpointWasAbandoned'
  BY <1>1 DEF CheckpointIsTrue, CheckpointWasAbandoned
<1>6. ContinuesStoppedRoute'
  <2>1. CASE Load
    BY <2>1 DEF Load, ContinuesStoppedRoute
  <2>2. CASE Rejoin
    <3>1. cp # None /\ mission' = cp.mission /\ loadedFrom' = cp /\ cp.route = cp.mission
      BY <2>2 DEF Rejoin
    <3>2. <<cp.mission, cp.place>> \in abandoned
      BY <3>1 DEF CheckpointIsTrue, CheckpointWasAbandoned
    <3> QED
      BY <1>1, <3>1, <3>2 DEF ContinuesStoppedRoute
  <2>3. CASE StartContinued
    <3>1. state = "READY" /\ startAt # 0 /\ UNCHANGED <<mission, loadedFrom>>
      BY <2>3 DEF StartContinued
    <3> QED
      BY <1>1, <3>1 DEF CheckpointIsTrue, ContinuesStoppedRoute
  <2>4. CASE StepDone \/ Ack \/ Unready
    <3>1. state' # "READY"
      BY <2>4 DEF StepDone, Ack, Unready
    <3> QED
      BY <3>1 DEF ContinuesStoppedRoute
  <2>5. CASE Drive \/ Jog
    BY <1>1, <2>5 DEF Drive, Jog, runVars, CheckpointIsTrue, ContinuesStoppedRoute
  <2> QED
    BY <2>1, <2>2, <2>3, <2>4, <2>5
<1> QED
  BY <1>4, <1>5, <1>6 DEF CheckpointIsTrue

\* So do those that end a run or the node.
LEMMA StopKeeps ==
    ASSUME CheckpointIInv, StartFresh \/ Abandon \/ Restart
    PROVE  CheckpointIInv'
<1> USE DEF CheckpointIInv
<1>0. ContinuesStoppedRoute'
  <2>1. state' # "READY"
    BY DEF StartFresh, Abandon, Restart
  <2> QED
    BY <2>1 DEF ContinuesStoppedRoute
<1>1. CASE StartFresh
  <2>1. /\ cp' = None /\ UNCHANGED <<lastStop, file, abandoned>>
        /\ pc' = [pc EXCEPT !["handler"] = IF cp = None THEN "sync" ELSE "save"]
        /\ job' = [job EXCEPT !["handler"] = None]
    BY <1>1 DEF StartFresh
  <2>2. CheckpointWasAbandoned'
    BY <2>1 DEF CheckpointIsTrue, CheckpointWasAbandoned
  <2>3. InHand'
    <3>1. pc' \in [Threads -> {"idle", "sync", "build", "save"}] /\ DOMAIN job' = Threads
      BY <2>1 DEF InHand
    <3>2. \A t \in Threads : \/ pc'[t] = pc[t] /\ job'[t] = job[t]
                             \/ pc'[t] # "build" /\ job'[t] = None
      BY <2>1 DEF InHand
    <3> QED
      BY <2>1, <3>1, <3>2 DEF InHand, Happened
  <2> QED
    BY <1>0, <2>2, <2>3 DEF CheckpointIsTrue
<1>2. CASE Abandon
  <2>1. /\ UNCHANGED <<cp, file, job>>
        /\ lastStop' = [id |-> stops + 1, mission |-> mission, place |-> place]
        /\ abandoned' = abandoned \cup {<<mission, place>>}
        /\ pc' = [pc EXCEPT !["handler"] = "sync"]
    BY <1>2 DEF Abandon, ThenPublish
  <2>2. CheckpointWasAbandoned'
    BY <2>1 DEF CheckpointIsTrue, CheckpointWasAbandoned
  <2>3. lastStop'.mission = mission /\ lastStop'.place = place
    BY <2>1
  <2>4. InHand'
    <3>1. pc' \in [Threads -> {"idle", "sync", "build", "save"}] /\ DOMAIN job' = Threads
      BY <2>1 DEF InHand
    <3>2. \A t \in Threads : pc'[t] = pc[t] \/ pc'[t] = "sync"
      BY <2>1 DEF InHand
    <3> QED
      BY <2>1, <2>3, <3>1, <3>2 DEF InHand, Happened
  <2> QED
    BY <1>0, <2>2, <2>4 DEF CheckpointIsTrue
<1>3. CASE Restart
  <2>1. /\ cp' = file /\ UNCHANGED <<file, abandoned>> /\ lastStop' = None
        /\ pc' = [t \in Threads |-> "idle"] /\ job' = [t \in Threads |-> None]
    BY <1>3 DEF Restart
  <2>2. CheckpointWasAbandoned'
    BY <2>1 DEF CheckpointIsTrue, CheckpointWasAbandoned
  <2>3. InHand'
    BY <2>1 DEF InHand
  <2> QED
    BY <1>0, <2>2, <2>3 DEF CheckpointIsTrue
<1> QED
  BY <1>1, <1>2, <1>3

\* So does the thread that writes the checkpoint.
LEMMA SyncKeeps ==
    ASSUME CheckpointIInv, NothingToSync \/ \E t \in Threads : Sync(t)
    PROVE  CheckpointIInv'
<1> USE DEF CheckpointIInv
<1>1. UNCHANGED <<state, mission, startAt, loadedFrom, lastStop, abandoned>>
  BY DEF NothingToSync, Sync, Claim, ClaimDone, Build, Save, runVars, history
<1>2. ContinuesStoppedRoute'
  BY <1>1 DEF CheckpointIsTrue, ContinuesStoppedRoute
<1>3. CASE NothingToSync
  <2>1. pc' = [pc EXCEPT !["handler"] = "idle"] /\ UNCHANGED <<cp, file, job>>
    BY <1>3 DEF NothingToSync
  <2>2. pc' \in [Threads -> {"idle", "sync", "build", "save"}]
        /\ \A t \in Threads : pc'[t] = pc[t] \/ pc'[t] = "idle"
    BY <2>1 DEF InHand
  <2>3. InHand' /\ CheckpointWasAbandoned'
    BY <1>1, <2>1, <2>2 DEF InHand, Happened, CheckpointIsTrue, CheckpointWasAbandoned
  <2> QED
    BY <1>2, <2>3 DEF CheckpointIsTrue
<1>4. ASSUME NEW t \in Threads, NEW at \in {"idle", "build", "save"}, NEW now,
             pc' = [pc EXCEPT ![t] = at], job' = [job EXCEPT ![t] = now],
             at # "idle" => now = None \/ Happened(now),
             at = "build" => Happened(now)
      PROVE  InHand'
  <2>1. pc' \in [Threads -> {"idle", "sync", "build", "save"}] /\ DOMAIN job' = Threads
    BY <1>4 DEF InHand
  <2>2. \A u \in Threads : \/ pc'[u] = pc[u] /\ job'[u] = job[u]
                           \/ pc'[u] = at /\ job'[u] = now
    BY <1>4 DEF InHand
  <2>3. ASSUME NEW u \in Threads
        PROVE  /\ pc'[u] = "build" => <<job'[u].mission, job'[u].place>> \in abandoned'
               /\ pc'[u] = "save" /\ job'[u] # None => <<job'[u].mission, job'[u].place>> \in abandoned'
    <3>1. CASE pc'[u] = pc[u] /\ job'[u] = job[u]
      BY <1>1, <3>1 DEF InHand, Happened
    <3>2. CASE pc'[u] = at /\ job'[u] = now
      BY <1>1, <1>4, <3>2 DEF Happened
    <3> QED
      BY <2>2, <3>1, <3>2
  <2> QED
    BY <1>1, <2>1, <2>3 DEF InHand, Happened
<1>5. ASSUME NEW t \in Threads, Claim(t) PROVE CheckpointIInv'
  <2>1. /\ pc' = [pc EXCEPT ![t] = "build"] /\ job' = [job EXCEPT ![t] = lastStop]
        /\ UNCHANGED <<cp, file>> /\ lastStop # None
    BY <1>5 DEF Claim, Unsaved
  <2>2. Happened(lastStop)
    BY <2>1 DEF InHand
  <2>3. InHand'
    BY <1>4, <2>1, <2>2
  <2> QED
    BY <1>1, <1>2, <2>1, <2>3 DEF CheckpointIsTrue, CheckpointWasAbandoned
<1>6. ASSUME NEW t \in Threads, ClaimDone(t) PROVE CheckpointIInv'
  <2>1. /\ pc' = [pc EXCEPT ![t] = "save"] /\ job' = [job EXCEPT ![t] = None]
        /\ cp' = None /\ UNCHANGED file
    BY <1>6 DEF ClaimDone
  <2>2. InHand'
    BY <1>4, <2>1
  <2> QED
    BY <1>1, <1>2, <2>1, <2>2 DEF CheckpointIsTrue, CheckpointWasAbandoned
<1>7. ASSUME NEW t \in Threads, Build(t) PROVE CheckpointIInv'
  <2> DEFINE c == [id |-> job[t].id, mission |-> job[t].mission, place |-> job[t].place,
                   route |-> mission]
  <2>1. /\ pc[t] = "build" /\ pc' = [pc EXCEPT ![t] = "save"] /\ job' = [job EXCEPT ![t] = c]
        /\ cp' = c /\ UNCHANGED file
    BY <1>7 DEF Build
  <2>2. Happened(job[t]) /\ c.mission = job[t].mission /\ c.place = job[t].place
    BY <2>1 DEF InHand
  <2> HIDE DEF c
  <2>3. Happened(c)
    BY <2>2 DEF Happened
  <2>4. InHand'
    BY <1>4, <2>1, <2>3
  <2> QED
    BY <1>1, <1>2, <2>1, <2>3, <2>4 DEF CheckpointIsTrue, CheckpointWasAbandoned, Happened
<1>8. ASSUME NEW t \in Threads, Save(t) PROVE CheckpointIInv'
  <2>1. /\ pc[t] = "save" /\ pc' = [pc EXCEPT ![t] = "idle"] /\ job' = [job EXCEPT ![t] = None]
        /\ file' \in {job[t], file} /\ UNCHANGED cp
    BY <1>8 DEF Save
  <2>2. InHand'
    BY <1>4, <2>1
  <2>3. job[t] # None => Happened(job[t])
    BY <2>1 DEF InHand
  <2> QED
    BY <1>1, <1>2, <2>1, <2>2, <2>3 DEF CheckpointIsTrue, CheckpointWasAbandoned, Happened
<1> QED
  BY <1>3, <1>5, <1>6, <1>7, <1>8 DEF Sync

\* However the handlers, the timer's thread and a restart come in between: a checkpoint is of a run
\* that was abandoned where it says, and what is continued is the route of that run
\* (_sync_checkpoint, _record_stop, _srv_rejoin, checkpoint_mismatch).
THEOREM CheckpointsAreTrue == Spec => []CheckpointIsTrue
<1>1. CheckpointIInv /\ [Next]_vars => CheckpointIInv'
  <2> SUFFICES ASSUME CheckpointIInv, [Next]_vars PROVE CheckpointIInv'
    OBVIOUS
  <2>1. CASE UNCHANGED vars
    BY <2>1
    DEF vars, runVars, syncVars, history, CheckpointIInv, InHand, Happened, CheckpointIsTrue,
        CheckpointWasAbandoned, ContinuesStoppedRoute
  <2> QED
    BY <2>1, HandlerKeeps, StopKeeps, SyncKeeps DEF Next
<1>2. CheckpointIInv => CheckpointIsTrue
  BY DEF CheckpointIInv
<1> QED
  BY <1>1, <1>2, CheckpointInit, PTL DEF Spec

-----------------------------------------------------------------------------
(***************************************************************************)
(* The journal of the supervisor. Where an operation is written it keeps   *)
(* its place and its request; what leaves the book is older than the       *)
(* HistoryLimit latest; and the index loses a request with a record only   *)
(* when the record goes, or an older one of the same request does.         *)
(***************************************************************************)

OpsRise(b, bound) ==
  /\ \A i, j \in DOMAIN b : i <= j => b[i].op + (j - i) <= b[j].op
  /\ \A i \in DOMAIN b : b[i].op <= bound

\* Where an operation stands, it stands with the request it was carried out for.
Signed(b, done) ==
  \A r \in Requests : \A o \in done[r] : \A i \in DOMAIN b : b[i].op = o => b[i].req = r

Has(b, o) == \E i \in DOMAIN b : b[i].op = o

JournalShapes ==
  /\ book \in Seq(OpRecord) /\ disk \in Seq(OpRecord)
  /\ byRequest \in [Requests -> 0..MaxRecords]
  /\ tail \in OpRecord \union {Torn, Closed}
  /\ issued \in 0..MaxRecords /\ starts \in 0..MaxStarts /\ serving \in BOOLEAN
  /\ carried \in [Requests -> SUBSET (1..MaxRecords)]
  /\ damaged \subseteq Requests /\ unfound \subseteq AnyRequest

\* The file: its operations rise, a whole last line is the latest of them, and what an
\* undamaged request did is in it.
FileIInv ==
  /\ \A r \in Requests : \A o \in carried[r] : o <= issued
  /\ OpsRise(disk, issued)
  /\ tail \in OpRecord => tail.op <= issued /\ \A i \in DOMAIN disk : disk[i].op <= tail.op
  /\ Signed(disk, carried)
  /\ \A r \in Requests : \A o \in carried[r] : tail.op = o => tail.req = r
  /\ \A r \in Requests \ damaged : \A o \in carried[r] : Has(disk, o) \/ tail.op = o

\* The book of a supervisor that is up.
BookIInv ==
  serving =>
    /\ OpsRise(book, issued)
    /\ Signed(book, carried)
    /\ \A i \in DOMAIN book : book[i].status = "pending" => i = Len(book) /\ book[i].op = issued
    /\ \A r \in Requests \ damaged : \A o \in carried[r] :
         issued < o + HistoryLimit => Has(book, o)
    /\ \A r \in Requests \ unfound : byRequest[r] = 0 => \A i \in DOMAIN book : book[i].req # r

JournalIInv == JournalShapes /\ FileIInv /\ BookIInv /\ RunsOnce

\* Every set of naturals with a bound that is not empty has a greatest element.
LEMMA GreatestElement ==
    ASSUME NEW N \in Nat, NEW T \in SUBSET (0..N), T # {}
    PROVE  \E o \in T : \A p \in T : p <= o
<1> DEFINE U == {N - o : o \in T}
<1>1. U \in SUBSET Nat /\ U # {}
  <2>1. \A o \in T : o \in Int /\ N - o \in Nat
    OBVIOUS
  <2>2. PICK o \in T : TRUE
    OBVIOUS
  <2> QED
    BY <2>1, <2>2
<1>2. PICK u \in U : \A v \in U : ~(<<v, u>> \in OpToRel(<, Nat))
  <2> HIDE DEF U
  <2> QED
    BY <1>1, WFMin, NatLessThanWellFounded, Zenon
<1>3. PICK o \in T : u = N - o
  BY <1>2
<1>4. ASSUME NEW p \in T PROVE p <= o
  <2>1. N - p \in U /\ N - p \in Nat /\ u \in Nat
    BY <1>1, <1>2
  <2>2. \A i, j \in Nat : i < j => <<i, j>> \in OpToRel(<, Nat)
    BY DEF OpToRel
  <2>3. ~(N - p < u)
    <3> HIDE DEF U
    <3> QED
      BY <1>2, <2>1, <2>2, Zenon
  <2> QED
    BY <1>3, <2>1, <2>3
<1> QED
  BY <1>3, <1>4

\* What a journal consists of.
LEMMA RecordsAreThere ==
    ASSUME NEW b \in Seq(OpRecord)
    PROVE  /\ Len(b) \in Nat /\ DOMAIN b = 1..Len(b)
           /\ \A i \in 1..Len(b) : b[i] \in OpRecord
  BY LenProperties, ElementOfSeq

\* What Put does to a journal: one record, in its place or at the end.
LEMMA PutPlaces ==
    ASSUME NEW b \in Seq(OpRecord), NEW rec \in OpRecord
    PROVE  /\ Put(b, rec) \in Seq(OpRecord)
           /\ Has(Put(b, rec), rec.op)
           /\ \A i \in DOMAIN b : /\ i \in DOMAIN Put(b, rec)
                                  /\ b[i].op = rec.op => Put(b, rec)[i] = rec
                                  /\ b[i].op # rec.op => Put(b, rec)[i] = b[i]
           /\ \/ DOMAIN Put(b, rec) = DOMAIN b /\ Has(b, rec.op)
              \/ /\ ~Has(b, rec.op)
                 /\ DOMAIN Put(b, rec) = 1..(Len(b) + 1)
                 /\ Put(b, rec)[Len(b) + 1] = rec
<1> DEFINE new == [i \in DOMAIN b |-> IF b[i].op = rec.op THEN rec ELSE b[i]]
<1>0. /\ Len(b) \in Nat /\ DOMAIN b = 1..Len(b)
      /\ \A i \in 1..Len(b) : b[i] \in OpRecord
  BY RecordsAreThere
<1>1. CASE Has(b, rec.op)
  <2>1. Put(b, rec) = new
    BY <1>1 DEF Put, Has
  <2>2. new \in [1..Len(b) -> OpRecord]
    BY <1>0
  <2>3. new \in Seq(OpRecord)
    BY <1>0, <2>2, SeqDef
  <2>4. Has(new, rec.op)
    BY <1>1, <2>2, <1>0 DEF Has
  <2> QED
    BY <1>0, <1>1, <2>1, <2>2, <2>3, <2>4
<1>2. CASE ~Has(b, rec.op)
  <2>1. Put(b, rec) = Append(b, rec)
    BY <1>2 DEF Put, Has
  <2>2. /\ Append(b, rec) \in Seq(OpRecord) /\ Len(Append(b, rec)) = Len(b) + 1
        /\ \A i \in 1..Len(b) : Append(b, rec)[i] = b[i]
        /\ Append(b, rec)[Len(b) + 1] = rec
    BY AppendProperties
  <2>3. DOMAIN Append(b, rec) = 1..(Len(b) + 1)
    BY <2>2, LenProperties
  <2>4. Has(Append(b, rec), rec.op)
    BY <1>0, <2>2, <2>3 DEF Has
  <2>5. \A i \in DOMAIN b : /\ i \in DOMAIN Append(b, rec)
                            /\ b[i].op = rec.op => Append(b, rec)[i] = rec
                            /\ b[i].op # rec.op => Append(b, rec)[i] = b[i]
    <3>1. ASSUME NEW i \in DOMAIN b
          PROVE  i \in 1..(Len(b) + 1) /\ i \in 1..Len(b) /\ b[i].op # rec.op
      BY <1>0, <1>2 DEF Has
    <3> QED
      BY <2>2, <2>3, <3>1
  <2> QED
    BY <1>2, <2>1, <2>2, <2>3, <2>4, <2>5, Zenon
<1> QED
  BY <1>1, <1>2

\* What a record is put into stays in order, when it is the latest or has a place there.
LEMMA PutRises ==
    ASSUME NEW b \in Seq(OpRecord), NEW rec \in OpRecord, NEW bound \in Nat, OpsRise(b, bound),
           rec.op <= bound, Has(b, rec.op) \/ \A i \in DOMAIN b : b[i].op <= rec.op
    PROVE  OpsRise(Put(b, rec), bound)
<1> DEFINE c == Put(b, rec)
<1>0. /\ Len(b) \in Nat /\ DOMAIN b = 1..Len(b)
      /\ \A i \in 1..Len(b) : b[i] \in OpRecord
  BY RecordsAreThere
<1>a. \A i \in 1..Len(b) : b[i].op \in Nat
  BY <1>0 DEF OpRecord
<1>b. rec.op \in Nat
  BY DEF OpRecord
<1>1. \A i \in DOMAIN b : c[i].op = b[i].op
  <2>1. ASSUME NEW i \in DOMAIN b PROVE c[i].op = b[i].op
    <3>1. (b[i].op = rec.op => c[i] = rec) /\ (b[i].op # rec.op => c[i] = b[i])
      BY PutPlaces
    <3> HIDE DEF c
    <3> QED
      BY <3>1
  <2> QED
    BY <2>1
<1>2. CASE DOMAIN c = DOMAIN b
  BY <1>1, <1>2 DEF OpsRise
<1>3. CASE /\ ~Has(b, rec.op) /\ DOMAIN c = 1..(Len(b) + 1) /\ c[Len(b) + 1] = rec
  <2> DEFINE n == Len(b)
  <2>1. \A i \in 1..n : b[i].op < rec.op
    <3>1. \A i \in 1..n : b[i].op # rec.op /\ b[i].op <= rec.op
      BY <1>0, <1>3 DEF Has
    <3> QED
      BY <1>a, <1>b, <3>1
  <2>2. \A i \in 1..n : b[i].op + (n - i) < rec.op
    <3>1. ASSUME NEW i \in 1..n PROVE b[i].op + (n - i) < rec.op
      <4>1. n \in 1..n /\ i <= n
        BY <1>0
      <4>2. b[i].op + (n - i) <= b[n].op
        BY <1>0, <4>1 DEF OpsRise
      <4>3. b[n].op < rec.op
        BY <2>1, <4>1
      <4> QED
        BY <1>0, <1>a, <1>b, <4>1, <4>2, <4>3
    <3> QED
      BY <3>1
  <2>3. ASSUME NEW i \in DOMAIN c, NEW j \in DOMAIN c, i <= j PROVE c[i].op + (j - i) <= c[j].op
    <3>1. CASE j \in 1..n
      <4>1. i \in 1..n /\ c[i].op = b[i].op /\ c[j].op = b[j].op
        BY <1>0, <1>1, <1>3, <2>3, <3>1
      <4> QED
        BY <1>0, <2>3, <3>1, <4>1 DEF OpsRise
    <3>2. CASE j = n + 1 /\ i \in 1..n
      <4>1. c[i].op = b[i].op /\ c[j].op = rec.op
        BY <1>0, <1>1, <1>3, <3>2
      <4> QED
        BY <1>0, <1>a, <1>b, <2>2, <3>2, <4>1
    <3>3. CASE j = n + 1 /\ i = n + 1
      BY <1>0, <1>3, <1>b, <3>3
    <3> QED
      BY <1>0, <1>3, <2>3, <3>1, <3>2, <3>3
  <2>4. ASSUME NEW i \in DOMAIN c PROVE c[i].op <= bound
    <3>1. i \in 1..n \/ i = n + 1
      BY <1>0, <1>3
    <3> QED
      BY <1>0, <1>1, <1>3, <3>1 DEF OpsRise
  <2> QED
    BY <2>3, <2>4 DEF OpsRise
<1> QED
  BY <1>2, <1>3, PutPlaces

\* Only the last record of a book can be pending.
LastPends(b) == \A i \in DOMAIN b : b[i].status = "pending" => i = Len(b)

\* Trimming takes the oldest records, as many as are too many.
LEMMA TrimmedPlaces ==
    ASSUME NEW b \in Seq(OpRecord), LastPends(b)
    PROVE  \E k \in 0..Len(b) :
             /\ Trimmed(b) \in Seq(OpRecord)
             /\ DOMAIN Trimmed(b) = 1..(Len(b) - k) /\ Len(Trimmed(b)) = Len(b) - k
             /\ \A i \in 1..(Len(b) - k) : Trimmed(b)[i] = b[i + k]
             /\ k = 0 \/ Len(b) = k + HistoryLimit
<1> DEFINE n == Len(b)
           excess == IF n > HistoryLimit THEN n - HistoryLimit ELSE 0
           ends == {m \in 0..excess : m = excess \/ b[m + 1].status = "pending"}
<1>0. /\ n \in Nat /\ DOMAIN b = 1..n
      /\ \A i \in 1..n : b[i] \in OpRecord
  BY RecordsAreThere, Zenon
<1>h. HistoryLimit \in Nat /\ 1 <= HistoryLimit
  BY JournalAssumption
<1>l. \A i \in 1..n : b[i].status = "pending" => i = n
  BY <1>0, Zenon DEF LastPends
<1> HIDE DEF n
<1>1. /\ excess \in 0..n /\ excess \in Nat
      /\ \/ excess = 0
         \/ n = excess + HistoryLimit
  BY <1>0, <1>h
<1>2. \A m \in 0..excess : m # excess => b[m + 1].status # "pending"
  BY <1>0, <1>h, <1>1, <1>l
<1>3. ends = {excess}
  BY <1>1, <1>2
<1>4. PICK k : k = excess
  OBVIOUS
<1>5. (CHOOSE m \in ends : \A j \in ends : m <= j) = k
  <2>1. k <= k
    BY <1>1, <1>4
  <2> HIDE DEF ends, excess
  <2> QED
    BY <1>3, <1>4, <2>1
<1>6. Trimmed(b) = SubSeq(b, k + 1, n)
  BY <1>5 DEF Trimmed, n, ends, excess
<1> HIDE DEF excess, ends
<1>7. k \in 0..n /\ (k = 0 \/ n = k + HistoryLimit)
  BY <1>1, <1>4
<1>8. /\ SubSeq(b, k + 1, n) \in Seq(OpRecord)
      /\ Len(SubSeq(b, k + 1, n)) = n - k
      /\ \A i \in 1..(n - k) : SubSeq(b, k + 1, n)[i] = b[i + k]
  <2>1. k + 1 \in Int /\ n \in Int /\ \A i \in (k + 1)..n : b[i] \in OpRecord
    BY <1>0, <1>7
  <2>2. /\ SubSeq(b, k + 1, n) \in Seq(OpRecord)
        /\ Len(SubSeq(b, k + 1, n)) = IF k + 1 <= n THEN n - (k + 1) + 1 ELSE 0
        /\ \A i \in 1..(n - (k + 1) + 1) :
             SubSeq(b, k + 1, n)[i] = b[(k + 1) + i - 1]
    BY <2>1, SubSeqProperties
  <2>3. /\ n - (k + 1) + 1 = n - k
        /\ (IF k + 1 <= n THEN n - (k + 1) + 1 ELSE 0) = n - k
        /\ \A i \in 1..(n - k) : (k + 1) + i - 1 = i + k
    BY <1>0, <1>7
  <2> QED
    BY <2>2, <2>3
<1>9. DOMAIN SubSeq(b, k + 1, n) = 1..(n - k)
  BY <1>8, LenProperties, Zenon
<1> QED
  BY <1>6, <1>7, <1>8, <1>9 DEF n

\* What is trimmed stays in order, and what it loses is older than the HistoryLimit latest.
LEMMA TrimmedKeeps ==
    ASSUME NEW b \in Seq(OpRecord), LastPends(b), NEW bound \in Nat, OpsRise(b, bound)
    PROVE  /\ Trimmed(b) \in Seq(OpRecord) /\ OpsRise(Trimmed(b), bound) /\ LastPends(Trimmed(b))
           /\ ToSet(Trimmed(b)) \subseteq ToSet(b)
           /\ \A o \in Nat : Has(b, o) => Has(Trimmed(b), o) \/ o + HistoryLimit <= bound
<1> DEFINE t == Trimmed(b)
           n == Len(b)
<1>r. n \in Nat /\ DOMAIN b = 1..n /\ \A i \in 1..n : b[i] \in OpRecord
  BY RecordsAreThere, Zenon
<1>a. HistoryLimit \in Nat
  BY JournalAssumption
<1>0. /\ n \in Nat /\ DOMAIN b = 1..n
      /\ \A i \in 1..n : b[i].op \in Nat
      /\ HistoryLimit \in Nat
  BY <1>r, <1>a DEF OpRecord
<1>1. PICK k \in 0..n :
             /\ t \in Seq(OpRecord)
             /\ DOMAIN t = 1..(n - k) /\ Len(t) = n - k
             /\ \A i \in 1..(n - k) : t[i] = b[i + k]
             /\ k = 0 \/ n = k + HistoryLimit
  BY TrimmedPlaces, Zenon
<1>p. LastPends(b) <=> \A i \in DOMAIN b : b[i].status = "pending" => i = n
  BY DEF LastPends
<1> HIDE DEF t, n
<1>2. \A i \in DOMAIN t : i + k \in DOMAIN b /\ t[i] = b[i + k]
  <2>1. \A i \in 1..(n - k) : i + k \in 1..n
    BY <1>0
  <2> QED
    BY <1>0, <1>1, <2>1, Zenon
<1>d. k \in Int /\ DOMAIN t \subseteq Int /\ DOMAIN b \subseteq Int
  <2>1. 1..n \subseteq Int /\ 1..(n - k) \subseteq Int /\ k \in Int
    BY <1>0
  <2> QED
    BY <1>0, <1>1, <2>1, Zenon
<1>3. OpsRise(t, bound)
  <2>1. ASSUME NEW i \in DOMAIN t, NEW j \in DOMAIN t, i <= j PROVE t[i].op + (j - i) <= t[j].op
    <3>1. i + k <= j + k /\ (j + k) - (i + k) = j - i
      BY <1>d, <2>1
    <3>2. b[i + k].op + ((j + k) - (i + k)) <= b[j + k].op
      BY <1>2, <3>1 DEF OpsRise
    <3> QED
      BY <1>2, <3>1, <3>2
  <2>2. \A i \in DOMAIN t : t[i].op <= bound
    BY <1>2 DEF OpsRise
  <2> QED
    BY <2>1, <2>2 DEF OpsRise
<1>4. LastPends(t)
  <2>1. ASSUME NEW i \in DOMAIN t, t[i].status = "pending" PROVE i = Len(t)
    <3>1. i + k = n
      BY <1>2, <1>p, <2>1
    <3> QED
      BY <1>0, <1>1, <3>1
  <2> QED
    BY <2>1 DEF LastPends
<1>5. ToSet(t) \subseteq ToSet(b)
  BY <1>2 DEF ToSet
<1>6. ASSUME NEW o \in Nat, NEW i \in DOMAIN b, b[i].op = o
      PROVE  Has(t, o) \/ o + HistoryLimit <= bound
  <2>1. CASE i > k
    <3>0. i \in 1..n
      BY <1>0, <1>6, Zenon
    <3>a. i - k \in 1..(n - k) /\ (i - k) + k = i
      BY <1>0, <2>1, <3>0
    <3>1. i - k \in DOMAIN t /\ t[i - k] = b[i]
      BY <1>1, <3>a, Zenon
    <3> QED
      BY <1>6, <3>1 DEF Has
  <2>2. CASE i <= k
      <3>1. n \in DOMAIN b /\ i <= n /\ n = k + HistoryLimit
      BY <1>0, <1>1, <2>2
    <3>2. b[i].op + (n - i) <= b[n].op /\ b[n].op <= bound
      BY <3>1 DEF OpsRise
    <3>3. b[i].op \in Nat /\ b[n].op \in Nat
      BY <1>0, <3>1
    <3> QED
      BY <1>0, <1>1, <1>6, <2>2, <3>1, <3>2, <3>3
  <2> QED
    BY <1>0, <1>1, <2>1, <2>2
<1> QED
  BY <1>1, <1>3, <1>4, <1>5, <1>6 DEF Has, t

\* A request of which the book keeps a record is found, if no older one left the book.
LEMMA KeptAreFound ==
    ASSUME NEW b \in Seq(OpRecord), ToSet(Trimmed(b)) \subseteq ToSet(b),
           NEW index, NEW r \in Requests, r \notin LeftBehind(b),
           index[r] = 0 => \A i \in DOMAIN b : b[i].req # r,
           Reindexed(index, b)[r] = 0
    PROVE  \A i \in DOMAIN Trimmed(b) : Trimmed(b)[i].req # r
<1> DEFINE t == Trimmed(b)
<1>1. CASE r \in RequestsOf(Dropped(b))
  <2>1. r \notin RequestsOf(ToSet(t))
    BY <1>1 DEF LeftBehind
  <2>2. \A i \in DOMAIN t : t[i] \in ToSet(t)
    BY DEF ToSet
  <2> QED
    BY <2>1, <2>2 DEF RequestsOf
<1>2. CASE r \notin RequestsOf(Dropped(b))
  <2>1. index[r] = 0
    BY <1>2 DEF Reindexed
  <2>2. \A i \in DOMAIN t : t[i] \in ToSet(b)
    BY DEF ToSet
  <2>3. \A rec \in ToSet(b) : rec.req # r
    BY <2>1 DEF ToSet
  <2> QED
    BY <2>2, <2>3
<1> QED
  BY <1>1, <1>2

\* A record that a step may write: of the latest operation, or of one before it, and signed.
Writable(rec, latest, done) ==
  /\ rec \in OpRecord /\ rec.op <= latest
  /\ latest \in issued..MaxRecords
  /\ done \in [Requests -> SUBSET (1..MaxRecords)]
  /\ \A r \in Requests : \A o \in done[r] : o \in carried[r] \/ (o > issued /\ o = rec.op)
  /\ \A r \in Requests : rec.op \in done[r] => rec.req = r

\* The marks of the last line are no records.
LEMMA TailNumbers ==
    ASSUME JournalShapes, FileIInv
    PROVE  /\ Closed \notin OpRecord /\ Torn \notin OpRecord
           /\ Closed.op = MaxRecords + 1 /\ Torn.op = 0 /\ MaxRecords \in Nat
           /\ tail.op \in 0..(MaxRecords + 1)
           /\ tail \in {Torn, Closed} \/ tail.op <= issued
           /\ issued \in Nat /\ issued <= MaxRecords
<1>1. /\ Closed.op = MaxRecords + 1 /\ Torn.op = 0 /\ MaxRecords \in Nat
      /\ \A rec \in OpRecord : rec.op \in 1..MaxRecords
  BY JournalAssumption DEF Closed, Torn, OpRecord
<1>2. Closed \notin OpRecord /\ Torn \notin OpRecord
  <2>1. MaxRecords + 1 \notin 1..MaxRecords /\ 0 \notin 1..MaxRecords
    BY <1>1
  <2> QED
    BY <1>1, <2>1
<1>3. tail.op \in 0..(MaxRecords + 1)
  BY <1>1 DEF JournalShapes
<1>4. tail \in {Torn, Closed} \/ tail.op <= issued
  BY DEF JournalShapes, FileIInv
<1> QED
  BY <1>1, <1>2, <1>3, <1>4 DEF JournalShapes

\* Every way a line can go leaves a file in order.
LEMMA WritesKeepTheFile ==
    ASSUME JournalShapes, FileIInv, NEW rec, Writable(rec, issued', carried'),
           tail = Closed => Has(disk, rec.op) \/ \A i \in DOMAIN disk : disk[i].op <= rec.op,
           Journalled(rec)
    PROVE  /\ FileIInv'
           /\ disk' \in Seq(OpRecord) /\ tail' \in OpRecord \union {Torn, Closed}
           /\ damaged' \subseteq Requests /\ damaged \subseteq damaged'
<1> DEFINE W == \A r \in Requests : \A o \in carried'[r] :
                  o \in carried[r] \/ (o > issued /\ o = rec.op)
<1>w. /\ rec \in OpRecord /\ rec.op <= issued'
      /\ issued' \in issued..MaxRecords
      /\ W
      /\ \A r \in Requests : \A o \in carried'[r] : o \in 1..MaxRecords
      /\ \A r \in Requests : rec.op \in carried'[r] => rec.req = r
  BY DEF Writable
<1>n. rec.op \in 1..MaxRecords /\ issued' \in Nat /\ issued <= issued'
  BY <1>w, TailNumbers DEF OpRecord
<1>t. /\ disk \in Seq(OpRecord) /\ DOMAIN disk = 1..Len(disk) /\ Len(disk) \in Nat
      /\ \A i \in DOMAIN disk : disk[i].op \in Nat /\ disk[i].op <= issued
  <2>1. disk \in Seq(OpRecord)
    BY DEF JournalShapes
  <2>2. /\ DOMAIN disk = 1..Len(disk) /\ Len(disk) \in Nat
        /\ \A i \in DOMAIN disk : disk[i] \in OpRecord
    BY <2>1, RecordsAreThere
  <2> QED
    BY <2>1, <2>2 DEF OpRecord, FileIInv, OpsRise
<1>1. \A r \in Requests : \A o \in carried'[r] : o <= issued'
  <2>1. ASSUME NEW r \in Requests, NEW o \in carried'[r] PROVE o <= issued'
    <3>1. CASE o = rec.op
      BY <1>w, <3>1
    <3>2. CASE o \in carried[r]
      BY <1>n, <1>w, <2>1, <3>2, TailNumbers DEF FileIInv
    <3> QED
      BY <1>w, <3>1, <3>2
  <2> QED
    BY <2>1
<1>2. OpsRise(disk, issued')
  BY <1>n, <1>t, TailNumbers DEF FileIInv, OpsRise
<1>3. Signed(disk, carried')
  <2>1. ASSUME NEW r \in Requests, NEW o \in carried'[r], NEW i \in DOMAIN disk, disk[i].op = o
        PROVE  disk[i].req = r
    <3>1. ~(o > issued)
      BY <1>t, <2>1, TailNumbers
    <3>2. o \in carried[r]
      BY <1>w, <2>1, <3>1
    <3> QED
      BY <2>1, <3>2 DEF FileIInv, Signed
  <2> QED
    BY <2>1 DEF Signed
<1>4. \A r \in Requests : \A o \in carried'[r] : tail.op = o => tail.req = r /\ o \in carried[r]
  <2>1. ASSUME NEW r \in Requests, NEW o \in carried'[r], tail.op = o
        PROVE  tail.req = r /\ o \in carried[r]
    <3>1. o \in 1..MaxRecords
      BY <1>w
    <3>2. ~(o > issued)
      BY <2>1, <3>1, TailNumbers
    <3>3. o \in carried[r]
      BY <1>w, <2>1, <3>2
    <3> QED
      BY <2>1, <3>3 DEF FileIInv
  <2> QED
    BY <2>1
<1>5. \A r \in Requests : \A o \in carried'[r] : Closed.op # o
  <2>1. \A o \in 1..MaxRecords : Closed.op # o
    BY TailNumbers
  <2> QED
    BY <1>w, <2>1
<1>6. CASE tail = Closed /\ disk' = Put(disk, rec) /\ UNCHANGED <<tail, damaged>>
  <2>1. OpsRise(disk', issued')
    BY <1>2, <1>6, <1>n, <1>t, <1>w, PutRises
  <2>0. PICK new : new = Put(disk, rec)
    OBVIOUS
  <2>d. disk' = new
    BY <1>6, <2>0
  <2>2. /\ new \in Seq(OpRecord) /\ Has(new, rec.op)
        /\ \A i \in DOMAIN disk : /\ i \in DOMAIN new
                                  /\ disk[i].op = rec.op => new[i] = rec
                                  /\ disk[i].op # rec.op => new[i] = disk[i]
        /\ \A i \in DOMAIN new : i \notin DOMAIN disk => new[i] = rec
    <3>0. disk \in Seq(OpRecord) /\ rec \in OpRecord
      BY <1>t, <1>w
    <3>1. \A i \in 1..(Len(disk) + 1) : i \notin DOMAIN disk => i = Len(disk) + 1
      BY <1>t
    <3>p. /\ Put(disk, rec) \in Seq(OpRecord)
          /\ Has(Put(disk, rec), rec.op)
          /\ \A i \in DOMAIN disk : /\ i \in DOMAIN Put(disk, rec)
                                    /\ disk[i].op = rec.op => Put(disk, rec)[i] = rec
                                    /\ disk[i].op # rec.op => Put(disk, rec)[i] = disk[i]
          /\ \/ DOMAIN Put(disk, rec) = DOMAIN disk /\ Has(disk, rec.op)
             \/ /\ ~Has(disk, rec.op)
                /\ DOMAIN Put(disk, rec) = 1..(Len(disk) + 1)
                /\ Put(disk, rec)[Len(disk) + 1] = rec
      BY <3>0, PutPlaces
    <3>2. DOMAIN new = DOMAIN disk \/ (DOMAIN new = 1..(Len(disk) + 1) /\ new[Len(disk) + 1] = rec)
      BY <2>0, <3>p
    <3>3. /\ new \in Seq(OpRecord) /\ Has(new, rec.op)
          /\ \A i \in DOMAIN disk : /\ i \in DOMAIN new
                                    /\ disk[i].op = rec.op => new[i] = rec
                                    /\ disk[i].op # rec.op => new[i] = disk[i]
      BY <2>0, <3>p
    <3>4. \A i \in DOMAIN new : i \notin DOMAIN disk => new[i] = rec
      BY <3>1, <3>2, Zenon
    <3> QED
      BY <3>3, <3>4, Zenon
  <2>3. Signed(new, carried')
    <3>1. ASSUME NEW r \in Requests, NEW o \in carried'[r], NEW i \in DOMAIN new, new[i].op = o
          PROVE  new[i].req = r
      <4>1. new[i] = rec \/ (i \in DOMAIN disk /\ new[i] = disk[i])
        <5>1. CASE i \in DOMAIN disk /\ disk[i].op = rec.op
          BY <2>2, <5>1
        <5>2. CASE i \in DOMAIN disk /\ disk[i].op # rec.op
          BY <2>2, <5>2
        <5>3. CASE i \notin DOMAIN disk
          BY <2>2, <5>3
        <5> QED
          BY <5>1, <5>2, <5>3
      <4>2. CASE new[i] = rec
        BY <1>w, <3>1, <4>2
      <4>3. CASE i \in DOMAIN disk /\ new[i] = disk[i]
        BY <1>3, <3>1, <4>3 DEF Signed
      <4> QED
        BY <4>1, <4>2, <4>3
    <3> QED
      BY <3>1 DEF Signed
  <2>4. ASSUME NEW r \in Requests \ damaged', NEW o \in carried'[r] PROVE Has(new, o)
    <3>1. CASE o = rec.op
      BY <2>2, <3>1
    <3>2. CASE o # rec.op
      <4>1. o \in carried[r] /\ r \in Requests \ damaged
        BY <1>6, <1>w, <2>4, <3>2
      <4>2. tail.op # o
        BY <1>5, <1>6, <2>4
      <4>3. Has(disk, o)
        BY <4>1, <4>2 DEF FileIInv
      <4>4. PICK i \in DOMAIN disk : disk[i].op = o
        BY <4>3 DEF Has
      <4>5. i \in DOMAIN new /\ new[i] = disk[i]
        BY <2>2, <3>2, <4>4
      <4> QED
        BY <4>4, <4>5 DEF Has
    <3> QED
      BY <3>1, <3>2
  <2>5. tail' = Closed /\ damaged' = damaged
    BY <1>6
  <2>6. FileIInv'
    BY <1>1, <1>5, <2>1, <2>3, <2>4, <2>5, <2>d, TailNumbers DEF FileIInv
  <2> QED
    BY <2>2, <2>5, <2>6, <2>d DEF JournalShapes
<1>7. CASE tail # Closed /\ tail' = Closed /\ damaged' = damaged \union Lost(rec) \union Lost(tail)
           /\ disk' = disk
  <2>1. ASSUME NEW r \in Requests \ damaged', NEW o \in carried'[r] PROVE Has(disk, o)
    <3>1. CASE o = rec.op
      <4>1. r \notin Lost(rec)
        BY <1>7, <2>1
      <4> QED
        BY <2>1, <3>1, <4>1 DEF Lost, Has
    <3>2. CASE o = tail.op
      <4>1. r \notin Lost(tail)
        BY <1>7, <2>1
      <4> QED
        BY <2>1, <3>2, <4>1 DEF Lost, Has
    <3>3. CASE o # rec.op /\ o # tail.op
      <4>1. o \in carried[r] /\ r \in Requests \ damaged
        BY <1>7, <1>w, <2>1, <3>3
      <4> QED
        BY <3>3, <4>1 DEF FileIInv
    <3> QED
      BY <3>1, <3>2, <3>3
  <2>2. FileIInv'
    <3>1. /\ OpsRise(disk', issued') /\ Signed(disk', carried')
          /\ \A r \in Requests \ damaged' : \A o \in carried'[r] : Has(disk', o)
      BY <1>2, <1>3, <1>7, <2>1
    <3> QED
      BY <1>1, <1>5, <1>7, <3>1, TailNumbers DEF FileIInv
  <2>3. damaged' \subseteq Requests
    BY <1>7 DEF Lost, JournalShapes
  <2> QED
    BY <1>7, <2>2, <2>3 DEF JournalShapes
<1>8. CASE damaged' = damaged \union Lost(rec) /\ disk' = disk /\ tail' = tail
  <2>1. ASSUME NEW r \in Requests \ damaged', NEW o \in carried'[r] PROVE Has(disk, o) \/ tail.op = o
    <3>1. CASE o = rec.op
      <4>1. r \notin Lost(rec)
        BY <1>8, <2>1
      <4> QED
        BY <2>1, <3>1, <4>1 DEF Lost, Has
    <3>2. CASE o # rec.op
      <4>1. o \in carried[r] /\ r \in Requests \ damaged
        BY <1>8, <1>w, <2>1, <3>2
      <4> QED
        BY <4>1 DEF FileIInv
    <3> QED
      BY <3>1, <3>2
  <2>2. tail' \in OpRecord => tail'.op <= issued' /\ \A i \in DOMAIN disk' : disk'[i].op <= tail'.op
    <3>1. CASE tail \in OpRecord
      <4>1. tail.op <= issued /\ \A i \in DOMAIN disk : disk[i].op <= tail.op
        BY <3>1 DEF FileIInv
      <4>2. tail.op <= issued'
        BY <1>n, <4>1, TailNumbers
      <4> QED
        BY <1>8, <4>1, <4>2
    <3> QED
      BY <1>8, <3>1
  <2>3. FileIInv'
    <3>1. /\ OpsRise(disk', issued') /\ Signed(disk', carried')
          /\ \A r \in Requests \ damaged' : \A o \in carried'[r] : Has(disk', o) \/ tail'.op = o
          /\ \A r \in Requests : \A o \in carried'[r] : tail'.op = o => tail'.req = r
      BY <1>2, <1>3, <1>4, <1>8, <2>1
    <3> QED
      BY <1>1, <2>2, <3>1 DEF FileIInv
  <2>4. damaged' \subseteq Requests
    BY <1>8 DEF Lost, JournalShapes
  <2> QED
    BY <1>8, <2>3, <2>4 DEF JournalShapes
<1> QED
  BY <1>6, <1>7, <1>8 DEF Journalled, fileVars

\* The power going in the middle of a line leaves a file in order too.
LEMMA CutsKeepTheFile ==
    ASSUME JournalShapes, FileIInv, NEW rec, Writable(rec, issued', carried), carried' = carried,
           \A i \in DOMAIN disk : disk[i].op <= rec.op, CutShort(rec)
    PROVE  /\ FileIInv'
           /\ disk' = disk /\ tail' \in OpRecord \union {Torn, Closed}
           /\ damaged' \subseteq Requests /\ damaged \subseteq damaged'
<1>w. /\ rec \in OpRecord /\ rec.op <= issued'
      /\ issued' \in issued..MaxRecords
      /\ \A r \in Requests : \A o \in carried[r] : o \in 1..MaxRecords
      /\ \A r \in Requests : rec.op \in carried[r] => rec.req = r
  BY DEF Writable
<1>1. \A r \in Requests : \A o \in carried'[r] : o <= issued'
  <2>1. ASSUME NEW r \in Requests, NEW o \in carried[r] PROVE o <= issued'
    <3>1. o <= issued /\ o \in 1..MaxRecords
      BY <1>w, <2>1 DEF FileIInv
    <3> QED
      BY <1>w, <3>1, TailNumbers
  <2> QED
    BY <2>1
<1>d. disk' = disk
  BY DEF CutShort
<1>2. OpsRise(disk', issued') /\ Signed(disk', carried')
  <2>1. \A i \in DOMAIN disk : disk[i].op \in Nat /\ disk[i].op <= issued
    <3>1. \A i \in DOMAIN disk : disk[i] \in OpRecord
      BY RecordsAreThere DEF JournalShapes
    <3> QED
      BY <3>1 DEF OpRecord, FileIInv, OpsRise
  <2>2. \A i \in DOMAIN disk : disk[i].op <= issued'
    BY <1>w, <2>1, TailNumbers
  <2> QED
    BY <1>d, <2>2 DEF FileIInv, OpsRise, Signed
<1>3. CASE tail' = Torn /\ damaged' = damaged \union Lost(rec) \union Lost(tail)
  <2>1. ASSUME NEW r \in Requests \ damaged', NEW o \in carried'[r] PROVE Has(disk', o)
    <3>1. r \notin Lost(tail) /\ r \in Requests \ damaged /\ o \in carried[r]
      BY <1>3, <2>1
    <3>2. CASE o = tail.op
      BY <1>d, <2>1, <3>1, <3>2 DEF Lost, Has
    <3>3. CASE o # tail.op
      BY <1>d, <3>1, <3>3 DEF FileIInv
    <3> QED
      BY <3>2, <3>3
  <2>2. \A r \in Requests : \A o \in carried'[r] : Torn.op # o
    <3>1. \A o \in 1..MaxRecords : Torn.op # o
      BY TailNumbers
    <3> QED
      BY <1>w, <3>1
  <2>3. FileIInv'
    BY <1>1, <1>2, <1>3, <2>1, <2>2, TailNumbers DEF FileIInv
  <2>4. damaged' \subseteq Requests
    BY <1>3 DEF Lost, JournalShapes
  <2> QED
    BY <1>3, <1>d, <2>3, <2>4
<1>4. CASE tail = Closed /\ tail' = rec /\ damaged' = damaged
  <2>1. ASSUME NEW r \in Requests \ damaged', NEW o \in carried'[r] PROVE Has(disk', o)
    <3>1. tail.op # o
      <4>1. \A n \in 1..MaxRecords : Closed.op # n
        BY TailNumbers
      <4> QED
        BY <1>4, <1>w, <2>1, <4>1
    <3> QED
      BY <1>4, <1>d, <2>1, <3>1 DEF FileIInv
  <2>2. FileIInv'
    BY <1>1, <1>2, <1>4, <1>d, <1>w, <2>1 DEF FileIInv
  <2> QED
    BY <1>4, <1>d, <1>w, <2>2 DEF JournalShapes
<1> QED
  BY <1>3, <1>4 DEF CutShort

-----------------------------------------------------------------------------
(* A request is carried out.                                                *)

\* A request that is carried out keeps the invariant.
LEMMA SubmitKeeps ==
    ASSUME JournalIInv, NEW r \in AnyRequest, Submit(r)
    PROVE  JournalIInv'
<1> DEFINE rec == NewRecord(r)
           n == issued + 1
<1>0. /\ JournalShapes /\ FileIInv /\ BookIInv /\ RunsOnce
      /\ serving = TRUE /\ serving' = serving /\ issued < MaxRecords /\ issued' = issued + 1
      /\ starts' = starts
      /\ r \in Requests => byRequest[r] = 0
      /\ PendingOps(book) = {}
      /\ Journalled(rec)
      /\ carried' = [q \in Requests |-> carried[q] \union IF q = r THEN {n} ELSE {}]
  BY DEF JournalIInv, Submit, Admitted
<1>1. rec \in OpRecord /\ rec.op = n /\ rec.req = r /\ rec.status = "pending"
  <2>1. n \in 1..MaxRecords
    BY <1>0, TailNumbers
  <2> QED
    BY <2>1 DEF NewRecord, OpRecord, Terminal
<1>n. issued \in Nat /\ n \in Nat /\ n \in 1..MaxRecords
  BY <1>0, TailNumbers
<1>c. \A q \in Requests : \A o \in carried'[q] : o \in carried[q] \/ (o = n /\ q = r)
  BY <1>0
<1>o. \A q \in Requests : \A o \in carried[q] : o <= issued /\ o \in Nat
  BY <1>0 DEF FileIInv, JournalShapes
<1>2. Writable(rec, issued', carried')
  <2>1. carried' \in [Requests -> SUBSET (1..MaxRecords)]
    BY <1>0, <1>n DEF JournalShapes
  <2>2. \A q \in Requests : \A o \in carried'[q] : o \in carried[q] \/ (o > issued /\ o = rec.op)
    BY <1>1, <1>c, <1>n
  <2>3. \A q \in Requests : rec.op \in carried'[q] => rec.req = q
    <3>1. ASSUME NEW q \in Requests, n \in carried'[q] PROVE q = r
      <4>1. n \notin carried[q]
        BY <1>n, <1>o
      <4> QED
        BY <1>c, <3>1, <4>1
    <3> QED
      BY <1>1, <3>1
  <2>4. rec.op <= issued' /\ issued' \in issued..MaxRecords
    BY <1>0, <1>1, <1>n
  <2> QED
    BY <1>1, <2>1, <2>2, <2>3, <2>4 DEF Writable
<1>3. /\ FileIInv'
      /\ disk' \in Seq(OpRecord) /\ tail' \in OpRecord \union {Torn, Closed}
      /\ damaged' \subseteq Requests /\ damaged \subseteq damaged'
  <2>1. \A i \in DOMAIN disk : disk[i].op <= rec.op
    <3>1. \A i \in DOMAIN disk : disk[i].op <= issued /\ disk[i] \in OpRecord
      BY <1>0, RecordsAreThere DEF FileIInv, OpsRise, JournalShapes
    <3>2. \A i \in DOMAIN disk : disk[i].op \in Nat
      BY <3>1 DEF OpRecord
    <3> QED
      BY <1>1, <1>n, <3>1, <3>2
  <2> HIDE DEF rec
  <2> QED
    BY <1>0, <1>2, <2>1, WritesKeepTheFile
<1>b. /\ book \in Seq(OpRecord) /\ OpsRise(book, issued) /\ Signed(book, carried)
      /\ \A i \in DOMAIN book : book[i] \in OpRecord
      /\ DOMAIN book = 1..Len(book) /\ Len(book) \in Nat
  BY <1>0, RecordsAreThere DEF BookIInv, JournalShapes
<1>4. PICK b : b = Append(book, rec)
  OBVIOUS
<1>5. b = Put(book, rec) /\ ~Has(book, n)
  <2>1. \A i \in DOMAIN book : book[i].op <= issued /\ book[i].op \in Nat
    BY <1>b DEF OpsRise, OpRecord
  <2>2. \A i \in DOMAIN book : book[i].op # n
    BY <1>n, <2>1
  <2>3. rec.op = n
    BY <1>1
  <2> QED
    BY <1>4, <2>2, <2>3 DEF Put, Has
<1>6. /\ b \in Seq(OpRecord) /\ DOMAIN b = 1..Len(b) /\ Len(b) = Len(book) + 1
      /\ \A i \in DOMAIN book : i \in DOMAIN b /\ b[i] = book[i]
      /\ b[Len(b)] = rec
      /\ \A i \in DOMAIN b : i \notin DOMAIN book => i = Len(b)
  <2>1. /\ b \in Seq(OpRecord) /\ Len(b) = Len(book) + 1
        /\ \A i \in 1..Len(book) : b[i] = book[i]
        /\ b[Len(book) + 1] = rec
    <3> HIDE DEF rec
    <3> QED
      BY <1>1, <1>4, <1>b, AppendProperties
  <2>2. DOMAIN b = 1..Len(b)
    BY <2>1, LenProperties
  <2>3. /\ \A i \in 1..Len(book) : i \in 1..(Len(book) + 1)
        /\ \A i \in 1..(Len(book) + 1) : i \notin 1..Len(book) => i = Len(book) + 1
    BY <1>b
  <2> QED
    BY <1>b, <2>1, <2>2, <2>3, Zenon
<1> HIDE DEF rec
<1>7. OpsRise(b, n)
  <2>1. OpsRise(book, n)
    <3>1. \A i \in DOMAIN book : book[i].op <= issued /\ book[i].op \in Nat
      BY <1>b DEF OpsRise, OpRecord
    <3>2. \A i \in DOMAIN book : book[i].op <= n
      BY <1>n, <3>1
    <3> QED
      BY <1>b, <3>2 DEF OpsRise
  <2>2. \A i \in DOMAIN book : book[i].op <= rec.op
    BY <1>1, <2>1 DEF OpsRise
  <2>3. rec.op <= n
    BY <1>1, <1>n
  <2> QED
    BY <1>1, <1>5, <1>b, <1>n, <2>1, <2>2, <2>3, PutRises
<1>8. \A i \in DOMAIN b : b[i].status = "pending" => i = Len(b) /\ b[i] = rec
  <2>1. \A i \in DOMAIN book : book[i].status # "pending"
    BY <1>0 DEF PendingOps
  <2> QED
    BY <1>6, <2>1
<1>9. PICK t : t = Trimmed(b)
  OBVIOUS
<1>10. /\ t \in Seq(OpRecord) /\ OpsRise(t, n) /\ LastPends(t)
       /\ ToSet(t) \subseteq ToSet(b)
       /\ \A o \in Nat : Has(b, o) => Has(t, o) \/ o + HistoryLimit <= n
  <2>1. LastPends(b)
    BY <1>8 DEF LastPends
  <2> QED
    BY <1>6, <1>7, <1>9, <1>n, <2>1, TrimmedKeeps
<1>11. \A i \in DOMAIN t : \E j \in DOMAIN b : t[i] = b[j]
  BY <1>10 DEF ToSet
<1>12. book' = t
  BY <1>4, <1>9 DEF Submit, rec
<1>13. Signed(t, carried')
  <2>1. ASSUME NEW q \in Requests, NEW o \in carried'[q], NEW j \in DOMAIN b, b[j].op = o
        PROVE  b[j].req = q
    <3>1. CASE j \in DOMAIN book
      <4>1. b[j] = book[j] /\ book[j].op <= issued /\ book[j].op \in Nat
        BY <1>6, <1>b, <3>1 DEF OpsRise, OpRecord
      <4>2. o \in carried[q]
        BY <1>c, <1>n, <2>1, <4>1
      <4> QED
        BY <1>b, <2>1, <3>1, <4>1, <4>2 DEF Signed
    <3>2. CASE j \notin DOMAIN book
      <4>1. b[j] = rec
        BY <1>6, <3>2
      <4> QED
        BY <1>2, <2>1, <4>1 DEF Writable
    <3> QED
      BY <3>1, <3>2
  <2> QED
    BY <1>11, <2>1 DEF Signed
<1>14. \A i \in DOMAIN t : t[i].status = "pending" => i = Len(t) /\ t[i].op = n
  BY <1>1, <1>8, <1>10, <1>11 DEF LastPends
<1>15. ASSUME NEW q \in Requests \ damaged', NEW o \in carried'[q], n < o + HistoryLimit
       PROVE  Has(t, o)
  <2>0. HistoryLimit \in Nat /\ o \in Nat
    BY <1>2, JournalAssumption DEF Writable
  <2>1. Has(b, o)
    <3>1. CASE o = n
      <4>1. Len(b) \in DOMAIN b
        BY <1>6, <1>b
      <4> QED
        BY <1>1, <1>6, <3>1, <4>1 DEF Has
    <3>2. CASE o # n
      <4>1. o \in carried[q] /\ q \in Requests \ damaged
        BY <1>3, <1>c, <1>15, <3>2
      <4>2. issued < o + HistoryLimit
        BY <1>15, <1>n, <2>0
      <4>3. Has(book, o)
        BY <1>0, <4>1, <4>2 DEF BookIInv
      <4> QED
        BY <1>6, <4>3 DEF Has
    <3> QED
      BY <3>1, <3>2
  <2>2. ~(o + HistoryLimit <= n)
    BY <1>15, <1>n, <2>0
  <2> QED
    BY <1>10, <2>0, <2>1, <2>2
<1> DEFINE named == [q \in Requests |-> IF q = r THEN n ELSE byRequest[q]]
<1>16. byRequest' = Reindexed(named, b) /\ unfound' = unfound \union LeftBehind(b)
  BY <1>4 DEF Submit, rec
<1>17. ASSUME NEW q \in Requests \ unfound', byRequest'[q] = 0
       PROVE  \A i \in DOMAIN t : t[i].req # q
  <2>1. q \notin LeftBehind(b) /\ q \in Requests \ unfound
    BY <1>16, <1>17
  <2>2. named[q] = 0 => \A i \in DOMAIN b : b[i].req # q
    <3>1. CASE q = r
      BY <1>n, <3>1
    <3>2. CASE q # r
      <4>1. ASSUME byRequest[q] = 0, NEW i \in DOMAIN b PROVE b[i].req # q
        <5>1. CASE i \in DOMAIN book
          BY <1>0, <1>6, <2>1, <4>1, <5>1 DEF BookIInv
        <5>2. CASE i \notin DOMAIN book
          BY <1>1, <1>6, <3>2, <5>2
        <5> QED
          BY <5>1, <5>2
      <4> QED
        BY <3>2, <4>1
    <3> QED
      BY <3>1, <3>2
  <2>3. PICK index : index = named
    OBVIOUS
  <2> HIDE DEF named
  <2>4. Reindexed(index, b)[q] = 0 /\ (index[q] = 0 => \A i \in DOMAIN b : b[i].req # q)
    BY <1>16, <1>17, <2>2, <2>3
  <2>5. ToSet(Trimmed(b)) \subseteq ToSet(b)
    BY <1>9, <1>10
  <2> QED
    BY <1>6, <1>9, <2>1, <2>4, <2>5, KeptAreFound
<1>18. BookIInv'
  BY <1>0, <1>10, <1>12, <1>13, <1>14, <1>15, <1>17 DEF BookIInv
<1>19. JournalShapes'
  <2>1. byRequest' \in [Requests -> 0..MaxRecords]
    <3>1. named \in [Requests -> 0..MaxRecords]
      BY <1>0, <1>n DEF JournalShapes
    <3>2. PICK index : index = named
      OBVIOUS
    <3> HIDE DEF named
    <3>3. index \in [Requests -> 0..MaxRecords] /\ byRequest' = Reindexed(index, b)
      BY <1>16, <3>1, <3>2
    <3>4. 0 \in 0..MaxRecords
      BY TailNumbers, <1>0
    <3> QED
      BY <3>3, <3>4 DEF Reindexed
  <2>2. unfound' \subseteq AnyRequest
    <3>1. LeftBehind(b) \subseteq AnyRequest
      <4>1. ToSet(b) \subseteq OpRecord
        BY <1>6, RecordsAreThere DEF ToSet
      <4>2. \A x \in OpRecord : x.req \in AnyRequest
        BY DEF OpRecord
      <4> QED
        BY <4>1, <4>2 DEF LeftBehind, RequestsOf, Dropped
    <3> QED
      BY <1>0, <1>16, <3>1 DEF JournalShapes
  <2>3. issued' \in 0..MaxRecords /\ starts' \in 0..MaxStarts /\ serving' \in BOOLEAN
    BY <1>0, <1>n DEF JournalShapes
  <2> QED
    BY <1>2, <1>3, <1>10, <1>12, <2>1, <2>2, <2>3 DEF JournalShapes, Writable
<1>20. RunsOnce'
  <2>1. ASSUME NEW q \in Requests, q \notin damaged' \union unfound',
               NEW o \in carried'[q], NEW p \in carried'[q], o < p
        PROVE  p - o > HistoryLimit
    <3>0. HistoryLimit \in Nat /\ q \notin damaged \union unfound
      BY <1>3, <1>16, <2>1, JournalAssumption
    <3>1. CASE p \in carried[q]
      <4>1. o \in carried[q]
        BY <1>c, <1>n, <1>o, <2>1, <3>1
      <4> QED
        BY <1>0, <2>1, <3>0, <3>1, <4>1 DEF RunsOnce
    <3>2. CASE p = n /\ q = r
      <4>1. o \in carried[q]
        <5>1. o # n
          BY <1>n, <2>1, <3>2
        <5> QED
          BY <1>c, <2>1, <5>1
      <4>2. \A i \in DOMAIN book : book[i].req # q
        BY <1>0, <3>0, <3>2 DEF BookIInv
      <4>3. ~Has(book, o)
        BY <1>b, <4>1, <4>2 DEF Has, Signed
      <4>4. ~(issued < o + HistoryLimit)
        BY <1>0, <3>0, <4>1, <4>3 DEF BookIInv
      <4>5. o \in Nat
        BY <1>o, <4>1
      <4> QED
        BY <1>n, <3>0, <3>2, <4>4, <4>5
    <3> QED
      BY <1>c, <2>1, <3>1, <3>2
  <2> QED
    BY <2>1 DEF RunsOnce
<1> QED
  BY <1>3, <1>18, <1>19, <1>20 DEF JournalIInv

\* An operation that ends keeps it.
LEMMA FinishKeeps ==
    ASSUME JournalIInv, NEW status \in Terminal, FinishOp(status)
    PROVE  JournalIInv'
<1> DEFINE i == CHOOSE j \in PendingOps(book) : TRUE
           rec == Finished(status)
<1>0. /\ JournalShapes /\ FileIInv /\ BookIInv /\ RunsOnce /\ serving
      /\ PendingOps(book) # {}
      /\ Journalled(rec) /\ book' = Put(book, rec)
      /\ serving' \in BOOLEAN
      /\ UNCHANGED <<byRequest, issued, starts, carried, unfound>>
  BY DEF JournalIInv, FinishOp
<1>b. /\ book \in Seq(OpRecord) /\ OpsRise(book, issued) /\ Signed(book, carried)
      /\ \A j \in DOMAIN book : book[j] \in OpRecord
      /\ DOMAIN book = 1..Len(book) /\ Len(book) \in Nat
      /\ \A j \in DOMAIN book : book[j].status = "pending" => book[j].op = issued
  BY <1>0, RecordsAreThere DEF BookIInv, JournalShapes
<1>1. i \in DOMAIN book /\ book[i].status = "pending"
  BY <1>0 DEF PendingOps
<1>2. rec = [book[i] EXCEPT !.status = status]
  BY DEF Finished
<1> HIDE DEF i, rec
<1>3. book[i] \in OpRecord /\ book[i].op = issued
  BY <1>1, <1>b
<1>4. /\ rec \in OpRecord /\ rec.op = issued /\ rec.req = book[i].req
      /\ rec.status # "pending"
  <2>1. rec \in OpRecord /\ rec.op = book[i].op /\ rec.req = book[i].req /\ rec.status = status
    BY <1>2, <1>3 DEF OpRecord
  <2> QED
    BY <1>3, <2>1 DEF Terminal
<1>n. issued \in Nat /\ issued' = issued /\ carried' = carried
  BY <1>0, TailNumbers
<1>5. Writable(rec, issued', carried')
  <2>1. \A q \in Requests : rec.op \in carried[q] => rec.req = q
    BY <1>1, <1>3, <1>4, <1>b DEF Signed
  <2>2. issued \in issued..MaxRecords /\ rec.op <= issued
    BY <1>0, <1>4, <1>n, TailNumbers
  <2>3. carried \in [Requests -> SUBSET (1..MaxRecords)]
    BY <1>0 DEF JournalShapes
  <2> QED
    BY <1>4, <1>n, <2>1, <2>2, <2>3 DEF Writable
<1>6. \A j \in DOMAIN disk : disk[j].op <= rec.op
  BY <1>0, <1>4 DEF FileIInv, OpsRise
<1>7. /\ FileIInv'
      /\ disk' \in Seq(OpRecord) /\ tail' \in OpRecord \union {Torn, Closed}
      /\ damaged' \subseteq Requests /\ damaged \subseteq damaged'
  BY <1>0, <1>5, <1>6, WritesKeepTheFile
<1>8. Has(book, rec.op)
  BY <1>1, <1>3, <1>4 DEF Has
<1>9. PICK new : new = Put(book, rec)
  OBVIOUS
<1>10. /\ new \in Seq(OpRecord) /\ OpsRise(new, issued)
       /\ DOMAIN new = DOMAIN book
       /\ \A j \in DOMAIN book : /\ book[j].op = rec.op => new[j] = rec
                                 /\ book[j].op # rec.op => new[j] = book[j]
  <2>1. rec.op <= issued
    BY <1>4, <1>n
  <2>2. OpsRise(Put(book, rec), issued)
    BY <1>4, <1>8, <1>b, <1>n, <2>1, PutRises
  <2>3. /\ Put(book, rec) \in Seq(OpRecord)
        /\ Has(Put(book, rec), rec.op)
        /\ \A j \in DOMAIN book : /\ j \in DOMAIN Put(book, rec)
                                  /\ book[j].op = rec.op => Put(book, rec)[j] = rec
                                  /\ book[j].op # rec.op => Put(book, rec)[j] = book[j]
        /\ \/ DOMAIN Put(book, rec) = DOMAIN book /\ Has(book, rec.op)
           \/ /\ ~Has(book, rec.op)
              /\ DOMAIN Put(book, rec) = 1..(Len(book) + 1)
              /\ Put(book, rec)[Len(book) + 1] = rec
    BY <1>4, <1>b, PutPlaces
  <2> QED
    BY <1>8, <1>9, <2>2, <2>3
<1>11. book' = new
  BY <1>0, <1>9
<1>12. \A j \in DOMAIN new : new[j] = rec \/ (new[j] = book[j] /\ book[j].op # issued)
  BY <1>4, <1>10
<1>13. Signed(new, carried)
  <2>1. ASSUME NEW q \in Requests, NEW o \in carried[q], NEW j \in DOMAIN new, new[j].op = o
        PROVE  new[j].req = q
    <3>1. CASE new[j] = rec
      BY <1>5, <1>n, <2>1, <3>1 DEF Writable
    <3>2. CASE new[j] = book[j]
      BY <1>10, <1>b, <2>1, <3>2 DEF Signed
    <3> QED
      BY <1>12, <3>1, <3>2
  <2> QED
    BY <2>1 DEF Signed
<1>14. \A j \in DOMAIN new : new[j].status # "pending"
  BY <1>4, <1>10, <1>12, <1>b
<1>15. \A o : Has(book, o) => Has(new, o)
  <2>1. \A j \in DOMAIN book : new[j].op = book[j].op
    BY <1>10
  <2> QED
    BY <1>10, <2>1 DEF Has
<1>16. BookIInv'
  <2>1. \A r \in Requests \ damaged' : \A o \in carried[r] :
          issued < o + HistoryLimit => Has(new, o)
    BY <1>0, <1>7, <1>15 DEF BookIInv
  <2>2. \A r \in Requests \ unfound : byRequest[r] = 0 => \A j \in DOMAIN new : new[j].req # r
    <3>1. ASSUME NEW r \in Requests \ unfound, byRequest[r] = 0, NEW j \in DOMAIN new
          PROVE  new[j].req # r
      <4>1. \A k \in DOMAIN book : book[k].req # r
        BY <1>0, <3>1 DEF BookIInv
      <4> QED
        BY <1>1, <1>4, <1>10, <1>12, <3>1, <4>1
    <3> QED
      BY <3>1
  <2> QED
    BY <1>0, <1>10, <1>11, <1>13, <1>14, <2>1, <2>2 DEF BookIInv
<1>17. JournalShapes'
  BY <1>0, <1>7, <1>10, <1>11 DEF JournalShapes
<1>18. RunsOnce'
  BY <1>0, <1>7 DEF RunsOnce
<1> QED
  BY <1>7, <1>16, <1>17, <1>18 DEF JournalIInv

-----------------------------------------------------------------------------
(* The supervisor starts.                                                   *)

\* What is read back holds what the undamaged requests did.
LEMMA ReadBackHolds ==
    ASSUME JournalShapes, FileIInv
    PROVE  /\ ReadBack \in Seq(OpRecord)
           /\ OpsRise(ReadBack, issued) /\ Signed(ReadBack, carried)
           /\ \A r \in Requests \ damaged : \A o \in carried[r] : Has(ReadBack, o)
           /\ tail = Closed => ReadBack = disk
<1>0. disk \in Seq(OpRecord) /\ OpsRise(disk, issued) /\ Signed(disk, carried) /\ issued \in Nat
  BY TailNumbers DEF JournalShapes, FileIInv
<1>1. CASE tail \in {Torn, Closed}
  <2>1. ReadBack = disk
    BY <1>1 DEF ReadBack
  <2>2. \A r \in Requests : \A o \in carried[r] : tail.op # o
    <3>1. \A o \in 1..MaxRecords : Torn.op # o /\ Closed.op # o
      BY TailNumbers
    <3>2. \A r \in Requests : \A o \in carried[r] : o \in 1..MaxRecords
      BY DEF JournalShapes
    <3> QED
      BY <1>1, <3>1, <3>2
  <2> QED
    BY <1>0, <2>1, <2>2 DEF FileIInv
<1>2. CASE tail \notin {Torn, Closed}
  <2>1. tail \in OpRecord /\ tail.op <= issued /\ \A i \in DOMAIN disk : disk[i].op <= tail.op
    BY <1>2 DEF JournalShapes, FileIInv
  <2>2. PICK new : new = Put(disk, tail)
    OBVIOUS
  <2>3. ReadBack = new /\ tail # Closed
    BY <1>2, <2>2 DEF ReadBack
  <2>4. OpsRise(new, issued)
    BY <1>0, <2>1, <2>2, PutRises
  <2>5. PICK x \in OpRecord : x = tail
    BY <2>1
  <2>6. /\ Put(disk, x) \in Seq(OpRecord)
        /\ Has(Put(disk, x), x.op)
        /\ \A j \in DOMAIN disk : /\ j \in DOMAIN Put(disk, x)
                                  /\ disk[j].op = x.op => Put(disk, x)[j] = x
                                  /\ disk[j].op # x.op => Put(disk, x)[j] = disk[j]
        /\ \/ DOMAIN Put(disk, x) = DOMAIN disk /\ Has(disk, x.op)
           \/ /\ ~Has(disk, x.op)
              /\ DOMAIN Put(disk, x) = 1..(Len(disk) + 1)
              /\ Put(disk, x)[Len(disk) + 1] = x
    BY <1>0, PutPlaces
  <2>7. \A j \in DOMAIN new : new[j] = tail \/ (j \in DOMAIN disk /\ new[j] = disk[j])
    <3>1. Len(disk) \in Nat /\ DOMAIN disk = 1..Len(disk)
      BY <1>0, RecordsAreThere
    <3>2. \A j \in 1..(Len(disk) + 1) : j \in DOMAIN disk \/ j = Len(disk) + 1
      BY <3>1
    <3>3. \A j \in DOMAIN new : j \in DOMAIN disk \/ new[j] = x
      BY <2>2, <2>5, <2>6, <3>2
    <3> QED
      BY <2>2, <2>5, <2>6, <3>3
  <2>8. Signed(new, carried)
    <3>1. ASSUME NEW q \in Requests, NEW o \in carried[q], NEW j \in DOMAIN new, new[j].op = o
          PROVE  new[j].req = q
      <4>1. CASE new[j] = tail
        BY <3>1, <4>1 DEF FileIInv
      <4>2. CASE j \in DOMAIN disk /\ new[j] = disk[j]
        BY <1>0, <3>1, <4>2 DEF Signed
      <4> QED
        BY <2>7, <4>1, <4>2
    <3> QED
      BY <3>1 DEF Signed
  <2>9. ASSUME NEW r \in Requests \ damaged, NEW o \in carried[r] PROVE Has(new, o)
    <3>1. CASE tail.op = o
      BY <2>2, <2>5, <2>6, <3>1
    <3>2. CASE tail.op # o
      <4>1. PICK j \in DOMAIN disk : disk[j].op = o
        BY <2>9, <3>2 DEF FileIInv, Has
      <4>2. j \in DOMAIN new /\ new[j] = disk[j]
        BY <2>2, <2>5, <2>6, <3>2, <4>1
      <4> QED
        BY <4>1, <4>2 DEF Has
    <3> QED
      BY <3>1, <3>2
  <2> QED
    BY <2>2, <2>3, <2>4, <2>5, <2>6, <2>8, <2>9
<1> QED
  BY <1>1, <1>2

\* A replay finds every request of which it reads a record.
LEMMA ReplayFinds ==
    ASSUME NEW b \in Seq(OpRecord)
    PROVE  /\ ReplayIndex(b) \in [Requests -> 0..MaxRecords]
           /\ \A r \in Requests : ReplayIndex(b)[r] = 0 => \A i \in DOMAIN b : b[i].req # r
<1>0. /\ \A i \in DOMAIN b : b[i] \in OpRecord /\ b[i].op \in 1..MaxRecords
      /\ MaxRecords \in Nat
  <2>1. \A i \in DOMAIN b : b[i] \in OpRecord
    BY RecordsAreThere
  <2>2. \A t \in OpRecord : t.op \in 1..MaxRecords
    BY DEF OpRecord
  <2> QED
    BY <2>1, <2>2, JournalAssumption
<1>1. ASSUME NEW r \in Requests
      PROVE  /\ ReplayIndex(b)[r] \in 0..MaxRecords
             /\ ReplayIndex(b)[r] = 0 => \A i \in DOMAIN b : b[i].req # r
  <2> DEFINE mine == {b[i].op : i \in {j \in DOMAIN b : b[j].req = r}}
  <2>1. ReplayIndex(b)[r] = IF mine = {} THEN 0 ELSE CHOOSE o \in mine : \A p \in mine : p <= o
    BY DEF ReplayIndex
  <2>2. \A o \in mine : o \in 1..MaxRecords
    BY <1>0
  <2>3. CASE mine = {}
    <3>1. \A i \in DOMAIN b : b[i].req # r
      BY <2>3
    <3>2. 0 \in 0..MaxRecords
      BY <1>0
    <3> QED
      BY <2>1, <2>3, <3>1, <3>2
  <2>4. CASE mine # {}
    <3> HIDE DEF mine
    <3>1. mine \in SUBSET (0..MaxRecords)
      BY <1>0, <2>2
    <3>2. \E o \in mine : \A p \in mine : p <= o
      BY <1>0, <2>4, <3>1, GreatestElement
    <3>3. (CHOOSE o \in mine : \A p \in mine : p <= o) \in mine
      BY <3>2
    <3>4. ReplayIndex(b)[r] \in 1..MaxRecords
      BY <2>1, <2>2, <2>4, <3>3
    <3> QED
      BY <1>0, <3>4
  <2> QED
    BY <2>3, <2>4
<1>2. ReplayIndex(b) = [r \in Requests |-> ReplayIndex(b)[r]]
  BY DEF ReplayIndex
<1>3. PICK index : index = ReplayIndex(b)
  OBVIOUS
<1>4. index \in [Requests -> 0..MaxRecords]
  BY <1>1, <1>2, <1>3
<1> QED
  BY <1>1, <1>3, <1>4

\* Interrupting changes nothing but a status.
LEMMA InterruptedPlaces ==
    ASSUME NEW b \in Seq(OpRecord)
    PROVE  /\ Interrupted(b) \in Seq(OpRecord) /\ DOMAIN Interrupted(b) = DOMAIN b
           /\ \A i \in DOMAIN b : /\ Interrupted(b)[i].op = b[i].op
                                  /\ Interrupted(b)[i].req = b[i].req
                                  /\ Interrupted(b)[i].status # "pending"
<1>0. /\ Len(b) \in Nat /\ DOMAIN b = 1..Len(b)
      /\ \A i \in DOMAIN b : b[i] \in OpRecord
  BY RecordsAreThere
<1>1. ASSUME NEW x \in OpRecord
      PROVE  /\ [x EXCEPT !.status = "interrupted"] \in OpRecord
             /\ [x EXCEPT !.status = "interrupted"].op = x.op
             /\ [x EXCEPT !.status = "interrupted"].req = x.req
             /\ [x EXCEPT !.status = "interrupted"].status # "pending"
  BY DEF OpRecord, Terminal
<1>2. PICK new : new = Interrupted(b)
  OBVIOUS
<1>3. /\ DOMAIN new = DOMAIN b
      /\ new = [i \in DOMAIN b |-> new[i]]
      /\ \A i \in DOMAIN b : new[i] = IF b[i].status = "pending"
                                       THEN [b[i] EXCEPT !.status = "interrupted"] ELSE b[i]
  BY <1>2 DEF Interrupted
<1>4. \A i \in DOMAIN b : /\ new[i] \in OpRecord
                          /\ new[i].op = b[i].op /\ new[i].req = b[i].req
                          /\ new[i].status # "pending"
  <2>1. ASSUME NEW i \in DOMAIN b
        PROVE  /\ new[i] \in OpRecord
               /\ new[i].op = b[i].op /\ new[i].req = b[i].req
               /\ new[i].status # "pending"
    <3>1. CASE b[i].status = "pending"
      <4>1. new[i] = [b[i] EXCEPT !.status = "interrupted"] /\ b[i] \in OpRecord
        BY <1>0, <1>3, <3>1
      <4> QED
        BY <1>1, <4>1, Zenon
    <3>2. CASE b[i].status # "pending"
      <4>1. new[i] = b[i] /\ b[i] \in OpRecord
        BY <1>0, <1>3, <3>2
      <4> QED
        BY <3>2, <4>1
    <3> QED
      BY <3>1, <3>2
  <2> QED
    BY <2>1
<1>5. new \in [1..Len(b) -> OpRecord]
  BY <1>0, <1>3, <1>4
<1>6. new \in Seq(OpRecord)
  BY <1>0, <1>5, SeqDef
<1> QED
  BY <1>2, <1>3, <1>4, <1>6

\* A start keeps it.
LEMMA StartUpKeeps ==
    ASSUME JournalIInv, StartUp
    PROVE  JournalIInv'
<1>1. PICK b : b = ReadBack
  OBVIOUS
<1>2. PICK s : s = Interrupted(b)
  OBVIOUS
<1>3. PICK t : t = Trimmed(s)
  OBVIOUS
<1>0. /\ JournalShapes /\ FileIInv /\ RunsOnce
      /\ starts < MaxStarts /\ starts' = starts + 1 /\ serving' = TRUE
      /\ book' = t
      /\ byRequest' = Reindexed(ReplayIndex(b), s)
      /\ unfound' = unfound \union LeftBehind(s)
      /\ issued' = issued /\ carried' = carried
      /\ IF PendingOps(b) = {} THEN UNCHANGED <<fileVars, damaged>>
         ELSE Journalled(s[CHOOSE i \in PendingOps(b) : TRUE])
  BY <1>1, <1>2, <1>3 DEF JournalIInv, StartUp
<1>n. issued \in Nat /\ issued <= MaxRecords /\ MaxRecords \in Nat
  BY <1>0, TailNumbers
<1>4. /\ b \in Seq(OpRecord) /\ OpsRise(b, issued) /\ Signed(b, carried)
      /\ \A r \in Requests \ damaged : \A o \in carried[r] : Has(b, o)
      /\ tail = Closed => b = disk
  BY <1>0, <1>1, ReadBackHolds
<1>5. /\ s \in Seq(OpRecord) /\ DOMAIN s = DOMAIN b
      /\ \A i \in DOMAIN b : s[i].op = b[i].op /\ s[i].req = b[i].req /\ s[i].status # "pending"
  BY <1>2, <1>4, InterruptedPlaces
<1>6. /\ OpsRise(s, issued) /\ Signed(s, carried) /\ LastPends(s)
      /\ \A o : Has(b, o) => Has(s, o)
  <2>1. OpsRise(s, issued)
    BY <1>4, <1>5 DEF OpsRise
  <2>2. Signed(s, carried)
    BY <1>4, <1>5 DEF Signed
  <2>3. LastPends(s)
    BY <1>5 DEF LastPends
  <2>4. \A o : Has(b, o) => Has(s, o)
    BY <1>5 DEF Has
  <2> QED
    BY <2>1, <2>2, <2>3, <2>4
<1>7. /\ t \in Seq(OpRecord) /\ OpsRise(t, issued) /\ LastPends(t)
      /\ ToSet(t) \subseteq ToSet(s)
      /\ \A o \in Nat : Has(s, o) => Has(t, o) \/ o + HistoryLimit <= issued
  BY <1>3, <1>5, <1>6, <1>n, TrimmedKeeps
<1>8. \A i \in DOMAIN t : \E j \in DOMAIN s : t[i] = s[j]
  BY <1>7 DEF ToSet
<1>9. /\ FileIInv'
      /\ disk' \in Seq(OpRecord) /\ tail' \in OpRecord \union {Torn, Closed}
      /\ damaged' \subseteq Requests /\ damaged \subseteq damaged'
  <2>1. CASE PendingOps(b) = {}
    <3>1. UNCHANGED <<disk, tail, damaged, issued, carried>>
      BY <1>0, <2>1 DEF fileVars
    <3> QED
      BY <1>0, <3>1 DEF FileIInv, JournalShapes
  <2>2. CASE PendingOps(b) # {}
    <3>1. PICK i \in DOMAIN b : Journalled(s[i])
      <4>1. (CHOOSE i \in PendingOps(b) : TRUE) \in DOMAIN b
        BY <2>2 DEF PendingOps
      <4> QED
        BY <1>0, <2>2, <4>1
    <3>2. s[i] \in OpRecord /\ s[i].op <= issued
      <4>1. i \in DOMAIN s
        BY <1>5
      <4> QED
        BY <1>5, <1>6, <4>1, RecordsAreThere DEF OpsRise
    <3>3. Writable(s[i], issued', carried')
      <4>1. carried \in [Requests -> SUBSET (1..MaxRecords)] /\ issued \in issued..MaxRecords
        BY <1>0, <1>n DEF JournalShapes
      <4>2. \A q \in Requests : s[i].op \in carried[q] => s[i].req = q
        BY <1>5, <1>6 DEF Signed
      <4> QED
        BY <1>0, <3>2, <4>1, <4>2 DEF Writable
    <3>4. tail = Closed => Has(disk, s[i].op)
      BY <1>4, <1>5 DEF Has
    <3>5. PICK rec : rec = s[i]
      OBVIOUS
    <3>6. /\ Writable(rec, issued', carried') /\ Journalled(rec)
          /\ tail = Closed => Has(disk, rec.op)
      BY <3>1, <3>3, <3>4, <3>5
    <3> QED
      BY <1>0, <3>6, WritesKeepTheFile
  <2> QED
    BY <2>1, <2>2
<1>10. ReplayIndex(b) \in [Requests -> 0..MaxRecords]
  BY <1>4, ReplayFinds
<1>11. PICK index : index = ReplayIndex(b)
  OBVIOUS
<1>12. ASSUME NEW q \in Requests \ unfound', byRequest'[q] = 0
       PROVE  \A i \in DOMAIN t : t[i].req # q
  <2>1. q \notin LeftBehind(s)
    BY <1>0, <1>12
  <2>2. index[q] = 0 => \A i \in DOMAIN s : s[i].req # q
    BY <1>4, <1>5, <1>11, ReplayFinds
  <2>3. Reindexed(index, s)[q] = 0 /\ ToSet(Trimmed(s)) \subseteq ToSet(s)
    BY <1>0, <1>3, <1>7, <1>11, <1>12
  <2> QED
    BY <1>3, <1>5, <2>1, <2>2, <2>3, KeptAreFound
<1>13. Signed(t, carried)
  BY <1>6, <1>8 DEF Signed
<1>14. \A i \in DOMAIN t : t[i].status # "pending"
  BY <1>5, <1>8
<1>15. ASSUME NEW r \in Requests \ damaged', NEW o \in carried[r], issued < o + HistoryLimit
       PROVE  Has(t, o)
  <2>1. Has(s, o)
    BY <1>4, <1>6, <1>9, <1>15
  <2>2. o \in Nat /\ HistoryLimit \in Nat
    BY <1>0, JournalAssumption DEF JournalShapes
  <2>3. ~(o + HistoryLimit <= issued)
    BY <1>15, <1>n, <2>2
  <2> QED
    BY <1>7, <2>1, <2>2, <2>3
<1>16. BookIInv'
  BY <1>0, <1>7, <1>12, <1>13, <1>14, <1>15 DEF BookIInv
<1>17. JournalShapes'
  <2>1. byRequest' \in [Requests -> 0..MaxRecords]
    <3>1. 0 \in 0..MaxRecords
      BY <1>n
    <3>2. index \in [Requests -> 0..MaxRecords] /\ byRequest' = Reindexed(index, s)
      BY <1>0, <1>10, <1>11
    <3> QED
      BY <3>1, <3>2 DEF Reindexed
  <2>2. unfound' \subseteq AnyRequest
    <3>1. LeftBehind(s) \subseteq AnyRequest
      <4>1. ToSet(s) \subseteq OpRecord
        BY <1>5, RecordsAreThere DEF ToSet
      <4>2. \A x \in OpRecord : x.req \in AnyRequest
        BY DEF OpRecord
      <4> QED
        BY <4>1, <4>2 DEF LeftBehind, RequestsOf, Dropped
    <3> QED
      BY <1>0, <3>1 DEF JournalShapes
  <2>3. starts' \in 0..MaxStarts
    <3>1. MaxStarts \in Nat
      BY JournalAssumption
    <3> QED
      BY <1>0, <3>1 DEF JournalShapes
  <2> QED
    BY <1>0, <1>7, <1>9, <2>1, <2>2, <2>3 DEF JournalShapes
<1>18. RunsOnce'
  BY <1>0, <1>9 DEF RunsOnce
<1> QED
  BY <1>9, <1>16, <1>17, <1>18 DEF JournalIInv

\* A power cut keeps it, in the middle of a line too.
LEMMA PowerCutKeeps ==
    ASSUME JournalIInv, PowerCut
    PROVE  JournalIInv'
<1>0. /\ JournalShapes /\ FileIInv /\ BookIInv /\ RunsOnce /\ serving /\ serving' = FALSE
      /\ UNCHANGED <<book, byRequest, starts, carried, unfound>>
  BY DEF JournalIInv, PowerCut, bookVars
<1>n. issued \in Nat /\ issued <= MaxRecords /\ MaxRecords \in Nat
  BY <1>0, TailNumbers
<1>d. \A i \in DOMAIN disk : disk[i].op \in Nat /\ disk[i].op <= issued
  <2>1. \A i \in DOMAIN disk : disk[i] \in OpRecord
    BY <1>0, RecordsAreThere DEF JournalShapes
  <2> QED
    BY <1>0, <2>1 DEF OpRecord, FileIInv, OpsRise
<1>c. carried \in [Requests -> SUBSET (1..MaxRecords)]
  BY <1>0 DEF JournalShapes
<1>1. ASSUME NEW rec, Writable(rec, issued', carried), issued' \in 0..MaxRecords,
             \A i \in DOMAIN disk : disk[i].op <= rec.op, CutShort(rec)
      PROVE  JournalIInv'
  <2>1. /\ FileIInv'
        /\ disk' = disk /\ tail' \in OpRecord \union {Torn, Closed}
        /\ damaged' \subseteq Requests /\ damaged \subseteq damaged'
    BY <1>0, <1>1, CutsKeepTheFile
  <2>2. JournalShapes'
    BY <1>0, <1>1, <2>1 DEF JournalShapes
  <2>3. BookIInv'
    BY <1>0 DEF BookIInv
  <2>4. RunsOnce'
    BY <1>0, <2>1 DEF RunsOnce
  <2> QED
    BY <2>1, <2>2, <2>3, <2>4 DEF JournalIInv
<1>2. ASSUME NEW r \in AnyRequest, Admitted(r), CutShort(NewRecord(r)), issued' = issued + 1
      PROVE  JournalIInv'
  <2>1. PICK rec : rec = NewRecord(r)
    OBVIOUS
  <2>2. issued < MaxRecords
    BY <1>2 DEF Admitted
  <2>3. rec \in OpRecord /\ rec.op = issued + 1
    <3>1. issued + 1 \in 1..MaxRecords
      BY <1>n, <2>2
    <3> QED
      BY <2>1, <3>1 DEF NewRecord, OpRecord
  <2>4. \A q \in Requests : rec.op \notin carried[q]
    <3>1. \A q \in Requests : \A o \in carried[q] : o <= issued
      BY <1>0 DEF FileIInv
    <3>2. ~(issued + 1 <= issued)
      BY <1>n
    <3> QED
      BY <2>3, <3>1, <3>2
  <2>5. issued' \in issued..MaxRecords /\ rec.op <= issued' /\ issued' \in 0..MaxRecords
    BY <1>2, <1>n, <2>2, <2>3
  <2>6. Writable(rec, issued', carried)
    BY <1>c, <2>3, <2>4, <2>5 DEF Writable
  <2>7. \A i \in DOMAIN disk : disk[i].op <= rec.op
    BY <1>d, <1>n, <2>3
  <2> QED
    BY <1>1, <1>2, <2>1, <2>5, <2>6, <2>7
<1>3. ASSUME PendingOps(book) # {}, CutShort(Finished("finished")), issued' = issued
      PROVE  JournalIInv'
  <2> DEFINE i == CHOOSE j \in PendingOps(book) : TRUE
  <2>1. PICK rec : rec = Finished("finished")
    OBVIOUS
  <2>2. i \in DOMAIN book /\ book[i].status = "pending" /\ rec = [book[i] EXCEPT !.status = "finished"]
    BY <1>3, <2>1 DEF PendingOps, Finished
  <2> HIDE DEF i
  <2>3. book[i] \in OpRecord /\ book[i].op = issued
    BY <1>0, <2>2, RecordsAreThere DEF BookIInv, JournalShapes
  <2>4. rec \in OpRecord /\ rec.op = issued /\ rec.req = book[i].req
    <3>1. rec \in OpRecord /\ rec.op = book[i].op /\ rec.req = book[i].req
      BY <2>2, <2>3 DEF OpRecord, Terminal
    <3> QED
      BY <2>3, <3>1
  <2>5. \A q \in Requests : rec.op \in carried[q] => rec.req = q
    BY <1>0, <2>2, <2>3, <2>4 DEF BookIInv, Signed
  <2>6. issued' \in issued..MaxRecords /\ rec.op <= issued' /\ issued' \in 0..MaxRecords
    BY <1>3, <1>n, <2>4
  <2>7. Writable(rec, issued', carried)
    BY <1>c, <2>4, <2>5, <2>6 DEF Writable
  <2>8. \A k \in DOMAIN disk : disk[k].op <= rec.op
    BY <1>d, <2>4
  <2> QED
    BY <1>1, <1>3, <2>1, <2>6, <2>7, <2>8
<1> QED
  BY <1>2, <1>3 DEF PowerCut

\* It holds before the first start.
LEMMA JournalStarts == JournalInit => JournalIInv
<1> SUFFICES ASSUME JournalInit PROVE JournalIInv
  OBVIOUS
<1>1. <<>> \in Seq(OpRecord) /\ DOMAIN <<>> = {}
  BY EmptySeq, LenProperties
<1>2. {HistoryLimit, MaxRecords, MaxStarts} \subseteq Nat
  BY JournalAssumption
<1>3. JournalShapes
  <2>1. 0 \in 0..MaxRecords /\ 0 \in 0..MaxStarts
    BY <1>2
  <2> QED
    BY <1>1, <2>1 DEF JournalInit, JournalShapes
<1>4. /\ tail = Closed /\ tail \notin OpRecord
      /\ disk = <<>> /\ \A r \in Requests : carried[r] = {}
  <2>1. Closed.op = MaxRecords + 1 /\ \A x \in OpRecord : x.op \in 1..MaxRecords
    BY DEF Closed, OpRecord
  <2>2. MaxRecords + 1 \notin 1..MaxRecords
    BY <1>2
  <2> QED
    BY <2>1, <2>2 DEF JournalInit
<1>5. FileIInv
  BY <1>1, <1>4 DEF FileIInv, OpsRise, Signed
<1>6. BookIInv
  BY DEF JournalInit, BookIInv
<1>7. RunsOnce
  BY <1>4 DEF RunsOnce
<1> QED
  BY <1>3, <1>5, <1>6, <1>7 DEF JournalIInv

\* However often the supervisor is killed, the power cut or a write refused: operations rise in
\* the file, the book of a supervisor that is up holds the latest ones of every undamaged request,
\* and its index finds them (OperationBook._replay, _trim, _journal).
THEOREM JournalInvariance == JournalSpec => []JournalIInv
<1>1. JournalIInv /\ [JournalNext]_journalVars => JournalIInv'
  <2> SUFFICES ASSUME JournalIInv, [JournalNext]_journalVars PROVE JournalIInv'
    OBVIOUS
  <2>1. CASE UNCHANGED journalVars
    BY <2>1 DEF JournalIInv, JournalShapes, FileIInv, BookIInv, RunsOnce, OpsRise, Signed, Has,
                journalVars, bookVars, fileVars, historyVars
  <2>2. ASSUME NEW r \in AnyRequest, Duplicate(r) PROVE JournalIInv'
    BY <2>1, <2>2 DEF Duplicate
  <2>3. ASSUME NEW r \in AnyRequest, Submit(r) PROVE JournalIInv'
    BY <2>3, SubmitKeeps
  <2>4. ASSUME NEW status \in Terminal, FinishOp(status) PROVE JournalIInv'
    BY <2>4, FinishKeeps
  <2>5. CASE StartUp
    BY <2>5, StartUpKeeps
  <2>6. CASE Kill
    <3>1. /\ serving' = FALSE /\ UNCHANGED <<book, byRequest, disk, tail, issued, starts>>
          /\ UNCHANGED <<carried, damaged, unfound>>
      BY <2>6 DEF Kill, bookVars, fileVars, historyVars
    <3>0. JournalShapes /\ FileIInv /\ RunsOnce
      BY DEF JournalIInv
    <3>a. JournalShapes'
      BY <3>0, <3>1 DEF JournalShapes
    <3>b. FileIInv'
      BY <3>0, <3>1 DEF FileIInv
    <3>2. RunsOnce'
      BY <3>0, <3>1 DEF RunsOnce
    <3>3. BookIInv'
      BY <3>1 DEF BookIInv
    <3> QED
      BY <3>a, <3>b, <3>2, <3>3 DEF JournalIInv
  <2>7. CASE PowerCut
    BY <2>7, PowerCutKeeps
  <2> QED
    BY <2>1, <2>2, <2>3, <2>4, <2>5, <2>6, <2>7 DEF JournalNext
<1> QED
  BY <1>1, JournalStarts, PTL DEF JournalSpec

\* A request whose records reached the file is carried out once, until its record left the book
\* for newer ones, for every number of requests and every length of the history
\* (OperationBook.submit).
THEOREM RequestsRunOnce == JournalSpec => []RunsOnce
<1>1. JournalIInv => RunsOnce
  BY DEF JournalIInv
<1> QED
  BY <1>1, JournalInvariance, PTL

-----------------------------------------------------------------------------
(***************************************************************************)
(* The profile of the vehicle. What load() accepts has one meaning for a   *)
(* wire; and, of periods as short as the shipped ones, a claim outlives a  *)
(* late tick of its owner and no scan, and ends soon after it.             *)
(***************************************************************************)

\* The types of a document's values, as far as a proof needs them.
DocumentTypes(d) ==
  /\ d.platform \in {Blvr, Qr}
  /\ d.flaws \subseteq Rules \cup (IF d.platform = Qr THEN QrRules ELSE {})
  /\ d.di \in [Inputs -> Inputs] /\ d.do \in [Outputs -> Outputs]
  /\ d.loop \in Nat /\ d.telemetry \in Nat /\ d.coil_hold \in Nat /\ d.scan \in 1..3
  /\ d.driver_timeout \in {1, 3, 8, Never} /\ d.heartbeat \in 0..4

\* A shipped document has these types, and so has each one hand made of it.
LEMMA ShippedIsTyped ==
    ASSUME NEW p \in {Blvr, Qr}
    PROVE  LET s == Shipped(p) IN
           /\ DocumentTypes(s) /\ s.flaws = {} /\ s.platform = p /\ s.loop = 1 /\ s.coil_hold = 4
           /\ s = [platform |-> s.platform, sections |-> s.sections, flaws |-> s.flaws,
                   off |-> s.off, di |-> s.di, do |-> s.do, loop |-> s.loop,
                   telemetry |-> s.telemetry, driver_timeout |-> s.driver_timeout,
                   heartbeat |-> s.heartbeat, scan |-> s.scan, timeout |-> s.timeout,
                   silent |-> s.silent, reconnect |-> s.reconnect, coil_hold |-> s.coil_hold]
BY DEF Shipped, DocumentTypes, Blvr, Qr

\* So has each one with a change made by hand.
LEMMA EditedIsTyped ==
    ASSUME NEW s, DocumentTypes(s), s.flaws = {}, s.loop = 1, s.coil_hold = 4,
           s = [platform |-> s.platform, sections |-> s.sections, flaws |-> s.flaws,
                off |-> s.off, di |-> s.di, do |-> s.do, loop |-> s.loop,
                telemetry |-> s.telemetry, driver_timeout |-> s.driver_timeout,
                heartbeat |-> s.heartbeat, scan |-> s.scan, timeout |-> s.timeout,
                silent |-> s.silent, reconnect |-> s.reconnect, coil_hold |-> s.coil_hold],
           NEW d \in Misshapen(s) \cup Rewired(s) \cup Retimed(s)
    PROVE  DocumentTypes(d)
<1>1. CASE d \in Misshapen(s)
  <2>1. \/ \E r \in Rules \cup (IF s.platform = Qr THEN QrRules ELSE {}) :
             d = [s EXCEPT !.flaws = {r}]
        \/ \E x \in Sections \cup {"qr_base"} : d = [s EXCEPT !.sections = @ \ {x}]
        \/ \E x \in {"qr_base", "spare"} : d = [s EXCEPT !.sections = @ \cup {x}]
        \/ \E x \in {{"dio"}, {"panel"}, {"horn"}, {"pendant"},
                     {"dio", "panel", "horn", "pendant"}} : d = [s EXCEPT !.off = @ \cup x]
    BY <1>1, Zenon DEF Misshapen
  <2> QED
    BY <2>1 DEF DocumentTypes
<1>2. CASE d \in Rewired(s)
  <2>1. \/ \E w \in Inputs \X Inputs : d = [s EXCEPT !.di[w[1]] = w[2]]
        \/ \E w \in (MotorCoils \cup {"horn"}) \X (MotorCoils \cup {"horn"})
                    \cup PanelOutputs \X PanelOutputs : d = [s EXCEPT !.do[w[1]] = w[2]]
    BY <1>2, Zenon DEF Rewired
  <2>2. CASE \E w \in Inputs \X Inputs : d = [s EXCEPT !.di[w[1]] = w[2]]
    BY <2>2 DEF DocumentTypes
  <2>3. CASE \E w \in (MotorCoils \cup {"horn"}) \X (MotorCoils \cup {"horn"})
                    \cup PanelOutputs \X PanelOutputs : d = [s EXCEPT !.do[w[1]] = w[2]]
    <3>1. MotorCoils \cup {"horn"} \subseteq Outputs /\ PanelOutputs \subseteq Outputs
      BY DEF Outputs, PanelOutputs
    <3>2. PICK i \in Outputs, j \in Outputs : d = [s EXCEPT !.do[i] = j]
      BY <2>3, <3>1
    <3> QED
      BY <3>2 DEF DocumentTypes
  <2> QED
    BY <2>1, <2>2, <2>3
<1>3. CASE d \in Retimed(s)
  <2>1. \/ \E t \in [loop : Loops, scan : 1..3, hold : CoilHolds] :
             d = [s EXCEPT !.loop = t.loop, !.telemetry = t.loop, !.scan = t.scan,
                           !.coil_hold = t.hold]
        \/ \E t \in [limit : {1, 3, 8, Never}, beat : 0..4] :
             d = [s EXCEPT !.driver_timeout = t.limit, !.heartbeat = t.beat]
        \/ \E t \in [answer : 1..2, silent : {2, 8, Never}, again : {2, 8, Never}] :
             d = [s EXCEPT !.timeout = t.answer, !.silent = t.silent, !.reconnect = t.again]
    BY <1>3, Zenon DEF Retimed
  <2>2. ASSUME NEW t \in [loop : Loops, scan : 1..3, hold : CoilHolds],
               d = [s EXCEPT !.loop = t.loop, !.telemetry = t.loop, !.scan = t.scan,
                             !.coil_hold = t.hold]
        PROVE  DocumentTypes(d)
    <3>1. t.loop \in Loops /\ t.loop \in Nat /\ t.scan \in 1..3 /\ t.hold \in CoilHolds /\ t.hold \in Nat
      BY PeriodsAssumption
    <3> QED
      BY <2>2, <3>1 DEF DocumentTypes
  <2>3. ASSUME NEW t \in [limit : {1, 3, 8, Never}, beat : 0..4],
               d = [s EXCEPT !.driver_timeout = t.limit, !.heartbeat = t.beat]
        PROVE  DocumentTypes(d)
    <3>1. t.limit \in {1, 3, 8, Never} /\ t.beat \in 0..4
      OBVIOUS
    <3> QED
      BY <2>3, <3>1 DEF DocumentTypes
  <2>4. ASSUME NEW t \in [answer : 1..2, silent : {2, 8, Never}, again : {2, 8, Never}],
               d = [s EXCEPT !.timeout = t.answer, !.silent = t.silent, !.reconnect = t.again]
        PROVE  DocumentTypes(d)
    BY <2>4 DEF DocumentTypes
  <2> QED
    BY <2>1, <2>2, <2>3, <2>4, Zenon
<1> QED
  BY <1>1, <1>2, <1>3

\* Every document a load may meet has the types.
LEMMA DocumentsAreTyped ==
    ASSUME NEW d \in Documents
    PROVE  DocumentTypes(d)
<1>1. PICK p \in {Blvr, Qr} :
        \/ d = Shipped(p)
        \/ d \in Misshapen(Shipped(p)) \cup Rewired(Shipped(p)) \cup Retimed(Shipped(p))
  BY Zenon DEF Documents
<1> DEFINE s == Shipped(p)
<1>2. /\ DocumentTypes(s) /\ s.flaws = {} /\ s.loop = 1 /\ s.coil_hold = 4
      /\ s = [platform |-> s.platform, sections |-> s.sections, flaws |-> s.flaws,
              off |-> s.off, di |-> s.di, do |-> s.do, loop |-> s.loop,
              telemetry |-> s.telemetry, driver_timeout |-> s.driver_timeout,
              heartbeat |-> s.heartbeat, scan |-> s.scan, timeout |-> s.timeout,
              silent |-> s.silent, reconnect |-> s.reconnect, coil_hold |-> s.coil_hold]
  BY ShippedIsTyped, Zenon
<1>3. d = s \/ d \in Misshapen(s) \cup Rewired(s) \cup Retimed(s)
  BY <1>1
<1> HIDE DEF s
<1> QED
  BY <1>2, <1>3, EditedIsTyped, Zenon

\* The profile that was published is that of the document at hand, which load() accepted.
PublishedIsAccepted ==
  /\ document \in Documents
  /\ Running => ~refused /\ Accepts(document) /\ profile = Derive(document)

\* Every step keeps what was published.
LEMMA AcceptedStays == ASSUME PublishedIsAccepted, [ProfileNext]_profileVars
                       PROVE  PublishedIsAccepted'
<1>1. CASE LoadProfile
  BY <1>1 DEF LoadProfile, PublishedIsAccepted, Running
<1>2. CASE Corrected
  <2>1. document' \in Documents
    <3>1. document.platform \in {Blvr, Qr}
      BY DocumentsAreTyped, Zenon DEF PublishedIsAccepted, DocumentTypes
    <3> QED
      BY <1>2, <3>1, Zenon DEF Corrected, Documents
  <2> QED
    BY <1>2, <2>1 DEF Corrected, PublishedIsAccepted, Running
<1>3. CASE OwnerTick \/ WritePhase \/ Heartbeat \/ Dies \/ Passes \/ UNCHANGED profileVars
  <2>1. UNCHANGED <<document, profile, refused>>
    BY <1>3, Zenon DEF OwnerTick, WritePhase, Heartbeat, Dies, Passes, profileVars
  <2> QED
    BY <2>1 DEF PublishedIsAccepted, Running
<1> QED
  BY <1>1, <1>2, <1>3, Zenon DEF ProfileNext

-----------------------------------------------------------------------------
(* The periods.                                                             *)

\* What the checks of load() leave of the periods and the wires.
SoundPeriods(d) ==
  LET lasting == Derive(d).hold IN
  /\ d.loop \in Nat \ {0} /\ d.scan \in 1..3 /\ d.heartbeat \in Nat /\ d.driver_timeout \in 0..8
  /\ lasting \in Nat \ {0}
  /\ d.platform = Qr => lasting = d.coil_hold /\ lasting <= LongestCoilHold
  /\ d.platform # Qr => /\ d.loop + Late * d.loop < lasting
                        /\ lasting <= Larger(LongestCoilHold, 5 * d.loop)
  /\ d.heartbeat > 0 => d.heartbeat + Late * d.heartbeat < d.driver_timeout

\* The outputs a platform drives, and that each has a coil of its own.
DrivenOf(d) == IF d.platform = Qr THEN MotorCoils
               ELSE (IF "horn" \in d.off THEN {} ELSE {"horn"})
                    \cup (IF "dio" \in d.off THEN {} ELSE {"motion", "alarm"})

SoundWires(d) ==
  /\ \A o, q \in DrivenOf(d) : o # q => d.do[o] # d.do[q]
  /\ \A o \in DrivenOf(d) : o \in Outputs /\ d.do[o] \in Outputs
  /\ "dio" \in d.off => DrivenOf(d) = {}

\* The types of what runs.
ProfileTypes ==
  /\ beating \in BOOLEAN /\ watched \in {"outputs", "drive"}
  /\ asked \in [Outputs -> BOOLEAN] /\ claim \in [Outputs -> BOOLEAN]
  /\ coil \in [Outputs -> BOOLEAN]
  /\ renewed \in 0..MaxAge /\ steady \in 0..MaxSteady /\ scanned \in 0..MaxSteady

\* There is a scan that writes the outputs.
IsScanned == watched = "outputs" /\ "dio" \notin document.off

\* Nothing has happened before a profile is published.
NothingYet ==
  ~Running => /\ renewed = 0 /\ steady = 0 /\ scanned = 0
              /\ \A c \in Outputs : ~asked[c] /\ ~claim[c] /\ ~coil[c]

\* No live source, and no scan, is later than it may be.
NoneTooLate ==
  Running => /\ beating => renewed <= Every
             /\ IsScanned => scanned <= document.scan + Late * document.scan

\* What an owner asked for last is what it claims.
ClaimsAreAsked == Running => \A o \in Driven : claim[document.do[o]] = asked[o]

\* The scan that came after the last change wrote what was asked for, or low where the claims
\* may end between two ticks,
AsAsked(o) ==
  /\ coil[document.do[o]] => asked[o]
  /\ RenewedInTime /\ asked[o] => coil[document.do[o]]

WrittenAsAsked ==
  (Running /\ beating /\ IsScanned /\ steady > scanned) => \A o \in Driven : AsAsked(o)

\* and the scan that came after the end of the claims wrote low.
WrittenLow ==
  (Running /\ (IsScanned => renewed >= profile.hold + scanned)) =>
     (watched = "outputs" => \A c \in Outputs : ~coil[c])

\* The inductive invariant.
PeriodsIInv ==
  /\ PublishedIsAccepted /\ ProfileTypes /\ NothingYet /\ NoneTooLate /\ ClaimsAreAsked
  /\ WrittenAsAsked /\ WrittenLow

\* What is late by at most one period.
LEMMA LateIsOneAtMost == \A n \in Nat : Late * n \in Nat /\ Late * n <= n
<1>1. Late = 0 \/ Late = 1
  BY PeriodsAssumption
<1>2. \A n \in Nat : 0 * n = 0 /\ 1 * n = n
  OBVIOUS
<1> QED
  BY <1>1, <1>2

\* What the checks of load() leave of the periods and the wires of a document.
LEMMA AcceptedIsSound ==
    ASSUME NEW d \in Documents, Accepts(d)
    PROVE  SoundPeriods(d) /\ SoundWires(d)
<1> DEFINE lasting == Derive(d).hold
<1>1. DocumentTypes(d)
  BY DocumentsAreTyped
<1>2. /\ d.loop > 0 /\ d.telemetry >= d.loop /\ d.driver_timeout > d.telemetry
      /\ d.heartbeat = 0 \/ 2 * d.heartbeat < d.driver_timeout
      /\ d.driver_timeout # Never
  BY Zenon DEF Accepts, Parse, Coerce, Validate, Timing
<1>3. d.platform = Qr => /\ 2 * d.scan <= d.coil_hold /\ d.coil_hold <= LongestCoilHold
                         /\ \A a, b \in MotorCoils : a # b => d.do[a] # d.do[b]
                         /\ "dio" \notin d.off
  BY Zenon DEF Accepts, Validate, ValidateQr, QrCoils
<1>4. /\ d.platform \in {Blvr, Qr} /\ d.loop \in Nat /\ d.coil_hold \in Nat /\ d.scan \in 1..3
      /\ d.driver_timeout \in {1, 3, 8, Never} /\ d.heartbeat \in 0..4
  BY <1>1 DEF DocumentTypes
<1>5. /\ Late * d.loop \in Nat /\ Late * d.loop <= d.loop
      /\ Late * d.heartbeat \in Nat /\ Late * d.heartbeat <= d.heartbeat
  BY <1>4, LateIsOneAtMost
<1>7. /\ lasting \in Nat \ {0}
      /\ d.platform = Qr => lasting = d.coil_hold /\ lasting <= LongestCoilHold
      /\ d.platform # Qr => /\ d.loop + Late * d.loop < lasting
                            /\ lasting <= Larger(LongestCoilHold, 5 * d.loop)
  <2>1. lasting = IF d.platform = Qr THEN d.coil_hold
               ELSE IF 5 * d.loop > 2 * d.scan THEN 5 * d.loop ELSE 2 * d.scan
    BY Zenon DEF Derive, Larger
  <2>2. Larger(LongestCoilHold, 5 * d.loop)
           = IF LongestCoilHold > 5 * d.loop THEN LongestCoilHold ELSE 5 * d.loop
    BY Zenon DEF Larger
  <2> DEFINE late == Late * d.loop
             most == Larger(LongestCoilHold, 5 * d.loop)
  <2>3. late \in Nat /\ late <= d.loop
    BY <1>5
  <2> HIDE DEF late, lasting, most
  <2>4. CASE d.platform = Qr
    BY <1>3, <1>4, <2>1, <2>4
  <2>5. CASE d.platform # Qr
    <3>1. lasting = IF 5 * d.loop > 2 * d.scan THEN 5 * d.loop ELSE 2 * d.scan
      BY <2>1, <2>5
    <3>2. most = IF LongestCoilHold > 5 * d.loop THEN LongestCoilHold ELSE 5 * d.loop
      BY <2>2 DEF most
    <3>3. d.loop \in Nat \ {0} /\ d.scan \in 1..3
      BY <1>2, <1>4
    <3>4. lasting \in Nat \ {0} /\ d.loop + late < lasting /\ lasting <= most
      BY <2>3, <3>1, <3>2, <3>3 DEF LongestCoilHold
    <3> QED
      BY <2>5, <3>4 DEF late, most
  <2> QED
    BY <2>4, <2>5
<1>8. d.heartbeat > 0 => d.heartbeat + Late * d.heartbeat < d.driver_timeout
  BY <1>2, <1>4, <1>5 DEF Never
<1>9. SoundPeriods(d)
  BY <1>2, <1>4, <1>7, <1>8 DEF SoundPeriods, Never
<1>10. SoundWires(d)
  <2>1. /\ "horn" \notin d.off => d.do["horn"] \notin {d.do["motion"], d.do["alarm"]}
        /\ d.do["motion"] # d.do["alarm"]
        /\ "dio" \in d.off => {"panel", "horn", "pendant"} \subseteq d.off
    BY Zenon DEF Accepts, Validate, OutputChannels, NeedsScan
  <2>2. MotorCoils \subseteq Outputs /\ {"horn", "motion", "alarm"} \subseteq Outputs
    BY DEF Outputs, PanelOutputs
  <2>3. \A o \in Outputs : d.do[o] \in Outputs
    BY <1>1 DEF DocumentTypes
  <2>4. CASE d.platform = Qr
    <3>1. DrivenOf(d) = MotorCoils
      BY <2>4 DEF DrivenOf
    <3> QED
      BY <1>3, <2>2, <2>3, <2>4, <3>1, Zenon DEF SoundWires
  <2>5. CASE d.platform # Qr
    <3>1. DrivenOf(d) = (IF "horn" \in d.off THEN {} ELSE {"horn"})
                        \cup (IF "dio" \in d.off THEN {} ELSE {"motion", "alarm"})
      BY <2>5 DEF DrivenOf
    <3> QED
      BY <2>1, <2>2, <2>3, <3>1 DEF SoundWires
  <2> QED
    BY <2>4, <2>5
<1> QED
  BY <1>9, <1>10

\* The same of the profile the machine runs on.
LEMMA RunningIsSound ==
    ASSUME PublishedIsAccepted, Running
    PROVE  /\ SoundPeriods(document) /\ SoundWires(document) /\ Driven = DrivenOf(document)
           /\ profile.hold = Derive(document).hold
BY AcceptedIsSound DEF PublishedIsAccepted, Driven, DrivenOf

\* The periods fit before anything has run.
LEMMA ProfileStarts == ASSUME ProfileInit PROVE PeriodsIInv
<1>1. ~Running
  BY DEF ProfileInit, Running
<1>2. PublishedIsAccepted
  BY <1>1 DEF ProfileInit, PublishedIsAccepted
<1>3. ProfileTypes
  BY PeriodsAssumption DEF ProfileInit, ProfileTypes, MaxSteady
<1>4. NothingYet
  BY DEF ProfileInit, NothingYet
<1> QED
  BY <1>1, <1>2, <1>3, <1>4 DEF PeriodsIInv, NoneTooLate, ClaimsAreAsked, WrittenAsAsked, WrittenLow

\* The publication of a profile finds the machine as it was left at the start.
LEMMA LoadKeepsPeriods ==
    ASSUME PeriodsIInv, PublishedIsAccepted', LoadProfile \/ Corrected
    PROVE  PeriodsIInv'
<1>1. ~Running
  BY DEF LoadProfile, Corrected, PeriodsIInv, PublishedIsAccepted, Running
<1>2. /\ renewed = 0 /\ steady = 0 /\ scanned = 0
      /\ \A c \in Outputs : ~asked[c] /\ ~claim[c] /\ ~coil[c]
      /\ ProfileTypes
  BY <1>1 DEF PeriodsIInv, NothingYet
<1>3. UNCHANGED <<beating, watched, asked, claim, coil, renewed, steady, scanned>>
  BY Zenon DEF LoadProfile, Corrected
<1>4. ProfileTypes'
  BY <1>2, <1>3 DEF ProfileTypes
<1>5. NothingYet'
  BY <1>2, <1>3 DEF NothingYet
<1>6. Running' => /\ SoundPeriods(document') /\ SoundWires(document')
                  /\ Driven' = DrivenOf(document') /\ profile'.hold = Derive(document').hold
  BY AcceptedIsSound DEF PublishedIsAccepted, Driven, DrivenOf
<1>7. NoneTooLate'
  <2> SUFFICES ASSUME Running' PROVE (beating' => renewed' <= Every')
                                     /\ (IsScanned' => scanned' <= document'.scan + Late * document'.scan)
    BY DEF NoneTooLate
  <2>1. /\ document'.loop \in Nat /\ document'.scan \in Nat /\ document'.heartbeat \in Nat
    BY <1>6 DEF SoundPeriods
  <2>2. /\ Late * document'.loop \in Nat /\ Late * document'.scan \in Nat
        /\ Late * document'.heartbeat \in Nat
    BY <2>1, LateIsOneAtMost
  <2>3. Every' \in Nat /\ document'.scan + Late * document'.scan \in Nat
    BY <2>1, <2>2 DEF Every
  <2> QED
    BY <1>2, <1>3, <2>3
<1>8. ClaimsAreAsked'
  <2> SUFFICES ASSUME Running', NEW o \in Driven' PROVE claim'[document'.do[o]] = asked'[o]
    BY DEF ClaimsAreAsked
  <2>1. o \in Outputs /\ document'.do[o] \in Outputs
    BY <1>6 DEF SoundWires
  <2>2. claim'[document'.do[o]] = FALSE /\ asked'[o] = FALSE
    BY <1>2, <1>3, <2>1 DEF ProfileTypes
  <2> QED
    BY <2>2
<1>9. WrittenAsAsked'
  BY <1>2, <1>3 DEF WrittenAsAsked
<1>10. WrittenLow'
  BY <1>2, <1>3 DEF WrittenLow
<1> QED
  BY <1>4, <1>5, <1>7, <1>8, <1>9, <1>10 DEF PeriodsIInv

\* A tick of the owner claims what it asks for.
LEMMA TickKeepsPeriods ==
    ASSUME PeriodsIInv, PublishedIsAccepted', OwnerTick
    PROVE  PeriodsIInv'
<1>1. /\ Running /\ beating = TRUE /\ watched = "outputs"
      /\ UNCHANGED <<document, profile, refused, beating, watched, coil, scanned>>
      /\ renewed' = 0 /\ ProfileTypes
  BY DEF OwnerTick, PeriodsIInv, ProfileTypes
<1>2. /\ SoundPeriods(document) /\ SoundWires(document) /\ Driven = DrivenOf(document)
      /\ profile.hold = Derive(document).hold
  BY <1>1, RunningIsSound, Zenon DEF PeriodsIInv
<1>3. PICK level \in [Driven -> BOOLEAN], last \in Driven :
        /\ asked' = [o \in Outputs |-> o \in Driven /\ level[o]]
        /\ claim' = [c \in Outputs |->
             IF \E o \in Driven : document.do[o] = c
             THEN level[IF document.do[last] = c THEN last
                        ELSE CHOOSE o \in Driven : document.do[o] = c]
             ELSE claim[c]]
        /\ steady' = IF asked' = asked THEN steady ELSE 0
  BY Zenon DEF OwnerTick
<1>4. /\ Running' /\ Driven' = Driven /\ Every' = Every /\ IsScanned' = IsScanned
      /\ profile'.hold = profile.hold /\ RenewedInTime' = RenewedInTime
  BY <1>1, Zenon DEF Running, Driven, Every, IsScanned, RenewedInTime
<1>5. \A o \in Driven : o \in Outputs /\ document.do[o] \in Outputs
                        /\ \A q \in Driven : o # q => document.do[o] # document.do[q]
  BY <1>2 DEF SoundWires
<1>6. \A o \in Driven : claim'[document.do[o]] = level[o]
  <2> TAKE o \in Driven
  <2> DEFINE c == document.do[o]
             taker == IF document.do[last] = c THEN last ELSE CHOOSE q \in Driven : document.do[q] = c
  <2>1. taker \in Driven /\ document.do[taker] = c
    <3>1. CASE document.do[last] = c
      BY <3>1
    <3>2. CASE document.do[last] # c
      <4>1. \E q \in Driven : document.do[q] = c
        OBVIOUS
      <4>2. (CHOOSE q \in Driven : document.do[q] = c) \in Driven
            /\ document.do[CHOOSE q \in Driven : document.do[q] = c] = c
        BY <4>1, Zenon
      <4> QED
        BY <3>2, <4>2, Zenon
    <3> QED
      BY <3>1, <3>2
  <2>2. taker = o
    <3> HIDE DEF taker
    <3> QED
      BY <1>5, <2>1
  <2>3. claim'[c] = level[taker]
    BY <1>3, <1>5, Zenon
  <2> HIDE DEF taker
  <2> QED
    BY <2>2, <2>3, Zenon
<1>7. \A o \in Driven : asked'[o] = level[o]
  BY <1>3, <1>5
<1>8. ProfileTypes'
  <2>1. asked' \in [Outputs -> BOOLEAN]
    BY <1>3
  <2>2. claim' \in [Outputs -> BOOLEAN]
    <3> DEFINE new(c) == IF \E o \in Driven : document.do[o] = c
             THEN level[IF document.do[last] = c THEN last
                        ELSE CHOOSE o \in Driven : document.do[o] = c]
             ELSE claim[c]
    <3>1. ASSUME NEW c \in Outputs PROVE new(c) \in BOOLEAN
      <4>1. CASE \E o \in Driven : document.do[o] = c
        <5>1. (IF document.do[last] = c THEN last
               ELSE CHOOSE o \in Driven : document.do[o] = c) \in Driven
          <6>1. (CHOOSE o \in Driven : document.do[o] = c) \in Driven
            BY <4>1, Zenon
          <6> QED
            BY <6>1, Zenon
        <5> QED
          BY <4>1, <5>1, Zenon
      <4>2. CASE ~\E o \in Driven : document.do[o] = c
        BY <1>1, <4>2 DEF ProfileTypes
      <4> QED
        BY <4>1, <4>2
    <3>2. claim' = [c \in Outputs |-> new(c)]
      BY <1>3, Zenon
    <3> HIDE DEF new
    <3> QED
      BY <3>1, <3>2
  <2>3. steady' \in 0..MaxSteady /\ renewed' \in 0..MaxAge
    BY <1>1, <1>3, PeriodsAssumption DEF ProfileTypes, MaxSteady
  <2> QED
    BY <1>1, <2>1, <2>2, <2>3 DEF ProfileTypes
<1>9. NothingYet'
  BY <1>4 DEF NothingYet
<1>10. NoneTooLate'
  <2>1. 0 <= Every
    <3>1. document.loop \in Nat /\ document.heartbeat \in Nat
      BY <1>2 DEF SoundPeriods
    <3> QED
      BY <3>1, LateIsOneAtMost DEF Every
  <2>2. IsScanned => scanned <= document.scan + Late * document.scan
    BY <1>1, Zenon DEF PeriodsIInv, NoneTooLate
  <2> QED
    BY <1>1, <1>4, <2>1, <2>2 DEF NoneTooLate
<1>11. ClaimsAreAsked'
  BY <1>1, <1>4, <1>6, <1>7 DEF ClaimsAreAsked
<1>12. WrittenAsAsked'
  <2> SUFFICES ASSUME IsScanned, steady' > scanned PROVE \A o \in Driven : AsAsked(o)'
    BY <1>1, <1>4, Zenon DEF WrittenAsAsked
  <2>1. asked' = asked /\ steady' = steady
    BY <1>1, <1>3 DEF ProfileTypes, MaxSteady
  <2>2. \A o : AsAsked(o)' <=> AsAsked(o)
    BY <1>1, <1>4, <2>1, Zenon DEF AsAsked
  <2> QED
    BY <1>1, <2>1, <2>2, Zenon DEF PeriodsIInv, WrittenAsAsked
<1>13. WrittenLow'
  <2>1. CASE IsScanned
    <3>1. ~(renewed' >= profile'.hold + scanned')
      BY <1>1, <1>2 DEF SoundPeriods, ProfileTypes, MaxSteady
    <3> QED
      BY <1>4, <2>1, <3>1 DEF WrittenLow
  <2>2. CASE ~IsScanned
    BY <1>1, <1>4, <2>2 DEF PeriodsIInv, WrittenLow
  <2> QED
    BY <2>1, <2>2
<1> QED
  BY <1>8, <1>9, <1>10, <1>11, <1>12, <1>13 DEF PeriodsIInv

\* A write phase writes what is claimed, or low once the claims have ended.
LEMMA WriteKeepsPeriods ==
    ASSUME PeriodsIInv, PublishedIsAccepted', WritePhase
    PROVE  PeriodsIInv'
<1>1. /\ Running /\ watched = "outputs" /\ IsScanned
      /\ UNCHANGED <<document, profile, refused, beating, watched, asked, claim, renewed, steady>>
      /\ scanned' = 0 /\ ProfileTypes
  BY DEF WritePhase, PeriodsIInv, IsScanned
<1>2. coil' = [c \in Outputs |-> Resolve(c)]
  BY DEF WritePhase
<1>3. /\ SoundPeriods(document) /\ SoundWires(document) /\ Driven = DrivenOf(document)
      /\ profile.hold = Derive(document).hold
  BY <1>1, RunningIsSound, Zenon DEF PeriodsIInv
<1>4. /\ Running' /\ Driven' = Driven /\ Every' = Every /\ IsScanned' = IsScanned
      /\ profile'.hold = profile.hold /\ RenewedInTime' = RenewedInTime
  BY <1>1, Zenon DEF Running, Driven, Every, IsScanned, RenewedInTime
<1>5. profile.hold \in Nat /\ renewed \in Nat /\ scanned \in Nat
      /\ claim \in [Outputs -> BOOLEAN]
  BY <1>1, <1>3 DEF SoundPeriods, ProfileTypes
<1>6. ProfileTypes'
  <2>1. \A c \in Outputs : Resolve(c) \in BOOLEAN
    BY <1>5 DEF Resolve
  <2>2. coil' \in [Outputs -> BOOLEAN]
    BY <1>2, <2>1
  <2> QED
    BY <1>1, <2>2 DEF ProfileTypes, MaxSteady
<1>7. NothingYet' /\ ClaimsAreAsked'
  BY <1>1, <1>4, Zenon DEF NothingYet, ClaimsAreAsked, PeriodsIInv
<1>8. NoneTooLate'
  <2>1. 0 <= document.scan + Late * document.scan
    BY <1>3, LateIsOneAtMost DEF SoundPeriods
  <2> QED
    BY <1>1, <1>4, <2>1 DEF NoneTooLate, PeriodsIInv
<1>9. WrittenAsAsked'
  <2> SUFFICES ASSUME beating = TRUE, NEW o \in Driven PROVE AsAsked(o)'
    BY <1>1, <1>4, Zenon DEF WrittenAsAsked, ProfileTypes
  <2>1. RenewedInTime => renewed < profile.hold
    <3> DEFINE every == document.loop + Late * document.loop
    <3>1. renewed <= every
      BY <1>1 DEF PeriodsIInv, NoneTooLate, Every
    <3>2. RenewedInTime => every < profile.hold
      BY <1>3, Zenon DEF SoundPeriods, RenewedInTime
    <3>3. every \in Nat
      BY <1>3, LateIsOneAtMost DEF SoundPeriods
    <3> HIDE DEF every
    <3> QED
      BY <1>5, <3>1, <3>2, <3>3
  <2>2. document.do[o] \in Outputs /\ claim[document.do[o]] = asked[o]
    BY <1>1, <1>3, Zenon DEF SoundWires, PeriodsIInv, ClaimsAreAsked
  <2>3. coil'[document.do[o]] = (asked[o] /\ renewed < profile.hold)
    BY <1>2, <2>2, Zenon DEF Resolve
  <2> QED
    BY <1>1, <1>4, <2>1, <2>3, Zenon DEF AsAsked
<1>10. WrittenLow'
  <2> SUFFICES ASSUME renewed >= profile.hold + 0, NEW c \in Outputs PROVE ~coil'[c]
    BY <1>1, <1>4 DEF WrittenLow
  <2>1. ~(renewed < profile.hold)
    BY <1>5
  <2> QED
    BY <1>2, <2>1 DEF Resolve
<1> QED
  BY <1>6, <1>7, <1>8, <1>9, <1>10 DEF PeriodsIInv

\* A heartbeat, or the end of the beating, changes nothing that was written.
LEMMA BeatKeepsPeriods ==
    ASSUME PeriodsIInv, PublishedIsAccepted', Heartbeat \/ Dies
    PROVE  PeriodsIInv'
<1>1. /\ Running /\ ProfileTypes
      /\ UNCHANGED <<document, profile, refused, watched, asked, claim, coil, steady, scanned>>
      /\ \/ watched = "drive" /\ renewed' = 0 /\ beating' = beating
         \/ beating' = FALSE /\ renewed' = renewed
  BY DEF Heartbeat, Dies, PeriodsIInv
<1>2. /\ Running' /\ Driven' = Driven /\ Every' = Every /\ IsScanned' = IsScanned
      /\ profile'.hold = profile.hold /\ RenewedInTime' = RenewedInTime
  BY <1>1, Zenon DEF Running, Driven, Every, IsScanned, RenewedInTime
<1>3. SoundPeriods(document)
  BY <1>1, RunningIsSound, Zenon DEF PeriodsIInv
<1>4. ProfileTypes'
  <2>1. renewed' \in 0..MaxAge
    BY <1>1, PeriodsAssumption DEF ProfileTypes
  <2>2. beating' \in BOOLEAN
    BY <1>1, Zenon DEF ProfileTypes
  <2> QED
    BY <1>1, <2>1, <2>2, Zenon DEF ProfileTypes
<1>5. NothingYet' /\ ClaimsAreAsked'
  BY <1>1, <1>2, Zenon DEF NothingYet, ClaimsAreAsked, PeriodsIInv
<1>6. NoneTooLate'
  <2>1. 0 <= Every
    <3>1. document.loop \in Nat /\ document.heartbeat \in Nat
      BY <1>3 DEF SoundPeriods
    <3> QED
      BY <3>1, LateIsOneAtMost DEF Every
  <2> QED
    BY <1>1, <1>2, <2>1 DEF NoneTooLate, PeriodsIInv, IsScanned
<1>7. WrittenAsAsked'
  <2>1. \A o : AsAsked(o)' <=> AsAsked(o)
    BY <1>1, <1>2, Zenon DEF AsAsked
  <2> QED
    BY <1>1, <1>2, <2>1, Zenon DEF WrittenAsAsked, PeriodsIInv
<1>8. WrittenLow'
  BY <1>1, <1>2 DEF WrittenLow, PeriodsIInv
<1> QED
  BY <1>4, <1>5, <1>6, <1>7, <1>8 DEF PeriodsIInv

\* Time passes, for none longer than it may.
LEMMA PassingKeepsPeriods ==
    ASSUME PeriodsIInv, PublishedIsAccepted', Passes
    PROVE  PeriodsIInv'
<1>1. /\ Running /\ ProfileTypes
      /\ UNCHANGED <<document, profile, refused, beating, watched, asked, claim, coil>>
      /\ beating => renewed < Every
      /\ IsScanned => scanned < document.scan + Late * document.scan
      /\ renewed' = Aged(renewed, MaxAge)
      /\ steady' = IF beating THEN Aged(steady, MaxSteady) ELSE steady
      /\ scanned' = IF watched = "outputs" THEN Aged(scanned, MaxSteady) ELSE scanned
  BY DEF Passes, PeriodsIInv, IsScanned
<1>2. /\ Running' /\ Driven' = Driven /\ Every' = Every /\ IsScanned' = IsScanned
      /\ profile'.hold = profile.hold /\ RenewedInTime' = RenewedInTime
  BY <1>1, Zenon DEF Running, Driven, Every, IsScanned, RenewedInTime
<1>3. SoundPeriods(document) /\ profile.hold = Derive(document).hold
  BY <1>1, RunningIsSound, Zenon DEF PeriodsIInv
<1>4. /\ renewed \in 0..MaxAge /\ renewed' = IF renewed < MaxAge THEN renewed + 1 ELSE renewed
      /\ steady \in 0..MaxSteady /\ scanned \in 0..MaxSteady
      /\ steady' = steady \/ steady' = (IF steady < MaxSteady THEN steady + 1 ELSE steady)
      /\ scanned' = scanned \/ scanned' = (IF scanned < MaxSteady THEN scanned + 1 ELSE scanned)
      /\ IsScanned => scanned' = (IF scanned < MaxSteady THEN scanned + 1 ELSE scanned)
  <2>1. /\ steady' = steady \/ steady' = Aged(steady, MaxSteady)
        /\ scanned' = scanned \/ scanned' = Aged(scanned, MaxSteady)
        /\ IsScanned => scanned' = Aged(scanned, MaxSteady)
    BY <1>1 DEF IsScanned
  <2>2. \A n, most : Aged(n, most) = IF n < most THEN n + 1 ELSE n
    BY Zenon DEF Aged
  <2>3. /\ renewed \in 0..MaxAge /\ renewed' = Aged(renewed, MaxAge)
        /\ steady \in 0..MaxSteady /\ scanned \in 0..MaxSteady
    BY <1>1, Zenon DEF ProfileTypes
  <2> QED
    BY <2>1, <2>2, <2>3, Zenon
<1>5. ProfileTypes'
  <2>1. renewed' \in 0..MaxAge /\ steady' \in 0..MaxSteady /\ scanned' \in 0..MaxSteady
    BY <1>4, PeriodsAssumption DEF MaxSteady
  <2> QED
    BY <1>1, <2>1, Zenon DEF ProfileTypes
<1>6. NothingYet' /\ ClaimsAreAsked'
  BY <1>1, <1>2, Zenon DEF NothingYet, ClaimsAreAsked, PeriodsIInv
<1>7. /\ document.loop \in Nat /\ document.scan \in 1..3 /\ document.heartbeat \in Nat
      /\ Late * document.loop \in Nat /\ Late * document.scan \in Nat
      /\ Late * document.heartbeat \in Nat /\ Late * document.scan <= document.scan
      /\ profile.hold \in Nat \ {0}
  <2>1. /\ document.loop \in Nat /\ document.scan \in 1..3 /\ document.heartbeat \in Nat
        /\ profile.hold \in Nat \ {0}
    BY <1>3 DEF SoundPeriods
  <2> QED
    BY <2>1, LateIsOneAtMost
<1>8. Every \in Nat
  BY <1>7 DEF Every
<1>9. NoneTooLate'
  <2>1. beating => renewed' <= Every
    BY <1>1, <1>4, <1>8, PeriodsAssumption
  <2>2. IsScanned => scanned' <= document.scan + Late * document.scan
    BY <1>1, <1>4, <1>7 DEF MaxSteady
  <2> QED
    BY <1>1, <1>2, <2>1, <2>2, Zenon DEF NoneTooLate
<1>10. IsScanned => scanned <= 5 /\ scanned' = scanned + 1
  BY <1>1, <1>4, <1>7 DEF MaxSteady
<1>11. WrittenAsAsked'
  <2> SUFFICES ASSUME beating, IsScanned, steady' > scanned'
               PROVE  \A o \in Driven : AsAsked(o)
    <3>1. \A o : AsAsked(o)' <=> AsAsked(o)
      BY <1>1, <1>2, Zenon DEF AsAsked
    <3> QED
      BY <1>1, <1>2, <3>1, Zenon DEF WrittenAsAsked
  <2>1. steady > scanned
    BY <1>4, <1>10 DEF MaxSteady
  <2> QED
    BY <1>1, <2>1, Zenon DEF PeriodsIInv, WrittenAsAsked
<1>12. WrittenLow'
  <2> SUFFICES ASSUME watched = "outputs", IsScanned => renewed' >= profile.hold + scanned'
               PROVE  \A c \in Outputs : ~coil[c]
    BY <1>1, <1>2, Zenon DEF WrittenLow
  <2>1. IsScanned => renewed >= profile.hold + scanned
    BY <1>4, <1>7, <1>10, PeriodsAssumption
  <2> QED
    BY <1>1, <2>1, Zenon DEF PeriodsIInv, WrittenLow
<1> QED
  BY <1>5, <1>6, <1>9, <1>11, <1>12 DEF PeriodsIInv

\* Every step keeps it.
LEMMA PeriodsStay == ASSUME PeriodsIInv, [ProfileNext]_profileVars
                     PROVE  PeriodsIInv'
<1>1. PublishedIsAccepted'
  BY AcceptedStays, Zenon DEF PeriodsIInv
<1>2. CASE UNCHANGED profileVars
  <2>1. /\ Running' = Running /\ Driven' = Driven /\ Every' = Every /\ IsScanned' = IsScanned
        /\ ProfileTypes' = ProfileTypes /\ (\A o : AsAsked(o)' <=> AsAsked(o))
    BY <1>2, Zenon DEF profileVars, Running, Driven, Every, IsScanned, ProfileTypes, AsAsked,
       RenewedInTime
  <2> QED
    BY <1>1, <1>2, <2>1 DEF profileVars, PeriodsIInv, NothingYet, NoneTooLate, ClaimsAreAsked,
       WrittenAsAsked, WrittenLow
<1> QED
  BY <1>1, <1>2, LoadKeepsPeriods, TickKeepsPeriods, WriteKeepsPeriods, BeatKeepsPeriods,
     PassingKeepsPeriods, Zenon DEF ProfileNext

\* And it says that the periods fit.
LEMMA PeriodsFitOne == ASSUME PeriodsIInv PROVE PeriodsFit
<1> SUFFICES ASSUME Running PROVE PeriodsFit
  BY DEF PeriodsFit, LiveOwnersAreHeard, SilenceIsNoticed
<1>1. /\ SoundPeriods(document) /\ SoundWires(document) /\ Driven = DrivenOf(document)
      /\ profile.hold = Derive(document).hold
  BY RunningIsSound, Zenon DEF PeriodsIInv
<1>2. /\ document.scan \in 1..3 /\ document.loop \in Nat /\ document.heartbeat \in Nat
      /\ document.driver_timeout \in 0..8 /\ profile.hold \in Nat \ {0}
      /\ document.heartbeat > 0 =>
           document.heartbeat + Late * document.heartbeat < document.driver_timeout
  BY <1>1 DEF SoundPeriods
<1>3. /\ Late * document.heartbeat \in Nat /\ Late * document.scan \in Nat
      /\ Late * document.scan <= document.scan
  BY <1>2, LateIsOneAtMost
<1>4. renewed \in 0..MaxAge /\ steady \in 0..MaxSteady /\ scanned \in 0..MaxSteady
  BY DEF PeriodsIInv, ProfileTypes
<1>5. /\ beating => renewed <= Every
      /\ IsScanned => scanned <= 2 * document.scan
  <2>1. /\ beating => renewed <= Every
        /\ IsScanned => scanned <= document.scan + Late * document.scan
    BY Zenon DEF PeriodsIInv, NoneTooLate
  <2> QED
    BY <1>2, <1>3, <1>4, <2>1
<1>6. ASSUME beating, watched = "drive", document.heartbeat > 0
      PROVE  ~SilentDrive
  <2>1. Every = document.heartbeat + Late * document.heartbeat
    BY <1>6 DEF Every
  <2> QED
    BY <1>2, <1>3, <1>4, <1>5, <1>6, <2>1 DEF SilentDrive
<1>7. ASSUME beating, watched = "outputs", steady > 2 * document.scan, NEW o \in Driven
      PROVE  AsAsked(o)
  <2>1. IsScanned
    BY <1>1, <1>7 DEF SoundWires, IsScanned
  <2>2. steady > scanned
    BY <1>2, <1>4, <1>5, <1>7, <2>1
  <2> QED
    BY <1>7, <2>1, <2>2, Zenon DEF PeriodsIInv, WrittenAsAsked
<1>8. ASSUME watched = "outputs", renewed > OutlivesAtMost + 2 * document.scan, NEW c \in Outputs
      PROVE  ~coil[c]
  <2>1. profile.hold <= OutlivesAtMost /\ OutlivesAtMost \in Nat
    <3>1. OutlivesAtMost = IF document.platform = Qr THEN LongestCoilHold
                           ELSE Larger(LongestCoilHold, 5 * document.loop)
      BY Zenon DEF OutlivesAtMost
    <3>2. Larger(LongestCoilHold, 5 * document.loop) \in Nat
      BY <1>2 DEF Larger, LongestCoilHold
    <3>3. LongestCoilHold \in Nat
      BY DEF LongestCoilHold
    <3>4. profile.hold <= OutlivesAtMost
      BY <1>1, <3>1, Zenon DEF SoundPeriods
    <3> QED
      BY <3>1, <3>2, <3>3, <3>4, Zenon
  <2>2. IsScanned => renewed >= profile.hold + scanned
    BY <1>2, <1>4, <1>5, <1>8, <2>1
  <2> QED
    BY <1>8, <2>2, Zenon DEF PeriodsIInv, WrittenLow
<1>9. ASSUME watched = "drive", renewed = MaxAge
      PROVE  SilentDrive
  BY <1>2, <1>9, PeriodsAssumption DEF SilentDrive
<1> QED
  BY <1>6, <1>7, <1>8, <1>9, Zenon DEF PeriodsFit, LiveOwnersAreHeard, SilenceIsNoticed, AsAsked

\* The periods a profile leaves, and what was claimed and written, are never out of step.
THEOREM PeriodsInvariance == ProfileSpec => []PeriodsIInv
<1>1. PeriodsIInv /\ [ProfileNext]_profileVars => PeriodsIInv'
  BY PeriodsStay, Zenon
<1> QED
  BY <1>1, ProfileStarts, PTL DEF ProfileSpec

\* Whatever periods a profile load() accepts has, a live drive is never reported silent and no
\* output is driven that its live owner no longer asks for; each stands as asked where the
\* claims are renewed in time; a dead owner's outputs fall and a dead drive is reported
\* (config.py, _validate and _validate_qr; dio.py, _resolve).
THEOREM PeriodsFitOneAnother == ProfileSpec => []PeriodsFit
<1>1. PeriodsIInv => PeriodsFit
  BY PeriodsFitOne, Zenon
<1> QED
  BY <1>1, PeriodsInvariance, PTL

-----------------------------------------------------------------------------
(***************************************************************************)
(* The keys and the selectors of the operator.                             *)
(***************************************************************************)

PanelTypes ==
    /\ button \subseteq Buttons /\ held \subseteq {"g", "enter"}
    /\ latch \in BOOLEAN /\ toggled \in BOOLEAN /\ alive \in BOOLEAN /\ lapsed \in BOOLEAN
    /\ auto \in BOOLEAN /\ spent \in BOOLEAN
    /\ stable = NoImage \/ stable \subseteq Buttons
    /\ before = NoImage \/ before \subseteq Buttons
    /\ down \in Nat \cup {Up}

\* A button that is down and not yet believed down was pressed in a trusted image.
UnseenIsUnspent == \A b \in Buttons : b \in button /\ stable # NoImage /\ b \notin stable => b \in unspent
\* So was a key that is down and was not at the tick before.
NewKeyIsUnspent ==
    \A b \in Buttons :
        KeyOf[b] \in held /\ lapsed = FALSE /\ before # NoImage /\ b \notin before => KeyOf[b] \in unspent
LapseIsNoted == alive = FALSE /\ held # {} => lapsed = TRUE
\* What the selector remembers of the tick before.
SelectorRemembers ==
    /\ before = NoImage <=> stable = NoImage
    /\ before # NoImage => stable \subseteq before
    /\ before = NoImage => down = Up
    /\ "stop" \in before => down = Up
    /\ hold = 0 => down = Up
    /\ auto = FALSE /\ down # Up => "start" \in before
\* A START that is held in MANUAL and may still act is a press that has not acted.
Pending == auto = FALSE /\ down # Up /\ spent = FALSE
HeldIsUnspent ==
    Pending => /\ lapsed = FALSE => unspent \cap {"start", "g"} # {}
               /\ "start" \in stable => "start" \in unspent

PanelIInv ==
    PanelTypes /\ UnseenIsUnspent /\ NewKeyIsUnspent /\ LapseIsNoted /\ SelectorRemembers /\ HeldIsUnspent

-----------------------------------------------------------------------------
\* START goes down in this tick.
Rises == before # NoImage /\ Level("start") /\ "start" \notin before

Picks == [auto : BOOLEAN, start : BOOLEAN, reset : BOOLEAN, spent : BOOLEAN, down : Nat \cup {Up}]

\* What the buttons and the keys make of the selector.
Outcome(p) ==
    /\ p \in Picks
    /\ p.reset = TRUE => auto = FALSE /\ before # NoImage /\ Level("stop") /\ "stop" \notin before
    /\ p.start = TRUE => Rises \/ Pending
    /\ p.auto = TRUE /\ auto = FALSE => Rises \/ Pending
    /\ p.auto = FALSE /\ p.down # Up /\ p.spent = FALSE =>
           p.start = FALSE /\ auto = FALSE /\ (Rises \/ Pending)
    /\ p.auto = FALSE /\ p.down # Up => Level("start")
    /\ Level("stop") => p.down = Up
    /\ hold = 0 => p.down = Up

\* The buttons alone.
LEMMA ButtonOutcome ==
    ASSUME PanelTypes, SelectorRemembers
    PROVE  Outcome(Buttonwise)
<1> USE DEF PanelTypes, SelectorRemembers, Outcome, Up
<1> DEFINE rises == Level("start") /\ "start" \notin before
           falls == "start" \in before /\ ~Level("start")
<1>1. CASE before = NoImage
  <2>1. Buttonwise = [Same EXCEPT !.spent = Level("start")]
    BY <1>1 DEF Buttonwise
  <2>2. down = Up
    BY <1>1
  <2> QED
    BY <2>1, <2>2 DEF Same, Level, Picks
<1>2. CASE before # NoImage /\ Level("stop") /\ "stop" \notin before
  <2>1. Buttonwise = StopRises
    BY <1>2 DEF Buttonwise
  <2> QED
    BY <1>2, <2>1 DEF Same, StopRises, Level, Picks
<1>3. CASE before # NoImage /\ Level("stop") /\ "stop" \in before
  <2>1. Buttonwise = Same
    BY <1>3 DEF Buttonwise
  <2>2. down = Up
    BY <1>3
  <2> QED
    BY <1>3, <2>1, <2>2 DEF Same, Picks
<1>4. CASE before # NoImage /\ ~Level("stop") /\ auto = TRUE
  <2>1. Buttonwise = StartInAuto(rises)
    BY <1>4 DEF Buttonwise
  <2> QED
    BY <1>4, <2>1 DEF Same, StartInAuto, Rises, Picks
<1>5. CASE before # NoImage /\ ~Level("stop") /\ auto = FALSE /\ hold = 0
  <2>1. Buttonwise = StartInManual(rises)
    BY <1>5 DEF Buttonwise
  <2>2. down = Up
    BY <1>5
  <2> QED
    BY <1>5, <2>1, <2>2 DEF Same, StartInManual, Rises, Picks
<1>6. CASE before # NoImage /\ ~Level("stop") /\ auto = FALSE /\ hold # 0
  <2>1. Buttonwise = StartHeld(rises, falls)
    BY <1>6 DEF Buttonwise
  <2> DEFINE since == IF rises THEN 0
                      ELSE IF down # Up /\ down < LongestHold THEN down + 1 ELSE down
             used == spent = TRUE /\ ~rises
             counts == ~used /\ since # Up
  <2>2. /\ since \in Nat \cup {Up}
        /\ since # Up => rises \/ down # Up
        /\ counts => Rises \/ Pending
    BY <1>6 DEF Rises, Pending
  <2>3. Buttonwise = IF falls
       THEN [Same EXCEPT !.start = counts, !.down = Up, !.spent = FALSE]
       ELSE IF Level("start") /\ counts /\ since >= hold
              THEN [Same EXCEPT !.auto = TRUE, !.down = since, !.spent = TRUE]
              ELSE [Same EXCEPT !.down = since, !.spent = used]
    <3>1. used = (spent /\ ~rises)
      OBVIOUS
    <3> QED
      BY <2>1, <3>1 DEF StartHeld
  <2>4. Same.auto = FALSE /\ Same.start = FALSE /\ Same.reset = FALSE
    BY <1>6 DEF Same
  <2>5. ~falls /\ since # Up => Level("start")
    BY <1>6, <2>2
  <2> HIDE DEF since
  <2>6. CASE falls
    <3>1. Buttonwise = [Same EXCEPT !.start = counts, !.down = Up, !.spent = FALSE]
      BY <2>3, <2>6
    <3>2. counts \in BOOLEAN
      OBVIOUS
    <3> HIDE DEF counts
    <3>3. /\ Buttonwise.auto = FALSE /\ Buttonwise.start \in BOOLEAN /\ (Buttonwise.start = TRUE <=> counts)
          /\ Buttonwise.reset = FALSE /\ Buttonwise.down = Up /\ Buttonwise.spent = FALSE
      BY <1>6, <3>1, <3>2 DEF Same
    <3>9. Buttonwise \in Picks
      BY <1>6, <3>1, <3>2 DEF Same, Picks
    <3> QED
      BY <1>6, <2>2, <3>3, <3>9
  <2>7. CASE ~falls /\ Level("start") /\ counts /\ since >= hold
    <3>1. Buttonwise = [Same EXCEPT !.auto = TRUE, !.down = since, !.spent = TRUE]
      BY <2>3, <2>7
    <3>2. /\ Buttonwise.auto = TRUE /\ Buttonwise.start = FALSE /\ Buttonwise.reset = FALSE
          /\ Buttonwise.down = since /\ Buttonwise.spent = TRUE
      BY <3>1 DEF Same
    <3> HIDE DEF counts
    <3>4. counts /\ Level("start")
      BY <2>7, Zenon
    <3>3. (Rises \/ Pending) /\ since \in Nat \cup {Up} /\ Level("start")
      BY <2>2, <3>4, Zenon
    <3>9. Buttonwise \in Picks
      BY <1>6, <2>2, <3>1 DEF Same, Picks
    <3> QED
      BY <1>6, <3>2, <3>3, <3>9
  <2>8. CASE ~falls /\ ~(Level("start") /\ counts /\ since >= hold)
    <3>1. Buttonwise = [Same EXCEPT !.down = since, !.spent = used]
      BY <2>3, <2>8
    <3>2. used = FALSE /\ since # Up => Rises \/ Pending
      BY <2>2
    <3>3. used \in BOOLEAN
      OBVIOUS
    <3>5. since # Up => Level("start")
      BY <2>5, <2>8
    <3> HIDE DEF counts, used
    <3>4. /\ Buttonwise.auto = FALSE /\ Buttonwise.start = FALSE /\ Buttonwise.reset = FALSE
          /\ Buttonwise.down = since /\ Buttonwise.spent = used
      BY <1>6, <3>1 DEF Same
    <3>6. since # Up => hold # 0 /\ ~Level("stop")
      BY <1>6
    <3>7. since \in Nat \cup {Up} /\ auto = FALSE
      BY <1>6, <2>2, Zenon
    <3>9. Buttonwise \in Picks
      BY <1>6, <2>2, <3>1, <3>3 DEF Same, Picks
    <3> QED
      BY <3>2, <3>3, <3>4, <3>5, <3>6, <3>7, <3>9
  <2> QED
    BY <2>6, <2>7, <2>8
<1> QED
  BY <1>1, <1>2, <1>3, <1>4, <1>5, <1>6

\* What a valid frame is made of: the selector's record after Q, and the one before.
Frame(s, p) ==
    /\ s.start = p.start /\ s.reset = p.reset
    /\ s.auto \in BOOLEAN /\ s.spent \in BOOLEAN /\ s.down \in {p.down, Up}
    /\ s.auto = TRUE /\ auto = FALSE /\ toggled = FALSE => p.auto = TRUE
    /\ s.auto = FALSE /\ s.down # Up => p.auto = FALSE /\ s.spent = p.spent

\* What Q and the hold make of it.
LEMMA FrameOf ==
    ASSUME NEW p, p \in Picks
    PROVE  Frame(Switched(Readied(p)), p)
<1> DEFINE q == Readied(p)
           s == Switched(q)
<1>1. /\ q \in Picks
      /\ q.auto = p.auto /\ q.start = p.start /\ q.reset = p.reset /\ q.down = p.down
      /\ q.auto = FALSE => q.spent = p.spent
  BY DEF Readied, Picks
<1> HIDE DEF q
<1>2. ASSUME toggled, ~Level("stop") PROVE Frame(s, p)
  <2> DEFINE up == Level("start")
  <2>1. s = [q EXCEPT !.auto = ~@, !.down = Up, !.spent = up]
    BY <1>2 DEF Switched
  <2>2. up \in BOOLEAN
    BY DEF Level
  <2> HIDE DEF up
  <2>3. /\ s.start = q.start /\ s.reset = q.reset /\ s.down = Up /\ s.spent = up
        /\ s.auto \in BOOLEAN
    BY <1>1, <2>1 DEF Picks
  <2> HIDE DEF s
  <2> QED
    BY <1>1, <1>2, <2>2, <2>3 DEF Frame
<1>3. ASSUME ~(toggled /\ ~Level("stop")) PROVE Frame(s, p)
  <2>1. s = q
    BY <1>3 DEF Switched
  <2> HIDE DEF s
  <2> QED
    BY <1>1, <2>1 DEF Frame, Picks
<1> QED
  BY <1>2, <1>3 DEF q

\* What an act uses up never belongs to the other button.
LEMMA SpentIsItsOwn ==
    ASSUME NEW b \in Buttons
    PROVE  Spent(b) \subseteq {b, KeyOf[b]}
  BY DEF Spent

\* A press that was down and not yet seen is not used up.
LEMMA UnseenIsKept ==
    ASSUME NEW b \in Buttons, b \in button, b \notin stable'
    PROVE  b \notin Spent(b)
  BY DEF Spent, Buttons, KeyOf

\* The image that is believed after a scan.
LEMMA Scanned ==
    ASSUME PanelTypes, NEW trusted \in BOOLEAN, NEW moved \in BOOLEAN, Scan(trusted, moved)
    PROVE  stable' \in {NoImage, stable, button} /\ (stable' = NoImage \/ stable' \subseteq Buttons)
  BY DEF PanelTypes, Scan

\* The valid frames of a tick.
LEMMA ValidTick ==
    ASSUME PanelIInv, NEW trusted \in BOOLEAN, NEW moved \in BOOLEAN, PanelTick(trusted, moved),
           stable' # NoImage
    PROVE  /\ auto' \in BOOLEAN /\ spent' \in BOOLEAN /\ down' \in Nat \cup {Up}
           /\ before' = Levels
           /\ edges' \subseteq {"start", "reset"}
           /\ "start" \in edges' => Rises \/ Pending
           /\ "reset" \in edges' => auto = FALSE /\ before # NoImage /\ Level("stop") /\ "stop" \notin before
           /\ auto' = TRUE /\ auto = FALSE /\ toggled = FALSE => Rises \/ Pending
           /\ auto' = FALSE /\ down' # Up =>
                  /\ Level("start") /\ ~Level("stop") /\ hold # 0
                  /\ spent' = FALSE => (Rises \/ Pending) /\ unspent' = unspent
           /\ unspent' = unspent \/ unspent' = unspent \ Spent("start")
              \/ unspent' = unspent \ Spent("stop")
              \/ unspent' = (unspent \ Spent("start")) \ Spent("stop")
<1> DEFINE p == Buttonwise
           q == Readied(p)
           s == Switched(q)
<1>1. /\ auto' = s.auto /\ down' = s.down /\ spent' = s.spent /\ before' = Levels
      /\ edges' = (IF s.start THEN {"start"} ELSE {}) \cup (IF s.reset THEN {"reset"} ELSE {})
      /\ unspent' = (unspent \ (IF p.start \/ (p.auto /\ ~auto) THEN Spent("start") ELSE {}))
                            \ (IF p.reset THEN Spent("stop") ELSE {})
  BY DEF PanelTick
<1>2. Outcome(p)
  BY ButtonOutcome DEF PanelIInv
<1>3. Frame(s, p)
  BY <1>2, FrameOf DEF Outcome
<1> HIDE DEF p, q, s
<1>4. p.auto \in BOOLEAN /\ p.start \in BOOLEAN /\ p.reset \in BOOLEAN /\ p.down \in Nat \cup {Up}
  BY <1>2 DEF Outcome, Picks
<1>5. auto' \in BOOLEAN /\ spent' \in BOOLEAN /\ down' \in Nat \cup {Up} /\ before' = Levels
  BY <1>1, <1>3, <1>4 DEF Frame
<1>6. /\ edges' \subseteq {"start", "reset"}
      /\ "start" \in edges' => p.start = TRUE
      /\ "reset" \in edges' => p.reset = TRUE
  BY <1>1, <1>3, <1>4 DEF Frame
<1>7. auto' = FALSE /\ down' # Up => p.auto = FALSE /\ p.down # Up /\ spent' = p.spent
  BY <1>1, <1>3 DEF Frame
<1>8. unspent' = unspent \/ unspent' = unspent \ Spent("start")
      \/ unspent' = unspent \ Spent("stop")
      \/ unspent' = (unspent \ Spent("start")) \ Spent("stop")
  BY <1>1
<1>9. ASSUME auto' = FALSE, down' # Up, spent' = FALSE
      PROVE  (Rises \/ Pending) /\ unspent' = unspent
  <2>1. p.auto = FALSE /\ p.start = FALSE /\ auto = FALSE /\ (Rises \/ Pending)
    BY <1>2, <1>7, <1>9 DEF Outcome
  <2>2. p.reset = FALSE
    <3>1. Level("stop") => p.down = Up
      BY <1>2 DEF Outcome
    <3> QED
      BY <1>2, <1>4, <1>7, <1>9, <3>1 DEF Outcome
  <2>3. unspent' = (unspent \ {}) \ {}
    BY <1>1, <2>1, <2>2
  <2> QED
    BY <2>1, <2>3
<1>10. auto' = FALSE /\ down' # Up => Level("start") /\ ~Level("stop") /\ hold # 0
  BY <1>2, <1>7 DEF Outcome
<1>11. auto' = TRUE /\ auto = FALSE /\ toggled = FALSE => Rises \/ Pending
  BY <1>1, <1>2, <1>3 DEF Frame, Outcome
<1>12. "start" \in edges' => Rises \/ Pending
  BY <1>2, <1>6 DEF Outcome
<1>13. "reset" \in edges' => auto = FALSE /\ before # NoImage /\ Level("stop") /\ "stop" \notin before
  BY <1>2, <1>6 DEF Outcome
<1> QED
  BY <1>5, <1>6, <1>8, <1>9, <1>10, <1>11, <1>12, <1>13
\* Nothing is held towards AUTO while STOP is held, nor without a hold time.
LEMMA StopKeepsUp ==
    ASSUME PanelIInv, NEW trusted \in BOOLEAN, NEW moved \in BOOLEAN, PanelTick(trusted, moved),
           stable' # NoImage, Level("stop") \/ hold = 0
    PROVE  down' = Up
<1> DEFINE p == Buttonwise
           q == Readied(p)
           s == Switched(q)
<1>1. down' = s.down
  BY DEF PanelTick
<1>2. Outcome(p)
  BY ButtonOutcome DEF PanelIInv
<1>3. Frame(s, p)
  BY <1>2, FrameOf DEF Outcome
<1> HIDE DEF p, q, s
<1>4. p.down = Up
  BY <1>2 DEF Outcome
<1> QED
  BY <1>1, <1>3, <1>4 DEF Frame

\* It holds when the panel starts.
LEMMA PanelInitially == PanelInit => PanelIInv
<1> SUFFICES ASSUME PanelInit PROVE PanelIInv
  OBVIOUS
<1>1. PanelTypes
  BY DEF PanelInit, PanelTypes, Up
<1>2. NoImage # {} /\ button = {} /\ held = {} /\ stable = NoImage /\ before = NoImage /\ down = Up
  BY DEF PanelInit, NoImage
<1> QED
  BY <1>1, <1>2
  DEF PanelIInv, UnseenIsUnspent, NewKeyIsUnspent, LapseIsNoted, SelectorRemembers, HeldIsUnspent,
      Pending, Buttons, NoImage

\* A press, a release, the reader: nothing of the selector changes.
LEMMA HandKeeps ==
    ASSUME PanelIInv,
           \/ \E b \in Buttons : Press(b) \/ Release(b) \/ KeyDown(b)
           \/ \E keys \in SUBSET {"g", "enter"} : KeysUp(keys)
           \/ KeyQ \/ KeyE \/ ReaderStops \/ ReaderGoesOn
    PROVE  PanelIInv'
<1> USE DEF PanelIInv
<1>1. UNCHANGED <<hold, stable, auto, before, down, spent, edges>>
  BY DEF Press, Release, KeyDown, KeysUp, KeyQ, KeyE, ReaderStops, ReaderGoesOn, selectorVars
<1>2. unspent \subseteq unspent'
  BY DEF Press, Release, KeyDown, KeysUp, KeyQ, KeyE, ReaderStops, ReaderGoesOn
<1>3. PanelTypes'
  <2>1. button' \subseteq Buttons /\ held' \subseteq {"g", "enter"}
    <3>1. button' \subseteq Buttons
      BY DEF Press, Release, KeyDown, KeysUp, KeyQ, KeyE, ReaderStops, ReaderGoesOn, PanelTypes
    <3>2. \A b \in Buttons : KeyOf[b] \in {"g", "enter"}
      BY DEF KeyOf, Buttons
    <3>3. held' \subseteq {"g", "enter"}
      BY <3>2
      DEF Press, Release, KeyDown, KeysUp, KeyQ, KeyE, ReaderStops, ReaderGoesOn, PanelTypes,
          keypadVars
    <3> QED
      BY <3>1, <3>3
  <2>2. latch' \in BOOLEAN /\ toggled' \in BOOLEAN /\ alive' \in BOOLEAN
    BY DEF Press, Release, KeyDown, KeysUp, KeyQ, KeyE, ReaderStops, ReaderGoesOn, PanelTypes,
           keypadVars
  <2>3. lapsed' \in BOOLEAN
    BY DEF Press, Release, KeyDown, KeysUp, KeyQ, KeyE, ReaderStops, ReaderGoesOn, PanelTypes
  <2> QED
    BY <1>1, <2>1, <2>2, <2>3 DEF PanelTypes
<1>4. lapsed' = FALSE => lapsed = FALSE
  BY DEF Press, Release, KeyDown, KeysUp, KeyQ, KeyE, ReaderStops, ReaderGoesOn, PanelTypes
<1>5. UnseenIsUnspent'
  <2>1. button' \ button \subseteq unspent'
    BY DEF Press, Release, KeyDown, KeysUp, KeyQ, KeyE, ReaderStops, ReaderGoesOn
  <2> QED
    BY <1>1, <1>2, <2>1 DEF UnseenIsUnspent
<1>6. NewKeyIsUnspent'
  <2>1. held' \ held \subseteq unspent'
    BY DEF Press, Release, KeyDown, KeysUp, KeyQ, KeyE, ReaderStops, ReaderGoesOn, keypadVars
  <2> QED
    BY <1>1, <1>2, <1>4, <2>1 DEF NewKeyIsUnspent
<1>7. LapseIsNoted'
  <2>1. CASE alive' = TRUE
    BY <2>1 DEF LapseIsNoted
  <2>2. CASE alive' = FALSE
    <3>1. CASE \E b \in Buttons : Press(b) \/ Release(b)
      BY <3>1 DEF Press, Release, keypadVars, LapseIsNoted
    <3>2. CASE ReaderStops
      BY <3>2 DEF ReaderStops, LapseIsNoted, PanelTypes
    <3>3. CASE \/ \E b \in Buttons : KeyDown(b)
               \/ \E keys \in SUBSET {"g", "enter"} : KeysUp(keys)
               \/ KeyQ \/ KeyE \/ ReaderGoesOn
      BY <2>2, <3>3 DEF KeyDown, KeysUp, KeyQ, KeyE, ReaderGoesOn
    <3> QED
      BY <3>1, <3>2, <3>3
  <2> QED
    BY <1>3, <2>1, <2>2 DEF PanelTypes
<1>8. SelectorRemembers'
  BY <1>1 DEF SelectorRemembers
<1>9. HeldIsUnspent'
  BY <1>1, <1>2, <1>4 DEF HeldIsUnspent, Pending
<1> QED
  BY <1>3, <1>5, <1>6, <1>7, <1>8, <1>9

\* A tick of the panel keeps it.
LEMMA TickKeeps ==
    ASSUME PanelIInv, NEW trusted \in BOOLEAN, NEW moved \in BOOLEAN, PanelTick(trusted, moved)
    PROVE  PanelIInv'
<1> USE DEF PanelIInv
<1>1. /\ toggled' = FALSE /\ UNCHANGED <<button, held, latch, alive, hold>>
      /\ (lapsed' = TRUE <=> lapsed = TRUE /\ held # {}) /\ lapsed' \in BOOLEAN
  BY DEF PanelTick, PanelTypes
<1>2. stable' \in {NoImage, stable, button} /\ (stable' = NoImage \/ stable' \subseteq Buttons)
  BY Scanned DEF PanelTick
<1>3. LapseIsNoted'
  BY <1>1 DEF LapseIsNoted
<1>4. CASE stable' = NoImage
  <2> DEFINE s == [Same EXCEPT !.auto = FALSE, !.down = Up, !.spent = FALSE]
  <2>1. auto' = FALSE /\ down' = Up /\ spent' = FALSE /\ before' = NoImage
    BY <1>4 DEF PanelTick, Same
  <2>2. PanelTypes'
    BY <1>1, <1>2, <2>1 DEF PanelTypes
  <2>3. UnseenIsUnspent' /\ NewKeyIsUnspent' /\ HeldIsUnspent'
    BY <1>4, <2>1 DEF UnseenIsUnspent, NewKeyIsUnspent, HeldIsUnspent, Pending
  <2>4. SelectorRemembers'
    BY <1>4, <2>1 DEF SelectorRemembers, NoImage
  <2> QED
    BY <1>3, <2>2, <2>3, <2>4
<1>5. CASE stable' # NoImage
  <2>1. /\ auto' \in BOOLEAN /\ spent' \in BOOLEAN /\ down' \in Nat \cup {Up}
        /\ before' = Levels
        /\ auto' = FALSE /\ down' # Up =>
               /\ Level("start") /\ ~Level("stop") /\ hold # 0
               /\ spent' = FALSE => (Rises \/ Pending) /\ unspent' = unspent
        /\ unspent' = unspent \/ unspent' = unspent \ Spent("start")
           \/ unspent' = unspent \ Spent("stop")
           \/ unspent' = (unspent \ Spent("start")) \ Spent("stop")
    BY <1>5, ValidTick
  <2>2. Levels \subseteq Buttons /\ Levels # NoImage
    BY DEF Levels, Buttons, NoImage
  <2>3. PanelTypes'
    BY <1>1, <1>2, <2>1, <2>2 DEF PanelTypes
  <2>4. button \subseteq Buttons /\ button # NoImage
    BY DEF PanelTypes, Buttons, NoImage
  \* Nothing unseen was believed down before this image, and it is not used up.
  <2>5. ASSUME NEW b \in Buttons, b \in button, b \notin stable' PROVE b \in unspent'
    <3>1. stable' = stable
      BY <1>2, <1>5, <2>5
    <3>2. b \in unspent
      BY <1>5, <2>5, <3>1 DEF UnseenIsUnspent
    <3>3. b \notin Spent("start") /\ b \notin Spent("stop")
      <4>1. b \notin Spent(b)
        BY <2>5, UnseenIsKept
      <4>2. \A c \in Buttons : c # b => b \notin {c, KeyOf[c]}
        BY DEF Buttons, KeyOf
      <4>3. \A c \in Buttons : c # b => b \notin Spent(c)
        BY <4>2, SpentIsItsOwn
      <4> QED
        BY <4>1, <4>3 DEF Buttons
    <3> QED
      BY <2>1, <3>2, <3>3
  <2>6. UnseenIsUnspent'
    BY <1>1, <2>5 DEF UnseenIsUnspent
  <2>7. NewKeyIsUnspent'
    <3> SUFFICES ASSUME NEW b \in Buttons, KeyOf[b] \in held, lapsed' = FALSE, b \notin Levels
                 PROVE  FALSE
      BY <1>1, <2>1 DEF NewKeyIsUnspent
    <3>1. lapsed = FALSE
      BY <1>1 DEF PanelTypes
    <3>2. alive = TRUE
      BY <3>1 DEF LapseIsNoted, PanelTypes
    <3> QED
      BY <3>2 DEF Levels, Level
  <2>8. SelectorRemembers'
    <3>1. stable' \subseteq Levels
      BY <1>2, <1>5 DEF Levels, Level
    <3>2. "start" \in Levels <=> Level("start")
      BY DEF Levels, Buttons
    <3>3. "stop" \in Levels => down' = Up
      <4>1. ASSUME "stop" \in Levels PROVE down' = Up
        <5>1. Level("stop")
          BY <4>1 DEF Levels
        <5> QED
          BY <1>5, <5>1, StopKeepsUp
      <4> QED
        BY <4>1
    <3>4. hold' = 0 => down' = Up
      BY <1>1, <1>5, StopKeepsUp
    <3> QED
      BY <1>5, <2>1, <2>2, <3>1, <3>2, <3>3, <3>4 DEF SelectorRemembers
  <2>9. HeldIsUnspent'
    <3> SUFFICES ASSUME Pending'
                 PROVE  /\ lapsed' = FALSE => unspent' \cap {"start", "g"} # {}
                        /\ "start" \in stable' => "start" \in unspent'
      BY DEF HeldIsUnspent
    <3>1. Level("start") /\ (Rises \/ Pending) /\ unspent' = unspent
      BY <2>1 DEF Pending
    <3>2. stable # NoImage
      BY <3>1 DEF Rises, Pending, SelectorRemembers
    <3>3. ASSUME "start" \in stable' PROVE "start" \in unspent
      <4>1. CASE "start" \in stable
        <5>1. "start" \in before
          BY <3>2, <4>1 DEF SelectorRemembers
        <5>2. Pending
          BY <3>1, <5>1 DEF Rises
        <5> QED
          BY <4>1, <5>2 DEF HeldIsUnspent
      <4>2. CASE "start" \notin stable
        <5>1. "start" \in button
          BY <1>2, <1>5, <3>3, <4>2
        <5> QED
          BY <3>2, <4>2, <5>1 DEF UnseenIsUnspent, Buttons
      <4> QED
        BY <4>1, <4>2
    <3>4. ASSUME lapsed' = FALSE PROVE unspent \cap {"start", "g"} # {}
      <4>1. CASE "start" \in stable'
        BY <3>3, <4>1
      <4>2. CASE "start" \notin stable'
        <5>1. alive = TRUE /\ "g" \in held /\ lapsed = FALSE
          BY <1>1, <3>1, <3>4, <4>2 DEF Level, KeyOf, PanelTypes
        <5>2. CASE Rises
          BY <5>1, <5>2 DEF Rises, NewKeyIsUnspent, Buttons, KeyOf
        <5>3. CASE Pending
          BY <5>1, <5>3 DEF HeldIsUnspent
        <5> QED
          BY <3>1, <5>2, <5>3
      <4> QED
        BY <4>1, <4>2
    <3> QED
      BY <3>1, <3>3, <3>4
  <2> QED
    BY <1>3, <2>3, <2>6, <2>7, <2>8, <2>9
<1> QED
  BY <1>4, <1>5

\* A START or an AUTO that is due is due to a press that has not acted.
LEMMA DueIsUnspent ==
    ASSUME PanelIInv, lapsed = FALSE, NEW trusted \in BOOLEAN, NEW moved \in BOOLEAN, Scan(trusted, moved),
           NEW b \in Buttons, before # NoImage, Level(b), b \notin before
    PROVE  unspent \cap {b, KeyOf[b]} # {}
<1> USE DEF PanelIInv
<1>1. stable' \in {NoImage, stable, button}
  BY Scanned
<1>2. stable # NoImage /\ b \notin stable
  BY DEF SelectorRemembers
<1>3. CASE b \in stable'
  <2>1. b \in button
    BY <1>1, <1>2, <1>3 DEF NoImage, Buttons
  <2> QED
    BY <1>2, <2>1 DEF UnseenIsUnspent
<1>4. CASE b \notin stable'
  BY <1>4 DEF Level, NewKeyIsUnspent
<1> QED
  BY <1>3, <1>4

\* Every Start edge and every switch to AUTO by START is one press of its own, every Reset edge one
\* of STOP (QrPanelLogic.update, QrKeypad).
THEOREM OnePressActsOnce == PanelSpec => OnePressOneAct
<1> DEFINE Due ==
      ~lapsed => /\ Acts => unspent \cap {"start", "g"} # {}
                 /\ "reset" \in edges' \ edges => unspent \cap {"stop", "enter"} # {}
<1>1. PanelIInv /\ [PanelNext]_panelVars => PanelIInv'
  <2> SUFFICES ASSUME PanelIInv, [PanelNext]_panelVars PROVE PanelIInv'
    OBVIOUS
  <2>1. CASE UNCHANGED panelVars
    BY <2>1
    DEF panelVars, keypadVars, selectorVars, PanelIInv, PanelTypes, UnseenIsUnspent, NewKeyIsUnspent,
        LapseIsNoted, SelectorRemembers, HeldIsUnspent, Pending
  <2> QED
    BY <2>1, HandKeeps, TickKeeps DEF PanelNext
<1>2. PanelIInv /\ PanelNext => Due
  <2> SUFFICES ASSUME PanelIInv, PanelNext, ~lapsed
               PROVE  /\ Acts => unspent \cap {"start", "g"} # {}
                      /\ "reset" \in edges' \ edges => unspent \cap {"stop", "enter"} # {}
    OBVIOUS
  <2>1. CASE UNCHANGED <<auto, edges>>
    BY <2>1 DEF Acts
  <2>2. ASSUME NEW trusted \in BOOLEAN, NEW moved \in BOOLEAN, PanelTick(trusted, moved),
               stable' # NoImage
        PROVE  /\ Acts => unspent \cap {"start", "g"} # {}
               /\ "reset" \in edges' \ edges => unspent \cap {"stop", "enter"} # {}
    <3>1. lapsed = FALSE /\ auto \in BOOLEAN /\ toggled \in BOOLEAN
      BY DEF PanelIInv, PanelTypes
    <3>2. Scan(trusted, moved)
      BY <2>2 DEF PanelTick
    <3>3. Rises => unspent \cap {"start", "g"} # {}
      BY <3>1, <3>2, DueIsUnspent DEF Rises, Buttons, KeyOf
    <3>4. Pending => unspent \cap {"start", "g"} # {}
      BY <3>1 DEF PanelIInv, HeldIsUnspent
    <3>5. Acts => Rises \/ Pending
      BY <2>2, <3>1, ValidTick DEF Acts
    <3>6. "reset" \in edges' => before # NoImage /\ Level("stop") /\ "stop" \notin before
      BY <2>2, ValidTick
    <3>7. "reset" \in edges' => unspent \cap {"stop", "enter"} # {}
      BY <3>1, <3>2, <3>6, DueIsUnspent DEF Buttons, KeyOf
    <3> QED
      BY <3>3, <3>4, <3>5, <3>7
  <2>3. ASSUME NEW trusted \in BOOLEAN, NEW moved \in BOOLEAN, PanelTick(trusted, moved),
               stable' = NoImage
        PROVE  auto' = FALSE /\ edges' = {}
    BY <2>3 DEF PanelTick, Same
  <2> QED
    BY <2>1, <2>2, <2>3
    DEF PanelNext, Press, Release, KeyDown, KeysUp, KeyQ, KeyE, ReaderStops, ReaderGoesOn,
        selectorVars, Acts
<1> QED
  BY <1>1, <1>2, PanelInitially, PTL DEF PanelSpec, OnePressOneAct

\* What the guard remembers of the image before.
GuardTypes ==
    /\ selectorScan.believed \in Selector \cup {Nothing}
    /\ shown.mode \in Selector \cup {Nothing}
    /\ panelFrame.valid \in BOOLEAN
    /\ withheldFor \in Nat /\ same \in Nat
\* A valid frame shows what is shown.
FrameIsShown ==
    panelFrame.valid = TRUE =>
        /\ panelFrame.mode = shown.mode /\ panelFrame.pendant = shown.pendant
        /\ shown.mode # Nothing
\* What is withheld is what is believed, is not shown, and has been believed for as long.
WithheldIsBelieved ==
    withheld # <<>> =>
        /\ withheld = <<selectorScan.believed, Held(pendantScan.believed)>>
        /\ selectorScan.believed # shown.mode /\ shown.mode # Nothing
        /\ selectorScan.believed # Nothing
        /\ same >= withheldFor
\* A destination button that was believed up is ready.
UpIsReleased == buttonsBefore # NoButtons => Destinations \ buttonsBefore \subseteq released

ImageIInv == GuardTypes /\ FrameIsShown /\ WithheldIsBelieved /\ UpIsReleased

-----------------------------------------------------------------------------
\* A press is of one destination.
LEMMA PressIsSingle ==
    ASSUME NEW prior, NEW now, SinglePress(prior, now) # "none"
    PROVE  /\ prior # NoButtons /\ now = {SinglePress(prior, now)}
           /\ SinglePress(prior, now) \in Destinations \ prior
<1> DEFINE d == CHOOSE x \in now : TRUE
<1>1. prior # NoButtons /\ Cardinality(now) = 1 /\ now \subseteq Destinations \ prior
      /\ SinglePress(prior, now) = d
  BY DEF SinglePress
<1>2. IsFiniteSet(now)
  BY <1>1, FS_Subset, PanelAssumption
<1>3. PICK x : now = {x}
  BY <1>1, <1>2, FS_Singleton
<1>4. d = x
  BY <1>3
<1> HIDE DEF d
<1> QED
  BY <1>1, <1>3, <1>4

\* It holds before the first image.
LEMMA ImageInitially == ImageInit => ImageIInv
  BY DEF ImageInit, ImageIInv, GuardTypes, FrameIsShown, WithheldIsBelieved, UpIsReleased, Blank,
         Invalid, Nothing

\* A new image keeps it.
LEMMA AcquireKeeps ==
    ASSUME ImageIInv, NEW mode \in Selector, NEW pendant \in Directions \cup {"none"},
           NEW buttons \in SUBSET Destinations, NEW other \in BOOLEAN,
           Acquire(mode, pendant, buttons, other)
    PROVE  /\ ImageIInv'
           /\ ShownTogether => apart' \/ same' >= HoldScans
           /\ panelFrame'.destination # "none" /\ panelFrame'.destination # panelFrame.destination
                => /\ panelFrame'.destination \in released
                   /\ buttonScan'.believed = {panelFrame'.destination}
<1> USE DEF ImageIInv
<1> DEFINE m == selectorScan.believed
           d == Held(pendantScan.believed)
           m2 == selectorScan'.believed
           d2 == Held(pendantScan'.believed)
           moved == m2 # m
           pushed == d2 # d
           press == SinglePress(buttonsBefore, buttonScan'.believed)
<1>1. m2 \in {mode, m}
  BY DEF Acquire, Debounced
<1>2. m2 \in Selector \cup {Nothing} /\ m \in Selector \cup {Nothing}
  BY <1>1 DEF GuardTypes
<1>3. /\ IF m2 # Nothing THEN Withhold(m2, d2) \/ KeepWithholding(m2, d2) \/ Accept(m2, d2)
         ELSE withheld' = <<>> /\ withheldFor' = 0 /\ shown' = [mode |-> shown.mode, pendant |-> d2]
      /\ panelFrame' = IF m2 # Nothing
           THEN [valid |-> TRUE, mode |-> shown'.mode, pendant |-> shown'.pendant, destination |-> press]
           ELSE [Invalid EXCEPT !.pendant = shown'.pendant]
      /\ same' = IF moved \/ pushed THEN 1 ELSE IF same < HoldScans THEN same + 1 ELSE same
      /\ apart' = IF moved \/ pushed THEN ~(moved /\ pushed) ELSE apart
      /\ released' = IF buttonScan'.believed = NoButtons THEN {}
                     ELSE (released \cup (Destinations \ buttonScan'.believed)) \ {panelFrame'.destination}
      /\ buttonsBefore' = buttonScan'.believed
  BY DEF Acquire
<1> HIDE DEF moved, pushed, m, d, m2, d2, press
<1>4. HoldScans \in Nat \ {0}
  BY PanelAssumption
<1>5. same' \in Nat /\ same' >= 1
  BY <1>3, <1>4 DEF GuardTypes
\* The destination.
<1>6. panelFrame'.destination \in {"none", press}
  BY <1>3 DEF Invalid
<1>7. panelFrame'.destination # "none"
        => /\ buttonsBefore # NoButtons
           /\ buttonScan'.believed = {panelFrame'.destination}
           /\ panelFrame'.destination \in Destinations \ buttonsBefore
  BY <1>6, PressIsSingle DEF press
<1>8. panelFrame'.destination # "none" => panelFrame'.destination \in released
  BY <1>7 DEF UpIsReleased
<1>9. UpIsReleased'
  <2> SUFFICES ASSUME buttonScan'.believed # NoButtons, NEW b \in Destinations \ buttonScan'.believed
               PROVE  b \in released'
    BY <1>3 DEF UpIsReleased
  <2>1. b # panelFrame'.destination
    BY <1>7, PanelAssumption
  <2> QED
    BY <1>3, <2>1
\* The guard.
<1>10. CASE m2 = Nothing
  <2>1. withheld' = <<>> /\ withheldFor' = 0 /\ shown' = [mode |-> shown.mode, pendant |-> d2]
        /\ panelFrame' = [Invalid EXCEPT !.pendant = shown'.pendant]
    BY <1>3, <1>10
  <2>2. panelFrame'.valid = FALSE
    BY <2>1 DEF Invalid
  <2>3. shown'.mode = shown.mode
    BY <2>1
  <2>4. GuardTypes'
    BY <1>2, <1>5, <2>1, <2>2, <2>3 DEF GuardTypes, m2
  <2>5. FrameIsShown' /\ WithheldIsBelieved' /\ ~ShownTogether
    BY <2>1, <2>2 DEF FrameIsShown, WithheldIsBelieved, ShownTogether
  <2> QED
    BY <1>7, <1>8, <1>9, <2>4, <2>5
<1>11. CASE m2 # Nothing
  <2>1. /\ panelFrame'.valid = TRUE /\ panelFrame'.mode = shown'.mode
        /\ panelFrame'.pendant = shown'.pendant
    BY <1>3, <1>11
  <2>2. m2 \in Selector
    BY <1>2, <1>11
  <2>3. CASE Withhold(m2, d2)
    <3>1. /\ withheld = <<>> /\ withheld' = <<m2, d2>> /\ withheldFor' = 1
          /\ shown'.mode = shown.mode /\ shown'.pendant = "none"
          /\ shown.mode # Nothing /\ m2 # shown.mode
      BY <2>3 DEF Withhold, Suspect, ModeShown
    <3>2. GuardTypes'
      BY <1>2, <1>5, <2>1, <3>1 DEF GuardTypes, m2
    <3>3. FrameIsShown' /\ WithheldIsBelieved'
      BY <1>5, <1>11, <2>1, <3>1 DEF FrameIsShown, WithheldIsBelieved, m2, d2
    <3>4. ~ShownTogether
      BY <2>1, <3>1 DEF ShownTogether
    <3> QED
      BY <1>7, <1>8, <1>9, <3>2, <3>3, <3>4
  <2>4. CASE KeepWithholding(m2, d2)
    <3>1. /\ withheld = <<m2, d2>> /\ withheld' = withheld /\ withheldFor' = withheldFor + 1
          /\ withheldFor + 1 < HoldScans
          /\ shown'.mode = shown.mode /\ shown'.pendant = "none"
      BY <2>4 DEF KeepWithholding
    <3>2. m = m2 /\ d = d2 /\ m # shown.mode /\ shown.mode # Nothing /\ same >= withheldFor
      BY <3>1 DEF WithheldIsBelieved, m, d
    <3>3. same' >= withheldFor'
      BY <1>3, <1>4, <3>1, <3>2 DEF moved, pushed, GuardTypes
    <3>4. GuardTypes'
      <4>1. withheldFor' \in Nat
        BY <3>1 DEF GuardTypes
      <4> QED
        BY <1>2, <1>5, <2>1, <3>1, <4>1 DEF GuardTypes, m2
    <3>5. FrameIsShown' /\ WithheldIsBelieved'
      BY <1>11, <2>1, <3>1, <3>2, <3>3 DEF FrameIsShown, WithheldIsBelieved, m2, d2
    <3>6. ~ShownTogether
      BY <2>1, <3>1 DEF ShownTogether
    <3> QED
      BY <1>7, <1>8, <1>9, <3>4, <3>5, <3>6
  <2>5. CASE Accept(m2, d2)
    <3>1. /\ IF withheld = <<>> THEN ~Suspect(m2, d2)
             ELSE withheld # <<m2, d2>> \/ withheldFor + 1 >= HoldScans
          /\ withheld' = <<>> /\ withheldFor' = 0
          /\ shown'.mode = m2 /\ shown'.pendant = d2
      BY <2>5 DEF Accept
    <3>2. GuardTypes'
      BY <1>2, <1>5, <2>1, <3>1 DEF GuardTypes, m2
    <3>3. FrameIsShown' /\ WithheldIsBelieved'
      BY <1>11, <2>1, <3>1 DEF FrameIsShown, WithheldIsBelieved
    <3>4. ASSUME ShownTogether PROVE apart' \/ same' >= HoldScans
      <4>1. /\ panelFrame.valid = TRUE /\ shown.mode # Nothing
            /\ m2 # shown.mode /\ d2 # "none" /\ d2 # shown.pendant
        BY <2>1, <3>1, <3>4 DEF ShownTogether, GuardTypes, FrameIsShown
      <4>2. Suspect(m2, d2)
        BY <4>1 DEF Suspect, ModeShown
      <4>3. withheld # <<>>
        BY <3>1, <4>2
      <4>4. withheld = <<m, d>> /\ m # shown.mode /\ same >= withheldFor /\ m # Nothing
        BY <4>3 DEF WithheldIsBelieved, m, d
      <4>5. m = m2
        BY <1>2, <2>2, <4>1, <4>4 DEF GuardTypes, Selector, Nothing
      <4>6. CASE d # d2
        BY <1>3, <4>5, <4>6 DEF moved, pushed
      <4>7. CASE d = d2
        <5>1. withheldFor + 1 >= HoldScans
          BY <3>1, <4>3, <4>4, <4>5, <4>7
        <5> QED
          BY <1>3, <1>4, <4>4, <4>5, <4>7, <5>1 DEF moved, pushed, GuardTypes
      <4> QED
        BY <4>6, <4>7
    <3> QED
      BY <1>7, <1>8, <1>9, <3>2, <3>3, <3>4
  <2> QED
    BY <1>3, <1>11, <2>3, <2>4, <2>5
<1> QED
  BY <1>10, <1>11

\* The frames of the panel: what a step shows, and what it keeps.
FairFrame ==
    /\ ShownTogether => apart' \/ same' >= HoldScans
    /\ panelFrame'.destination # "none" /\ panelFrame'.destination # panelFrame.destination
         => /\ panelFrame'.destination \in released
            /\ buttonScan'.believed = {panelFrame'.destination}

\* Every step keeps it, and shows a frame that is fair.
LEMMA ImageStep == ASSUME ImageIInv, ImageNext PROVE ImageIInv' /\ FairFrame
<1>1. CASE Lose
  <2>1. /\ selectorScan' = Blank(Nothing) /\ buttonsBefore' = NoButtons
        /\ withheld' = <<>> /\ withheldFor' = 0 /\ shown' = [shown EXCEPT !.pendant = "none"]
        /\ panelFrame' = Invalid /\ same' = 0
    BY <1>1 DEF Lose
  <2>2. panelFrame'.valid = FALSE /\ panelFrame'.destination = "none" /\ shown'.mode \in Selector \cup {Nothing}
        /\ selectorScan'.believed = Nothing
    BY <2>1 DEF Invalid, Blank, ImageIInv, GuardTypes
  <2> QED
    BY <2>1, <2>2
    DEF ImageIInv, GuardTypes, FrameIsShown, WithheldIsBelieved, UpIsReleased, FairFrame, ShownTogether
<1>2. CASE RepeatFrame
  <2>1. /\ panelFrame' = [panelFrame EXCEPT !.destination = "none"]
        /\ UNCHANGED <<selectorScan, pendantScan, buttonsBefore, withheld, withheldFor, shown, same, released>>
    BY <1>2 DEF RepeatFrame
  <2>2. /\ panelFrame'.valid = panelFrame.valid /\ panelFrame'.mode = panelFrame.mode
        /\ panelFrame'.pendant = panelFrame.pendant
    BY <2>1
  <2> QED
    BY <2>1, <2>2
    DEF ImageIInv, GuardTypes, FrameIsShown, WithheldIsBelieved, UpIsReleased, FairFrame, ShownTogether
<1> QED
  BY <1>1, <1>2, AcquireKeeps DEF ImageNext, FairFrame

\* So every frame is.
LEMMA ImagesAreFair == ImageSpec => [][FairFrame]_imageVars
<1>1. ImageIInv /\ [ImageNext]_imageVars => ImageIInv'
  <2> SUFFICES ASSUME ImageIInv, [ImageNext]_imageVars PROVE ImageIInv'
    OBVIOUS
  <2>1. CASE UNCHANGED imageVars
    BY <2>1
    DEF imageVars, ImageIInv, GuardTypes, FrameIsShown, WithheldIsBelieved, UpIsReleased
  <2> QED
    BY <2>1, ImageStep
<1>2. ImageIInv /\ ImageNext => FairFrame
  BY ImageStep
<1> QED
  BY <1>1, <1>2, ImageInitially, PTL DEF ImageSpec

\* A selector and a pendant that change in one scan are shown only after HoldScans scans
\* (PanelAdapter.tick, the coincidence guard).
THEOREM PhantomsAreWithheld == ImageSpec => PhantomIsWithheld
<1>1. [FairFrame]_imageVars => [ShownTogether => apart' \/ same' >= HoldScans]_imageVars
  BY DEF FairFrame
<1> QED
  BY <1>1, ImagesAreFair, PTL DEF PhantomIsWithheld

\* A press of a destination key acts once (panel.py, the set of released buttons).
LEMMA DestinationsAreSingle == ImageSpec => OnePressOneDestination
<1> DEFINE Single ==
      panelFrame'.destination # "none" /\ panelFrame'.destination # panelFrame.destination
        => /\ panelFrame'.destination \in released
           /\ buttonScan'.believed = {panelFrame'.destination}
<1>1. [FairFrame]_imageVars => [Single]_imageVars
  BY DEF FairFrame
<1> QED
  BY <1>1, ImagesAreFair, PTL DEF OnePressOneDestination

\* A press acts once, on the keypad and on the panel, for every number of keys, of scans and of
\* destinations (qr_panel.py, panel.py).
THEOREM PressesActOnce == PanelSpec /\ ImageSpec => OnePressOnce
  BY OnePressActsOnce, DestinationsAreSingle DEF OnePressOnce
=============================================================================
