-------------------------- MODULE OperationJournal --------------------------
(***************************************************************************)
(* The journal of the supervisor's operations (operations.py), over          *)
(* processes that are killed, power cuts that tear the line being written, a *)
(* disk that refuses a write, and browsers that retry a request whose answer *)
(* they did not get.                                                        *)
(*                                                                         *)
(* The file is represented by what a replay of its whole lines rebuilds      *)
(* (disk), and by what stands on its last line when that has no newline.     *)
(***************************************************************************)
EXTENDS Naturals, Sequences, FiniteSets, SequencesExt

CONSTANTS Requests,    \* request ids the browsers use
          NoRequest,   \* the empty id of a recovery or a fault
          HistoryLimit, \* OperationBook._history
          DiskRefuses, \* whether a write may meet a full or read-only disk
          MaxRecords,      \* bound on operations
          MaxStarts    \* bound on starts of the supervisor

ASSUME JournalAssumption ==
  /\ {HistoryLimit, MaxRecords, MaxStarts} \subseteq Nat \ {0}
  /\ DiskRefuses \in BOOLEAN
  /\ NoRequest \notin Requests

VARIABLES
  serving,     \* the supervisor is up
  book,        \* OperationBook._ops, oldest first
  byRequest,   \* OperationBook._by_request; 0 is none
  disk,        \* operations.jsonl, its whole lines
  tail,        \* the record on a last line without newline, Torn, or Closed
  issued,      \* operations submitted so far
  starts,      \* how often the supervisor started
  carried,     \* history: the operations that carried each request out
  damaged,     \* history: requests of which an operation has no whole line in the file
  unfound      \* history: requests of which an older record left the book before a newer one

bookVars == <<book, byRequest>>
fileVars == <<disk, tail>>
historyVars == <<carried, damaged, unfound>>
journalVars == <<serving, bookVars, fileVars, issued, starts, historyVars>>

AnyRequest == Requests \union {NoRequest}
Terminal == {"finished", "interrupted"}
OpRecord == [op : 1..MaxRecords, req : AnyRequest, status : Terminal \union {"pending"}]
Torn == [op |-> 0]
Closed == [op |-> MaxRecords + 1]

JournalTypeOK ==
  /\ \A b \in {book, disk} : \A i \in DOMAIN b : b[i] \in OpRecord
  /\ byRequest \in [Requests -> 0..MaxRecords]
  /\ tail \in OpRecord \union {Torn, Closed}
  /\ issued \in 0..MaxRecords /\ starts \in 0..MaxStarts /\ serving \in BOOLEAN
  /\ damaged \subseteq Requests /\ unfound \subseteq AnyRequest

JournalInit ==
  /\ serving = FALSE /\ book = <<>> /\ byRequest = [r \in Requests |-> 0]
  /\ disk = <<>> /\ tail = Closed /\ issued = 0 /\ starts = 0
  /\ carried = [r \in Requests |-> {}] /\ damaged = {} /\ unfound = {}

-----------------------------------------------------------------------------
(* The book and the file.                                                   *)

\* A record takes the place of an earlier one of its operation.
Put(b, rec) ==
  IF \E i \in DOMAIN b : b[i].op = rec.op
  THEN [i \in DOMAIN b |-> IF b[i].op = rec.op THEN rec ELSE b[i]]
  ELSE Append(b, rec)

\* Faulty variant: the newest goes first.
TrimmedNewest(b) == SubSeq(b, 1, IF Len(b) > HistoryLimit THEN HistoryLimit ELSE Len(b))

\* _trim(): oldest first, down to the limit, and none past a pending one.
Trimmed(b) ==
  LET excess == IF Len(b) > HistoryLimit THEN Len(b) - HistoryLimit ELSE 0
      stops == {n \in 0..excess : n = excess \/ b[n + 1].status = "pending"}
      n == CHOOSE k \in stops : \A m \in stops : k <= m
  IN SubSeq(b, n + 1, Len(b))

RequestsOf(records) == {rec.req : rec \in records}
Dropped(b) == ToSet(b) \ ToSet(Trimmed(b))

\* The index loses a request with any record of it, even with the older one of two.
Reindexed(index, b) ==
  [r \in Requests |-> IF r \in RequestsOf(Dropped(b)) THEN 0 ELSE index[r]]

\* The requests whose newer record stays and is no longer found.
LeftBehind(b) == RequestsOf(Dropped(b)) \intersect RequestsOf(ToSet(Trimmed(b)))

\* Who loses with this line the only one of an operation that carried it out.
Lost(rec) == {r \in Requests : /\ rec.op \in carried'[r]
                               /\ \A i \in DOMAIN disk : disk[i].op # rec.op}

\* _journal(): an OSError is swallowed.  What is added to a line without newline cannot be
\* read, nor what stood there.
Journalled(rec) ==
  \/ /\ tail = Closed
     /\ disk' = Put(disk, rec)
     /\ UNCHANGED <<tail, damaged>>
  \/ /\ tail # Closed
     /\ tail' = Closed
     /\ damaged' = damaged \union Lost(rec) \union Lost(tail)
     /\ UNCHANGED disk
  \/ /\ DiskRefuses
     /\ damaged' = damaged \union Lost(rec)
     /\ UNCHANGED fileVars

\* The power goes while a record is written: it is cut, or lacks only its newline.
CutShort(rec) ==
  /\ \/ tail' = Torn /\ damaged' = damaged \union Lost(rec) \union Lost(tail)
     \/ tail = Closed /\ tail' = rec /\ UNCHANGED damaged
  /\ UNCHANGED disk

-----------------------------------------------------------------------------
(* Operations.  The supervisor has one at a time (fsm.admit), and looks for  *)
(* the request id first.                                                    *)

PendingOps(b) == {i \in DOMAIN b : b[i].status = "pending"}

NewRecord(r) == [op |-> issued + 1, req |-> r, status |-> "pending"]

\* The request is known: its record is the answer.
Duplicate(r) ==
  /\ serving /\ r \in Requests /\ byRequest[r] # 0
  /\ UNCHANGED journalVars

Admitted(r) ==
  /\ serving /\ issued < MaxRecords
  /\ r \in Requests => byRequest[r] = 0
  /\ PendingOps(book) = {}

Submit(r) ==
  /\ Admitted(r)
  /\ issued' = issued + 1
  /\ LET b == Append(book, NewRecord(r))
     IN /\ book' = Trimmed(b)
        /\ LET named == [q \in Requests |-> IF q = r THEN issued + 1 ELSE byRequest[q]]
           IN byRequest' = Reindexed(named, b)
        /\ unfound' = unfound \union LeftBehind(b)
  /\ carried' = [q \in Requests |-> carried[q] \union IF q = r THEN {issued + 1} ELSE {}]
  /\ Journalled(NewRecord(r))
  /\ UNCHANGED <<serving, starts>>

Finished(status) ==
  LET i == CHOOSE j \in PendingOps(book) : TRUE
  IN [book[i] EXCEPT !.status = status]

\* finish(): the worker, a fault, or shutdown ("service stopped") says how it ended.
FinishOp(status) ==
  /\ serving /\ PendingOps(book) # {}
  /\ book' = Put(book, Finished(status))
  /\ serving' \in IF status = "interrupted" THEN {FALSE} ELSE {TRUE}
  /\ UNCHANGED <<byRequest, issued, starts, carried, unfound>>
  /\ Journalled(Finished(status))

-----------------------------------------------------------------------------
(* Starting.                                                                *)

ReadBack == IF tail \in {Torn, Closed} THEN disk ELSE Put(disk, tail)

\* _replay(): of two operations of a request the later one is found.
ReplayIndex(b) ==
  [r \in Requests |->
     LET mine == {b[i].op : i \in {j \in DOMAIN b : b[j].req = r}}
     IN IF mine = {} THEN 0 ELSE CHOOSE o \in mine : \A p \in mine : p <= o]

Interrupted(b) ==
  [i \in DOMAIN b |-> IF b[i].status = "pending" THEN [b[i] EXCEPT !.status = "interrupted"]
                                                ELSE b[i]]

\* What was pending is interrupted, and that is journalled; it is not carried out again.  One
\* line stands for all: what stays pending in the file is interrupted at the next start too.
StartUp ==
  /\ ~serving /\ starts < MaxStarts
  /\ starts' = starts + 1
  /\ serving' = TRUE
  /\ book' = Trimmed(Interrupted(ReadBack))
  /\ byRequest' = Reindexed(ReplayIndex(ReadBack), Interrupted(ReadBack))
  /\ unfound' = unfound \union LeftBehind(Interrupted(ReadBack))
  /\ UNCHANGED <<issued, carried>>
  /\ IF PendingOps(ReadBack) = {} THEN UNCHANGED <<fileVars, damaged>>
     ELSE Journalled(Interrupted(ReadBack)[CHOOSE i \in PendingOps(ReadBack) : TRUE])

-----------------------------------------------------------------------------
(* The ends nobody asked for: between two writes, or in the middle of one.   *)

Kill ==
  /\ serving
  /\ serving' = FALSE
  /\ UNCHANGED <<bookVars, fileVars, issued, starts, historyVars>>

PowerCut ==
  /\ serving
  /\ serving' = FALSE
  /\ UNCHANGED <<bookVars, starts, carried, unfound>>
  /\ \/ /\ \E r \in AnyRequest : Admitted(r) /\ CutShort(NewRecord(r))
        /\ issued' = issued + 1
     \/ /\ PendingOps(book) # {} /\ CutShort(Finished("finished"))
        /\ UNCHANGED issued

JournalNext ==
  \/ \E r \in AnyRequest : Duplicate(r) \/ Submit(r)
  \/ \E status \in Terminal : FinishOp(status)
  \/ StartUp \/ Kill \/ PowerCut

JournalSpec == JournalInit /\ [][JournalNext]_journalVars

-----------------------------------------------------------------------------
(* A request is carried out once, however often it is sent and whatever     *)
(* happens to the supervisor meanwhile: a second time only if its record     *)
(* left the book for newer ones, was damaged on its way to the disk, or is in  *)
(* the book and not found there since an older record of the request left it. *)
RunsOnce ==
  \A r \in Requests :
    \/ r \in damaged \union unfound
    \/ \A o, p \in carried[r] : o < p => p - o > HistoryLimit

(* operations.py:10-12: "The same request_id returns the existing record, so  *)
(* a browser retry after a dropped response never creates a second operation". *)
(* A record written whole after a torn line shares that line and is lost.    *)
RetryNeverDoubles == \A r \in Requests : Cardinality(carried[r]) <= 1
=============================================================================
