----------------------------- MODULE PrintHistory -----------------------------
(***************************************************************************)
(* internal/db/history.go: the table print_history, and the two requests   *)
(* of internal/web/handler/history.go that delete from it.                 *)
(*                                                                         *)
(* Every operation holds d.mu and runs in one transaction, which is rolled *)
(* back on an error: it happens as a whole or not at all, also when the    *)
(* process is killed.  A request that looks first and writes later is two  *)
(* operations.                                                             *)
(***************************************************************************)
EXTENDS Naturals, FiniteSets

CONSTANTS
  Files,         \* names of G-code files
  Placeholders,  \* the names that mean "not known yet"
  Tasks,         \* task ids
  NoTask,        \* the empty task id
  MaxEntries,    \* defaultMaxEntries
  Deleters,      \* requests that delete selected entries
  MaxId          \* bound: rows ever inserted, and the ids requests select

ASSUME HistoryAssumption ==
  /\ Placeholders \subseteq Files
  /\ NoTask \notin Tasks
  /\ MaxEntries \in Nat \ {0}
  /\ MaxId \in Nat

VARIABLES
  rows,     \* the table: id |-> row
  lastId,   \* sqlite_sequence: AUTOINCREMENT never gives an id twice
  checked,  \* deleter |-> the ids GetEntry did not report as in progress
  ahead     \* deleter |-> the ids that no row had had yet when it asked

deleterVars == <<checked, ahead>>
historyVars == <<rows, lastId, deleterVars>>

Status == {"started", "finished", "failed", "interrupted"}
Archive == {"none", "stored"}   \* archive_relpath: NULL, or a path
Row == [file : Files, task : Tasks \union {NoTask}, status : Status,
        archive : Archive, aged : BOOLEAN]

Ids  == DOMAIN rows
Open == {i \in Ids : rows[i].status = "started"}

HistoryTypeOK ==
  /\ lastId \in Nat
  /\ Ids \subseteq 1 .. lastId
  /\ rows \in [Ids -> Row]
  /\ checked \in [Deleters -> SUBSET (1 .. lastId)]
  /\ ahead \in [Deleters -> SUBSET Nat]

HistoryInit ==
  /\ rows = << >>
  /\ lastId = 0
  /\ checked = [d \in Deleters |-> {}]
  /\ ahead = [d \in Deleters |-> {}]

-------------------------------------------------------------------------------
(* The open row a report of the given task or file is about, or none. *)
Newest(S) == {i \in S : \A j \in S : j <= i}
OfTask(task) == IF task = NoTask THEN {} ELSE {i \in Open : rows[i].task = task}
OfFile(file) == {i \in Open : rows[i].file = file}
FindActive(file, task) ==
  CASE OfTask(task) # {} -> OfTask(task)
    [] OTHER             -> IF OfFile(file) # {} THEN Newest(OfFile(file))
                                                 ELSE Newest(Open)

(* What is left of the rows S, with the newest of them just inserted: 90   *)
(* days and MaxEntries rows.                                               *)
Kept(S) == {i \in S : /\ i \in Ids => ~rows[i].aged
                      /\ Cardinality({j \in S : j > i}) < MaxEntries}

StartedRow(file, task, archive) ==
  [file |-> file, task |-> task, status |-> "started", archive |-> archive, aged |-> FALSE]

Interrupted(row) ==
  IF row.status = "started" THEN [row EXCEPT !.status = "interrupted"] ELSE row

(* Mutant: the rows that are still open stay open. *)
InsertBesideOpen(file, task, archive) ==
  /\ lastId' = lastId + 1
  /\ rows' = [i \in Kept(Ids \union {lastId + 1}) |->
                IF i = lastId + 1 THEN StartedRow(file, task, archive) ELSE rows[i]]

(* The open rows are closed, the new one is inserted, old ones pruned. *)
Insert(file, task, archive) ==
  /\ lastId' = lastId + 1
  /\ rows' = [i \in Kept(Ids \union {lastId + 1}) |->
                IF i = lastId + 1 THEN StartedRow(file, task, archive)
                                  ELSE Interrupted(rows[i])]

Coalesce(old, new) == IF old = "none" THEN new ELSE old

(* An open row of the same task goes on, with the archive it still lacks. *)
Resume(task, archive) ==
  /\ rows' = [i \in Ids |->
                IF i \in OfTask(task)
                THEN [rows[i] EXCEPT !.archive = Coalesce(@, archive)]
                ELSE rows[i]]
  /\ UNCHANGED lastId

RecordStart(file, task, archive) ==
  CASE file \in Placeholders -> UNCHANGED <<rows, lastId>>
    [] OTHER                 -> IF OfTask(task) # {}
                                THEN Resume(task, archive)
                                ELSE Insert(file, task, archive)

(* RecordFinish and RecordFail. *)
RecordEnd(file, task, status) ==
  /\ rows' = [i \in Ids |-> IF i \in FindActive(file, task)
                            THEN [rows[i] EXCEPT !.status = status]
                            ELSE rows[i]]
  /\ UNCHANGED lastId

SetArchiveInfo(id) ==
  /\ rows' = [i \in Ids |-> IF i = id THEN [rows[i] EXCEPT !.archive = Coalesce(@, "stored")]
                                      ELSE rows[i]]
  /\ UNCHANGED lastId

DeleteRows(S) ==
  /\ rows' = [i \in Ids \ S |-> rows[i]]
  /\ UNCHANGED lastId

(* Mutant: the ids of a plain INTEGER PRIMARY KEY, given again once the    *)
(* rows that had them are gone.                                            *)
ClearFreesIds ==
  /\ rows' = << >>
  /\ lastId' = 0
  /\ UNCHANGED deleterVars

ClearHistory == DeleteRows(Ids) /\ UNCHANGED deleterVars

-------------------------------------------------------------------------------
(* HistoryDeleteSelected: one GetEntry per selected id, the first that is  *)
(* in progress ends the request, then one DELETE for all of them.  An id   *)
(* that has no row passes; a request may even select one that will be given*)
(* to a later print.                                                       *)
Selected(d) == checked[d] \union ahead[d]

CheckEntry(d, i) ==
  /\ i \notin Selected(d)
  /\ i \notin Open
  /\ IF i <= lastId
     THEN checked' = [checked EXCEPT ![d] = @ \union {i}] /\ UNCHANGED ahead
     ELSE ahead' = [ahead EXCEPT ![d] = @ \union {i}] /\ UNCHANGED checked
  /\ UNCHANGED <<rows, lastId>>

RequestEnds(d) ==
  /\ Selected(d) # {}
  /\ checked' = [checked EXCEPT ![d] = {}]
  /\ ahead' = [ahead EXCEPT ![d] = {}]

CheckRefuses(d) ==
  /\ Open # {}
  /\ RequestEnds(d)
  /\ UNCHANGED <<rows, lastId>>

DeleteEntries(d) ==
  /\ RequestEnds(d)
  /\ DeleteRows(Selected(d))

(* Ninety days pass for the oldest row that is not that old yet. *)
Age(id) ==
  /\ id \in Ids /\ ~rows[id].aged
  /\ \A i \in Ids : i < id => rows[i].aged
  /\ rows' = [rows EXCEPT ![id].aged = TRUE]
  /\ UNCHANGED <<lastId, deleterVars>>

DeleteStep ==
  \/ ClearHistory
  \/ \E d \in Deleters :
       \/ \E i \in 1 .. MaxId : CheckEntry(d, i)
       \/ CheckRefuses(d)
       \/ DeleteEntries(d)

HistoryNext ==
  \/ /\ lastId < MaxId
     /\ \E f \in Files, t \in Tasks \union {NoTask}, a \in Archive : RecordStart(f, t, a)
     /\ UNCHANGED deleterVars
  \/ /\ \E f \in Files, t \in Tasks \union {NoTask}, s \in {"finished", "failed"} :
          RecordEnd(f, t, s)
     /\ UNCHANGED deleterVars
  \/ \E i \in Ids : SetArchiveInfo(i) /\ UNCHANGED deleterVars
  \/ DeleteStep
  \/ \E i \in Ids : Age(i)

HistorySpec == HistoryInit /\ [][HistoryNext]_historyVars

-------------------------------------------------------------------------------
(* The table is a log of one print at a time: PrintLog.  Rows are closed   *)
(* by the next start, by their own end or by a deletion, in any order, and *)
(* prunes take rows away while requests still hold their ids.              *)
Log == INSTANCE PrintLog WITH current <- Open, last <- lastId
KeepsLog == Log!Spec

(* handler/history.go:349, "Refuse to delete any entry that is still in    *)
(* progress": the entries are checked one by one and deleted later, with   *)
(* starts, clears and prunes in between.  Only ClearHistory may take the   *)
(* row of the print that is going on, or a request that has selected its id*)
(* before the print began.                                                 *)
InProgressIsKept ==
  [][\A d \in Deleters : DeleteEntries(d) => Open \ Open' \subseteq ahead[d]]_historyVars
===============================================================================
