----------------------------- MODULE GcodeArchive -----------------------------
(***************************************************************************)
(* internal/service/gcodearchive.go with the requests that use it: an      *)
(* upload of the slicer stores its G-code, sends it, and records it in the *)
(* print history; a reprint sends what the row names again.  The process   *)
(* may be killed between any two steps, in the middle of a write, too.     *)
(*                                                                         *)
(* An archive is known by the upload that wrote it, its name being unique; *)
(* nothing removes it.  PrintHistory has the other columns of the row.     *)
(***************************************************************************)
EXTENDS Naturals, FiniteSets

CONSTANTS
  Uploads,     \* requests of slicers
  Reprints,    \* requests of the history page
  Names,       \* names of G-code files
  NoUpload,
  MaxKills     \* bound: kills of the process

ASSUME ArchiveAssumption ==
  NoUpload \notin Uploads /\ Names # {} /\ MaxKills \in Nat

VARIABLES
  archiveDir,  \* upload |-> its file: G-code and thumbnail
  uploading,   \* upload |-> where the request is, and the name it gives
  table,       \* rows of the history that name an archive: [name, of]
  reprinting,  \* reprint |-> where the request is, its row, what it read
  sent,        \* history: reprints sent to the printer, [name, of, bytes]
  kills

archiveVars == <<archiveDir, uploading, table, reprinting, sent, kills>>

Contents == {"none", "part", "whole"}
UploadPoints == {"new", "writing", "thumbnail", "sending", "sendingOnly", "recording", "done"}
NoRow == [name |-> "no name", of |-> NoUpload]
Rows  == [name : Names, of : Uploads]

ArchiveTypeOK ==
  /\ archiveDir \in [Uploads -> [gcode : Contents, thumbnail : Contents]]
  /\ DOMAIN uploading = Uploads
  /\ \A u \in Uploads : uploading[u].at \in UploadPoints /\ uploading[u].name \in Names
  /\ table \subseteq Rows
  /\ DOMAIN reprinting = Reprints
  /\ \A p \in Reprints : /\ reprinting[p].at \in {"new", "found", "read", "done"}
                         /\ reprinting[p].row \in Rows \union {NoRow}
                         /\ reprinting[p].bytes \in Contents
  /\ sent \subseteq [name : Names, of : Uploads, bytes : Contents]
  /\ kills \in 0..MaxKills

ArchiveInit ==
  /\ archiveDir = [u \in Uploads |-> [gcode |-> "none", thumbnail |-> "none"]]
  /\ uploading = [u \in Uploads |-> [at |-> "new", name |-> CHOOSE n \in Names : TRUE]]
  /\ table = {} /\ sent = {} /\ kills = 0
  /\ reprinting = [p \in Reprints |-> [at |-> "new", row |-> NoRow, bytes |-> "none"]]

-----------------------------------------------------------------------------
Comes(u, to) == uploading' = [uploading EXCEPT ![u].at = to]

(* Archive: the G-code is written; an error leaves what is there, and the  *)
(* upload goes on without an archive.                                      *)
ArchiveBegins(u) ==
  /\ uploading[u].at = "new"
  /\ \E n \in Names : uploading' = [uploading EXCEPT ![u] = [at |-> "writing", name |-> n]]
  /\ archiveDir' = [archiveDir EXCEPT ![u].gcode = "part"]
  /\ UNCHANGED <<table, reprinting, sent, kills>>

ArchiveWritten(u) ==
  /\ uploading[u].at = "writing"
  /\ \/ /\ archiveDir' = [archiveDir EXCEPT ![u].gcode = "whole"]
        /\ Comes(u, "thumbnail")
     \/ UNCHANGED archiveDir /\ Comes(u, "sendingOnly")
  /\ UNCHANGED <<table, reprinting, sent, kills>>

(* The thumbnail, if there is one; an error leaves a part of it. *)
ThumbnailWritten(u) ==
  /\ uploading[u].at = "thumbnail"
  /\ \E written \in Contents : archiveDir' = [archiveDir EXCEPT ![u].thumbnail = written]
  /\ Comes(u, "sending")
  /\ UNCHANGED <<table, reprinting, sent, kills>>

(* SendFile fails, or what was archived is recorded. *)
UploadSent(u) ==
  /\ uploading[u].at \in {"sending", "sendingOnly"}
  /\ \E to \in {"done", IF uploading[u].at = "sending" THEN "recording" ELSE "done"} : Comes(u, to)
  /\ UNCHANGED <<archiveDir, table, reprinting, sent, kills>>

(* RecordStart. *)
UploadRecorded(u) ==
  /\ uploading[u].at = "recording"
  /\ table' = table \union {[name |-> uploading[u].name, of |-> u]}
  /\ Comes(u, "done")
  /\ UNCHANGED <<archiveDir, reprinting, sent, kills>>

(* Rows are deleted, pruned or cleared; their archives stay. *)
RowGoes(row) ==
  /\ row \in table /\ table' = table \ {row}
  /\ UNCHANGED <<archiveDir, uploading, reprinting, sent, kills>>

-----------------------------------------------------------------------------
(* HistoryReprint: GetEntry. *)
ReprintLooks(p) ==
  /\ reprinting[p].at = "new"
  /\ \E row \in table : reprinting' = [reprinting EXCEPT ![p].at = "found", ![p].row = row]
  /\ UNCHANGED <<archiveDir, uploading, table, sent, kills>>

(* Mutant: the newest archive of the name is read. *)
ReadsNewest(row) ==
  {archiveDir[u].gcode : u \in {v \in Uploads : uploading[v].name = row.name}} \ {"none"}

(* Exists, ReadArchive: the file as it is now. *)
Reads(row) == {archiveDir[row.of].gcode} \ {"none"}

ReprintReads(p) ==
  /\ reprinting[p].at = "found"
  /\ \/ \E bytes \in Reads(reprinting[p].row) :
          reprinting' = [reprinting EXCEPT ![p].at = "read", ![p].bytes = bytes]
     \/ /\ Reads(reprinting[p].row) = {}
        /\ reprinting' = [reprinting EXCEPT ![p].at = "done"]
  /\ UNCHANGED <<archiveDir, uploading, table, sent, kills>>

(* The printer is busy or a service is missing, or SendFile. *)
ReprintEnds(p) ==
  /\ reprinting[p].at = "read"
  /\ reprinting' = [reprinting EXCEPT ![p].at = "done"]
  /\ sent' \in {sent, sent \union {[name |-> reprinting[p].row.name, of |-> reprinting[p].row.of,
                                    bytes |-> reprinting[p].bytes]}}
  /\ UNCHANGED <<archiveDir, uploading, table, kills>>

(* The process is killed: every request ends where it is.  The database    *)
(* and the directory stay.                                                 *)
Killed ==
  /\ kills < MaxKills /\ kills' = kills + 1
  /\ uploading' = [u \in Uploads |->
                     IF uploading[u].at = "new" THEN uploading[u]
                     ELSE [uploading[u] EXCEPT !.at = "done"]]
  /\ reprinting' = [p \in Reprints |->
                      IF reprinting[p].at = "new" THEN reprinting[p]
                      ELSE [reprinting[p] EXCEPT !.at = "done"]]
  /\ \E torn \in SUBSET {u \in Uploads : uploading[u].at = "thumbnail"} :
       archiveDir' = [u \in Uploads |->
                        IF u \in torn THEN [archiveDir[u] EXCEPT !.thumbnail = "part"]
                        ELSE archiveDir[u]]
  /\ UNCHANGED <<table, sent>>

ArchiveNext ==
  \/ \E u \in Uploads : \/ ArchiveBegins(u) \/ ArchiveWritten(u) \/ ThumbnailWritten(u)
                        \/ UploadSent(u) \/ UploadRecorded(u)
  \/ \E row \in table : RowGoes(row)
  \/ \E p \in Reprints : ReprintLooks(p) \/ ReprintReads(p) \/ ReprintEnds(p)
  \/ Killed

ArchiveSpec == ArchiveInit /\ [][ArchiveNext]_archiveVars

(* A reprint sends the whole G-code of one upload under the name that      *)
(* upload had, whatever was cut short, and whatever uploads of that name   *)
(* came in between: a row names an archive only when it is whole.          *)
ReprintIsUpload ==
  \A s \in sent : s.bytes = "whole" /\ s.name = uploading[s.of].name
===============================================================================
