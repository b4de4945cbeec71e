---------------------------- MODULE BackupRestore ----------------------------
(***************************************************************************)
(* A backup archive is written while tasks store documents, and restored   *)
(* over the live data: the database with its write-ahead log, the two      *)
(* content directories and, unchanged by a restore, the installed domain   *)
(* packages that the restored rows must match (storage/backup.rs, db.rs).  *)
(* The files are moved aside and into place one after the other; a failure *)
(* takes every move back, dropping the errors it meets on the way.         *)
(*                                                                         *)
(* Shutting the scheduler down does not wait for its workers: one that is  *)
(* storing a document goes on during the restore, opens the database by    *)
(* its path and recreates a directory that was moved aside.                *)
(***************************************************************************)
EXTENDS DomainPackages, Sequences, SequencesExt

CONSTANTS BrDocs    \* the documents a task may store

VARIABLES
    docs,       \* the documents with a row in the live database
    content,    \* content directory -> the documents it has files of
    database,   \* which database file is in place
    wal,        \* whether the log of the current database lies beside it
    importing,  \* the document a task is storing and how far it is
    archive,    \* the backup archive
    before,     \* what was live when the restore began, or moved it aside
    journal,    \* the moves of the restore that are done and not taken back
    dropped,    \* the rollback has met an error, which it drops
    touched     \* the places a worker has written to since the restore began

dataVars == <<rows, docs, content, database, wal>>
restoreVars == <<before, journal, dropped, touched>>
brVars == <<domainVars, docs, content, database, wal, importing, archive, restoreVars>>

CONTENT_DIRECTORIES == <<"objects", "indexes">>
EmptyContent == [d \in Range(CONTENT_DIRECTORIES) |-> {}]
NotImporting == [doc |-> "none", at |-> "none"]

\* What a user calls the data: the rows, the documents and their files.
Live == [rows |-> rows, docs |-> docs, content |-> content]
NoData == [rows |-> Unrecorded, docs |-> {}, content |-> EmptyContent]
NothingLive == [data |-> NoData, wal |-> FALSE]
NoArchive == [state |-> "none", data |-> NoData]

BrInit ==
    /\ DpInit
    /\ docs = {} /\ content = EmptyContent
    /\ database = "current" /\ wal = FALSE
    /\ importing = NotImporting
    /\ archive = NoArchive
    /\ before = NothingLive
    /\ journal = {} /\ dropped = FALSE /\ touched = {}

-----------------------------------------------------------------------------
(* A task stores a document: its files first, then its row, then its index *)

Touches(places) ==
    touched' = IF command.op = "restore" THEN touched \union places ELSE touched

StoreObject(doc) ==
    /\ importing = NotImporting
    /\ command.op # "boot"
    /\ doc \notin content["objects"]
    /\ content' = [content EXCEPT !["objects"] = @ \union {doc}]
    /\ importing' = [doc |-> doc, at |-> "row"]
    /\ Touches({"objects"})
    /\ UNCHANGED <<domainVars, docs, database, wal, archive, before, journal, dropped>>

\* The statement is refused when it fails or the claim is lost.  The shutdown
\* has taken every claim, which the rows of an archive may give back.  Opening
\* the database creates one that is not there, and may leave its log.
StoreRow ==
    /\ importing.at = "row"
    /\ \/ /\ database = IF command.op = "restore" THEN "restored" ELSE "current"
          /\ docs' = docs \union {importing.doc}
          /\ importing' = [importing EXCEPT !.at = "index"]
       \/ importing' = NotImporting /\ UNCHANGED docs
    /\ IF command.op = "restore" THEN wal' \in BOOLEAN ELSE UNCHANGED wal
    /\ database' = IF database = "absent" THEN "created" ELSE database
    /\ Touches({"database", "wal"})
    /\ UNCHANGED <<domainVars, content, archive, before, journal, dropped>>

StoreIndex ==
    /\ importing.at = "index"
    /\ content' = [content EXCEPT !["indexes"] = @ \union {importing.doc}]
    /\ importing' = NotImporting
    /\ Touches({"indexes"})
    /\ UNCHANGED <<domainVars, docs, database, wal, archive, before, journal, dropped>>

-----------------------------------------------------------------------------
(* create_backup *)

Begin(op, at) == command = Idle /\ command' = [Idle EXCEPT !.op = op, !.at = at]
CommandTo(at) == command' = [command EXCEPT !.at = at]

\* An archive of that name refuses the command; otherwise the content files
\* are listed before the database is read.
collect_content_files ==
    /\ archive.state = "none"
    /\ Begin("backup", "snapshot")
    /\ archive' = [archive EXCEPT !.data.content = content]
    /\ UNCHANGED <<files, steelStatus, dpFaults, misled, dataVars, importing, restoreVars>>

\* VACUUM INTO: the rows of one moment.
SnapshotDatabase ==
    /\ command.at = "snapshot"
    /\ \/ /\ CommandTo("write")
          /\ archive' = [archive EXCEPT !.data.rows = rows, !.data.docs = docs]
          /\ UNCHANGED dpFaults
       \/ MayFail /\ command' = Idle /\ archive' = NoArchive
    /\ UNCHANGED <<files, steelStatus, misled, dataVars, importing, restoreVars>>

\* The entries are written.  A failure removes the snapshot and leaves the
\* archive as far as it got.
create_backup_archive ==
    /\ command.at = "write"
    /\ command' = Idle
    /\ \/ archive' = [archive EXCEPT !.state = "whole"] /\ UNCHANGED dpFaults
       \/ MayFail /\ archive' = [archive EXCEPT !.state = "broken"]
    /\ UNCHANGED <<files, steelStatus, misled, dataVars, importing, restoreVars>>

-----------------------------------------------------------------------------
(* restore_backup_archive *)

\* The manifest and the entries of the archive, the integrity and the schema
\* of its database.
validate_archive == archive.state = "whole"

\* Every domain row of the extracted database matches an installed package.
validate_staged_domain_packages ==
    \A v \in PkgVersions :
        archive.data.rows[v].sha # "none" =>
            verify_installed_package(archive.data.rows[v], v)

\* restore_backup_internal up to the moves: the scheduler thread has stopped and
\* the connection is closed; a log stays when another connection was open.
RestoreBegin ==
    /\ validate_archive /\ validate_staged_domain_packages
    /\ Begin("restore", "move")
    /\ wal' \in BOOLEAN
    /\ before' = [data |-> Live, wal |-> wal']
    /\ journal' = {} /\ dropped' = FALSE /\ touched' = {}
    /\ UNCHANGED <<files, steelStatus, dpFaults, misled, rows, docs, content, database,
                   importing, archive>>

\* A refused or failed extraction changes nothing, and db_init follows.
RestoreRefused ==
    /\ command = Idle /\ archive.state # "none"
    /\ IF validate_archive /\ validate_staged_domain_packages
       THEN MayFail ELSE UNCHANGED dpFaults
    /\ command' = Booting
    /\ UNCHANGED <<files, steelStatus, misled, dataVars, importing, archive, restoreVars>>

Move(kind, place) == [kind |-> kind, place |-> place]

\* Mutant: the log is moved aside once the rest is in place.
MovesLogLast ==
    <<Move("aside", "database"), Move("aside", "objects"), Move("aside", "indexes"),
      Move("install", "database"), Move("install", "objects"),
      Move("install", "indexes"), Move("aside", "wal")>>

\* The order of install_restored_files.
Moves ==
    <<Move("aside", "wal"), Move("aside", "database"),
      Move("aside", "objects"), Move("aside", "indexes"),
      Move("install", "database"), Move("install", "objects"),
      Move("install", "indexes")>>

\* A place now holds what it held in the given data, or nothing.
PlaceHolds(place, file, data, log) ==
    CASE place = "wal" -> wal' = log /\ UNCHANGED <<rows, docs, content, database>>
      [] place = "database" -> /\ database' = file
                               /\ rows' = data.rows /\ docs' = data.docs
                               /\ UNCHANGED <<wal, content>>
      [] OTHER -> /\ content' = [content EXCEPT ![place] = data.content[place]]
                  /\ UNCHANGED <<rows, docs, database, wal>>

Empties(place) == PlaceHolds(place, "absent", NoData, FALSE)

\* What is moved aside is what the rollback may move back.
SetAside(place) ==
    before' = CASE place = "wal" -> [before EXCEPT !.wal = wal]
                [] place = "database" -> [before EXCEPT !.data.rows = rows, !.data.docs = docs]
                [] OTHER -> [before EXCEPT !.data.content[place] = content[place]]

\* The archive has no files for a directory, so there is none to install.
Skipped(m) ==
    /\ m.kind = "install" /\ m.place \in Range(CONTENT_DIRECTORIES)
    /\ archive.data.content[m.place] = {}

\* A directory cannot be renamed over one that has files.
Free(m) == m.place \in Range(CONTENT_DIRECTORIES) => content[m.place] = {}

Possible(m) == m.kind = "aside" \/ Skipped(m) \/ Free(m)

MoveFiles(m) ==
    \/ m.kind = "aside" /\ Empties(m.place) /\ SetAside(m.place)
    \/ Skipped(m) /\ UNCHANGED <<dataVars, before>>
    \/ /\ m.kind = "install" /\ ~Skipped(m)
       /\ PlaceHolds(m.place, "restored", archive.data, FALSE)
       /\ UNCHANGED before

\* The order in which the rollback takes the moves back: the installed
\* directories, the installed database, then what was moved aside, last first.
RollbackOrder ==
    <<Move("install", "objects"), Move("install", "indexes"),
      Move("install", "database"), Move("aside", "indexes"),
      Move("aside", "objects"), Move("aside", "database"), Move("aside", "wal")>>

\* The i-th move of an order is the first of those still to be made.
Due(order, todo, i) == order[i] \in todo /\ \A j \in 1..(i - 1) : order[j] \notin todo

install_restored_files ==
    /\ command.at = "move"
    /\ \/ \E i \in 1..Len(Moves) :
            /\ Due(Moves, Range(Moves) \ journal, i)
            /\ \/ /\ Possible(Moves[i])
                  /\ MoveFiles(Moves[i])
                  /\ journal' = journal \union {Moves[i]}
                  /\ UNCHANGED <<command, dpFaults>>
               \/ /\ IF Possible(Moves[i]) THEN MayFail ELSE UNCHANGED dpFaults
                  /\ CommandTo("rollback")
                  /\ UNCHANGED <<dataVars, before, journal>>
       \/ /\ journal = Range(Moves)
          /\ \/ CommandTo("ok") /\ UNCHANGED dpFaults
             \/ CommandTo("failed") /\ MayFail  \* the rollback directory stays
          /\ UNCHANGED <<dataVars, before, journal>>
    /\ UNCHANGED <<files, steelStatus, misled, importing, archive, dropped, touched>>

\* Moving a directory back needs its place free; then what was moved aside is
\* lost with the rollback directory.
PutBackPossible(m) == m.kind = "aside" => Free(m)

TakeBack(m) ==
    \/ Skipped(m) /\ UNCHANGED dataVars
    \/ m.kind = "install" /\ ~Skipped(m) /\ Empties(m.place)
    \/ m.kind = "aside" /\ PlaceHolds(m.place, "current", before.data, before.wal \/ wal)

\* One step of the rollback; an error is dropped and the next one follows.
RollbackStep ==
    /\ command.at = "rollback"
    /\ \/ /\ journal = {}
          /\ CommandTo("failed")
          /\ UNCHANGED <<dataVars, journal, dropped, dpFaults>>
       \/ \E i \in 1..Len(RollbackOrder) :
            LET m == RollbackOrder[i] IN
            /\ Due(RollbackOrder, journal, i)
            /\ journal' = journal \ {m}
            /\ \/ /\ PutBackPossible(m)
                  /\ TakeBack(m)
                  /\ UNCHANGED <<dropped, dpFaults>>
               \/ /\ IF PutBackPossible(m) THEN MayFail /\ dropped' = TRUE
                     ELSE UNCHANGED <<dropped, dpFaults>>
                  /\ UNCHANGED dataVars
            /\ UNCHANGED command
    /\ UNCHANGED <<files, steelStatus, misled, importing, archive, before, touched>>

\* db_init opens the database that is in place, or creates an empty one.
RestoreEnd ==
    /\ command.at \in {"ok", "failed"}
    /\ command' = Booting
    /\ database' = "current" /\ wal' = FALSE
    /\ before' = NothingLive /\ journal' = {} /\ dropped' = FALSE /\ touched' = {}
    /\ UNCHANGED <<files, steelStatus, dpFaults, misled, rows, docs, content, importing,
                   archive>>

\* The process ends and starts again.  The task that was storing a document is
\* not resumed; nothing looks for a rollback directory, nor calls
\* cleanup_staging for what an installation or a removal left in .staging.
BrCrash ==
    /\ command \notin {Idle, Booting} \/ importing # NotImporting
    /\ MayFail
    /\ command' = Booting
    /\ importing' = NotImporting
    /\ database' = "current" /\ wal' = FALSE
    /\ before' = NothingLive /\ journal' = {} /\ dropped' = FALSE /\ touched' = {}
    /\ archive' = IF command.op = "backup"
                  THEN [archive EXCEPT !.state = IF command.at = "write" THEN "broken" ELSE "none"]
                  ELSE archive
    /\ UNCHANGED <<files, rows, steelStatus, misled, docs, content>>

BrNext ==
    \/ CommandStep /\ UNCHANGED <<docs, content, database, wal, importing, archive, restoreVars>>
    \/ \E doc \in BrDocs : StoreObject(doc)
    \/ StoreRow \/ StoreIndex
    \/ collect_content_files \/ SnapshotDatabase \/ create_backup_archive
    \/ RestoreBegin \/ RestoreRefused
    \/ install_restored_files \/ RollbackStep \/ RestoreEnd \/ BrCrash

BrSpec == BrInit /\ [][BrNext]_brVars

-----------------------------------------------------------------------------

\* A place holds what it held in the given data.
PlaceIs(place, data) ==
    IF place = "database" THEN rows = data.rows /\ docs = data.docs
    ELSE content[place] = data.content[place]

Untouched == ({"database"} \union Range(CONTENT_DIRECTORIES)) \ touched

(* A restore replaces all of the data or none of it: a success leaves exactly
   what the archive holds, a failure leaves exactly what was there (or, when
   only removing the files moved aside failed, what the archive holds), in
   every place no worker wrote to meanwhile.  And at no moment, so after no
   crash either, does the log of the old database lie beside the restored one,
   where opening it would apply it, unless a worker opened the database.  A
   write of a worker to one place, which may make the restore fail, never
   breaks the others.  All of it holds unless the rollback itself met an
   error, which install_restored_files drops: when neither removing the
   restored database nor moving the old one back succeeds, the old log is moved
   back beside the restored database. *)
RestoreIsWhole ==
    /\ command.at = "ok" => \A p \in Untouched : PlaceIs(p, archive.data)
    /\ command.at = "failed" /\ ~dropped =>
         \E data \in {before.data, archive.data} : \A p \in Untouched : PlaceIs(p, data)
    /\ wal /\ ~dropped /\ touched \intersect {"database", "wal"} = {} => database # "restored"
=============================================================================
