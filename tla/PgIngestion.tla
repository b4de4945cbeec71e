---------------------------- MODULE PgIngestion ----------------------------
(***************************************************************************)
(* The PostgreSQL knowledge base (src-tauri/src/knowledge_db.rs): imports  *)
(* run as detached tasks that write their stage into ingestion_jobs, while *)
(* commands retry and cancel jobs, move and delete documents, merge and    *)
(* delete knowledge bases, and reconnect the pool.                         *)
(*                                                                         *)
(* One import is split where another session can commit in between: every  *)
(* stage update, the reads of the indexing transaction (Locate), its       *)
(* writes and commit (Commit), the embedding call, the sealing of the      *)
(* manifest, and the failure records written after the error has been      *)
(* returned.  A path is either a file the user imports or the stored copy  *)
(* that a reparse reads.                                                   *)
(*                                                                         *)
(* Every write of a stage, an outcome or a failure may itself fail: the    *)
(* code then returns an error or drops it.  A task counts the operations   *)
(* that failed since it last wrote an outcome to its job.                  *)
(***************************************************************************)
EXTENDS Naturals, FiniteSets

CONSTANTS
    PgBases,       \* ids a knowledge base may get
    PgFiles,       \* paths of source files
    PgShas,        \* contents, by hash
    PgMaxDocs,     \* rows of source_documents
    PgMaxJobs,     \* rows of ingestion_jobs
    PgMaxTasks,    \* rows of ingestion_attempts; a task runs at most one
    PgMaxFaults,   \* indexing or provider failures
    PgMaxLost,     \* storage operations that fail and leave no record
    PgMaxCommands, \* user commands in a behaviour
    PgEmbeds       \* a default embedding profile is configured

ASSUME PgBoundsAssumption == PgMaxDocs \in Nat /\ PgMaxJobs \in Nat /\ PgMaxTasks \in Nat

VARIABLES
    base,      \* knowledge base -> "none", "private", "public" or "deleted"
    docs,      \* source_documents
    versions,  \* document_versions: document -> content -> activation
    embedded,  \* <<document, content>> with an embedding for every chunk
    sealed,    \* <<document, content>> with manifest_sealed
    jobs,      \* ingestion_jobs
    tasks,     \* the spawned imports with their ingestion_attempts row
    guards,    \* tasks whose ImportFailureGuard record is still to be written
    pgpool,    \* whether KnowledgeDatabaseState holds a pool
    pgused     \* commands, faults and lost operations spent

pgVars == <<base, docs, versions, embedded, sealed, jobs, tasks,
            guards, pgpool, pgused>>

DocIds == 1..PgMaxDocs
JobIds == 1..PgMaxJobs
TaskIds == 1..PgMaxTasks

FilePath(f) == [origin |-> "file", name |-> f]
StoredPath(s) == [origin |-> "store", name |-> s]
\* The states that recovery, cancellation and deletion treat as active.
ActiveStates == {"queued", "uploading", "parsing", "chunking", "indexing",
                 "embedding", "retrying"}
NextStage == [spawned |-> "uploading", uploading |-> "parsing",
              parsing |-> "chunking", chunking |-> "indexing"]

Private(b) == base[b] = "private"
Spend(kind) == pgused' = [pgused EXCEPT ![kind] = @ + 1]
MayCommand == pgused.commands < PgMaxCommands
MayFail == pgused.faults < PgMaxFaults

FreshDocs == {d \in DocIds : ~docs[d].exists}
FreshJobs == {j \in JobIds : jobs[j].state = "none"}
FreshTasks == {t \in TaskIds : tasks[t].at = "none"}
Least(S) == CHOOSE i \in S : \A k \in S : i <= k

\* A task still has something to write about its job.
InFlight(t) == tasks[t].at \notin {"none", "done", "refused"} \/ t \in guards

NoTarget == [kind |-> "none", doc |-> 0]
Idle == [at |-> "none", job |-> 0, retry |-> FALSE, ok |-> FALSE,
         path |-> [origin |-> "none", name |-> "none"], sha |-> "none",
         target |-> NoTarget, attempt |-> "none", lost |-> 0]

PgInit ==
    /\ base \in [PgBases -> {"none", "private", "public"}]
    /\ \E b \in PgBases : base[b] = "private"
    /\ docs = [d \in DocIds |-> [exists |-> FALSE, live |-> FALSE,
                  base |-> "none", path |-> Idle.path, sha |-> "none"]]
    /\ versions = [d \in DocIds |-> [s \in PgShas |-> "none"]]
    /\ embedded = {} /\ sealed = {} /\ guards = {}
    /\ jobs = [j \in JobIds |-> [state |-> "none", base |-> "none",
                  doc |-> 0, attempts |-> 0]]
    /\ tasks = [t \in TaskIds |-> Idle]
    /\ pgpool = "up"
    /\ pgused = [commands |-> 0, faults |-> 0, lost |-> 0]

(***************************************************************************)
(* Queueing an import                                                      *)
(***************************************************************************)

\* create_postgres_import_job in one transaction, then the spawned task.
CreateImportJob(b, p) ==
    /\ Private(b)
    /\ FreshJobs # {} /\ FreshTasks # {}
    /\ LET j == Least(FreshJobs)
           t == Least(FreshTasks)
       IN /\ jobs' = [jobs EXCEPT ![j] = [state |-> "queued", base |-> b,
                                          doc |-> 0, attempts |-> 1]]
          /\ tasks' = [tasks EXCEPT ![t] = [Idle EXCEPT !.at = "spawned",
                          !.job = j, !.path = p, !.attempt = "running"]]

QueueImport(b, f) ==
    /\ pgpool = "up" /\ MayCommand
    /\ CreateImportJob(b, FilePath(f))
    /\ Spend("commands")
    /\ UNCHANGED <<base, docs, versions, embedded, sealed, guards, pgpool>>

\* A reparse imports the stored copy of the document's current content.
QueueReparse(d) ==
    /\ pgpool = "up" /\ MayCommand
    /\ docs[d].live
    /\ CreateImportJob(docs[d].base, StoredPath(docs[d].sha))
    /\ Spend("commands")
    /\ UNCHANGED <<base, docs, versions, embedded, sealed, guards, pgpool>>

(***************************************************************************)
(* The import                                                              *)
(***************************************************************************)

SetJob(j, state) == jobs' = [jobs EXCEPT ![j].state = state]

\* ingest_file copies the file as it then is: the user may have edited it
\* since it was queued.  A stored copy never changes.
Ingested(p) == IF p.origin = "file" THEN PgShas ELSE {p.name}

\* The next stage is announced once the work of the current one is done.
Advance(t) ==
    LET p == tasks[t].at IN
    /\ p \in DOMAIN NextStage
    /\ SetJob(tasks[t].job, NextStage[p])
    /\ \E s \in IF p = "uploading" THEN Ingested(tasks[t].path) ELSE {tasks[t].sha} :
          tasks' = [tasks EXCEPT ![t].at = NextStage[p], ![t].sha = s]
    /\ UNCHANGED <<base, docs, versions, embedded, sealed, guards, pgpool, pgused>>

\* record_postgres_ingestion_failure: whatever the job's state was.
RecordFailure(t, step) ==
    /\ SetJob(tasks[t].job, "failed")
    /\ tasks' = [tasks EXCEPT ![t].at = step, ![t].attempt = "failed", ![t].lost = 0]

\* n operations of the task on the storage fail, one after the other.
Loses(t, step, n) ==
    /\ pgused.lost + n <= PgMaxLost
    /\ pgused' = [pgused EXCEPT !.lost = @ + n]
    /\ tasks' = [tasks EXCEPT ![t].at = step, ![t].lost = @ + n]
    /\ UNCHANGED jobs

\* The failure is recorded, or its record fails.
Record(t, step) == (RecordFailure(t, step) /\ UNCHANGED pgused) \/ Loses(t, step, 1)

\* Ingestion, parsing or chunking fails, or the provider does: the import
\* records the failure itself and returns that error, or the record's, to its
\* caller.
WorkFails(t) ==
    /\ tasks[t].at \in {"uploading", "parsing", "chunking", "embedding"}
    /\ \/ MayFail /\ Spend("faults") /\ RecordFailure(t, "erring")
       \/ Loses(t, "erring", 1)
    /\ UNCHANGED <<base, docs, versions, embedded, sealed, guards, pgpool>>

\* A read of the settings in SQLite fails: no failure is recorded.
ReadFails(t) ==
    /\ tasks[t].at \in {"spawned", "chunking"}
    /\ Loses(t, "erring", 1)
    /\ UNCHANGED <<base, docs, versions, embedded, sealed, guards, pgpool>>

\* update_ingestion_stage_or_fail: the stage is not written, and the record of
\* that is, or fails too.
StageFails(t) ==
    /\ tasks[t].at \in DOMAIN NextStage \cup {"written"}
    /\ \/ MayFail /\ Spend("faults") /\ RecordFailure(t, "erring")
       \/ Loses(t, "erring", 2)
    /\ UNCHANGED <<base, docs, versions, embedded, sealed, guards, pgpool>>

SameRow(d, b, p, s) == /\ docs[d].exists
                       /\ docs[d].base = b /\ docs[d].path = p /\ docs[d].sha = s

\* The reads of the indexing transaction: the same content in the base, else
\* the document of the same path with or without a version of that content,
\* else a new document.
Target(t) ==
    LET b == jobs[tasks[t].job].base
        s == tasks[t].sha
        same == {d \in DocIds : docs[d].live /\ docs[d].base = b /\ docs[d].sha = s}
        named == {d \in DocIds : docs[d].live /\ docs[d].base = b
                                 /\ docs[d].path = tasks[t].path}
    IN CASE same # {} -> {[kind |-> "duplicate", doc |-> d] : d \in same}
         [] same = {} /\ named # {} ->
                {[kind |-> IF versions[d][s] # "none" THEN "reactivate" ELSE "update",
                  doc |-> d] : d \in named}
         [] OTHER -> {[kind |-> "insert", doc |-> 0]}

Locate(t) ==
    /\ tasks[t].at = "indexing"
    /\ \E x \in Target(t) :
          tasks' = [tasks EXCEPT ![t].at = "located", ![t].target = x]
    /\ UNCHANGED <<base, docs, versions, embedded, sealed, jobs, guards,
                   pgpool, pgused>>

\* Mutant: the version that was active stays active.
ActivateBeside(d, s) == versions' = [versions EXCEPT ![d][s] = "active"]

\* Every version of d is deactivated, the one of content s is active.
Activate(d, s) ==
    versions' = [versions EXCEPT ![d] =
        [x \in PgShas |-> IF x = s THEN "active"
                          ELSE IF @[x] = "active" THEN "inactive" ELSE @[x]]]

\* UPDATE source_documents ... WHERE deleted_at IS NULL: a document deleted
\* since the read keeps its row.
Rewrite(d, s) == docs' = [docs EXCEPT ![d].sha = IF docs[d].live THEN s ELSE @]

\* UNIQUE (knowledge_base_id, source_path, content_sha256) counts deleted rows.
Clashes(d, b, p, s) == \E x \in DocIds \ {d} : SameRow(x, b, p, s)

\* The job and the attempt are completed in the same transaction; a new or
\* changed document then goes on to its embedding.
FinishJob(t, d, step) ==
    /\ jobs' = [jobs EXCEPT ![tasks[t].job].state = "completed",
                            ![tasks[t].job].doc = d]
    /\ tasks' = [tasks EXCEPT ![t].at = step, ![t].attempt = "completed",
                              ![t].target.doc = d]

CommitDuplicate(t) ==
    /\ tasks[t].at = "located" /\ tasks[t].target.kind = "duplicate"
    /\ FinishJob(t, tasks[t].target.doc, "returned")
    /\ UNCHANGED <<base, docs, versions, embedded, sealed, guards, pgpool, pgused>>

CommitReactivate(t) ==
    LET d == tasks[t].target.doc IN
    /\ tasks[t].at = "located" /\ tasks[t].target.kind = "reactivate"
    /\ docs[d].live => ~Clashes(d, docs[d].base, docs[d].path, tasks[t].sha)
    /\ Rewrite(d, tasks[t].sha)
    /\ Activate(d, tasks[t].sha)
    /\ FinishJob(t, d, "returned")
    /\ UNCHANGED <<base, embedded, sealed, guards, pgpool, pgused>>

\* UNIQUE (document_id, content_sha256) on the versions refuses a second one.
CommitUpdate(t) ==
    LET d == tasks[t].target.doc IN
    /\ tasks[t].at = "located" /\ tasks[t].target.kind = "update"
    /\ docs[d].live => ~Clashes(d, docs[d].base, docs[d].path, tasks[t].sha)
    /\ versions[d][tasks[t].sha] = "none"
    /\ Rewrite(d, tasks[t].sha)
    /\ Activate(d, tasks[t].sha)
    /\ FinishJob(t, d, "written")
    /\ UNCHANGED <<base, embedded, sealed, guards, pgpool, pgused>>

CommitInsert(t) ==
    /\ tasks[t].at = "located" /\ tasks[t].target.kind = "insert"
    /\ FreshDocs # {}
    /\ LET d == Least(FreshDocs)
           b == jobs[tasks[t].job].base
       IN /\ ~Clashes(0, b, tasks[t].path, tasks[t].sha)
          /\ docs' = [docs EXCEPT ![d] = [exists |-> TRUE, live |-> TRUE, base |-> b,
                                          path |-> tasks[t].path, sha |-> tasks[t].sha]]
          /\ Activate(d, tasks[t].sha)
          /\ FinishJob(t, d, "written")
    /\ UNCHANGED <<base, embedded, sealed, guards, pgpool, pgused>>

\* A unique constraint refuses a row of the transaction.
Refused(t) ==
    LET d == tasks[t].target.doc
        s == tasks[t].sha
        kind == tasks[t].target.kind
    IN \/ /\ kind = "insert"
          /\ Clashes(0, jobs[tasks[t].job].base, tasks[t].path, s)
       \/ /\ kind \in {"update", "reactivate"}
          /\ docs[d].live /\ Clashes(d, docs[d].base, docs[d].path, s)
       \/ kind = "update" /\ versions[d][s] # "none"

\* The indexing transaction is rolled back: the dropped guard spawns its own
\* failure record and the error goes to the caller.
IndexingFails(t) ==
    /\ \/ tasks[t].at = "located" /\ Refused(t) /\ UNCHANGED pgused
       \/ tasks[t].at \in {"indexing", "located"} /\ MayFail /\ Spend("faults")
    /\ guards' = guards \cup {t}
    /\ tasks' = [tasks EXCEPT ![t].at = "erring"]
    /\ UNCHANGED <<base, docs, versions, embedded, sealed, jobs, pgpool>>

\* ImportFailureGuard::drop's spawned task, at some later moment.
GuardRecords(t) ==
    /\ t \in guards
    /\ guards' = guards \ {t}
    /\ Record(t, tasks[t].at)
    /\ UNCHANGED <<base, docs, versions, embedded, sealed, pgpool>>

\* After the commit the stage becomes "embedding", or "completed" once more
\* when no embedding profile is configured.
AfterCommit(t) ==
    /\ tasks[t].at = "written"
    /\ SetJob(tasks[t].job, IF PgEmbeds THEN "embedding" ELSE "completed")
    /\ tasks' = [tasks EXCEPT ![t].at = IF PgEmbeds THEN "embedding" ELSE "returned"]
    /\ UNCHANGED <<base, docs, versions, embedded, sealed, guards, pgpool, pgused>>

VersionOf(t) == <<tasks[t].target.doc, tasks[t].sha>>

\* embed_postgres_document_inner: the document and its base are checked before
\* the provider is called, the vectors of all chunks are written at once.
Embed(t) ==
    LET d == tasks[t].target.doc IN
    /\ tasks[t].at = "embedding"
    /\ docs[d].live /\ Private(docs[d].base)
    /\ embedded' = embedded \cup {VersionOf(t)}
    /\ tasks' = [tasks EXCEPT ![t].at = "embedded"]
    /\ UNCHANGED <<base, docs, versions, sealed, jobs, guards, pgpool, pgused>>

EmbedRefused(t) ==
    LET d == tasks[t].target.doc IN
    /\ tasks[t].at = "embedding"
    /\ ~(docs[d].live /\ Private(docs[d].base))
    /\ Record(t, "erring")
    /\ UNCHANGED <<base, docs, versions, embedded, sealed, guards, pgpool>>

\* The manifest is compared with what was indexed, sealed, and the stage is
\* "completed".
SealManifest(t) ==
    /\ tasks[t].at = "embedded"
    /\ VersionOf(t) \in embedded
    /\ sealed' = sealed \cup {VersionOf(t)}
    /\ SetJob(tasks[t].job, "completed")
    /\ tasks' = [tasks EXCEPT ![t].at = "returned"]
    /\ UNCHANGED <<base, docs, versions, embedded, guards, pgpool, pgused>>

\* The manifest cannot be read or sealed, which leaves no record, or the stage
\* cannot be written after it.
SealFails(t) ==
    /\ tasks[t].at = "embedded"
    /\ \/ Loses(t, "erring", 1) /\ UNCHANGED sealed
       \/ /\ \/ MayFail /\ Spend("faults") /\ RecordFailure(t, "erring")
             \/ Loses(t, "erring", 2)
          /\ sealed' = sealed \cup {VersionOf(t)}
    /\ UNCHANGED <<base, docs, versions, embedded, guards, pgpool>>

\* The import has returned: a retry writes the outcome, the first import only
\* its error.  Nobody sees it when that fails.
CloseTask(t) ==
    /\ \/ /\ tasks[t].at = "erring"
          /\ Record(t, "done")
       \/ /\ tasks[t].at = "returned" /\ tasks[t].retry
          /\ \/ /\ SetJob(tasks[t].job, "completed")
                /\ tasks' = [tasks EXCEPT ![t].at = "done", ![t].attempt = "completed"]
                /\ UNCHANGED pgused
             \/ Loses(t, "done", 1)
       \/ /\ tasks[t].at = "returned" /\ ~tasks[t].retry
          /\ tasks' = [tasks EXCEPT ![t].at = "done"]
          /\ UNCHANGED <<jobs, pgused>>
    /\ UNCHANGED <<base, docs, versions, embedded, sealed, guards, pgpool>>

(***************************************************************************)
(* Jobs                                                                    *)
(***************************************************************************)

\* The transaction of a retry, whatever state the job is in: the third attempt
\* is quarantined, an earlier one waits to be spawned.
RetryJob(j) ==
    /\ pgpool = "up" /\ MayCommand /\ Spend("commands")
    /\ jobs[j].state # "none" /\ Private(jobs[j].base)
    /\ FreshTasks # {}
    /\ LET t == Least(FreshTasks)
           n == jobs[j].attempts + 1
           d == jobs[j].doc
           quarantined == n >= 3
           known == d # 0 /\ docs[d].live
       IN /\ jobs' = [jobs EXCEPT ![j].attempts = n,
                         ![j].state = IF quarantined THEN "quarantined" ELSE "retrying"]
          /\ tasks' = [tasks EXCEPT ![t] = [Idle EXCEPT !.job = j, !.retry = TRUE,
                         !.at = IF quarantined THEN "done" ELSE "waiting",
                         !.path = IF known THEN docs[d].path ELSE @,
                         !.attempt = jobs'[j].state]]
    /\ UNCHANGED <<base, docs, versions, embedded, sealed, guards, pgpool>>

\* After the commit the pool is taken again: without one the command fails and
\* leaves the job, with one the import is spawned, or the job fails because it
\* never got a document; when that cannot be written the command fails.
SpawnRetry(t) ==
    /\ tasks[t].at = "waiting"
    /\ \/ /\ pgpool = "none"
          /\ tasks' = [tasks EXCEPT ![t].at = "refused"]
          /\ UNCHANGED <<jobs, pgused>>
       \/ /\ pgpool = "up" /\ tasks[t].path.origin # "none"
          /\ tasks' = [tasks EXCEPT ![t].at = "spawned"]
          /\ UNCHANGED <<jobs, pgused>>
       \/ /\ pgpool = "up" /\ tasks[t].path.origin = "none"
          /\ (RecordFailure(t, "done") /\ UNCHANGED pgused) \/ Loses(t, "refused", 1)
    /\ UNCHANGED <<base, docs, versions, embedded, sealed, guards, pgpool>>

\* Cancelling touches the job's row only.
CancelJob(j) ==
    /\ pgpool = "up" /\ MayCommand /\ Spend("commands")
    /\ jobs[j].state \in ActiveStates /\ Private(jobs[j].base)
    /\ SetJob(j, "cancelled")
    /\ UNCHANGED <<base, docs, versions, embedded, sealed, tasks, guards, pgpool>>

(***************************************************************************)
(* Documents and knowledge bases                                           *)
(***************************************************************************)

DeleteDocument(d) ==
    /\ pgpool = "up" /\ MayCommand /\ Spend("commands")
    /\ docs[d].live /\ Private(docs[d].base)
    /\ docs' = [docs EXCEPT ![d].live = FALSE]
    /\ UNCHANGED <<base, versions, embedded, sealed, jobs, tasks, guards, pgpool>>

\* The unique constraint decides for moved rows too.
MoveAll(S, b) ==
    /\ \A d \in S : \A x \in DocIds :
          x # d /\ docs[x].exists /\ docs[x].path = docs[d].path
                /\ docs[x].sha = docs[d].sha =>
              (x \notin S /\ docs[x].base # b)
    /\ docs' = [d \in DocIds |-> IF d \in S THEN [docs[d] EXCEPT !.base = b] ELSE docs[d]]

MoveDocument(d, b) ==
    /\ pgpool = "up" /\ MayCommand /\ Spend("commands")
    /\ Private(b) /\ docs[d].live /\ Private(docs[d].base)
    /\ MoveAll({d}, b)
    /\ UNCHANGED <<base, versions, embedded, sealed, jobs, tasks, guards, pgpool>>

\* Into the target, or, together with the target, into a new base; the merged
\* bases stay.
MergeBases(source, target, dest) ==
    /\ pgpool = "up" /\ MayCommand /\ Spend("commands")
    /\ source # target /\ Private(source) /\ Private(target)
    /\ dest = target \/ base[dest] = "none"
    /\ base' = [base EXCEPT ![dest] = "private"]
    /\ LET from == IF dest = target THEN {source} ELSE {source, target}
       IN MoveAll({d \in DocIds : docs[d].live /\ docs[d].base \in from}, dest)
    /\ UNCHANGED <<versions, embedded, sealed, jobs, tasks, guards, pgpool>>

CreateBase(b) ==
    /\ pgpool = "up" /\ MayCommand /\ Spend("commands")
    /\ base[b] = "none"
    /\ base' = [base EXCEPT ![b] = "private"]
    /\ UNCHANGED <<docs, versions, embedded, sealed, jobs, tasks, guards, pgpool>>

\* Refused while a job of the base is active; its documents go with it.
DeleteBase(b) ==
    /\ pgpool = "up" /\ MayCommand /\ Spend("commands")
    /\ Private(b)
    /\ \A j \in JobIds : jobs[j].base = b => jobs[j].state \notin ActiveStates
    /\ base' = [base EXCEPT ![b] = "deleted"]
    /\ docs' = [d \in DocIds |-> IF docs[d].base = b
                                 THEN [docs[d] EXCEPT !.live = FALSE] ELSE docs[d]]
    /\ UNCHANGED <<versions, embedded, sealed, jobs, tasks, guards, pgpool>>

(***************************************************************************)
(* Connection and restart                                                  *)
(***************************************************************************)

Disconnect ==
    /\ pgpool = "up" /\ MayCommand /\ Spend("commands")
    /\ pgpool' = "none"
    /\ UNCHANGED <<base, docs, versions, embedded, sealed, jobs, tasks, guards>>

\* The process ends with every task it runs.
Exit ==
    /\ MayCommand /\ Spend("commands")
    /\ pgpool' = "none" /\ guards' = {}
    /\ tasks' = [t \in TaskIds |-> IF tasks[t].at = "none" THEN tasks[t]
                                   ELSE [tasks[t] EXCEPT !.at = "done"]]
    /\ UNCHANGED <<base, docs, versions, embedded, sealed, jobs>>

\* Mutant: interrupted jobs are not looked for.
InitializeKeepsJobs ==
    /\ MayCommand /\ Spend("commands")
    /\ pgpool' = "up"
    /\ UNCHANGED <<base, docs, versions, embedded, sealed, jobs, tasks, guards>>

\* prepare_pool, at start-up or whenever the user initializes the connection:
\* every active job is failed and its open attempts are closed, whether or not
\* a task of this process is working on it: what was lost before is made good.
Initialize ==
    /\ MayCommand /\ Spend("commands")
    /\ pgpool' = "up"
    /\ jobs' = [j \in JobIds |-> IF jobs[j].state \in ActiveStates
                                 THEN [jobs[j] EXCEPT !.state = "failed"] ELSE jobs[j]]
    /\ tasks' = [t \in TaskIds |->
          IF /\ tasks[t].job # 0 /\ tasks[t].attempt \in {"running", "retrying"}
             /\ jobs[tasks[t].job].state \in ActiveStates
          THEN [tasks[t] EXCEPT !.attempt = "failed", !.lost = 0]
          ELSE [tasks[t] EXCEPT !.lost = 0]]
    /\ UNCHANGED <<base, docs, versions, embedded, sealed, guards>>

(***************************************************************************)

PgTaskStep ==
    \E t \in TaskIds :
        \/ Advance(t) \/ WorkFails(t) \/ ReadFails(t) \/ StageFails(t) \/ Locate(t)
        \/ CommitDuplicate(t) \/ CommitReactivate(t) \/ CommitUpdate(t) \/ CommitInsert(t)
        \/ IndexingFails(t) \/ GuardRecords(t) \/ AfterCommit(t)
        \/ Embed(t) \/ EmbedRefused(t) \/ SealManifest(t) \/ SealFails(t)
        \/ CloseTask(t) \/ SpawnRetry(t)

PgCommandStep ==
    \/ \E b \in PgBases, f \in PgFiles : QueueImport(b, f)
    \/ \E d \in DocIds : QueueReparse(d) \/ DeleteDocument(d)
    \/ \E d \in DocIds, b \in PgBases : MoveDocument(d, b)
    \/ \E j \in JobIds : RetryJob(j) \/ CancelJob(j)
    \/ \E s, t, d \in PgBases : MergeBases(s, t, d)
    \/ \E b \in PgBases : CreateBase(b) \/ DeleteBase(b)
    \/ Disconnect \/ Exit \/ Initialize

PgNext == PgTaskStep \/ PgCommandStep
PgSpec == PgInit /\ [][PgNext]_pgVars

(***************************************************************************)
(* Properties                                                              *)
(***************************************************************************)

\* Whatever imports, retries and reparses of one path interleave, a visible
\* document has exactly one active version and it is the one of the content
\* the document's row names: the lookups of two indexing transactions may be
\* stale when they write.
ActiveVersionIsCurrent ==
    \A d \in DocIds : docs[d].live =>
        {s \in PgShas : versions[d][s] = "active"} = {docs[d].sha}

\* Who left the job to itself: two operations of the import failed and no record
\* of it was written since, or the retry command told the user that it failed.
GaveUp(t) == tasks[t].lost >= 2 \/ tasks[t].at = "refused"

\* While a pool is held no job waits for nobody: a job shown as active has a
\* task, a retry about to be spawned or a guard's record still to come, through
\* cancellations, retries of running jobs, reconnections and restarts.  One
\* failed write never breaks it: it takes a second one, after which nobody
\* looks at the job until the connection is prepared again.
ActiveJobIsAttended ==
    pgpool = "up" =>
        \A j \in JobIds : jobs[j].state \in ActiveStates =>
            \E t \in TaskIds : tasks[t].job = j /\ (InFlight(t) \/ GaveUp(t))

\* What the comment on ImportFailureGuard says: no storage or transaction error
\* after the task has entered indexing leaves its job stuck in that state.
GuardUnsticks ==
    pgpool = "up" =>
        \A j \in JobIds : jobs[j].state = "indexing" =>
            \E t \in TaskIds : tasks[t].job = j /\ InFlight(t)

=============================================================================
