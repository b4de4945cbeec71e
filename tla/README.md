# A TLA+ verification project for Suna (luckysus/bloomery)

Suna is a Tauri desktop agent platform: a Rust core (`src/src-tauri/src`), a
React frontend, a Python compute worker, one SQLite database, an optional
PostgreSQL knowledge base, the system's secret store and a directory of files.
The core runs several things at once against them: a background task scheduler
with worker threads, a pump that turns schedules into Agent runs, Agent loops
with their tools and children, the user's commands, recovery of what an earlier
process left behind, and backup and restore. Most of them read a row in one
transaction and write it in a later one, or write to two stores that share no
transaction. These modules model that concurrency and those failures, TLC checks
them on small instances, and TLAPS proves central safety properties for every
instance.

`PROJECT.json` holds the machine-readable part: components, runs, mutants, the
map from definitions to source lines, findings, hazards and theorems.

## Inventory

| Component | State | Operations | What is hard | Correct when |
|---|---|---|---|---|
| Task repository (`tasks/repository.rs`, `model.rs`) | rows of `background_tasks`: state, attempt, cancel flag, next run | create, checkpoint, transition, schedule_retry, request_running_cancellation, retry_manually, claim_next, activate | optimistic updates from stale reads; raw UPDATEs beside the transition table | rows move only as the life cycle allows; attempts fence stale workers |
| Task scheduler (`tasks/scheduler.rs`), task commands | thread position, active entries, fences, control flags | recover, tick (reap, cancel, claim), interrupt, shutdown; cancel, retry | worker results racing user commands, shutdown, crash, faults | running rows are owned, cancellation sticks, shutdown ends |
| Scheduled runs (`tasks/cron*.rs`, `app/agent_automation.rs`) | `cron_jobs`, `cron_outbox`, in-flight set | save, delete, enable, tick, pending, reserve, dispatch, acknowledge | launch overlapping withdrawal, user chat, crash, restore | a slot runs at most once, never after withdrawal, and is acknowledged in the end |
| Agent loop, recovery (`agent/loop_run.rs`, `agent/runtime`) | run row, event log, checkpoint, loop positions, lease | rounds, checkpoints, permissions, tool groups, terminal writes, resume, fail, cancel | a crash or a second recovery between a tool's execution and its event | no tool with an effect runs twice; no result is lost |
| Context budget (`agent/loop_helpers.rs`, `agent/context`) | message history, request | render, append results, remind, cut, retry smaller | cutting a history made of call and result blocks | requests fit and are well formed |
| Child turns, mailbox (`agent/runtime/subagents.rs`, `tasks/mailbox.rs`) | child rows, live children, inbox and processing files | create, start, settle, cancel, sweep; claim, ack, release, recover | a parent that gives up while the child works; failing writes; restart | ended children stay ended; mail has one reader |
| Conversations (`agent/session`, `storage/repositories/conversations`) | messages, runs, summaries, drafts | append, edit, truncate, fork, delete, summarise | a summary is made while its messages are edited away | the context speaks only of what is there |
| Memories (`storage/repositories/memories`) | rows: status, switch, archive mark | save, remember, capture, confirm, reject, switch, archive, restore | long sequences of commands over independent marks | the switch says what the model gets |
| Chat streams (`providers/openai.rs`, `anthropic.rs`) | parser, text shown, retries | connect, chunk, finish, retry, cancel | a connection that ends anywhere | a short answer is never taken for a whole one |
| Provider profiles, secrets | rows with a generation, keyring entries, defaults | save, rotate, clear, delete | two stores without a transaction | the secret in use is the one meant |
| MCP servers, SSE transport (`app/mcp_*`, `mcp/`) | row, credentials, connection; stream, parser, endpoint | save, delete, restart, check; connect, parse, reconnect, close | overlapping commands on stale reads; breaks inside a message | a failed command leaves the store; messages arrive once, in order |
| MinerU pipeline (`rag/tasks`), document activation | checkpoint phase, chunks, vectors, index rows, remote batch | submit, poll, parse, chunk, embed, index, activate | crashes and stale handlers between remote and local writes | one submission; the checkpoint is never ahead |
| Local knowledge (`storage/repositories/knowledge`, `rag/retrieve`) | bases, documents, versions, full text rows | import, merge, delete, query | a query is many statements | evidence is current |
| Vector index files (`rag/index`) | generations, CURRENT, rebuilds, readers | rebuild, clean, rename, activate, open, fall back | rebuilds that remove each other's directories | a graph matches its snapshot |
| PostgreSQL knowledge (`knowledge_db.rs`) | bases, documents, versions, jobs, attempts, wiki pages, connection | import, retry, cancel, reparse, move, merge, delete, edit, configure | READ COMMITTED sessions; detached tasks; four places for one connection | one active version, no abandoned job, no lost text |
| Retrieval (`app/knowledge_commands`, `steel_agent_gateway.rs`) | preferences, profiles, vectors, one search | plan, embed, search, rerank, audit | every step may degrade; the stores change between awaits | a strict policy is followed |
| Compute worker, model versions (`compute/`, `app/compute_commands`) | tasks, worker process, artifacts, versions | start, claim, request, finish, derive, register, activate | a handler that outlives its claim | what was derived stays valid |
| Steel datasets (`app/steel_commands`) | file of the user, row, mapping | preview, save, map, activate, clean, use | the file changes at any time | a ready dataset is usable |
| Domain packages (`domains/`) | directories, rows | install, activate, remove, bundled start | a crash between file and row | the active version has its files |
| Backup, restore (`storage/backup.rs`, `db.rs`) | archive, staged and live files | create, stage, install, roll back | moves one after the other beside workers that outlive the shutdown | all or nothing, in each place no worker wrote to |
| Storage and migrations, steel formulas, work stealing, queries, diagnostics, frontend | none of their own | SQL access, formulas, display | I/O and data processing | not modelled |

Interactions: the scheduler's thread, its workers and the user's commands share
only the task rows (and one control lock); the MinerU and compute handlers are
workers of that scheduler. The pump shares `agent_runs` and `RuntimeHost.active`
with chats and recovery, and `cron_outbox` with the schedule commands and
`prepare_chat`. Agent loops share the run row, the event log and the mailbox
with commands, children and background tasks. A restore pauses the pump, stops
the scheduler's thread, replaces the files and runs `db_init` again.

## Modules

| Module | Models | Uses |
|---|---|---|
| `TaskRepository` | `background_tasks` and each function that writes them, as guard plus effect | |
| `TaskLifecycle` | abstract: appear, claim, requeue, transition | `TaskRepository`'s table |
| `TaskScheduler` | scheduler thread, workers, user commands, shutdown, restart, crash, fault | extends `TaskRepository`, instantiates `TaskLifecycle` |
| `TaskRestore` | `TaskScheduler` composed with backup and restore | extends `TaskScheduler` |
| `CronOutbox` | schedules, outbox, pump, dispatch, chats, turns, recovery | |
| `MinerUPipeline` | the mineru_parse handler, one instance per attempt | extends `TaskRepository`, instantiates `DocumentPromise` |
| `DocumentPromise` | abstract: one submission, publication with completion | |
| `AgentRun` | the Agent loop, its event log, permissions, background results, recovery | |
| `ChildTurns` | turns of the host, mailbox, delegated children | |
| `Loops` | two loops over a sequence: the chosen elements, the sum | |
| `ContextBudget` | rendering and cutting the message list | extends `Loops` |
| `ProviderStream` | both chat clients and the retry around them | extends `Loops` |
| `Conversations`, `Memories` | what an answer's context is made from | |
| `ProviderProfiles` | profiles, defaults, credentials by generation | |
| `McpServers`, `McpStream` | a configured server; the legacy SSE transport | |
| `PgIngestion`, `KnowledgeWiki`, `KnowledgeConnection`, `KnowledgeSearch` | `knowledge_db.rs` and the commands and tools over it | |
| `LocalKnowledge`, `LocalIndex` | SQLite knowledge bases and queries; vector index files | |
| `SteelDatasets`, `SteelCompute` | datasets; compute tasks, worker process, model versions | |
| `DomainPackages`, `BackupRestore` | packages; archive and restore | `BackupRestore` extends `DomainPackages` |
| `MC*` | instances for TLC | |
| `TaskSchedulerProofs` | proofs about `TaskScheduler`: types; ownership, fencing, refinement | |
| `CronOutboxProofs`, `MinerUPipelineProofs`, `AgentRunProofs` | proofs about the module of the same name | |
| `ServicesProofs` | proofs about `Memories`, `ChildTurns`, `Conversations`, `McpServers`, `McpStream`, `ProviderProfiles`, a section each | |
| `ModelCallProofs` | proofs about loops, `ProviderStream` and `ContextBudget` | |
| `DataProofs` | proofs about `LocalIndex`, `SteelDatasets`, `SteelCompute`, `KnowledgeWiki`, `KnowledgeSearch`, `BackupRestore` with `DomainPackages` | |
| `KnowledgeProofs` | proofs about `KnowledgeConnection`, `PgIngestion`, `LocalKnowledge` | |

**TaskScheduler.** A claim `<<t, a>>` is the a-th claim of task t; its thread,
its channel and its `ActiveTask` entry are indexed by it. `pc` says where the
scheduler's thread stands. Whatever the code decides from a read and writes
later stands in `plan` (scheduler) or `cmd` (user) in between, so that every
other actor can step in. `wanted` is a history variable: a cancellation was
accepted and no manual retry followed. A storage fault ends a tick wherever it
stands; a crash keeps only the rows.

**CronOutbox.** An outbox row is named by its job and slot, the table's UNIQUE
key; the run reserved for it has the row's id. An executor of a run is a chat
(a user's or a dispatched one) or a resumption, and `exec` says how far it got.
`pump` says where `db_init` and the pass of the pump stand; from `ticked` to
`reserve` the pump holds the in-flight lock, which `DispatchGuard::drop` needs.
The clock is a reading chosen afresh by every operation, so it may be set back.

**MinerUPipeline.** One document version and its task row. Each attempt has a
handler with its own position and its own copy of the checkpoint; handlers of
lost attempts go on until a fenced write stops them. The remote service is
external: it creates a batch although its answer may be lost. The refinement
mapping counts created batches, takes the active version for `published`, and
the row's state for `outcome`.

**AgentRun.** The persisted part is the run's state, the checkpointed message
list and the event log; the volatile part is up to one loop per start or
recovery, the permission being waited for and the executor's handles. Calls are
numbered in the order the model makes them, so a batch is a set whose smallest
number comes first. A tool group is executed call by call; the group's results
are saved after it. A message list is the set of calls and results it shows.

**ChildTurns.** A child's row is overwritten by the events of its loop without
a look at its state, while the cancel command and the sweep at start end rows
themselves; `live` children and the parent's wait are separate. A mailbox
message is a file in `inbox` or `processing`, moved by renames.

**ContextBudget.** Sizes in tokens, a text by its size and the cost of its
characters. The loops of `budget_chat_messages`, `compact_tool_block` and
`budget_context` are functions of the rounds done: the body of each loop is an
operator on its variables (`TakeBlock`, `CompactMessage`, `include_item`), and an
early return is a component of them. `cbMade` says how the request at hand was
made: by the budget, for the retry after a context that was too long, or by
`repair_tool_calls` (`RepairCalls`), which appends what was wrong to the whole
history and sends it without the budget. `RequestIsWellFormed` therefore asks a
repair for whole groups of calls and results, but not to fit.

**ProviderStream.** A reply is a sequence of events that reaches the parser in
chunks cut anywhere; a delta is a numbered token. A repair of the tool calls is
a call of its own that streams to the same message (`RepairCall`). Of a repair
that succeeds only the tool calls are used, so what it showed is not kept; after
one that fails the answer takes its text (`RepairReturns`). `ShownIsKept` names
that one exception.

**Conversations.** A message's text is its id and the number of its edits, a
summary's text the sequence of texts it was made from; the answer and the
summary are awaited between two transactions.

**ProviderProfiles, McpServers, KnowledgeConnection.** Rows on one side, the
secret store on the other, every call to it a step that may fail. A secret is
named by the command that wrote it, so a mix-up shows.

**PgIngestion.** An import is split where another session can commit: stage
updates, the reads and the commit of the indexing transaction, the embedding
call, the seal, the failure records of the guard. Each of these may fail, the
records of a failure too, whose errors the code drops; `lost` counts the failures
of a task since its last record. `ActiveJobIsAttended` says that it takes two of
them to leave a job active with nobody at work. `KnowledgeWiki` has the same
kind of split for editors: the revision number is read before the transaction
whose UNIQUE constraints decide. `KnowledgeSearch` splits a search at its
awaits while preferences, profiles and vectors change. Whoever reads the
preferences may fail to, and then goes on with the defaults (`Readings`);
`misread` remembers it, since `StrictPolicyHolds` excepts such a search.

**LocalIndex.** `remove_dir_all` is three kinds of step (open, unlink through
the handle, remove by path), because a rename may come in between.

**SteelCompute, SteelDatasets.** A model artifact is named by the task and the
attempt that computed it. A source is hashed again by each command; the Agent's
tools read a row and its columns in two statements, the window's commands hold
the mutex.

**DomainPackages.** Directories on one side, rows on the other, every file
operation and every transaction a step that may fail. `misled` holds the versions
whose activation was committed and then reported as failed, because the row could
not be read back: the rollback removes the directory of such a version although
it is the active one, and `ActiveDomainHasFiles` excepts it.

**BackupRestore.** Staging, the moves in their order and the rollback that
drops its errors, a crash between any two, and the domain rows the restored
database must match on disk. The shutdown before a restore does not wait for the
workers, so one that is storing a document goes on between the moves: its files
may recreate a directory that was moved aside, which makes the installation of
the restored one fail, and its connection may create a database or a log where
there was none. `touched` holds the places it wrote to, and `RestoreIsWhole`
speaks of the others. The journal is the set of moves that are done;
`RollbackOrder` and `Due` say which one the rollback takes back next. Two faults let a rollback meet two errors, which is more than one
step of it can hide: `RestoreIsWhole` therefore promises nothing about the log
once an error of the rollback was dropped.

**LocalKnowledge.** A merge copies the active versions of the source bases
under new ids that keep their order (`copy_document`, `copy_version_content`),
and a query reads in several statements between which any of this may happen.

## Runs

| Run | Instance | Shows |
|---|---|---|
| `one_worker` | a resumable task, a task of an unknown kind, one slot, two claims, one fault | `RunningIsOwned`, `PlannedWritesFresh`, `CancelNeverRerun` |
| `liveness` | one task, two claims, one fault | `ShutdownCompletes`, `RunningSettles`, `DueTaskClaimed`, `LostClaimStaysLost`, `ImplementsLifecycle` |
| `cron_slots` | one recurring schedule, two slots, one crash, recovery | `WithdrawnNeverRuns`, `OneScheduledRun`, `DeliveredIsCompleted` |
| `cron_chat` | one slot beside one user message, one fault, recovery | `ScheduledRunAttended`, `EndsAreFinal` |
| `cron_liveness` | one slot beside one user message | `EventSettles` |
| `knowledge` | `PgIngestion`, `KnowledgeConnection`, `MinerUPipeline`, `LocalKnowledge` | `ActiveVersionIsCurrent`, `ActiveJobIsAttended`, `StoredPairFits`, `CheckpointNeverAhead`, `KeepsPromise`, `EvidenceIsCurrent` |
| `services` | `AgentRun`, `ChildTurns`, `ContextBudget`, `ProviderStream`, `Conversations`, `Memories`, `ProviderProfiles`, `McpServers`, `McpStream` | `ToolCallRunsOnce`, `ResultsReachTheModel`, `MailHasOneReader`, `EndedChildStaysEnded`, `RequestIsWellFormed`, `CompleteOrFailed`, `ShownIsKept`, `SummaryIsAnchored`, `SwitchTellsTheTruth`, `CredentialIsIntended`, `FailedCommandLeavesStore`, `MessagesInOrder` |
| `data` | `SteelDatasets`, `SteelCompute`, `LocalIndex`, `KnowledgeSearch`, `KnowledgeWiki`, `BackupRestore` with `DomainPackages` | `ReadyIsUsable`, `DerivedFromFinal`, `OpenedGraphMatches`, `RebuildServes`, `StrictPolicyHolds`, `PageShowsLatestRevision`, `ActiveDomainHasFiles`, `RestoreIsWhole` |

The modules of each of `knowledge`, `services` and `data` share no state, and a property of one speaks
of its variables only. One run therefore checks them side by side: `part` is
chosen in the initial state, that module moves, and the others rest in one of
their initial states. The reachable states are the disjoint union of the
modules' own, so nothing is lost against one run per module.

Each property's comment in its module says what it means, and `mutants` in
`PROJECT.json` names for each one a plausible change of the code that breaks it.

**Bounds.** Stale writers need a second claim of the same task. `one_worker`
puts an unknown kind beside a known one because `fail_unknown` reaps in the
middle of claiming. Two slots of one conversation are what the pump has to keep
apart; every check of the pump is pairwise, so a third adds only repetition. All
schedules match every minute, so that `MaxTime` slots cover every order of ticks
and edits. Archiving is exercised in `cron_liveness`; `Archivable = {}` in the
larger two halves their state space, and the proofs cover it.

In `knowledge`, three bases let a document move or merge out of a base while a
third is a bystander; two documents, two contents and three tasks give two jobs
that overlap or one job with two retries, and `PgBound` excludes only both at
once. With the quarantine at the third attempt that also keeps two overlapping
updates of one document that existed before out of the run; the theorem about
`ActiveVersionIsCurrent` covers them. `PgMaxLost` lets two operations of one job
fail, the fewest that leave it unattended. Bases and contents are interchangeable and symmetric (nothing chooses
among them; the other model values keep their identity). MinerU has three
claims, of which the second may overlap a first that lost its row, two chunks
so that a batch may be half stored, and one fault plus two commands. The
connection has three configurations, so a backup can be older than the pair it
is put beside.

In `services`, two tool calls make one group that a crash can split; one crash
and two recoveries give a resumed loop beside the original's remains; two runs
compete for one mail; a window of 12 tokens against texts that nearly fill it
forces every path of the cutting; a reply of two deltas (`PsMaxDeltas`) can be cut
between them and one repair (`PsMaxRepairs`) has a call before it; four stream messages with three retries
overrun the retry counter and let it be reset; two overlapping MCP commands
with two credentials reach a half-written set. In `data`, two rebuilds with
`IxBound` (no fault once rebuilds overlap, since a fault only removes one of
them), two editors with two revisions, two compute tasks so that one derives
from the other, and one fault in each, which splits each sequence of writes
at every place. Two rebuilds never overlap where `RebuildServes` speaks (it is about
one that works alone), and a crashed build under a generation that is served needs
a third generation; the theorem has any number. Backups and packages have two
versions, one document and two faults: an error and an error of its rollback. `TakeTurns` keeps the commands of packages and
the worker's document apart in time, and a document away from a second version of
the package: they have no row and no directory in common, and only backups and
restores, which both still meet, read both. Deadlock is not checked in these
three runs: a module whose commands and faults are used up really stops.

**Fairness.** `TaskScheduler!FairSpec`: the thread keeps taking steps (its wait
has a timeout of one poll interval), handlers end (provider requests, queries
and compute calls have deadlines), a command that read its row writes it, time
passes. Nothing forces a start, a fault or a shutdown. `CronOutbox!FairSpec`:
the pump comes round every second (strong fairness, because a restore may
switch it off and on), an app that is down is started again, each chat and
executor ends, and a dispatch task gets the in-flight lock, which the pump
releases while it sleeps (strong fairness, because the lock comes and goes).
The other modules are checked for safety only.

### What the code does differently from what is said of it

Each of these runs states one sentence of a document or a test and is violated:

* `cancel_lost`: a cancellation accepted between `finish`'s read and its write
  of `waiting_external` is never carried out. Documents promise cancellable
  tasks, and `schedule_retry` handles the same race.
* `restored_token`: a restore brings back rows with attempt numbers that live
  workers hold, and reissues others, so a worker fenced by the shutdown owns its
  row again.
* `latest_result`: the to-do reminder is pushed behind the newest tool results,
  and `budget_chat_messages` then drops these as a whole instead of shortening
  them (`agent/loop_helpers.rs:463`, against the test at line 782).
* `stuck_job`: an import whose commit fails, and whose two records of that failure
  fail too, leaves its job in the state indexing with nobody at work on it
  (`knowledge_db.rs:994` and `1778` drop the errors), against the comment at line
  1744 that the guard prevents it.

Other deviations seen while modelling are kept as hazards with a note, or as
conditions in the properties they concern: an activation that is committed and
then reported as failed loses its directory (`app/bundled_domain.rs:246`); a
repair of tool calls is sent without the budget, and its text is dropped
(`agent/runtime/loop/generation.rs:204`); a worker writes on during a restore
(`tasks/scheduler.rs:738`); preferences that cannot be read or parsed count as
the policy fallback (`app/steel_agent_gateway.rs:91`, `chatController.ts:92` and
`478`), so that a search answers degraded where the settings page
(`KnowledgeRetrievalSettings.tsx:240`) promises the error;
`search_postgres_knowledge` never binds its source filter
(`knowledge_db.rs:1891`), which `docs/IMPLEMENTATION_STATUS_DEV_DOC.md:91` lists
as done, and the hybrid search binds it where its statement casts a number
(lines 2533 and 2534), so that it fails; an error between `begin_turn` and
the loop leaves the turn registered (`app/desktop_agent_runtime.rs:707`); with
`allow_recovery` off, a crash leaves a slot waiting for ever
(`agent/desktop/service.rs:269`); a transient error of a tick stops the
scheduler (`tasks/scheduler.rs:456`); a document may be inserted into a base
deleted meanwhile (`knowledge_db.rs:1356`); a crash inside a tool group resumes
from a context that does not show the executed calls (`agent/loop_run.rs:968`).

## Refinement

`TaskScheduler` implements `TaskLifecycle` (`ImplementsLifecycle`: checked in
`liveness`, proved in general). `MinerUPipeline` implements `DocumentPromise`
(`KeepsPromise`: checked in `knowledge`, proved in general): through lost
answers, crashes, cancellations, manual retries and handlers that outlive their
claim a document is submitted at most once and published with the completion of
its task.

## Proofs

Every safety property of the passing runs, invariant, action property or
refinement, is also a theorem, for all values of the constants. Assumed are only
the named ASSUMEs of the modules, which TLC evaluates in every run. They say
that bounds are natural numbers (`MaxClaimsAssumption`, `PgBoundsAssumption`,
`StreamAssumption`, `SummaryAssumption`, `WindowAssumption`...), that a text has a
size and that its characters cost something (`TextsAssumption`), that identifiers drawn from
different sources differ (`TurnIdsAssumption`, `UserRunsAssumption`,
`McpCmdsAssumption`), that subsets are subsets (`AgentToolsAssumption`,
`CronAssumption`) or that a distinguished element belongs to its set
(`MuTaskAssumption`, `BundledAssumption`).

Each proof has the same shape: a conjunction of named facts that implies the
property, a lemma for the initial states, a lemma for each action, and the
temporal step. The properties are seldom inductive, so the named facts are where
the argument lies.

**TaskScheduler** (`TaskSchedulerProofs`)

* `RefinesLifecycle`: every step maps to a step of `TaskLifecycle` or a stutter;
  `CompletedStays` follows from the guards alone.
* `OwnershipInvariant`: `RunningIsOwned` needs that a held claim was issued
  (`TokensIssued`), that recovery's first pass has listed every running row
  (`RecoveryCovers`), that reaping drops only what it finished (`ReapCovers`),
  where plans come from (`PlanSources`) and that they are still fresh
  (`PlannedWritesFresh`). `LostClaimsStayLost` follows: attempts only grow, and
  a row regains `running` only with a new attempt.
* `CancelInvariant` adds what planned writes may target (`PlanTargets`) and that
  an accepted cancellation is in the row (`CancelRecorded`);
  `CancelledNeverRerun` follows because a claim needs the flag to be clear.
* `WorkersLimited`, by counting entries and remaining slots.

**CronOutbox** (`CronOutboxProofs`). An id is reserved before its event is
launched (`ReservedFirst`), so the check in `prepare_chat` sees every withdrawal.
From the listing of pending rows on, `busy_sessions` covers every launched event
that will still create its run (`PumpCovers`), so a conversation has at most one
claim, a launched event or an active run (`OneClaim`). Most actions are quiet for
this invariant (`QuietStep`); the six that create something have a lemma each.
`WithdrawnSlotsNeverRun`, `DeliveredRunsCompleted`, `OneScheduledRunAtATime` and
`EndsStayFinal` follow. `ScheduledRunsAreAttended` counts attempts against
faults: a chat that is to be marked failed makes two attempts to end its run
(`mark_agent_run_failed`, then `dispatch_event`), and so does a resumption. An
attempt is lost only to a storage fault or to a resumption in its turn, and then
the resumption answers for the run. `Tended` says who that is: a chat or a
resumption with both attempts left, or one with a single attempt when the one
fault has been met already. `Orderly` adds that an executor that has finished a
run has ended it, and that nothing resumes a run that has not begun.

**MinerUPipeline** (`MinerUPipelineProofs`). A checkpoint is written by a handler
from its own copy, so the induction is about the copies: what a handler believes
at each place of the loop is backed by the rows and the remote service
(`Backed`, `Place`), and the handler that holds the row's attempt agrees with the
row (`InSync`). Handlers of lost attempts may disagree with the row, but what
they rely on only grows (`Grows`). `CheckpointIsBacked` is one conjunct.
For the refinement, `OneCreator` says that at most one attempt ever creates a
batch: the row is at `submitting` from before the request on and stays at least
there, so every step is quiet, submits or publishes (`PipelineKeepsPromise`).

**AgentRun** (`AgentRunProofs`). At most one loop is busy with the run
(`OneBusy`), and the row is where that loop believes it to be or has ended
(`BusyOk`). A call that may not run again, has run and has no event yet is hot:
hot calls exist only while the row is executing tools or has ended, and a busy
loop has all of them in the group it is recording, so no recovery resumes beside
one (`CallRunsOnce`). `ResultsOk` says that a delivered result is in the
checkpoint, and that a completed run owes none (`ResultsAreDelivered`).

**ServicesProofs**

* Memories: the property says nothing about archived memories, and
  `restore_memory` brings one back unseen, so the invariant is that a memory is
  switched on only while confirmed, archived or not.
* Child turns: a claimed mail is where the turn that was given it put it
  (`MailInv`), and what the row, the host and a late steer know of a child agrees
  about whether it has ended (`KidsInv`). `claim_inbox` takes the oldest mail, so
  the proof needs that a set of numbers has a least one.
* Conversations: message ids rise along a conversation (`MessagesInv`). Whatever
  is edited, truncated or deleted while a summary is being written, a message
  that is still there has before it what it always had (`PrefixKept`); so a plan
  whose anchor is still there covers exactly what is before the anchor
  (`CommandSound`), and saving it makes a summary that does (`SummarySound`).
  The proof is for any trigger and any tail, so for digests of any length.
* MCP servers: the command in the critical section holds in its snapshot what
  every credential it has touched was, and nothing else differs from what it
  found (`Restorable`); the others write nothing without reading it again.
* MCP event stream: the messages received and those in the channel together
  count up without a gap to the last event id (`StreamInv`).
* Provider profiles: the entry that comes into use next holds the secret meant
  for it, at every step of a command (`ProfileFits`, `ChangeFits`, `SecretFits`):
  what the sweep deleted is kept with its value, what a set replaced is kept as
  previous, and a name the profile does not have has no secret of generation 0.

**ModelCallProofs**

* Induction and loops. The library's induction theorems take an operator as a
  parameter, which the provers cannot instantiate. `SetInduction` says the same
  of a set: one that has 0 and with each member its successor holds every
  number, because the least number outside would have its predecessor inside
  (`WFMin` of the library). A loop is a recursive function of the rounds done;
  `LoopExists` builds it and `LoopUnique` shows that there is no other, so each
  loop's invariant becomes an induction over a set of rounds. The lemmas about
  `Chosen` and `Total` (length, range, what an appended element adds, where an
  element ends up) are proved once from these.
* Provider streams, complete replies: until the attempt ends, the response holds
  exactly the tokens of the events read so far (`ReadSoFar`); no delta follows
  the finish reason and `[DONE]` follows it (`PsOrder`). So a reply whose finish
  reason was read has lost nothing when the stream is cut, and
  `CompleteRepliesAreWhole` follows from `ReplyInvariant`.
* Provider streams, shown text: what the sink recorded is a prefix of what
  `generate` kept of the attempt, all of it while no sink failed, and an attempt
  that has emitted anything is never repeated (`PsInv`); `ShownTextIsKept`
  follows. A repair starts with nothing shown and nothing answered, so the same
  invariant serves it.
* Context budget: `RequestsAreWellFormed` says that a request that is sent fits
  the limit, unless it is a repair, shows all the results of each call of tools, and shows no result
  without its call. The history and every request made from it are `Grouped`:
  the results of a call stand right behind it. A block that
  `budget_chat_messages` takes from the end is such a group (`BlockStart`),
  cutting its texts changes nothing but the texts and accounts for what is left
  (`CompactBlock`), and the loop keeps `TakeInv`: it stands between two groups,
  what it has picked are the system messages and whole blocks behind that place,
  and their cost and what is left together stay within the limit
  (`BlockTaken`, `TakeLoop`). Picking whole groups from a grouped list gives a
  grouped list (`GroupedChosen`), and a round of tools appends one
  (`RoundIsGrouped`).

**DataProofs**

* Local index: between a reader's validation and its loading any rebuild may act.
  A directory that exists, under whatever name, keeps its vectors and its number
  (`KeepsSnapshots`), so what the reader validated is what it loads. That a
  finished rebuild is served (`RebuildAlwaysServes`) needs in addition that a
  rebuild that works alone removes only what has its temporary name
  (`BuilderSound`, `OneAtWork`), so that what is whole stays whole (`KeepsWhole`).
* Steel datasets: every saved mapping, ready or not, names a canonical field at
  most once (`RowOk`), because `normalize_mappings` let it through.
* Steel compute: `DerivedFromFinal` is inductive together with the types: an
  artifact is that of the claim whose checkpoint the completion wrote last.
* Wiki: the revisions of a page are numbered without a gap (`PageFits`), and an
  editor that has read the last number writes at most the next (`EditFits`).
* Searches: a search whose policy has been strict since the question, and which
  could read it, has read it as strict both times and has no reason to do without
  its vectors (`StaysStrict`), which gives `StrictPolicyIsHonoured`.
* Domain packages, backup and restore: the rows agree with the directories at
  each place of a command (`PackagesInv`). During a restore what a place holds
  is a function of the moves done, as long as no worker has touched it
  (`PlacesFit`), and the journal never has a restored place that was not moved
  aside first, the log before the database (`JournalFits`). What was moved aside
  is what was there when the restore began, for an untouched place. Without an
  error in the rollback all of it leads back to that.

**KnowledgeProofs**

* Connection: `StoredPairFits` speaks of commands that have returned; the
  induction needs what the four places hold at each step of a command
  (`Halfway`), as long as only tolerated failures have happened (`Mild`). The
  rollback's `config' = configBackup` is right because the two backups are equal
  whenever it starts.
* PostgreSQL imports: a commit rewrites the row and the versions of one document
  together, and a document deleted in between is never visible again (`DocsInv`,
  `TasksInv`). A job is attended by a task that will yet write its state
  (`Attends`); one that has returned writes no more and does not count. A task
  that ends with less than two lost operations has written the job's state last.
* Local knowledge bases: activation is for good (`DocsSettle`), and what a query
  has collected at any of its statements was active in its bases after it began
  (`QuerySound`).

Two proof attempts failed for a reason and changed the model. The earlier
`RestoreIsWhole` promised something about the log even when two errors of a
rollback were dropped; that is false of the code and no run with one fault showed
it, so the property now excludes it and the run has two. `LocalKnowledge`'s merge
chose its copies with a Cardinality the provers cannot count; it now takes any
order-preserving assignment of new ids to the sources, which is the same set of
steps. The loops of `ContextBudget` and `ProviderStream` were folds and
`SelectSeq`s; they are now recursive functions with the same values.

**Only model-checked**

* Liveness (`ShutdownCompletes`, `RunningSettles`, `DueTaskClaimed`,
  `EventSettles`): it rests on fairness and ENABLED, which are out of the
  prover's reach.

Properties proved for all constants and no longer listed in a run are the type
invariants, `WorkerLimit` and `CompletedIsFinal`.

## Simplifications

* A SQLite transaction, and a command under the `DbState` mutex, is one step.
  PostgreSQL sessions are READ COMMITTED: a transaction is split between its
  reads and its writes, and its constraints are guards of the commit.
* Tasks: payloads are left out; at least one handler is registered; the user has
  one command under way at a time; a panic of the scheduler's own thread is not
  modelled. `MinerUPipeline` and `SteelCompute` reduce the scheduler to what it
  does to their rows.
* Schedules keep their conversation; rows without one (written by the unused
  `schedule`) and the capacity of 32 per tick are left out. Recovery in
  `CronOutbox` chooses freely between interrupting and resuming; `AgentRun` has
  its conditions.
* `AgentRun` assumes that the context budget keeps results; `ContextBudget`
  checks the budget. Steering messages are counted but carry no text.
* `McpStream`'s server announces an endpoint on each connection, good or bad, and
  resumes after the id it is given; `KnowledgeSearch` leaves out ranks and limits,
  and which of its answers carry the field that declares a degradation
  (`read_literature_section` and `query_standard` drop it).
* `ProviderStream`'s server ends a whole reply with a finish reason: a `[DONE]`
  without one (`providers/openai.rs:530`) and a JSON body without one (548 to 563)
  are taken for complete by the code, and rest on that.
* `PgIngestion`: a commit either takes place or fails; one whose acknowledgement is
  lost is left out, and the row of a retry's attempt is written with its job's.
* `LocalKnowledge`: the deletion of a document looks for running tasks before it
  opens its transaction (`catalog.rs:178`); both are one step.
* `BackupRestore` follows one worker, and what it writes by the place only. A
  connection it holds open to the database that was moved aside writes to that
  file, which is lost or moved back with it.
* `TaskLifecycle` does not bound the attempts of a task; `ImplementsLifecycle` says
  nothing of how often it may be retried.
* Digests, signatures and hashes are equality of contents.
* Bounds are constants named `Max...` or by their module's prefix (`PgMaxTasks`,
  `ArMaxCrashes`, ...), and `PgBound`, `IxBound` in the MC modules.

## Not modelled

SQLite access and migrations (a transaction is a step); the steel formulas
(floating point); `work_stealing` (tests only), task workspaces; read-only
queries and diagnostics; the frontend (it appears as the user's commands); graph
extraction, statistics and exports of `knowledge_db.rs`; the stdio and
streamable HTTP transports of MCP (request and reply over a library); chunking,
policy matching and path normalisation (sequential text functions); the queue of
steering inputs.

## Plan

1. Action properties of the proved components that no run states yet: attempts
   and generations only grow, an activated version is never activated again.
2. Liveness of `McpStream` (an owner that waits gets an endpoint or an error)
   and of `MinerUPipeline` (a claimed task settles).
